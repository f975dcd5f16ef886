SPECIFICATION Spec
CONSTANTS
  Req = {r1, r2}
  Address = {a1, a2}
  Token = {t1, t2}
  Provider = {google}
  Subject = {i1}
  State = {s1, s2}
  Browser = {b1, b2}
  MaxStarted = 3
  NoReq = NoReq
  NoAddress = NoAddress
  NoState = NoState
SYMMETRY Alike
CHECK_DEADLOCK FALSE
INVARIANTS
  ConfirmedMeansProved
  WayIn
  LinkWorksOnce
  FlowEndsWhereItBegan
  EnteredOwnAccount
PROPERTIES
  OlderLinkIsDead
