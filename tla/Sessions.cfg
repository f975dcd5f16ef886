SPECIFICATION Spec
CONSTANTS
  Req = {r1, r2, r3}
  Token = {t1, t2, t3}
  Family = {f1}
  NoReq = NoReq
  NoToken = NoToken
  NoFamily = NoFamily
  Live = Live
  Grace = 0
  Ttl = 2
  MaxNow = 2
  MaxResets = 1
SYMMETRY Alike
CHECK_DEADLOCK FALSE
INVARIANTS
  OneSuccessor
  RunningSessionKeepsToken
  QuietEndIsFinal
PROPERTIES
  RefusedOnlyWhenOver
