SPECIFICATION Spec
CONSTANTS
  Tab = {w1, w2}
  Call = {1, 2, 3}
  Token = {1, 2, 3}
  Family = {f1}
  User = {ann}
  MaxDeeds = 2
  NoTab = NoTab
  NoCall = NoCall
  NoToken = NoToken
  NoFamily = NoFamily
  NoUser = NoUser
  Keep = Keep
CHECK_DEADLOCK FALSE
INVARIANTS
  StoredByOwnSession
  OneRefreshInFlight
  QuietSessionLasts
  NobodyWaitsInVain
