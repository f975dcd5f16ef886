SPECIFICATION Spec
CONSTANTS
  Proc = {p1, p2}
  NoProc = NoProc
  Doc = {d1, d2}
  Plain = {plain}
  Derived = {derived}
  Vehicle = vehicle
  NoOwner = NoOwner
  Limit = 1
SYMMETRY Alike
CHECK_DEADLOCK FALSE
INVARIANTS
  WithinLimit
  ReadyHasFile
  PlainKeysCollected
