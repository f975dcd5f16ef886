SPECIFICATION UpkeepSpec
CONSTANTS
  Unset = Unset
  Req = {q1, q2}
  Reminder = {1, 2, 3}
  Service = {s1, s2}
  Km = {0, 9, 20}
  Date <- MCDate
  Schedule = Schedule
  Terms <- MCTerms
  Notify <- MCNotify
  Bases <- MCBases
  Dues <- MCDues
  MaxChanges = 3
  NoReq = NoReq
  None = None
SYMMETRY Alike
CHECK_DEADLOCK FALSE
INVARIANTS
  OneSuccessor
  EveryDueIsAnnounced
