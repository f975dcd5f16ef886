SPECIFICATION Spec
CONSTANTS
  Entry = {e1, e2}
  Key = {1, 2, 3}
  Attempt = {a1, a2, a3}
  FillsIn = FALSE
  MaxEpisodes = 3
  MaxNow = 1
  NoAttempt = NoAttempt
  Nothing = Nothing
SYMMETRY Alike
CHECK_DEADLOCK FALSE
INVARIANTS
  OneRecordPerEntry
  RetryIsUnderstood
