SPECIFICATION Spec
CONSTANTS
  Tx = {t1, t2}
  NoTx = NoTx
  Source = {e1, e2}
  NoSource = NoSource
  Time = {1, 2}
  MaxOdometerKm = 2
  NoEntry = NoEntry
  MaxReadings = 3
SYMMETRY Permuted
INVARIANTS
  TimelineMonotone
  HeadlineIsHighest
PROPERTIES
  HeadlineFallsOnlyByWithdrawal
