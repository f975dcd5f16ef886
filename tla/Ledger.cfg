SPECIFICATION FairSpec
CONSTANTS
  Tx = {t1, t2}
  NoTx = NoTx
  Expense = {expense}
  Fill = {fill}
  Service = {service}
  NoSource = NoSource
  NoEntry = NoEntry
  Time = {1, 2}
  MaxOdometerKm = 1
  MaxCost = 1
  NoKm = NoKm
  NoRow = NoRow
  MaxReadings = 2
INVARIANTS
  LedgerMirrorsRecords
  OneReadingPerRecord
PROPERTIES
  ImplementsOdometer
  EveryRequestEnds
