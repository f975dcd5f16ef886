SPECIFICATION EntrySpec
CHECK_DEADLOCK FALSE
CONSTANTS
  Litres = {0, 500, 1980}
  Totals = {0, 30, 20000, 50000}
  Prices = {0, 2400, 3000}
  Official <- MCOfficial
  MaxSaves = 2
  NoFill = NoFill
  Costs = {0, 60, 120}
  MaxSaved = 2
  Empty = Empty
  NoService = NoService
  Users = {u1, u2}
  Vehicles = {v1, v2}
  Nobody = Nobody
  Malformed = Malformed
  NoRow = NoRow
  MaxRows = 2
  Addresses = {a1, a2}
  Emails = {e1}
  NoEmail = NoEmail
  ByAddress <- MCByAddress
  ByEmail <- MCByEmail
  LastMoment = 3
  MaxAttempts = 3
  FillIds = {1, 2, 3}
  FillDays = {1, 2}
  Mileages = {100, 250, 400}
  Pours <- MCPours
  NoStation = NoStation
  WholeAmount = 50
  RecentLimit = 1
  UsualLimit = 1
  Days = {1, 2}
  Km = {8, 95, 105}
  TypedRuns <- MCTypedRuns
  Nudges <- MCNudges
  Photos = {{105}}
  TooFast = 90
  LeastSpan = 2
  PhotoReach = 50
  MaxReadings = 2
  Boxed = {5, 8, 95, 105}
  Absent = Absent
  MaxTouched = 2
  MaxSent = 2
  PageSize = 1
  RowsAtFirst <- MCRowsAtFirst
  MostRows = 2
  MostWrites = 1
  MostTurns = 4
INVARIANTS
  WorkedOutIsAccepted
  NewCostsAreUnderstood
  LogAgrees
  MileageAgrees
  OnlyMembersReach
  LimitsHold
  FormsAgree
  ScreensFollow
