SPECIFICATION Spec
CONSTANTS
  Users = {owner}
  Owner = owner
  MonthLen = 2
  AnnualLen = 3
  GraceLen = 4
  TermLen = 20
  TrialLen = 1
  MaxTime = 6
  MaxSeats = 1
  MaxDunning = 4
  ChargeIds = {c1, c2, c3, c4}
  NoCharge = NoCharge
  Requests = {r1}
  Handlers = {h1}
  Offered = {"monthly", "annual"}
  Origins = {"subscriber"}
  CustomerActions = {"plan", "seats", "cancel"}
  AdminActions = {}
  Faults = {"early"}
SYMMETRY Interchangeable
INVARIANTS
  RenewalCapturedOnce
PROPERTIES
  DunningIsFair
  DaysFollowMoney
CHECK_DEADLOCK FALSE
