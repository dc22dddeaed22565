SPECIFICATION Spec
CONSTANTS
  Users = {owner}
  Owner = owner
  MonthLen = 2
  AnnualLen = 3
  GraceLen = 1
  TermLen = 20
  TrialLen = 1
  MaxTime = 4
  MaxSeats = 1
  MaxDunning = 4
  ChargeIds = {c1, c2, c3}
  NoCharge = NoCharge
  Requests = {}
  Handlers = {h1}
  Offered = {"monthly"}
  Origins = {"subscriber"}
  CustomerActions = {"plan", "seats", "cancel"}
  AdminActions = {}
  Faults = {"crash"}
SYMMETRY Interchangeable
INVARIANTS
  RenewalCapturedOnce
CHECK_DEADLOCK FALSE
