SPECIFICATION Spec
CONSTANTS
  Users = {owner}
  Owner = owner
  MonthLen = 1
  AnnualLen = 2
  GraceLen = 1
  TermLen = 0
  TrialLen = 1
  MaxTime = 2
  MaxSeats = 1
  MaxDunning = 4
  ChargeIds = {c1, c2, c3}
  NoCharge = NoCharge
  Requests = {}
  Handlers = {h1, h2}
  Offered = {"monthly", "annual"}
  Origins = {"trial", "subscriber"}
  CustomerActions = {}
  AdminActions = {"activate", "comp", "enterprise", "cancel", "extend_trial", "mark_paid"}
  Faults = {"crash", "timeout", "early"}
SYMMETRY Interchangeable
INVARIANTS
  TypeOK
  OneRenewalPerPeriod
PROPERTIES
  ManualPaymentKeepsTail
CHECK_DEADLOCK FALSE
