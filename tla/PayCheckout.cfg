SPECIFICATION Spec
CONSTANTS
  Users = {owner}
  Owner = owner
  MonthLen = 2
  AnnualLen = 3
  GraceLen = 1
  TermLen = 1
  TrialLen = 1
  MaxTime = 2
  MaxSeats = 1
  MaxDunning = 4
  ChargeIds = {c1, c2, c3}
  NoCharge = NoCharge
  Requests = {r1, r2}
  Handlers = {h1, h2}
  Offered = {"monthly"}
  Origins = {"trial"}
  CustomerActions = {"plan"}
  AdminActions = {}
  Faults = {"crash", "timeout"}
SYMMETRY Interchangeable
INVARIANTS
  ReconcilableByRefId
  AcknowledgedIsSettled
  CardComesFromPaidCheckout

  
CHECK_DEADLOCK FALSE
