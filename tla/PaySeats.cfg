SPECIFICATION Spec
CONSTANTS
  Users = {owner, u1}
  Owner = owner
  MonthLen = 1
  AnnualLen = 2
  GraceLen = 1
  TermLen = 0
  TrialLen = 1
  MaxTime = 1
  MaxSeats = 3
  MaxDunning = 4
  ChargeIds = {c1, c2, c3}
  NoCharge = NoCharge
  Requests = {r1}
  Handlers = {h1, h2}
  Offered = {"monthly"}
  Origins = {"subscriber"}
  CustomerActions = {"seats"}
  AdminActions = {}
  Faults = {"crash"}
SYMMETRY Interchangeable
INVARIANTS
  SeatsWithinContract
  ContractIsPaidFor
  OwnerStaysActive
PROPERTIES
  UpgradeNeverLowers
CHECK_DEADLOCK FALSE
