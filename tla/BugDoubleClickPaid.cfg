SPECIFICATION Spec
CONSTANTS
  Users = {owner}
  Owner = owner
  MonthLen = 2
  AnnualLen = 3
  GraceLen = 1
  Admins = {a1, a2}
  Sweeper = Sweeper
  NoProc = NoProc
  LeadLen = 1
  FullTotal = 2
  Amounts = {}
  Linking = {TRUE}
  Decisions = {}
  MaxInvoices = 3
  MaxRenewals = 1
  MaxKept = 1
  MaxTime = 2
SYMMETRY Interchangeable
INVARIANTS
  PeriodIsPaidFor
CHECK_DEADLOCK FALSE
