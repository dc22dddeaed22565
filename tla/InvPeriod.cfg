SPECIFICATION Spec
CONSTANTS
  Users = {owner, u1}
  Owner = owner
  MonthLen = 2
  AnnualLen = 3
  GraceLen = 1
  Admins = {a1}
  Sweeper = Sweeper
  NoProc = NoProc
  LeadLen = 1
  FullTotal = 2
  Amounts = {}
  Linking = {TRUE}
  Decisions = {"cancel", "reactivate", "downsize"}
  MaxInvoices = 2
  MaxRenewals = 2
  MaxKept = 1
  MaxTime = 3
INVARIANTS
  PeriodIsPaidFor
  PaidDaysAreKept
CHECK_DEADLOCK FALSE
