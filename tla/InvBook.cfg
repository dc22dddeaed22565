SPECIFICATION Spec
CONSTANTS
  Users = {owner}
  Owner = owner
  MonthLen = 2
  AnnualLen = 3
  GraceLen = 1
  Admins = {a1}
  Sweeper = Sweeper
  NoProc = NoProc
  LeadLen = 1
  FullTotal = 1
  Amounts = {1}
  Linking = {FALSE}
  Decisions = {"hard_cancel"}
  MaxInvoices = 3
  MaxRenewals = 1
  MaxKept = 1
  MaxTime = 2
INVARIANTS
  TypeOK
  NumbersAreGapless
  OneProjectionPerPeriod
PROPERTIES
  ImplementsBook
CHECK_DEADLOCK FALSE
