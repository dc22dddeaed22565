SPECIFICATION DeskSpec
CONSTANTS
  None = None
  Screens = {"session", "checkout", "plan", "bulk", "console", "widgets", "tour", "todos", "members", "tokens", "owners"}
  MyList = MyList
  TeamList = TeamList
  TapsOf <- DeskTaps
  Accounts = {"user", "root"}
  Root = "root"
  FirstSeats = 2
  Plans = {"monthly", "annual"}
  Annual = "annual"
  Details = {"old", "new"}
  MaxRuns = 2
  Team = {"ann", "bob"}
  SeatLimit = 4
  Price <- PriceOfASeat
  Firms = {"north", "south"}
  Addresses = {"office", "ann", "bob"}
  OfFirm <- FirmOf
  Contacts = {"ann"}
  Industries = {"trade"}
  Cities = {"Brno"}
  InIndustry <- OfTrade
  InCity <- OfBrno
  WidgetTypes = {"goal", "funnel", "won"}
  DefaultGrid <- GridOfTwo
  TodoLists = {MyList, TeamList}
  FirstList = MyList
  Teams = {"sales"}
  Colleagues = {"ann", "bob"}
  TeamOf <- SalesTeam
  PutSlots = {"first", "second"}
  Tours = {"overview", "deals"}
  Overview = "overview"
  Length <- StepsOfTour
  Action <- WaitingStep
  Given <- TwoLists
  Made = {"made"}
  Deals = {"home", "other"}
  People = {"ann", "bob", "eve"}
  Founder = "ann"
  Helper = "bob"
  Roles = {"admin", "salesperson"}
  Invites = {"i1", "i2"}
  Contract = 3
  Browsers = {"home", "away"}
  MaxLinks = 2
  MaxTokens = 3
  Companies = {"north", "south"}
  Owners = {"ann", "bob"}
  Cap <- OnlyAnnIsCapped
  Sweep = "sweep"
  Hands = {a, b}
  Orgs = {o1, o2}
  Invoices = {i1, i2}
  MaxFlights = 1
  MaxTaps = 5
SYMMETRY Interchangeable
CHECK_DEADLOCK FALSE
INVARIANTS
  DeskTypeOK
  SessionIsItsOwn
  OneUpgradePerCard
  ActedForItsOrg
  DashboardSettles
PROPERTIES
  ScreenKeepsItsWord
  MembersKeepTheRules
  TokensAreSingle
  OwnershipIsKept
