SPECIFICATION DealsSpec
CONSTANTS
  None = None
  Screens = {"board", "card", "entry", "draft", "life", "form", "list", "event", "agenda", "capture", "autofill", "import", "stages", "search", "reminders"}
  TapsOf <- DealTaps
  Hands = {m1, m2}
  Deals = {d1, d2}
  Columns = {st1, st2}
  Windows = {"30d", "90d"}
  DefaultWindow = "30d"
  MaxLog = 3
  Texts = {"first", "second", "third"}
  First = "first"
  MaxMounts = 1
  Notes = {"call", "met"}
  Kinds = {"note"}
  NewKind = "made"
  Reasons = {"price"}
  Open1 = "lead"
  Open2 = "offer"
  Won = "won"
  Lost = "lost"
  FormWords = {"", "plan", "plot"}
  EmptyWord = ""
  NumRows = 3
  Named = {1, 2}
  PageSize = 1
  EventDeals = {"home", "other"}
  Home = "home"
  Events = {"visit"}
  Label = "label"
  Quarter = 2
  LastOption = 4
  DayEnd = 5
  NumDays = 12
  WeekLength = 3
  MonthLength = 4
  Companies = {"north", "south"}
  Starred = {"north", "south"}
  Numbers = {"n1", "n2", "n3"}
  Listed = {"n1", "n2"}
  WithVat = {"n1"}
  GivenStages <- ThreeStages
  Spare = {"new"}
  Held = {"won"}
  SearchWords = {"", "no", "nov"}
  Short = {""}
  Before <- HitsBefore
  After <- HitsAfter
  Presets = {0, 30}
  Others = {45}
  Default = 30
  Loaded <- NoneOrTwo
  MaxRows = 3
  Files = {f1, f2}
  Mappings = {byName, byId, unknown}
  Complete = {byName, byId}
  Unknown = unknown
  MaxTaps = 7
SYMMETRY Interchangeable
CHECK_DEADLOCK FALSE
INVARIANTS
  DealsTypeOK
  BoardSettles
  CardObeysTheHand
  DecisionReachesItsDeal
  CalendarIsTrue
  FormsKeepTyping
  ListsKeepTheirPlace
  FiledTogether
  ImportedIsPreviewed
