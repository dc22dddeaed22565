---------------------------------- MODULE Desk ----------------------------------
(***************************************************************************)
(* The rest of the web client on one screen at a time: the session, the        *)
(* checkout, the settings of the plan, bulk e-mail, the admin console, the      *)
(* dashboards, the to-do lists and the guided tours; and three parts of the      *)
(* server, the people of a company, how they get in, and who owns the           *)
(* companies they sell to.  The parts share nothing: a behaviour is about one.  *)
(***************************************************************************)
EXTENDS Console, Screen

CONSTANTS
  Screens,                  \* the parts that are looked at
  TapsOf,                   \* bound: what the users do, in each part
  Hands,                    \* bound: requests to the server at a time
  Accounts, Root, FirstSeats,                     \* the session
  Plans, Annual, Details, MaxRuns,                \* the checkout
  Team, SeatLimit, Price,                         \* the settings of the plan
  Firms, Addresses, OfFirm, Contacts, Industries, Cities, InIndustry, InCity,   \* bulk e-mail
  WidgetTypes, DefaultGrid, TodoLists, FirstList, Teams, Colleagues, TeamOf, PutSlots,  \* dashboards; and slots of the plan
  Tours, Overview, Length, Action,                \* guided tours
  Given, Made, Deals,                             \* to-do lists
  People, Founder, Helper, Roles, Invites, Contract,   \* the people of a company
  Browsers, MaxLinks, MaxTokens,                  \* how they get in
  Companies, Owners, Cap, Sweep                   \* whom they sell to

AtSession == INSTANCE Session WITH
  MaxSeats <- FirstSeats, MaxTaps <- TapsOf.session, place <- s1, page <- s2, phase <- s3,
  signing <- s4, token <- s5, spent <- s6, settled <- s7, refresh <- s8, heeded <- s9, cookie <- s10, me <- s11,
  asking <- s12, step <- s13, draft <- s14, founding <- s15, orgs <- s16, leaving <- s17, left <- s18, lent <- s19
AtCheckout == INSTANCE Checkout WITH
  MaxTaps <- TapsOf.checkout, door <- s1, plan <- s2, consent <- s3, form <- s4, cached <- s5, asking <- s6,
  runs <- s7, stored <- s8, due <- s9, active <- s10, gone <- s11
AtPlan == INSTANCE PlanSettings WITH
  People <- Team, MaxSeats <- SeatLimit, Slots <- PutSlots, MaxTaps <- TapsOf.plan, row <- s1,
  team <- s2, sub <- s3, users <- s4, asking <- s5, here <- s6, draft <- s7, picked <- s8, redirecting <- s9, puts <- s10,
  charges <- s11, target <- s12, confirming <- s13, change <- s14, visit <- s15
AtBulk == INSTANCE BulkEmail WITH
  Companies <- Firms, OfCompany <- OfFirm, MaxTaps <- TapsOf.bulk, open <- s1, step <- s2,
  handpicked <- s3, filter <- s4, typed <- s5, candidates <- s6, selected <- s7, flights <- s8, latest <- s9,
  worded <- s10, sending <- s11, result <- s12, dropped <- s13
AtWidgets == INSTANCE Widgets WITH
  Types <- WidgetTypes, Lists <- TodoLists, Users <- Colleagues, Slots <- PutSlots, MaxTaps <- TapsOf.widgets,
  page <- s1, server <- s2, cache <- s3, editing <- s4, draft <- s5, picking <- s6,
  asking <- s7, puts <- s8, latest <- s9
AtTour == INSTANCE Tour WITH
  MaxTaps <- TapsOf.tour, prefs <- s1, me <- s2, fetch <- s3, page <- s4,
  index <- s5, closed <- s6, modal <- s7, patches <- s8, replayed <- s9
AtTodos == INSTANCE Todos WITH
  MaxTaps <- TapsOf.todos, server <- s1, cache <- s2, fetch <- s3, config <- s4, open <- s5, naming <- s6,
  renaming <- s7, asking <- s8, picker <- s9, flights <- s10, asleep <- s11, news <- s12
AtMembers == INSTANCE Members WITH
  Slots <- Hands, MaxSeats <- Contract, MaxTaps <- TapsOf.members, person <- s1, invite <- s2, sub <- s3,
  reqs <- s4, stale <- s5, given <- s6
AtTokens == INSTANCE Tokens WITH
  Slots <- Hands, MaxTaps <- TapsOf.tokens, user <- s1,
  links <- s2, mailed <- s3, uses <- s4, rows <- s5, cookie <- s6, reqs <- s7, stale <- s8, issued <- s9,
  resets <- s10
AtOwnership == INSTANCE Ownership WITH
  Slots <- Hands, MaxTaps <- TapsOf.owners, company <- s1, open <- s2, reqs <- s3, stale <- s4

ASSUME DeskAssumption ==
  /\ AtSession!SessionAssumption
  /\ AtCheckout!CheckoutAssumption
  /\ AtPlan!PlanSettingsAssumption
  /\ AtBulk!BulkEmailAssumption
  /\ AtWidgets!WidgetsAssumption
  /\ AtTour!TourAssumption
  /\ AtTodos!TodosAssumption
  /\ AtMembers!MembersAssumption
  /\ AtTokens!TokensAssumption
  /\ AtOwnership!OwnershipAssumption

consoleOwnVars == <<tab, orgVars, invoice, status, detailVars, dialogVars>>
deskVars == <<screenVars, consoleVars>>

NoConsole ==
  /\ tab = "settings" /\ org = None /\ modal = None /\ acting = None /\ invoice = None
  /\ status = [i \in Invoices |-> "unborn"] /\ shown = [i \in Invoices |-> None]
  /\ reads = {} /\ reason = None /\ acts = {} /\ credit = None /\ crediting = None
  /\ manual = FALSE /\ issuing = "no"

DeskInit ==
  /\ screen \in Screens
  /\ \/ screen = "console" /\ ConsoleInit /\ Unused(1)
     \/ screen = "session" /\ AtSession!SessionInit /\ Unused(20) /\ NoConsole
     \/ screen = "checkout" /\ AtCheckout!CheckoutInit /\ Unused(12) /\ NoConsole
     \/ screen = "plan" /\ AtPlan!PlanSettingsInit /\ Unused(16) /\ NoConsole
     \/ screen = "bulk" /\ AtBulk!BulkInit /\ Unused(14) /\ NoConsole
     \/ screen = "widgets" /\ AtWidgets!WidgetsInit /\ Unused(10) /\ NoConsole
     \/ screen = "tour" /\ AtTour!TourInit /\ Unused(10) /\ NoConsole
     \/ screen = "todos" /\ AtTodos!TodosInit /\ Unused(13) /\ NoConsole
     \/ screen = "members" /\ AtMembers!MembersInit /\ Unused(7) /\ NoConsole
     \/ screen = "tokens" /\ AtTokens!TokensInit /\ Unused(11) /\ NoConsole
     \/ screen = "owners" /\ AtOwnership!OwnershipInit /\ Unused(5) /\ NoConsole

DeskNext ==
  \/ screen = "console" /\ ConsoleNext /\ Stays(1)
  \/ screen = "session" /\ AtSession!SessionNext /\ Stays(20) /\ UNCHANGED consoleOwnVars
  \/ screen = "checkout" /\ AtCheckout!CheckoutNext /\ Stays(12) /\ UNCHANGED consoleOwnVars
  \/ screen = "plan" /\ AtPlan!PlanSettingsNext /\ Stays(16) /\ UNCHANGED consoleOwnVars
  \/ screen = "bulk" /\ AtBulk!BulkNext /\ Stays(14) /\ UNCHANGED consoleOwnVars
  \/ screen = "widgets" /\ AtWidgets!WidgetsNext /\ Stays(10) /\ UNCHANGED consoleOwnVars
  \/ screen = "tour" /\ AtTour!TourNext /\ Stays(10) /\ UNCHANGED consoleOwnVars
  \/ screen = "todos" /\ AtTodos!TodosNext /\ Stays(13) /\ UNCHANGED consoleOwnVars
  \/ screen = "members" /\ AtMembers!MembersNext /\ Stays(7) /\ UNCHANGED consoleOwnVars
  \/ screen = "tokens" /\ AtTokens!TokensNext /\ Stays(11) /\ UNCHANGED consoleOwnVars
  \/ screen = "owners" /\ AtOwnership!OwnershipNext /\ Stays(5) /\ UNCHANGED consoleOwnVars

DeskSpec == DeskInit /\ [][DeskNext]_deskVars

-----------------------------------------------------------------------------
\* The state of each part is of the form its module gives it.
DeskTypeOK ==
  /\ ConsoleTypeOK
  /\ (screen = "session" => AtSession!SessionTypeOK)
  /\ (screen = "checkout" => AtCheckout!CheckoutTypeOK)
  /\ (screen = "plan" => AtPlan!PlanSettingsTypeOK)
  /\ (screen = "bulk" => AtBulk!BulkTypeOK)
  /\ (screen = "widgets" => AtWidgets!WidgetsTypeOK)
  /\ (screen = "tour" => AtTour!TourTypeOK)
  /\ (screen = "todos" => AtTodos!TodosTypeOK)
  /\ (screen = "members" => AtMembers!MembersTypeOK)
  /\ (screen = "tokens" => AtTokens!TokensTypeOK)
  /\ (screen = "owners" => AtOwnership!OwnershipTypeOK)

\* The exchange of the cookie never takes over from a sign-in, and the app shows the
\* profile of the account that is signed in.
SessionIsItsOwn == screen = "session" => AtSession!SignInOutrunsRefresh /\ AtSession!ShownIsSignedIn

\* What leaves is what the screen showed when it was confirmed: a payment has the plan and
\* the consent of its form, a campaign the recipients that are ticked, and a new widget
\* takes the last place on the phone; and a tour that comes on screen begins with its
\* first step.
ScreenKeepsItsWord ==
  [][/\ (screen = "checkout" => AtCheckout!GoesAsConfirmed)
     /\ (screen = "bulk" => AtBulk!MailedAsShown)
     /\ (screen = "widgets" => AtWidgets!NewWidgetIsLast)
     /\ (screen = "tour" => AtTour!TourStartsOver)]_deskVars

\* While an upgrade is being charged, the card of the seats that asked for it asks for
\* nothing else, and none of its charges is lost sight of once it was left.
OneUpgradePerCard == screen = "plan" => AtPlan!OneUpgradePerCard

\* Once its answers are in, a dashboard shows the configuration the server has, and its
\* to-do widget the lists; a to-do is on the page of the one deal its row names, and a
\* link of its own sleeps while its list is linked.
DashboardSettles ==
  /\ (screen = "widgets" => AtWidgets!DashboardSettles)
  /\ (screen = "todos" => AtTodos!TodosSettle /\ AtTodos!PagesFollowRule /\ AtTodos!OwnLinkSleeps)

\* Requests that no other commit overtook keep a company within its seats and never take
\* its last admin, and rights come from an admin (services/invitations.py, users.py).
MembersKeepTheRules ==
  /\ [][screen = "members" => AtMembers!SeatWasFree /\ AtMembers!LastAdminStays]_deskVars
  /\ [](screen = "members" => AtMembers!RightsAreGiven)

\* Only the newest link works, and once; a reset of the password ends every session, and a
\* sign-in has one refresh token, but for overtaken requests (services/email_auth.py, auth.py).
TokensAreSingle ==
  /\ [][screen = "tokens" => AtTokens!LinkIsNewAndNewest]_deskVars
  /\ [](screen = "tokens" => AtTokens!ResetEndsSessions /\ AtTokens!OneTokenPerSignIn)

\* The sweep takes only companies whose clock ran out, an owner keeps within his cap, and
\* the history names him, but for overtaken commits and claims by update_company.
OwnershipIsKept ==
  /\ [][screen = "owners" => AtOwnership!TakenWhenDue /\ AtOwnership!CapIsKept]_deskVars
  /\ [](screen = "owners" => AtOwnership!HistoryNamesOwner)

\* "Reopen this page's tour from step 0 (header `?`)" (useTutorial.ts:48): it does not.
ReplayReopens == screen = "tour" => AtTour!ReplayReopens

\* "Used when the seat-count PUT returns 402" (usePayments.ts:74): the charge is not for
\* the number that was refused.
ChargedAsRefused == [][screen = "plan" => AtPlan!ChargedAsRefused]_deskVars
=============================================================================
