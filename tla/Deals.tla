--------------------------------- MODULE Deals ---------------------------------
(***************************************************************************)
(* The pages and dialogs around deals, one at a time: those of Pages, the board    *)
(* with its cards and stages, how a deal is decided, the calendar with its event  *)
(* form and reminders, the capture dialogs and the business registry.           *)
(***************************************************************************)
EXTENDS Pages

CONSTANTS
  Screens,                           \* the parts that are looked at
  Hands,                             \* bound: moves or orders on their way at once
  Deals, Columns, Windows, DefaultWindow, MaxLog,       \* the board
  GivenStages, Spare, Held,          \* the stages
  Reasons, Open1, Open2, Won, Lost,  \* how a deal is won and lost
  EventDeals, Home, Events, Label, Quarter, LastOption, DayEnd,   \* the event form
  NumDays, WeekLength, MonthLength,  \* the calendar
  Companies, Starred,                \* the capture dialogs
  Numbers, Listed, WithVat,          \* the business registry
  Presets, Others, Default, Loaded, MaxRows   \* reminders

AtBoard == INSTANCE Board WITH
  Stages <- Columns, Slots <- Hands, MaxTaps <- TapsOf.board,
  log <- s1, cache <- s2, window <- s3, moves <- s4, known <- s5, switched <- s6
AtCard == INSTANCE CardGestures WITH
  MaxPresses <- TapsOf.card,
  device <- s1, by <- s2, on <- s3, phase <- s4, strayed <- s5, armed <- s6, dragging <- s7,
  held <- s8, fired <- s9, preview <- s10, did <- s11, presses <- taps
AtStages == INSTANCE Stages WITH
  Given <- GivenStages, Slots <- Hands, MaxTaps <- TapsOf.stages,
  server <- s1, shown <- s2, fetch <- s3, failed <- s4, moves <- s5, target <- s6, deleting <- s7,
  adding <- s8, meant <- s9, hasty <- s10, meddled <- s11, news <- s12, made <- s13, gone <- s14
AtLife == INSTANCE DealLife WITH
  MaxActs <- TapsOf.life,
  lostStage <- s1, server <- s2, shown <- s3, losing <- s4, editing <- s5, flights <- s6, told <- s7, acts <- taps
AtEvent == INSTANCE EventForm WITH
  Deals <- EventDeals, Step <- Quarter, MaxTaps <- TapsOf.event, host <- s1, open <- s2, event <- s3, picked <- s4, title <- s5, auto <- s6, start <- s7,
  end <- s8, allDay <- s9, google <- s10, healthy <- s11, toGoogle <- s12, meet <- s13, labels <- s14, making <- s15,
  flight <- s16, server <- s17, asked <- s18, deleting <- s19, mine <- s20, swept <- s21, chose <- s22, loose <- s23,
  moved <- s24
AtAgenda == INSTANCE Agenda WITH
  MaxTaps <- TapsOf.agenda, zoom <- s1, anchor <- s2, selected <- s3,
  today <- s4, busy <- s5, shown <- s6
AtCapture == INSTANCE Capture WITH
  MaxTaps <- TapsOf.capture, dialog <- s1, open <- s2,
  pick <- s3, panel <- s4, named <- s5, part <- s6, preset <- s7, list <- s8, known <- s9, person <- s10, adding <- s11,
  runs <- s12, filed <- s13, muddled <- s14, hurried <- s15
AtAutofill == INSTANCE Autofill WITH
  MaxTaps <- TapsOf.autofill, kind <- s1,
  shown <- s2, number <- s3, quiet <- s4, onRecord <- s5, filledFor <- s6, name <- s7, vat <- s8, cache <- s9,
  refused <- s10
AtReminders == INSTANCE Reminders WITH
  MaxTaps <- TapsOf.reminders,
  value <- s1, rowIds <- s2, nextRowId <- s3, customRowIds <- s4, switched <- s5, born <- s6, swapped <- s7

importOwnVars == <<step, reading, entries, skip, preview, previewing, committing, imported, meddled>>
dealsVars == <<screenVars, importVars>>

NoImport ==
  /\ step = 1 /\ reading = {} /\ entries = NoEntries /\ skip = TRUE /\ preview = None
  /\ previewing = None /\ committing = None /\ imported = {} /\ meddled = FALSE

ASSUME DealsAssumption ==
  /\ AtBoard!BoardAssumption
  /\ AtCard!GestureAssumption
  /\ AtStages!StagesAssumption
  /\ AtLife!LifeAssumption
  /\ AtEvent!EventFormAssumption
  /\ AtAgenda!AgendaAssumption
  /\ AtCapture!CaptureAssumption
  /\ AtAutofill!AutofillAssumption
  /\ AtReminders!RemindersAssumption

DealsInit ==
  /\ screen \in Screens
  /\ \/ screen = "import" /\ ImportInit /\ Unused(1)
     \/ screen = "board" /\ AtBoard!BoardInit /\ Unused(7) /\ NoImport
     \/ screen = "entry" /\ AtEntry!EntryInit /\ Unused(13) /\ NoImport
     \/ screen = "draft" /\ AtDraft!DraftInit /\ Unused(13) /\ NoImport
     \/ screen = "card" /\ AtCard!GestureInit /\ Unused(12) /\ NoImport
     \/ screen = "life" /\ AtLife!LifeInit /\ Unused(8) /\ NoImport
     \/ screen = "form" /\ AtForm!FormsInit /\ Unused(16) /\ NoImport
     \/ screen = "list" /\ AtList!ListsInit /\ Unused(18) /\ NoImport
     \/ screen = "event" /\ AtEvent!EventInit /\ Unused(25) /\ NoImport
     \/ screen = "agenda" /\ AtAgenda!AgendaInit /\ Unused(7) /\ NoImport
     \/ screen = "capture" /\ AtCapture!CaptureInit /\ Unused(16) /\ NoImport
     \/ screen = "autofill" /\ AtAutofill!AutofillInit /\ Unused(11) /\ NoImport
     \/ screen = "stages" /\ AtStages!StagesInit /\ Unused(15) /\ NoImport
     \/ screen = "search" /\ AtSearch!SearchInit /\ Unused(14) /\ NoImport
     \/ screen = "reminders" /\ AtReminders!RemindersInit /\ Unused(8) /\ NoImport

DealsNext ==
  \/ screen = "import" /\ ImportNext /\ Stays(1)
  \/ screen = "board" /\ AtBoard!BoardNext /\ Stays(7) /\ UNCHANGED importOwnVars
  \/ screen = "entry" /\ AtEntry!EntryNext /\ Stays(13) /\ UNCHANGED importOwnVars
  \/ screen = "draft" /\ AtDraft!DraftNext /\ Stays(13) /\ UNCHANGED importOwnVars
  \/ screen = "card" /\ AtCard!GestureNext /\ Stays(12) /\ UNCHANGED importOwnVars
  \/ screen = "life" /\ AtLife!LifeNext /\ Stays(8) /\ UNCHANGED importOwnVars
  \/ screen = "form" /\ AtForm!FormsNext /\ Stays(16) /\ UNCHANGED importOwnVars
  \/ screen = "list" /\ AtList!ListsNext /\ Stays(18) /\ UNCHANGED importOwnVars
  \/ screen = "event" /\ AtEvent!EventNext /\ Stays(25) /\ UNCHANGED importOwnVars
  \/ screen = "agenda" /\ AtAgenda!AgendaNext /\ Stays(7) /\ UNCHANGED importOwnVars
  \/ screen = "capture" /\ AtCapture!CaptureNext /\ Stays(16) /\ UNCHANGED importOwnVars
  \/ screen = "autofill" /\ AtAutofill!AutofillNext /\ Stays(11) /\ UNCHANGED importOwnVars
  \/ screen = "stages" /\ AtStages!StagesNext /\ Stays(15) /\ UNCHANGED importOwnVars
  \/ screen = "search" /\ AtSearch!SearchNext /\ Stays(14) /\ UNCHANGED importOwnVars
  \/ screen = "reminders" /\ AtReminders!RemindersNext /\ Stays(8) /\ UNCHANGED importOwnVars

DealsSpec == DealsInit /\ [][DealsNext]_dealsVars

-----------------------------------------------------------------------------
\* The state of each part is of the form its module gives it.
DealsTypeOK ==
  /\ ImportTypeOK
  /\ (screen = "board" => AtBoard!TypeOK)
  /\ (screen = "entry" => AtEntry!EntryTypeOK)
  /\ (screen = "draft" => AtDraft!DraftTypeOK)
  /\ (screen = "card" => AtCard!GestureTypeOK)
  /\ (screen = "life" => AtLife!LifeTypeOK)
  /\ (screen = "form" => AtForm!FormsTypeOK)
  /\ (screen = "list" => AtList!ListsTypeOK)
  /\ (screen = "event" => AtEvent!EventTypeOK)
  /\ (screen = "agenda" => AtAgenda!AgendaTypeOK)
  /\ (screen = "capture" => AtCapture!CaptureTypeOK)
  /\ (screen = "autofill" => AtAutofill!AutofillTypeOK)
  /\ (screen = "stages" => AtStages!StagesTypeOK)
  /\ (screen = "search" => AtSearch!SearchTypeOK)
  /\ (screen = "reminders" => AtReminders!RemindersTypeOK)

\* Once its answers are in, the pipeline board (useMoveDealStage) shows what the server
\* held, and nothing older than the moves it confirmed; the list of its stages
\* (PipelineSection) shows the server's order, and an order sent from an old list neither
\* drops nor revives a stage.
BoardSettles ==
  /\ (screen = "board" => AtBoard!BoardSettles)
  /\ (screen = "stages" => AtStages!NoStageIsLost /\ AtStages!OrderSettles)

\* A card stays in the column it was dropped on until the move is answered, and one press
\* on a card has the one effect its movement means.
CardObeysTheHand ==
  /\ (screen = "board" => AtBoard!CardStaysWhereDropped)
  /\ (screen = "card" => AtCard!OnePressOneEffect)

\* The reason of a loss reaches the deal it was given for, and a deal is closed exactly
\* when it was won or lost, whatever dialogs, edits and answers overlap.
DecisionReachesItsDeal ==
  screen = "life" => AtLife!ReasonReachesItsDeal /\ AtLife!ClosedMeansDecided

\* A title of the user's own is never replaced, picked times are a slot the form takes,
\* a row of the reminders keeps its free box and no other gets it, and the agenda calls no
\* day empty that has an event.
CalendarIsTrue ==
  /\ (screen = "event" => AtEvent!OwnTitleStays /\ AtEvent!PickedSlotIsValid)
  /\ (screen = "reminders" => AtReminders!SwitchIsItsReminders)
  /\ (screen = "agenda" => AtAgenda!NoFalseEmptyDay)

\* A form keeps what was typed, makes one record per draft and undoes no colleague's
\* change, but for the forms Forms names as exceptions; the last text typed into an entry
\* of the timeline reaches the server or is visibly taken back, and a draft of one makes
\* one entry and keeps what was typed until it has.
FormsKeepTyping ==
  /\ (screen = "form" => AtForm!FormKeepsTyping /\ AtForm!OneRecordPerDraft /\ AtForm!ColleagueIsNotUndone)
  /\ (screen = "entry" => AtEntry!LastWordIsStored /\ AtEntry!RefusalIsTakenBack)
  /\ (screen = "draft" => AtDraft!OneEntryPerDraft /\ AtDraft!TypingIsKept)

\* A settled list never strands the user on a page without rows, the basket of companies
\* survives paging, searching and failed sends, and the search opens the hit that is
\* highlighted, of the word in question once it is answered.
ListsKeepTheirPlace ==
  /\ (screen = "list" => AtList!NotStranded /\ AtList!BasketSurvives)
  /\ (screen = "search" => AtSearch!OpensWhatIsPointed /\ AtSearch!HitsAreOfTheWord)

\* A deal captured in several requests is filed with a contact of its own company, and
\* what the business registry filled in belongs to the number in the form.
FiledTogether ==
  /\ (screen = "capture" => AtCapture!FiledTogether)
  /\ (screen = "autofill" => AtAutofill!FieldsAreOfTheNumber)
=============================================================================
