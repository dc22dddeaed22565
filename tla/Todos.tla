--------------------------------- MODULE Todos ---------------------------------
(***************************************************************************)
(* A user's to-do lists: the widget that shows one of them (HomeTodoWidget),   *)
(* the switcher that picks and manages it (TodoListSwitcher), the deal a list   *)
(* or a to-do is linked to (TodoDealPicker), and the to-dos on a deal's page.   *)
(* The switcher stays mounted while it is closed, and keeps its state.        *)
(* A request and its answer are separate steps; a second tab of the same user  *)
(* works on the same lists.                                                *)
(***************************************************************************)
EXTENDS Naturals, Sequences, SequencesExt

CONSTANTS
  Given,     \* the lists of the beginning, oldest first, for a user who has some
  Made,      \* lists that may be made
  Deals,
  None,
  MaxTaps    \* bound: what the user does, in both tabs

TodosAssumption ==
  /\ Given \in Seq(Range(Given)) /\ Given # << >> /\ IsInjective(Given) /\ Range(Given) \cap Made = {}
  /\ None \notin Range(Given) \cup Made \cup Deals /\ MaxTaps \in Nat

AllLists == Range(Given) \cup Made
Links == Deals \cup {None}
Todos == {"old", "new"}   \* one in the first list, one that a deal's page adds

\* What GET /todo-lists and GET .../todos answer.
Data == [order : {o \in Seq(AllLists) : IsInjective(o)},
         link : [AllLists -> Links],
         todo : [Todos -> [list : AllLists \cup {None}, own : Links]]]

VARIABLES
  server,
  cache,     \* useTodoLists and useTodos
  fetch,     \* their requests: every write invalidates both
  config,    \* config.list_id of the widget
  open,      \* the switcher
  naming,    \* the box for a new list's name
  renaming,  \* the list whose name is in the box of the other; None: no box
  asking,    \* the list the question was put for; None: no question
  picker,    \* what deal pickers are open for: the "list", a "todo"
  flights,   \* writes whose answer is awaited
  asleep,    \* own links the to-dos had when their list was linked
  news,      \* written elsewhere since the lists were read, or an answer was lost
  taps

todosVars == <<server, cache, fetch, config, open, naming, renaming, asking, picker, flights, asleep, news, taps>>
switcherVars == <<config, open, naming, renaming, asking, picker>>

NoFetch == [step |-> "idle"]
Kinds == {"create", "first", "rename", "delete", "link", "own", "add", "deal", "remove"}
Flight == [kind : Kinds, list : AllLists \cup {None}, deal : Links, next : AllLists \cup {None},
           step : {"sent", "done", "refused"}]

TodosTypeOK ==
  /\ {server, cache} \subseteq Data /\ config \in AllLists \cup {None}
  /\ fetch = NoFetch \/ fetch.step = "asked" \/ fetch.data \in Data
  /\ {open, naming, news} \subseteq BOOLEAN /\ {renaming, asking} \subseteq AllLists \cup {None}
  /\ picker \in SUBSET {"list", "todo"} /\ Range(flights) \subseteq Flight
  /\ asleep \in [Todos -> Links] /\ taps \in Nat

Tap == taps < MaxTaps /\ taps' = taps + 1

\* A stale id falls back to the first list, without a write.
Current ==
  IF config \in Range(cache.order) THEN config
  ELSE IF cache.order = << >> THEN None ELSE Head(cache.order)

-----------------------------------------------------------------------------
\* A mutant of the next: a request that is under way is let go on.
InvalidatesIdle == fetch' = IF fetch = NoFetch THEN [step |-> "asked"] ELSE fetch

\* invalidateTodos: a request under way is dropped and made anew.
Invalidates == fetch' = [step |-> "asked"]

ServerReads ==
  /\ fetch.step = "asked"
  /\ fetch' = [step |-> "read", data |-> server] /\ news' = FALSE
  /\ UNCHANGED <<server, cache, switcherVars, flights, asleep, taps>>

TodosArrive ==
  /\ fetch.step = "read"
  /\ cache' = fetch.data /\ fetch' = NoFetch
  /\ UNCHANGED <<server, switcherVars, flights, asleep, news, taps>>

-----------------------------------------------------------------------------
\* The switcher, with nothing in front of it.
InSwitcher == open /\ asking = None /\ "list" \notin picker

OpenSwitcher ==
  /\ ~open /\ "todo" \notin picker /\ Current # None /\ Tap /\ open' = TRUE
  /\ UNCHANGED <<server, cache, fetch, config, naming, renaming, asking, picker, flights, asleep, news>>

\* Escape, wherever it is pressed (the focus trap sees it first), or a click beside.
CloseSwitcher ==
  /\ InSwitcher /\ open' = FALSE
  /\ UNCHANGED <<server, cache, fetch, config, naming, renaming, asking, picker, flights, asleep, news, taps>>

SelectList(l) ==
  /\ InSwitcher /\ l \in Range(cache.order) /\ config' = l /\ open' = FALSE
  /\ UNCHANGED <<server, cache, fetch, naming, renaming, asking, picker, flights, asleep, news, taps>>

StartNaming ==
  /\ InSwitcher /\ ~naming /\ naming' = TRUE
  /\ UNCHANGED <<server, cache, fetch, config, open, renaming, asking, picker, flights, asleep, news, taps>>

StartRenaming ==
  /\ InSwitcher /\ renaming = None /\ Current # None /\ renaming' = Current
  /\ UNCHANGED <<server, cache, fetch, config, open, naming, asking, picker, flights, asleep, news, taps>>

AskDelete ==
  /\ InSwitcher /\ Current # None /\ asking' = Current
  /\ UNCHANGED <<server, cache, fetch, config, open, naming, renaming, picker, flights, asleep, news, taps>>

CancelDelete ==
  /\ open /\ asking # None /\ asking' = None
  /\ UNCHANGED <<server, cache, fetch, config, open, naming, renaming, picker, flights, asleep, news, taps>>

OpenListPicker ==
  /\ InSwitcher /\ Current # None /\ picker' = picker \cup {"list"}
  /\ UNCHANGED <<server, cache, fetch, config, open, naming, renaming, asking, flights, asleep, news, taps>>

\* The row of a to-do.  The control is locked in a linked list, but on a deal's page the
\* row does not know its list (TodoItemRow's `list').
OpenRowPicker ==
  /\ ~open /\ "todo" \notin picker /\ picker' = picker \cup {"todo"}
  /\ \E page \in {"widget", "deal"} : page = "widget" =>
       Current # None /\ cache.todo["old"].list = Current /\ cache.link[Current] = None
  /\ UNCHANGED <<server, cache, fetch, config, open, naming, renaming, asking, flights, asleep, news, taps>>

ClosePicker ==
  /\ picker' \in {picker \ {"todo"}, IF open THEN picker \ {"list"} ELSE picker} /\ picker' # picker
  /\ UNCHANGED <<server, cache, fetch, config, open, naming, renaming, asking, flights, asleep, news, taps>>

-----------------------------------------------------------------------------
\* The list to fall back on, of those on screen when the button is pressed.
Other(list) ==
  LET i == SelectInSeq(cache.order, LAMBDA l : l # list) IN
  IF i = 0 THEN None ELSE cache.order[i]

Awaited(kind) == \E i \in DOMAIN flights : flights[i].kind = kind

Sends(kind, list, deal) ==
  /\ Tap
  /\ flights' = Append(flights,
       [kind |-> kind, list |-> list, deal |-> deal, next |-> Other(list), step |-> "sent"])
  /\ UNCHANGED <<server, cache, fetch, config, open, naming, renaming, asleep, news>>

CreateFirstList ==
  Current = None /\ ~Awaited("first") /\ Sends("first", None, None) /\ UNCHANGED <<asking, picker>>

\* Enter sends whether or not an answer is awaited; only the button is locked.
SubmitName == InSwitcher /\ naming /\ Sends("create", None, None) /\ UNCHANGED <<asking, picker>>
SubmitRename ==
  InSwitcher /\ renaming # None /\ Current # None /\ Sends("rename", Current, None) /\ UNCHANGED <<asking, picker>>

ConfirmDelete ==
  /\ open /\ asking # None /\ ~Awaited("delete") /\ Current # None
  /\ Sends("delete", Current, None) /\ UNCHANGED <<asking, picker>>

PickForList(d) ==
  /\ open /\ "list" \in picker /\ Current # None /\ (d # None \/ cache.link[Current] # None)
  /\ Sends("link", Current, d) /\ picker' = picker \ {"list"} /\ UNCHANGED asking
UnlinkList ==
  /\ InSwitcher /\ Current # None /\ cache.link[Current] # None
  /\ Sends("link", Current, None) /\ UNCHANGED <<asking, picker>>
PickForTodo(d) ==
  /\ "todo" \in picker /\ (d # None \/ cache.todo["old"].own # None)
  /\ Sends("own", None, d) /\ picker' = picker \ {"todo"} /\ UNCHANGED asking

\* The composers, dead while they send, and the bin of a row, which is not.
OnPage == ~open /\ "todo" \notin picker
AddTodo ==
  /\ OnPage /\ Current # None /\ ~Awaited("add")
  /\ Sends("add", Current, None) /\ UNCHANGED <<asking, picker>>
AddDealTodo(d) ==
  OnPage /\ ~Awaited("deal") /\ Sends("deal", None, d) /\ UNCHANGED <<asking, picker>>
RemoveTodo ==
  OnPage /\ cache.todo["old"].list # None /\ Sends("remove", None, None) /\ UNCHANGED <<asking, picker>>

-----------------------------------------------------------------------------
(***************************************************************************)
(* The server (api/v1/todos.py): each request is one transaction.           *)
(***************************************************************************)
Linked(data, t) == data.todo[t].list # None /\ data.link[data.todo[t].list] # None

\* A mutant of the next: the backstop is missing.
TakesAnyLink(t) == server.todo[t].list # None

\* "the list's link wins": a to-do of a linked list takes no link of its own.
TakesLink(t) == server.todo[t].list # None /\ ~Linked(server, t)

Unmade == {l \in Made : l \notin Range(server.order) \cup Range(cache.order)}
WithList(l) == [server EXCEPT !.order = Append(@, l)]
NewTodo(data, l, d) ==
  IF server.todo["new"].list # None THEN {} ELSE {[data EXCEPT !.todo["new"] = [list |-> l, own |-> d]]}

WithLink(l, d) == [server EXCEPT !.link[l] = d]
Without(l) ==
  [server EXCEPT !.order = RemoveAt(@, CHOOSE i \in DOMAIN @ : @[i] = l), !.link[l] = None,
     !.todo = [t \in Todos |-> IF @[t].list = l THEN [list |-> None, own |-> None] ELSE @[t]]]

\* create_deal_todo takes the oldest list, or makes one, and stamps the deal on the to-do
\* unless that list is linked.
OnDeal(d) ==
  IF server.order = << >> THEN UNION {NewTodo(WithList(l), l, d) : l \in Unmade}
  ELSE LET first == Head(server.order) IN
       NewTodo(server, first, IF server.link[first] # None THEN None ELSE d)

OnList(f) ==
  CASE f.kind = "rename" -> {server}
    [] f.kind = "delete" -> {Without(f.list)}
    [] f.kind = "link"   -> {WithLink(f.list, f.deal)}
    [] OTHER -> NewTodo(server, f.list, None)   \* "add"

\* A list that is not there is not found.
Effect(f) ==
  CASE f.kind \in {"create", "first"} -> {WithList(l) : l \in Unmade}
    [] f.kind = "deal"   -> OnDeal(f.deal)
    [] f.kind = "own"    -> IF TakesLink("old") THEN {[server EXCEPT !.todo["old"].own = f.deal]} ELSE {}
    [] f.kind = "remove" -> IF server.todo["old"].list = None THEN {}
                            ELSE {[server EXCEPT !.todo["old"] = [list |-> None, own |-> None]]}
    [] OTHER -> IF f.list \in Range(server.order) THEN OnList(f) ELSE {}

\* What a to-do's own link was when its list got one.
Sleeps(data) ==
  asleep' = [t \in Todos |-> IF Linked(data, t) /\ Linked(server, t) THEN asleep[t] ELSE data.todo[t].own]

Created(data) == Range(data.order) \ Range(server.order)

ServerWrites(i) ==
  /\ flights[i].step = "sent"
  /\ \/ \E data \in Effect(flights[i]), step \in {"done", "refused"} :
          /\ server' = data /\ Sleeps(data)
          /\ flights' = [flights EXCEPT ![i].step = step,
               ![i].list = IF Created(data) = {} THEN @ ELSE CHOOSE l \in Created(data) : TRUE]
          /\ news' = (news \/ step = "refused")
     \/ /\ flights' = [flights EXCEPT ![i].step = "refused"] /\ UNCHANGED <<server, asleep, news>>
  /\ UNCHANGED <<cache, fetch, switcherVars, taps>>

\* An answer is acted upon by the switcher that is there, closed or open: a list that was
\* made is shown, one that was deleted gives way to the first other.
Follows(f) ==
  /\ config' = CASE f.kind \in {"create", "first"} -> f.list
                 [] f.kind = "delete" /\ f.next # None -> f.next
                 [] OTHER -> config
  /\ open' = (open /\ f.kind \notin {"create", "delete"})
  /\ naming' = (naming /\ f.kind # "create")
  /\ renaming' = IF f.kind = "rename" THEN None ELSE renaming
  /\ asking' = IF f.kind = "delete" THEN None ELSE asking

Answered(i) ==
  /\ flights[i].step # "sent"
  /\ flights' = RemoveAt(flights, i)
  /\ IF flights[i].step = "done" THEN Invalidates /\ Follows(flights[i])
     ELSE /\ asking' = IF flights[i].kind = "delete" THEN None ELSE asking
          /\ UNCHANGED <<fetch, config, open, naming, renaming>>
  /\ UNCHANGED <<server, cache, picker, asleep, news, taps>>

\* The other tab.
OtherTab ==
  /\ Tap /\ news' = TRUE
  /\ \E l \in Range(server.order) : \E data \in {Without(l)} \cup {WithLink(l, d) : d \in Links} :
       data # server /\ server' = data /\ Sleeps(data)
  /\ UNCHANGED <<cache, fetch, switcherVars, flights>>

TodosInit ==
  /\ \E lists \in {Given, << >>} :
       server = [order |-> lists, link |-> [l \in AllLists |-> None],
                 todo |-> [t \in Todos |-> [list |-> IF t = "old" /\ lists # << >> THEN Head(lists) ELSE None,
                                          own |-> None]]]
  /\ cache = server /\ fetch = NoFetch /\ config = None
  /\ open = FALSE /\ naming = FALSE /\ renaming = None /\ asking = None /\ picker = {}
  /\ flights = << >> /\ asleep = [t \in Todos |-> None] /\ news = FALSE /\ taps = 0

TodosNext ==
  \/ ServerReads \/ TodosArrive
  \/ OpenSwitcher \/ CloseSwitcher \/ StartNaming \/ StartRenaming \/ AskDelete \/ CancelDelete
  \/ OpenListPicker \/ OpenRowPicker \/ ClosePicker
  \/ \E l \in AllLists : SelectList(l)
  \/ CreateFirstList \/ SubmitName \/ SubmitRename \/ ConfirmDelete \/ UnlinkList
  \/ \E d \in Links : PickForList(d) \/ PickForTodo(d)
  \/ AddTodo \/ RemoveTodo \/ \E d \in Deals : AddDealTodo(d)
  \/ \E i \in DOMAIN flights : ServerWrites(i) \/ Answered(i)
  \/ OtherTab

TodosSpec == TodosInit /\ [][TodosNext]_todosVars

-----------------------------------------------------------------------------
\* effectiveDeal, for a row that knows its list.
EffectiveDeal(data, t) ==
  IF Linked(data, t) THEN data.link[data.todo[t].list] ELSE data.todo[t].own

\* list_deal_todos: the to-dos of a deal's page.
OnDealPage(d) ==
  {t \in Todos : LET row == server.todo[t] IN
     row.list # None /\ (server.link[row.list] = d \/ (server.link[row.list] = None /\ row.own = d))}

\* A to-do is on the page of the deal its row names, and of no other: the query of the
\* server and the rule of the client agree.
PagesFollowRule ==
  \A d \in Deals : OnDealPage(d) = {t \in Todos : server.todo[t].list # None /\ EffectiveDeal(server, t) = d}

\* A link of its own sleeps while the to-do's list is linked, whatever a picker opened
\* before that still sends (update_todo's backstop), and is the same when it wakes.
OwnLinkSleeps == \A t \in Todos : Linked(server, t) => server.todo[t].own = asleep[t]

\* Once every answer is in, the widget shows what the server holds, unless another tab
\* wrote since, and a list whenever there is one.
TodosSettle ==
  flights = << >> /\ fetch = NoFetch /\ ~news =>
    cache = server /\ (Current = None <=> server.order = << >>)

-----------------------------------------------------------------------------
(***************************************************************************)
(* What the code does not keep to.                                         *)
(***************************************************************************)
\* The box and the question are about the list they were opened for.
HandledAsAsked == open => renaming \in {None, Current} /\ asking \in {None, Current}

\* The row of a deal's page, which does not know its list, names that deal.
ChipIsTheDeal == \A d \in Deals : \A t \in OnDealPage(d) : server.todo[t].own \in {None, d}
=============================================================================
