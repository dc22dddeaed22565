-------------------------------- MODULE Widgets --------------------------------
(***************************************************************************)
(* The two widget dashboards, Home (DashboardPage) and Reports (ReportsPage): *)
(* the cached configuration, the draft of edit mode (useDashboardEditor), the *)
(* optimistic save and the reset, and the order in which a phone shows what   *)
(* a wide screen lays out.                                                 *)
(*                                                                         *)
(* A request and its answer are separate steps, and the server takes the      *)
(* requests in any order.  react-query and the grid library are external.     *)
(***************************************************************************)
EXTENDS Naturals, Sequences, SequencesExt

CONSTANTS
  Types,       \* the widgets of the picker, each on the dashboard at most once
  DefaultGrid, \* the server's default layout
  Lists, FirstList, \* what the to-do widget of Home may show
  Teams, Users, TeamOf,  \* what the reports are filtered by
  Slots,       \* bound: saves and resets whose answer is awaited at once
  None,        \* no configuration, no filter
  MaxTaps      \* bound: what the user does

WidgetsAssumption ==
  /\ DefaultGrid \in Seq(Types) /\ IsInjective(DefaultGrid)
  /\ FirstList \in Lists /\ TeamOf \in [Users -> Teams \cup {None}] /\ MaxTaps \in Nat

VARIABLES
  page,    \* "home" or "reports"
  server,  \* the stored configuration
  cache,   \* the query: data, isInvalidated, fetch in flight
  editing, \* isEditMode
  draft,
  picking, \* pickerOpen
  asking,  \* confirmResetOpen
  puts,    \* the mutations under way
  latest,  \* the slot of the last save, which save.isPending speaks of
  taps

widgetsVars == <<page, server, cache, editing, draft, picking, asking, puts, latest, taps>>

Filters == [team : Teams \cup {None}, owner : Users \cup {None}]

\* widgets in the order of their place on the grid, mobileOrder, and what can be chosen
\* outside edit mode too: the list of the to-do widget, globalFilters.
Config == [grid : Seq(Types), phone : Seq(Types), pick : Lists \cup Filters]
Default ==
  [grid |-> DefaultGrid, phone |-> << >>,
   pick |-> IF page = "home" THEN FirstList ELSE [team |-> None, owner |-> None]]

NoFetch == [step |-> "idle", got |-> None]
Idle == [step |-> "idle"]

WidgetsTypeOK ==
  /\ page \in {"home", "reports"}
  /\ server \in Config
  /\ cache.data \in Config \cup {None} /\ cache.invalid \in BOOLEAN
  /\ cache.fetch.step \in {"idle", "asked", "read"} /\ cache.fetch.got \in Config \cup {None}
  /\ {editing, picking, asking} \subseteq BOOLEAN /\ draft \in Config \cup {None}
  /\ \A i \in Slots :
       puts[i] = Idle \/ /\ puts[i].step \in {"sent", "ok", "refused"}
                         /\ puts[i].do \in {"save", "choice", "reset"}
                         /\ puts[i].body \in Config /\ puts[i].prev \in Config \cup {None}
  /\ latest \in Slots \cup {None} /\ taps \in 0 .. MaxTaps

Taps == taps < MaxTaps /\ taps' = taps + 1

-----------------------------------------------------------------------------
(***************************************************************************)
(* The configuration.                                                      *)
(***************************************************************************)
\* filter, as a fold: SelectSeq has no definition a prover could use.
Only(s, S) == FoldLeft(LAMBDA kept, w : IF w \in S THEN Append(kept, w) ELSE kept, << >>, s)

\* deriveMobileOrder: the stored order as far as its items are there, then the others.
InOrder(items, order) == Only(order, ToSet(items)) \o Only(items, Types \ ToSet(order))

\* effectiveMobileOrder
PhoneOrder(c) == InOrder(c.grid, c.phone)

\* addWidget: below everything, and last on the phone.  Reports keep no phone order.
Added(c, w) ==
  [c EXCEPT !.grid = Append(@, w),
            !.phone = IF page = "home" THEN Append(PhoneOrder(c), w) ELSE @]

\* removeWidget
Removed(c, w) ==
  [c EXCEPT !.grid = Only(@, Types \ {w}), !.phone = Only(@, Types \ {w})]

\* What the picker offers; a type that may be there several times is several members.
Addable(c) == Types \ ToSet(c.grid)

\* arrayMove
Moved(s, i, j) == InsertAt(RemoveAt(s, i), j, s[i])

-----------------------------------------------------------------------------
(***************************************************************************)
(* The query and its mutations.                                            *)
(***************************************************************************)
Working == IF editing THEN draft ELSE cache.data

\* The effect of useDashboardEditor: a draft is taken once there is something to take.
Seeded(d, loaded) == IF d = None THEN loaded ELSE d

Holds(data) ==
  /\ cache' = data
  /\ draft' = IF editing THEN Seeded(draft, data.data) ELSE None

ServerReads ==
  /\ cache.fetch.step = "asked"
  /\ cache' = [cache EXCEPT !.fetch = [step |-> "read", got |-> server]]
  /\ UNCHANGED <<page, server, editing, draft, picking, asking, puts, latest, taps>>

\* An answer of the API that is an error counts as data, and the data is null.
ConfigArrives ==
  /\ \/ cache.fetch.step = "read" /\ Holds([data |-> cache.fetch.got, invalid |-> FALSE, fetch |-> NoFetch])
     \/ cache.fetch.step # "idle" /\ Holds([data |-> None, invalid |-> FALSE, fetch |-> NoFetch])
     \/ cache.fetch.step # "idle" /\ Holds([cache EXCEPT !.invalid = TRUE, !.fetch = NoFetch])
  /\ UNCHANGED <<page, server, editing, picking, asking, puts, latest, taps>>

\* mutateAsync of useSave...Config: cancel, snapshot, show, send.
Saves(i, do, body) ==
  /\ puts[i] = Idle
  /\ puts' = [puts EXCEPT ![i] = [step |-> "sent", do |-> do, body |-> body, prev |-> cache.data]]
  /\ cache' = [cache EXCEPT !.data = body, !.fetch = NoFetch]
  /\ latest' = i

SavePending == latest # None

ServerSaves(i) ==
  /\ puts[i].step = "sent"
  /\ \/ /\ server' = IF puts[i].do = "reset" THEN Default ELSE puts[i].body
        /\ \E answer \in {"ok", "refused"} :     \* "refused": the answer is lost
             puts' = [puts EXCEPT ![i].step = answer]
     \/ puts' = [puts EXCEPT ![i].step = "refused"] /\ UNCHANGED server
  /\ UNCHANGED <<page, cache, editing, draft, picking, asking, latest, taps>>

\* onError puts the snapshot back; a reset showed nothing it would have to take back.
RolledBack(i) ==
  IF puts[i].step = "refused" /\ puts[i].do # "reset" THEN puts[i].prev ELSE cache.data

\* A mutant of the next: nothing is read again.
SettledUnread(data) == [cache EXCEPT !.data = data]

\* onSettled asks for the configuration again, whatever the answer was.
Settled(data) == [data |-> data, invalid |-> TRUE, fetch |-> [step |-> "asked", got |-> None]]

\* The promise of save() or reset() leaves edit mode when the request succeeded.
Closes(i) == puts[i].step = "ok" /\ puts[i].do \in {"save", "reset"}

Settle(i) ==
  /\ puts[i].step \in {"ok", "refused"}
  /\ LET next == Settled(RolledBack(i)) IN
       /\ cache' = next
       /\ editing' = (editing /\ ~Closes(i))
       /\ draft' = IF editing' THEN Seeded(draft, next.data) ELSE None
  /\ asking' = (asking /\ puts[i].do # "reset")
  /\ puts' = [puts EXCEPT ![i] = Idle]
  /\ latest' = IF latest = i THEN None ELSE latest
  /\ UNCHANGED <<page, server, picking, taps>>

-----------------------------------------------------------------------------
(***************************************************************************)
(* The page.                                                               *)
(***************************************************************************)
EnterEdit ==
  /\ Taps /\ ~editing /\ ~asking /\ ~picking
  /\ editing' = TRUE /\ draft' = cache.data
  /\ UNCHANGED <<page, server, cache, picking, asking, puts, latest>>

\* The buttons of the toolbar; a dialog covers them.
Toolbar == editing /\ ~picking /\ ~asking

\* cancel, and Escape
CancelEdit ==
  /\ Taps /\ Toolbar
  /\ editing' = FALSE /\ draft' = None
  /\ UNCHANGED <<page, server, cache, picking, asking, puts, latest>>

SaveEdit ==
  /\ Taps /\ Toolbar /\ ~SavePending /\ draft # None
  /\ \E i \in Slots : Saves(i, "save", draft)
  /\ UNCHANGED <<page, server, editing, draft, picking, asking>>

TogglePicker ==
  /\ Taps /\ (picking \/ Toolbar)
  /\ picking' = ~picking
  /\ UNCHANGED <<page, server, cache, editing, draft, asking, puts, latest>>

\* A change outside edit mode does not outlive its render: the effect clears the draft.
Drafts(c) ==
  /\ draft' = IF editing THEN c ELSE None
  /\ UNCHANGED <<page, server, cache, editing, picking, asking, puts, latest>>

\* The picker stays open; it locks what the dashboard has.
AddWidget(w) ==
  /\ Taps /\ picking /\ Working # None /\ w \in Addable(Working)
  /\ Drafts(Added(Working, w))

RemoveWidget(w) ==
  /\ Taps /\ Toolbar /\ draft # None /\ w \in ToSet(draft.grid)
  /\ Drafts(Removed(draft, w))

\* handleLayoutChange
DragOnGrid(i, j) ==
  /\ Taps /\ Toolbar /\ draft # None /\ {i, j} \subseteq 1 .. Len(draft.grid) /\ i # j
  /\ Drafts([draft EXCEPT !.grid = Moved(@, i, j)])

\* moveBy and handleDragEnd of the phone's list emit the whole order.
MoveOnPhone(i, j) ==
  /\ Taps /\ Toolbar /\ page = "home" /\ draft # None
  /\ {i, j} \subseteq 1 .. Len(PhoneOrder(draft)) /\ i # j
  /\ Drafts([draft EXCEPT !.phone = Moved(PhoneOrder(draft), i, j)])

\* handleSelectList, handleFiltersChange: part of the draft in edit mode, saved at once
\* outside it.
Chosen(p) ==
  /\ Taps /\ ~picking /\ ~asking /\ Working # None /\ Working.pick # p
  /\ IF editing THEN Drafts([Working EXCEPT !.pick = p])
     ELSE /\ \E i \in Slots : Saves(i, "choice", [cache.data EXCEPT !.pick = p])
          /\ UNCHANGED <<page, server, editing, draft, picking, asking>>

ChooseList(l) == page = "home" /\ Chosen(l)

\* setTeam keeps the owner only when the owner is of the team, setOwner offers no other.
Members(t) == {u \in Users : t \in {None, TeamOf[u]}} \cup {None}

ChooseFilters ==
  /\ page = "reports" /\ Working # None
  /\ LET now == Working.pick IN
     \/ \E t \in Teams \cup {None} :
          Chosen([team |-> t, owner |-> IF now.owner \in Members(t) THEN now.owner ELSE None])
     \/ \E u \in Members(now.team) : Chosen([now EXCEPT !.owner = u])

AskReset ==
  /\ Taps /\ Toolbar /\ ~\E i \in Slots : puts[i] # Idle /\ puts[i].do = "reset"
  /\ asking' = TRUE
  /\ UNCHANGED <<page, server, cache, editing, draft, picking, puts, latest>>

\* Also while the reset is under way, which it does not stop.
CancelReset ==
  /\ Taps /\ asking
  /\ asking' = FALSE
  /\ UNCHANGED <<page, server, cache, editing, draft, picking, puts, latest>>

ConfirmReset ==
  /\ Taps /\ asking /\ ~\E i \in Slots : puts[i] # Idle /\ puts[i].do = "reset"
  /\ \E i \in Slots :
       /\ puts[i] = Idle
       /\ puts' = [puts EXCEPT ![i] = [step |-> "sent", do |-> "reset", body |-> Default, prev |-> None]]
  /\ UNCHANGED <<page, server, cache, editing, draft, picking, asking, latest>>

\* The page goes and comes back; what was sent goes on, and nobody waits for it.
Revisit ==
  /\ Taps
  /\ editing' = FALSE /\ draft' = None /\ picking' = FALSE /\ asking' = FALSE /\ latest' = None
  /\ puts' = [i \in Slots |-> IF puts[i] # Idle /\ puts[i].do = "save"
                              THEN [puts[i] EXCEPT !.do = "choice"] ELSE puts[i]]
  /\ \E aged \in BOOLEAN :
       cache' = IF (aged \/ cache.invalid) /\ cache.fetch.step = "idle"
                THEN [cache EXCEPT !.fetch = [step |-> "asked", got |-> None]] ELSE cache
  /\ UNCHANGED <<page, server>>

WidgetsInit ==
  /\ page \in {"home", "reports"}
  /\ server \in {[Default EXCEPT !.phone = order] :
                   order \in IF page = "home" THEN {<< >>, Reverse(DefaultGrid)} ELSE {<< >>}}
  /\ cache = [data |-> None, invalid |-> FALSE, fetch |-> [step |-> "asked", got |-> None]]
  /\ editing = FALSE /\ draft = None /\ picking = FALSE /\ asking = FALSE
  /\ puts = [i \in Slots |-> Idle] /\ latest = None /\ taps = 0

WidgetsNext ==
  \/ ServerReads \/ ConfigArrives
  \/ EnterEdit \/ CancelEdit \/ SaveEdit \/ TogglePicker
  \/ \E w \in Types : AddWidget(w) \/ RemoveWidget(w)
  \/ \E i, j \in 1 .. Len(DefaultGrid) + MaxTaps : DragOnGrid(i, j) \/ MoveOnPhone(i, j)
  \/ ChooseFilters \/ \E l \in Lists : ChooseList(l)
  \/ AskReset \/ CancelReset \/ ConfirmReset \/ Revisit
  \/ \E i \in Slots : ServerSaves(i) \/ Settle(i)

WidgetsSpec == WidgetsInit /\ [][WidgetsNext]_widgetsVars

-----------------------------------------------------------------------------
InFlight == {i \in Slots : puts[i] # Idle}

(***************************************************************************)
(* When every answer is in, the page shows the configuration the server has,  *)
(* whatever overlapping saves, rollbacks and resets did to the cache before.  *)
(***************************************************************************)
DashboardSettles ==
  InFlight = {} /\ cache.fetch.step = "idle" /\ ~cache.invalid /\ cache.data # None
    => cache.data = server

(***************************************************************************)
(* A widget that was just added is the last one on a phone, also when the     *)
(* phone's order was never stored, and the others stay in their order.       *)
(***************************************************************************)
NewWidgetIsLast ==
  \A w \in Types :
    draft # None /\ draft' # None /\ w \notin ToSet(draft.grid) /\ w \in ToSet(draft'.grid)
      => /\ Last(PhoneOrder(draft')) = w
         /\ Front(PhoneOrder(draft')) = PhoneOrder(draft)

(***************************************************************************)
(* "View-mode filter changes are persisted immediately so a refetch doesn't   *)
(* clobber them" (ReportsPage.tsx:125): no answer of a refetch replaces the    *)
(* choice on screen while the save of that choice is still on its way.        *)
(***************************************************************************)
OnItsWay ==
  page = "reports" /\ latest # None /\ puts[latest] # Idle /\ puts[latest].do = "choice" /\ puts[latest].step = "sent"

RefetchKeepsChoice ==
  OnItsWay /\ cache.fetch.step = "read" /\ cache'.data \notin {None, cache.data}
    => cache'.data.pick = puts'[latest'].body.pick
=============================================================================
