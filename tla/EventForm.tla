------------------------------- MODULE EventForm -------------------------------
(***************************************************************************)
(* The form of a calendar event.  It stays mounted in its page, is opened to   *)
(* make an event or to edit one, and is filled in by an effect that also runs  *)
(* when the status of the Google connection, read anew at each opening, comes  *)
(* in under the user's hands.  The page around it deletes events.             *)
(***************************************************************************)
EXTENDS Integers, FiniteSets

CONSTANTS
  Deals,
  Home,        \* the deal whose page shows the form
  Events,
  Label,       \* a label that is there to pick
  None,
  Step,        \* a quarter of an hour, in the minutes of the model
  LastOption,  \* the last start the list offers
  DayEnd,      \* one minute to midnight
  MaxTaps      \* bound: what the user does

EventFormAssumption ==
  /\ Home \in Deals /\ None \notin Deals \cup Events \cup {"own"}
  /\ {"", "own", "stored"} \cap Deals = {}     \* a title of the user's own is no deal's name
  /\ {Step, LastOption, DayEnd, MaxTaps} \subseteq Nat
  /\ Step > 0 /\ Step <= DayEnd /\ LastOption % Step = 0 /\ LastOption < DayEnd /\ DayEnd < LastOption + Step

Minutes == 0..DayEnd

VARIABLES
  host,       \* the "calendar", or the page of a "deal"
  open,       \* "no", "create" or "edit"
  event,      \* the one being edited
  picked,     \* the deal picked in the form
  title,      \* "", the user's "own", "stored" with the event, or a deal's name
  auto,       \* the deal whose name the form put there last
  start, end, allDay,
  google,     \* the connection is healthy, as far as the page knows
  healthy,    \* and really
  toGoogle, meet,
  labels,
  making,     \* the labels there were when a new one was asked for, or None
  flight,     \* the save under way
  server,     \* the events and their deals
  asked,      \* the event the delete dialog is about
  deleting,   \* the delete under way
  mine,       \* what the user last typed for a title in this opening
  swept,      \* the form was filled in again under the user's hands
  chose,      \* the user chose a deal in this opening
  loose,      \* a time was typed rather than picked
  moved,      \* events saved with another deal though nobody chose one
  taps

formVars == <<event, picked, title, auto, start, end, allDay, toGoogle, meet, labels, making>>
ghostVars == <<mine, swept, chose, loose>>
pageVars == <<asked, deleting>>
serverVars == <<server, moved, healthy>>
eventVars == <<host, open, formVars, google, flight, serverVars, pageVars, ghostVars, taps>>

Titles == {"", "own", "stored"} \cup Deals
NoFlight == [event |-> None, create |-> FALSE, deal |-> None, title |-> "", chose |-> FALSE]

EventTypeOK ==
  /\ host \in {"calendar", "deal"} /\ open \in {"no", "create", "edit"}
  /\ {event, asked, deleting} \subseteq Events \cup {None}
  /\ {picked, auto} \subseteq Deals \cup {None} /\ {title, flight.title} \subseteq Titles
  /\ {start, end} \subseteq Minutes
  /\ {allDay, google, healthy, toGoogle, meet, swept, chose, loose} \subseteq BOOLEAN
  /\ DOMAIN server = Events /\ mine \in {None, "own", ""}

Tap == taps < MaxTaps /\ taps' = taps + 1

-----------------------------------------------------------------------------
\* The next full hour and the one after it, or an hour of another day's morning.
DefaultSlot(hour) == start' = hour /\ end' = IF hour + Step > DayEnd THEN DayEnd ELSE hour + Step

\* The reset effect: an edit leaves the deal that was picked last, and its name, as they are.
FillIn(mode, e, g, hour) ==
  /\ DefaultSlot(hour)
  /\ labels' = {}
  /\ IF mode = "edit"
     THEN /\ title' = "stored" /\ allDay' \in BOOLEAN /\ meet' \in BOOLEAN
          /\ toGoogle' \in {FALSE, g} /\ UNCHANGED <<picked, auto>>
     ELSE /\ title' = IF host = "deal" THEN Home ELSE ""
          /\ allDay' = FALSE /\ meet' = FALSE /\ toGoogle' = g
          /\ picked' = None /\ auto' = None

Hours == {h \in Minutes : h % Step = 0}

OpenForm(mode, e) ==
  /\ open = "no" /\ Tap
  /\ open' = mode /\ event' = e
  /\ \E h \in Hours : FillIn(mode, e, google, h)
  /\ mine' = None /\ swept' = FALSE /\ chose' = FALSE /\ loose' = FALSE
  /\ UNCHANGED <<host, making, google, flight, serverVars, pageVars>>

OpenCreate == OpenForm("create", None)
OpenEdit(e) == server[e] # "gone" /\ asked = None /\ OpenForm("edit", e)

\* The status the opening asked for is here; a change of it fills the form in again.
StatusArrives ==
  /\ open # "no" /\ google # healthy
  /\ google' = healthy
  /\ \E h \in Hours : FillIn(open, event, healthy, h)
  /\ swept' = TRUE
  /\ UNCHANGED <<host, open, event, making, flight, serverVars, pageVars, mine, chose, loose, taps>>

ConnectionTurns ==
  /\ Tap /\ healthy' = ~healthy
  /\ UNCHANGED <<host, open, formVars, google, flight, server, moved, pageVars, ghostVars>>

Edits == open # "no" /\ Tap /\ UNCHANGED <<host, open, event, google, flight, serverVars, pageVars, swept>>
Times == <<start, end, allDay>>
Copy == <<toGoogle, meet>>
LabelVars == <<labels, making>>

TypeTitle(w) ==
  /\ Edits /\ title' = w /\ mine' = w
  /\ UNCHANGED <<picked, auto, Times, Copy, LabelVars, chose, loose>>

NeedsDealPicker == IF open = "edit" THEN server[event] = None ELSE host = "calendar"

\* A mutant of the next: a pick always names the event.
AlwaysTheDeal(d) == title' = d /\ auto' = d

\* A pick names the event, unless the user did.
NamedAfter(d) ==
  IF title = "" \/ (auto # None /\ title = auto)
  THEN title' = d /\ auto' = d
  ELSE UNCHANGED <<title, auto>>

PickDeal(d) ==
  /\ Edits /\ NeedsDealPicker /\ picked = None
  /\ picked' = d /\ NamedAfter(d) /\ chose' = TRUE
  /\ UNCHANGED <<Times, Copy, LabelVars, mine, loose>>

SearchAgain ==
  /\ Edits /\ NeedsDealPicker /\ picked # None
  /\ picked' = None /\ chose' = FALSE
  /\ UNCHANGED <<title, auto, Times, Copy, LabelVars, mine, loose>>

-----------------------------------------------------------------------------
StartOptions == {m \in 0..LastOption : m % Step = 0} \cup {start}
EndOptions == {m \in start + Step .. LastOption : (m - start) % Step = 0} \cup ({end} \cap start + 1 .. DayEnd)

\* A mutant of the next: the end runs over midnight.
Unclamped(m) == m

Clamp(m) == IF m > DayEnd THEN DayEnd ELSE m

\* Moving the start drags the end along, within the day.
ShiftEnd(next) == Clamp(next + (IF end > start THEN end - start ELSE Step))

Slots(s, e) ==
  /\ Edits /\ ~allDay /\ start' = s /\ end' = e
  /\ UNCHANGED <<picked, title, auto, allDay, Copy, LabelVars, mine, chose>>

PickStart(m) == m \in StartOptions /\ Slots(m, ShiftEnd(m)) /\ UNCHANGED loose
PickEnd(m) == m \in EndOptions /\ Slots(start, m) /\ UNCHANGED loose
TypeStart(m) == Slots(m, ShiftEnd(m)) /\ loose' = TRUE
TypeEnd(m) == Slots(start, m) /\ loose' = TRUE

ToggleAllDay ==
  /\ Edits /\ allDay' = ~allDay
  /\ UNCHANGED <<picked, title, auto, start, end, Copy, LabelVars, mine, chose, loose>>

\* No Google copy, no conference.
ToggleGoogle ==
  /\ Edits /\ google
  /\ toGoogle' = ~toGoogle /\ meet' = (meet /\ toGoogle')
  /\ UNCHANGED <<picked, title, auto, Times, LabelVars, mine, chose, loose>>

ToggleMeet ==
  /\ Edits /\ google /\ toGoogle /\ meet' = ~meet
  /\ UNCHANGED <<picked, title, auto, Times, toGoogle, LabelVars, mine, chose, loose>>

ToggleLabel ==
  /\ Edits
  /\ labels' = IF Label \in labels THEN labels \ {Label} ELSE labels \cup {Label}
  /\ UNCHANGED <<picked, title, auto, Times, Copy, making, mine, chose, loose>>

MakeLabel ==
  /\ Edits /\ making = None /\ "new" \notin labels
  /\ making' = labels
  /\ UNCHANGED <<picked, title, auto, Times, Copy, labels, mine, chose, loose>>

\* It joins the labels there were when it was asked for.
LabelIsMade ==
  /\ making # None /\ making' = None
  /\ labels' \in {labels} \cup (IF open = "no" THEN {} ELSE {making \cup {"new"}})
  /\ UNCHANGED <<host, open, event, picked, title, auto, Times, Copy, google, flight, serverVars,
                 pageVars, ghostVars, taps>>

-----------------------------------------------------------------------------
SlotIsValid == allDay \/ end > start

Submit ==
  /\ open # "no" /\ flight = NoFlight /\ title # "" /\ SlotIsValid /\ Tap
  /\ flight' =
       [event |-> event, create |-> open = "create", title |-> title, chose |-> chose,
        deal |-> IF open = "edit" THEN picked ELSE IF host = "deal" THEN Home ELSE picked]
  /\ UNCHANGED <<host, open, formVars, google, serverVars, pageVars, ghostVars>>

\* A success closes the form, whatever it is about by then; a failure leaves it.
SaveAnswers ==
  /\ flight # NoFlight /\ flight' = NoFlight
  /\ \/ /\ open' = "no" /\ event' = None
        /\ LET e == flight.event
               kept == flight.create \/ flight.deal = None \/ server[e] = "gone"
           IN  /\ server' = IF kept THEN server ELSE [server EXCEPT ![e] = flight.deal]
               /\ moved' = IF kept \/ flight.chose \/ server[e] = flight.deal THEN moved
                                                                          ELSE moved \cup {e}
     \/ UNCHANGED <<open, event, server, moved>>
  /\ UNCHANGED <<host, picked, title, auto, Times, Copy, labels, making, google, healthy, pageVars, ghostVars, taps>>

Close ==
  /\ open # "no" /\ Tap /\ open' = "no" /\ event' = None
  /\ UNCHANGED <<host, picked, title, auto, Times, Copy, labels, making, google, flight,
                 serverVars, pageVars, ghostVars>>

-----------------------------------------------------------------------------
AskDelete(e) ==
  /\ open = "no" /\ asked = None /\ deleting = None /\ server[e] # "gone" /\ Tap
  /\ asked' = e
  /\ UNCHANGED <<host, open, formVars, google, flight, serverVars, deleting, ghostVars>>

CancelDelete ==
  /\ asked # None /\ Tap /\ asked' = None
  /\ UNCHANGED <<host, open, formVars, google, flight, serverVars, deleting, ghostVars>>

ConfirmDelete ==
  /\ asked # None /\ deleting = None /\ Tap /\ deleting' = asked
  /\ UNCHANGED <<host, open, formVars, google, flight, serverVars, asked, ghostVars>>

DeleteSettles ==
  /\ deleting # None /\ deleting' = None /\ asked' = None
  /\ \/ server' = [server EXCEPT ![deleting] = "gone"]
     \/ UNCHANGED server
  /\ UNCHANGED <<host, open, formVars, google, flight, moved, healthy, ghostVars, taps>>

EventInit ==
  /\ host \in {"calendar", "deal"}
  /\ open = "no" /\ event = None /\ picked = None /\ title = "" /\ auto = None
  /\ start = 0 /\ end = Step /\ allDay = FALSE
  /\ google \in BOOLEAN /\ healthy = google /\ toGoogle = FALSE /\ meet = FALSE
  /\ labels = {} /\ making = None /\ flight = NoFlight
  /\ server \in [Events -> IF host = "deal" THEN {Home} ELSE Deals \cup {None}]
  /\ asked = None /\ deleting = None /\ moved = {}
  /\ mine = None /\ swept = FALSE /\ chose = FALSE /\ loose = FALSE
  /\ taps = 0

EventNext ==
  \/ OpenCreate \/ StatusArrives \/ ConnectionTurns \/ SearchAgain \/ ToggleAllDay
  \/ ToggleGoogle \/ ToggleMeet \/ ToggleLabel \/ MakeLabel \/ LabelIsMade
  \/ Submit \/ SaveAnswers \/ Close \/ CancelDelete \/ ConfirmDelete \/ DeleteSettles
  \/ \E e \in Events : OpenEdit(e) \/ AskDelete(e)
  \/ \E w \in {"", "own"} : TypeTitle(w)
  \/ \E d \in Deals : PickDeal(d)
  \/ \E m \in Minutes : PickStart(m) \/ PickEnd(m) \/ TypeStart(m) \/ TypeEnd(m)

EventSpec == EventInit /\ [][EventNext]_eventVars

-----------------------------------------------------------------------------
(***************************************************************************)
(* What the user typed for a title is what will be saved: no pick of a deal,   *)
(* in whatever order they come, replaces it.  Only the status of the Google   *)
(* connection does when it turns while the form is open.                    *)
(***************************************************************************)
OwnTitleStays == open # "no" /\ mine = "own" /\ ~swept => title = "own"

(***************************************************************************)
(* Picking from the offered times never leads to a slot the form refuses,      *)
(* whenever it was opened and however often the start is moved.               *)
(***************************************************************************)
PickedSlotIsValid == open # "no" /\ ~loose => end > start

(***************************************************************************)
(* Saving an edit leaves the event under its deal unless the user picked one.  *)
(***************************************************************************)
UntouchedDealStays == moved = {}

=============================================================================
