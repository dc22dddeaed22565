-------------------------------- MODULE Agenda --------------------------------
(***************************************************************************)
(* The calendar page: a grid of whole weeks around an anchor, one selected day   *)
(* whose events a panel lists, and a fetch for the visible days only, whose    *)
(* last answer stays until the next one is here.                             *)
(***************************************************************************)
EXTENDS Integers, FiniteSets, FiniteSetsExt

CONSTANTS
  NumDays,       \* the calendar: the days 0 .. NumDays - 1, the first one a Monday
  WeekLength,
  MonthLength,
  MaxTaps        \* bound: what the user and a colleague do

AgendaAssumption ==
  /\ {NumDays, MaxTaps} \subseteq Nat /\ {WeekLength, MonthLength} \subseteq Nat \ {0}
  /\ NumDays % MonthLength = 0 /\ NumDays % WeekLength = 0

CalendarDays == 0..NumDays - 1
Week(d) == d \div WeekLength
Month(d) == d \div MonthLength

VARIABLES
  zoom, anchor, selected,
  today,
  busy,     \* the days that have an event
  shown,    \* the answer on screen: the days it is about and the busy ones of them
  taps

agendaVars == <<zoom, anchor, selected, today, busy, shown, taps>>

AgendaTypeOK ==
  /\ zoom \in {"week", "month"} /\ {anchor, selected, today} \subseteq CalendarDays
  /\ {busy, shown.days, shown.busy} \subseteq SUBSET CalendarDays /\ taps \in Nat

Tap == taps < MaxTaps /\ taps' = taps + 1

-----------------------------------------------------------------------------
WeekGrid(a) == {d \in CalendarDays : Week(d) = Week(a)}

\* Whole weeks, from that of the first of the month to that of its last day.
MonthGrid(a) ==
  LET first == Month(a) * MonthLength
  IN  {d \in CalendarDays : Week(d) \in Week(first) .. Week(first + MonthLength - 1)}

Grid(z, a) == IF z = "week" THEN WeekGrid(a) ELSE MonthGrid(a)
InMonth(z, a) == {d \in Grid(z, a) : z = "week" \/ Month(d) = Month(a)}

\* A selected day that is no longer visible gives way to today, or to the first of the period.
Clamped(z, a, s) ==
  IF s \in Grid(z, a) THEN s
  ELSE IF today \in Grid(z, a) THEN today ELSE Min(InMonth(z, a))

Turn(z, a, s) ==
  /\ Tap /\ zoom' = z /\ anchor' = a /\ selected' = Clamped(z, a, s)
  /\ UNCHANGED <<today, busy, shown>>

Zoom(z) == z # zoom /\ Turn(z, anchor, selected)

\* A week on from the anchor, or the first of the month after its own.
Paged(by) == IF zoom = "week" THEN anchor + by * WeekLength ELSE (Month(anchor) + by) * MonthLength
Page(by) == Paged(by) \in CalendarDays /\ Turn(zoom, Paged(by), selected)
GoToday == Turn(zoom, today, today)

Select(d) ==
  /\ d \in Grid(zoom, anchor) /\ Tap /\ selected' = d
  /\ UNCHANGED <<zoom, anchor, today, busy, shown>>

Midnight ==
  /\ today + 1 \in CalendarDays /\ Tap /\ today' = today + 1
  /\ UNCHANGED <<zoom, anchor, selected, busy, shown>>

Visible == Grid(zoom, anchor)
Fetch ==
  /\ shown' = [days |-> Visible, busy |-> busy \cap Visible]
  /\ shown' # shown
  /\ UNCHANGED <<zoom, anchor, selected, today, busy, taps>>

EventComesOrGoes(d) ==
  /\ Tap /\ busy' = IF d \in busy THEN busy \ {d} ELSE busy \cup {d}
  /\ UNCHANGED <<zoom, anchor, selected, today, shown>>

AgendaInit ==
  /\ zoom = "month" /\ today \in CalendarDays /\ anchor = today /\ selected = today
  /\ busy = {} /\ shown = [days |-> {}, busy |-> {}] /\ taps = 0

AgendaNext ==
  \/ GoToday \/ Midnight \/ Fetch
  \/ \E z \in {"week", "month"} : Zoom(z)
  \/ \E by \in {-1, 1} : Page(by)
  \/ \E d \in CalendarDays : Select(d) \/ EventComesOrGoes(d)

AgendaSpec == AgendaInit /\ [][AgendaNext]_agendaVars

-----------------------------------------------------------------------------
EmptyPanel == selected \notin shown.busy

(***************************************************************************)
(* The panel of the selected day says "no events" only of a day that has none,  *)
(* once the fetch for the visible days is here, however the user paged,       *)
(* zoomed and picked before: a day that left the grid is never still selected. *)
(***************************************************************************)
NoFalseEmptyDay ==
  EmptyPanel /\ shown = [days |-> Visible, busy |-> busy \cap Visible] => selected \notin busy

=============================================================================
