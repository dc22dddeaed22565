--------------------------------- MODULE Tour ---------------------------------
(***************************************************************************)
(* The guided tours of the pages: usePageTour, which the overlay              *)
(* (TourOverlay) and the "?" of the header (TourReplayButton) each run their  *)
(* own instance of, over the preferences the server keeps and /auth/me brings *)
(* back.  A request and its answer are separate steps.                      *)
(***************************************************************************)
EXTENDS Integers

CONSTANTS
  Tours,     \* the pages that have one
  Overview,  \* the tour the legacy keys stand for
  Length,    \* tour -> number of its steps
  Action,    \* tour -> the step that waits for something to appear, 0 for none
  None,      \* a page without a tour, nothing loaded
  MaxTaps    \* bound: what the user does, here or on another device

TourAssumption ==
  /\ Overview \in Tours /\ None \notin Tours /\ MaxTaps \in Nat
  /\ Length \in [Tours -> Nat \ {0}] /\ Action \in [Tours -> Nat]

VARIABLES
  prefs,    \* the server's preferences: tutorial_tours and the legacy keys
  me,       \* the cached /auth/me
  fetch,    \* its request under way: step, and what was read
  page,     \* the tour of the current route
  index,    \* the overlay's localIndex
  closed,   \* closedLocallyFor of the overlay and of the button
  modal,    \* a dialog of the application is open
  patches,  \* the requests of the overlay and of the button under way
  replayed, \* the last thing done about the tours, with nothing under way, was to ask
            \* for this page's again
  taps

tourVars == <<prefs, me, fetch, page, index, closed, modal, patches, replayed, taps>>

Outcomes == {"done", "dismissed"}
Prefs == [tours : [Tours -> Outcomes \cup {None}], legacy : BOOLEAN]
Instances == {"overlay", "button"}
NoFetch == [step |-> "idle", got |-> None]

\* "keep" leaves the legacy keys alone, as a body without them does.
Patch == [of : Instances, tours : [Tours -> Outcomes \cup {None}], legacy : {"keep", "clear"},
          step : {"sent", "ok", "refused"}]

TourTypeOK ==
  /\ prefs \in Prefs /\ me \in Prefs \cup {None}
  /\ fetch.step \in {"idle", "asked", "read"} /\ fetch.got \in Prefs \cup {None}
  /\ page \in Tours \cup {None} /\ index \in Nat
  /\ closed \in [Instances -> Tours \cup {None}]
  /\ modal \in BOOLEAN /\ patches \subseteq Patch /\ replayed \in BOOLEAN /\ taps \in 0 .. MaxTaps

-----------------------------------------------------------------------------
\* outcome: what was decided about a tour.  The legacy keys decide the overview's.
Outcome(p, t) ==
  IF t = Overview /\ p.legacy /\ p.tours[t] = None THEN "done" ELSE p.tours[t]

\* shouldShow, in either instance
Shown(i) ==
  /\ page # None /\ me # None
  /\ closed[i] # page
  /\ Outcome(me, page) = None

\* currentIndex
Step == IF index + 1 < Length[page] THEN index + 1 ELSE Length[page]

Persisting == \E p \in patches : p.of = "overlay"

\* A mutant of the next: the cursor stays where it was.
CursorKept(i, t, before, now) == i

\* A page's tour begins at its first step when its outcome is taken away.
Cursor(i, t, before, now) ==
  IF t # None /\ now # None /\ Outcome(now, t) = None
     /\ (before = None \/ Outcome(before, t) # None)
  THEN 0 ELSE i

Taps == taps < MaxTaps /\ taps' = taps + 1

Sends(i, tours, legacy) ==
  patches' = patches \cup {[of |-> i, tours |-> tours, legacy |-> legacy, step |-> "sent"]}

\* close: hidden at once; the map that is sent is the cached one with this tour in it.
Closes(result) ==
  /\ closed' = [closed EXCEPT !["overlay"] = page]
  /\ Sends("overlay", [me.tours EXCEPT ![page] = result], "keep")
  /\ replayed' = FALSE
  /\ UNCHANGED <<prefs, me, fetch, page, index>>

Moves(to) ==
  /\ index' = to
  /\ UNCHANGED <<prefs, me, fetch, page, closed, patches, replayed>>

\* onNext: the last step completes the tour.
Advances == IF Step = Length[page] THEN Closes("done") ELSE Moves(index + 1)

-----------------------------------------------------------------------------
(***************************************************************************)
(* The overlay and the header.                                             *)
(***************************************************************************)
\* The card's primary button, on an action step its "skip this step".
NextStep == Taps /\ Shown("overlay") /\ ~Persisting /\ Advances /\ UNCHANGED modal

\* A mutant of the next: the first step has a way back.
PrevStepAnyway ==
  /\ Taps /\ Shown("overlay") /\ ~Persisting /\ Moves(index - 1)
  /\ UNCHANGED modal

PrevStep ==
  /\ Taps /\ Shown("overlay") /\ ~Persisting /\ Step > 1
  /\ Moves(index - 1)
  /\ UNCHANGED modal

\* The step's target appears because the user does what the step asks for.
TargetAppears ==
  /\ Taps /\ Shown("overlay") /\ Step = Action[page] /\ ~modal
  /\ modal' = TRUE
  /\ Advances

\* The X and "skip the tour"; Escape does the same unless it belongs to a dialog.
Dismiss == Taps /\ Shown("overlay") /\ Closes("dismissed") /\ UNCHANGED modal

EscapeKey ==
  /\ Taps
  /\ IF modal
     THEN modal' = FALSE /\ UNCHANGED <<prefs, me, fetch, page, index, closed, patches, replayed>>
     ELSE Shown("overlay") /\ Closes("dismissed") /\ UNCHANGED modal

\* replay, in the button's instance: its own cursor and its own closedLocallyFor.
Replay ==
  /\ Taps /\ page # None /\ me # None /\ ~Shown("button")
  /\ closed' = [closed EXCEPT !["button"] = None]
  /\ Sends("button", [me.tours EXCEPT ![page] = None], IF page = Overview THEN "clear" ELSE "keep")
  /\ replayed' = (patches = {} /\ fetch.step = "idle")
  /\ UNCHANGED <<prefs, me, fetch, page, index, modal>>

\* tourForPath: another tour resets the cursor and both overrides.
Visit(p) ==
  /\ Taps /\ p # page
  /\ page' = p /\ index' = 0 /\ modal' = FALSE /\ replayed' = FALSE
  /\ closed' = [i \in Instances |-> None]
  /\ UNCHANGED <<prefs, me, fetch, patches>>

\* The same account on another device.
Elsewhere(t, o) ==
  /\ Taps
  /\ prefs' = [prefs EXCEPT !.tours[t] = o]
  /\ replayed' = FALSE
  /\ \/ fetch' = fetch
     \/ fetch.step = "idle" /\ fetch' = [NoFetch EXCEPT !.step = "asked"]   \* data grows stale
  /\ UNCHANGED <<me, page, index, closed, modal, patches>>

-----------------------------------------------------------------------------
(***************************************************************************)
(* Requests.                                                               *)
(***************************************************************************)
\* patch_my_preferences replaces the keys it is sent, tutorial_tours as one key.
ServerPatches(p) ==
  /\ p.step = "sent"
  /\ \/ /\ prefs' = [tours |-> p.tours, legacy |-> prefs.legacy /\ p.legacy = "keep"]
        /\ patches' = (patches \ {p}) \cup {[p EXCEPT !.step = "ok"]}
     \/ /\ patches' = (patches \ {p}) \cup {[p EXCEPT !.step = "refused"]}
        /\ UNCHANGED prefs
  /\ UNCHANGED <<me, fetch, page, index, closed, modal, replayed, taps>>

\* Success asks for /auth/me again.
PatchAnswers(p) ==
  /\ p.step # "sent"
  /\ patches' = patches \ {p}
  /\ fetch' = IF p.step = "ok" THEN [NoFetch EXCEPT !.step = "asked"] ELSE fetch
  /\ replayed' = (replayed /\ p.step = "ok")
  /\ UNCHANGED <<prefs, me, page, index, closed, modal, taps>>

ServerReads ==
  /\ fetch.step = "asked"
  /\ fetch' = [step |-> "read", got |-> prefs]
  /\ UNCHANGED <<prefs, me, page, index, closed, modal, patches, replayed, taps>>

MeArrives ==
  /\ fetch.step = "read"
  /\ me' = fetch.got /\ fetch' = NoFetch
  /\ index' = Cursor(index, page, me, fetch.got)
  /\ UNCHANGED <<prefs, page, closed, modal, patches, replayed, taps>>

TourInit ==
  /\ \E legacy \in BOOLEAN : prefs = [tours |-> [t \in Tours |-> None], legacy |-> legacy]
  /\ me = None /\ fetch = [NoFetch EXCEPT !.step = "asked"]
  /\ page \in Tours \cup {None} /\ index = 0
  /\ closed = [i \in Instances |-> None]
  /\ modal = FALSE /\ patches = {} /\ replayed = FALSE /\ taps = 0

TourNext ==
  \/ NextStep \/ PrevStep \/ TargetAppears \/ Dismiss \/ EscapeKey \/ Replay
  \/ \E p \in Tours \cup {None} : Visit(p)
  \/ \E t \in Tours, o \in Outcomes : Elsewhere(t, o)
  \/ \E p \in patches : ServerPatches(p) \/ PatchAnswers(p)
  \/ ServerReads \/ MeArrives

TourSpec == TourInit /\ [][TourNext]_tourVars

-----------------------------------------------------------------------------
(***************************************************************************)
(* A tour that comes on screen begins with its first step, wherever it was    *)
(* left, closed or finished before, here or on another device.              *)
(***************************************************************************)
TourStartsOver == ~Shown("overlay") /\ Shown("overlay")' => index' = 0

(***************************************************************************)
(* "Reopen this page's tour from step 0 (header `?`)" (useTutorial.ts:48),     *)
(* "every instance reacts to the refreshed /auth/me": once a replay has been   *)
(* stored and read back, the tour is on screen.                             *)
(***************************************************************************)
ReplayReopens ==
  replayed /\ patches = {} /\ fetch.step = "idle" => Shown("overlay")
=============================================================================
