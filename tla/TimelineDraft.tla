---------------------------- MODULE TimelineDraft ----------------------------
(***************************************************************************)
(* The composer that opens a deal's timeline (TimelineDraftRow) with its     *)
(* kind picker (ActivityKindPicker), inside the deal dialog.  The dialog's    *)
(* focus trap (useModalDialog) listens on the dialog's own node, below the   *)
(* root React listens on: it takes Escape before any handler of the row or   *)
(* of the picker can see it.                                                *)
(***************************************************************************)
EXTENDS Naturals, Sequences

CONSTANTS
  Notes,     \* bodies, trimmed
  Kinds,     \* labels of the organization
  NewKind,   \* the label the user may create from the picker
  None,      \* nothing typed, no kind, no request
  MaxTaps    \* bound: what the user types, picks, sends and opens

DraftAssumption ==
  None \notin Notes \cup Kinds \cup {NewKind} /\ NewKind \notin Kinds /\ MaxTaps \in Nat

VARIABLES
  open,      \* the deal dialog
  note, kind,
  picker,    \* the kind picker is open
  making,    \* createLabel is under way
  commits,   \* POSTs under way, each with its step
  locked,    \* inFlight
  stored,    \* entries the server has made, oldest first
  typed,     \* the last note the user typed and did not throw away
  taps,
  drafts,    \* drafts begun
  patient,   \* the row was left alone while a commit was under way
  lost       \* an entry was made and its answer lost

draftVars == <<open, note, kind, picker, making, commits, locked, stored, typed, taps,
               drafts, patient, lost>>

Entry == [note : Notes \cup {None}, kind : Kinds \cup {NewKind, None}]
Commit == [entry : Entry, here : BOOLEAN, step : {"sent", "ok", "refused"}]

DraftTypeOK ==
  /\ {open, picker, making, locked, patient, lost} \subseteq BOOLEAN
  /\ note \in Notes \cup {None} /\ kind \in Kinds \cup {NewKind, None}
  /\ typed \in Notes \cup {None}
  /\ commits \in Seq(Commit) /\ stored \in Seq(Entry)
  /\ taps \in Nat /\ drafts \in Nat

Tap == taps < MaxTaps /\ taps' = taps + 1

Blank == note = None /\ kind = None

TypeNote(t) ==
  /\ open /\ Tap /\ t # note
  /\ note' = t /\ typed' = t
  /\ picker' = FALSE                         \* the picker loses the focus and closes
  /\ drafts' = IF Blank THEN drafts + 1 ELSE drafts
  /\ patient' = (patient /\ ~locked)
  /\ UNCHANGED <<open, kind, making, commits, locked, stored, lost>>

\* Enter or the plus button; a second one before the answer is ignored.
SendDraft ==
  /\ open /\ Tap /\ ~picker /\ ~Blank /\ ~locked
  /\ locked' = TRUE
  /\ commits' = Append(commits, [entry |-> [note |-> note, kind |-> kind], here |-> TRUE, step |-> "sent"])
  /\ UNCHANGED <<open, note, kind, picker, making, stored, typed, drafts, patient, lost>>

ServerCommits(i) ==
  /\ i \in DOMAIN commits /\ commits[i].step = "sent"
  /\ \/ \E answer \in {"ok", "refused"} :     \* made, and the answer may be lost
          /\ stored' = Append(stored, commits[i].entry)
          /\ commits' = [commits EXCEPT ![i].step = answer]
          /\ lost' = (lost \/ answer = "refused")
     \/ /\ commits' = [commits EXCEPT ![i].step = "refused"]
        /\ UNCHANGED <<stored, lost>>
  /\ UNCHANGED <<open, note, kind, picker, making, locked, typed, taps, drafts, patient>>

\* Success empties the row, whatever it holds by now; a failure leaves it alone.
CommitAnswers(i) ==
  /\ i \in DOMAIN commits /\ commits[i].step # "sent"
  /\ commits' = SubSeq(commits, 1, i - 1) \o SubSeq(commits, i + 1, Len(commits))
  /\ IF ~commits[i].here THEN UNCHANGED <<note, kind, locked>>
     ELSE /\ locked' = FALSE
          /\ IF commits[i].step = "ok" THEN note' = None /\ kind' = None
                                       ELSE UNCHANGED <<note, kind>>
  /\ UNCHANGED <<open, picker, making, stored, typed, taps, drafts, patient, lost>>

OpenPicker ==
  /\ open /\ ~picker
  /\ picker' = TRUE
  /\ UNCHANGED <<open, note, kind, making, commits, locked, stored, typed, taps, drafts, patient, lost>>

ClosePicker ==
  /\ picker
  /\ picker' = FALSE
  /\ UNCHANGED <<open, note, kind, making, commits, locked, stored, typed, taps, drafts, patient, lost>>

Picked(k) ==
  /\ kind' = k /\ picker' = FALSE
  /\ drafts' = IF Blank /\ k # None THEN drafts + 1 ELSE drafts
  /\ patient' = (patient /\ ~locked)

PickKind ==
  /\ picker /\ Tap
  /\ \E k \in Kinds \cup {None} : Picked(k)
  /\ UNCHANGED <<open, note, making, commits, locked, stored, typed, lost>>

MakeKind ==
  /\ picker /\ ~making /\ Tap
  /\ making' = TRUE
  /\ UNCHANGED <<open, note, kind, picker, commits, locked, stored, typed, drafts, patient, lost>>

\* The new kind is picked when it is made, whether the picker is still open or not.
KindIsMade ==
  /\ making
  /\ making' = FALSE
  /\ Picked(NewKind) \/ UNCHANGED <<kind, picker, drafts, patient>>
  /\ UNCHANGED <<open, note, commits, locked, stored, typed, taps, lost>>

\* The dialog unmounts with everything in it; requests under way go on.
DialogCloses ==
  /\ open
  /\ open' = FALSE
  /\ note' = None /\ kind' = None /\ picker' = FALSE /\ making' = FALSE
  /\ locked' = FALSE /\ typed' = None
  /\ commits' = [i \in DOMAIN commits |-> [commits[i] EXCEPT !.here = FALSE]]
  /\ UNCHANGED <<stored, taps, drafts, patient, lost>>

\* useModalDialog takes the key wherever in the dialog the focus is.
Escape == DialogCloses

\* The close button, or a click beside the dialog: neither while the picker has the focus.
Dismiss == ~picker /\ DialogCloses

OpenDialog ==
  /\ ~open /\ Tap
  /\ open' = TRUE
  /\ UNCHANGED <<note, kind, picker, making, commits, locked, stored, typed, drafts, patient, lost>>

DraftInit ==
  /\ open = TRUE /\ note = None /\ kind = None /\ picker = FALSE /\ making = FALSE
  /\ commits = << >> /\ locked = FALSE /\ stored = << >> /\ typed = None
  /\ taps = 0 /\ drafts = 0 /\ patient = TRUE /\ lost = FALSE

DraftNext ==
  \/ \E t \in Notes : TypeNote(t)
  \/ SendDraft
  \/ \E i \in DOMAIN commits : ServerCommits(i) \/ CommitAnswers(i)
  \/ OpenPicker \/ ClosePicker \/ PickKind \/ MakeKind \/ KindIsMade
  \/ Escape \/ Dismiss \/ OpenDialog

DraftSpec == DraftInit /\ [][DraftNext]_draftVars

-----------------------------------------------------------------------------
(***************************************************************************)
(* However often Enter is pressed, a draft makes one entry, unless the        *)
(* answer that would have emptied the row was lost.                         *)
(***************************************************************************)
OneEntryPerDraft == ~lost => Len(stored) <= drafts

(***************************************************************************)
(* A failed save never eats the typing (TimelineDraftRow.tsx:73): what the    *)
(* user typed last is in the row or on the timeline, as long as the row was  *)
(* left alone while its commit was under way.                               *)
(***************************************************************************)
TypingIsKept ==
  open /\ patient => typed \in {None, note} \/ \E i \in DOMAIN stored : stored[i].note = typed

(***************************************************************************)
(* "Half-written notes must survive a detour into the kind picker"           *)
(* (TimelineDraftRow.tsx:16): while the picker is open, only the entry's     *)
(* being stored takes the note out of the row.                              *)
(***************************************************************************)
NoteSurvivesPicker ==
  picker /\ note # None /\ note' # note =>
    note' \in Notes \/ \E i \in DOMAIN commits : commits[i].step = "ok"
=============================================================================
