------------------------------ MODULE ImportWizard ------------------------------
(***************************************************************************)
(* The wizard that imports companies and contacts from files: they are read     *)
(* and recognized as they come, mapped to fields, previewed by the server and   *)
(* then sent once more to be imported.  No request blocks the buttons that     *)
(* lead back.                                                              *)
(***************************************************************************)
EXTENDS Naturals, FiniteSets, Functions

CONSTANTS
  Files,
  Mappings,    \* ways to map a file, its role and match key included
  Complete,    \* those that may be previewed
  Unknown,     \* the mapping of a file nobody recognized or could read
  None,
  MaxTaps      \* bound: what the user does

ASSUME ImportAssumption ==
  Complete \subseteq Mappings /\ Unknown \in Mappings \ Complete /\ MaxTaps \in Nat

VARIABLES
  step,
  reading,       \* files being read
  entries,       \* the files in the wizard and their mapping
  skip,          \* leave out rows that match no company
  preview,       \* what the report on screen is about: the mapping it was made of
  previewing,    \* the preview under way
  committing,    \* the import under way
  imported,      \* what the server imported, and what the user had before the eyes
  meddled,       \* an entry changed under the last preview, on its way or on screen
  taps

importVars == <<step, reading, entries, skip, preview, previewing, committing, imported, meddled, taps>>

Mapped == UNION {[F -> Mappings] : F \in SUBSET Files}
NoEntries == [f \in {} |-> Unknown]

ImportTypeOK ==
  /\ step \in 1..3 /\ reading \subseteq Files /\ entries \in Mapped
  /\ {skip, meddled} \subseteq BOOLEAN /\ {preview, previewing, committing} \subseteq Mapped \cup {None}
  /\ imported \subseteq Mapped \X (Mapped \cup {None}) \X BOOLEAN

Tap == taps < MaxTaps /\ taps' = taps + 1
Touched == meddled' = (meddled \/ previewing # None \/ step = 3)

-----------------------------------------------------------------------------
AddFile(f) ==
  /\ step = 1 /\ f \notin reading \cup DOMAIN entries /\ Tap
  /\ reading' = reading \cup {f}
  /\ UNCHANGED <<step, entries, skip, preview, previewing, committing, imported, meddled>>

\* It joins the wizard at whatever step that is by then.
FileIsRead(f) ==
  /\ f \in reading /\ reading' = reading \ {f}
  /\ \E m \in Mappings : entries' = [g \in DOMAIN entries \cup {f} |-> IF g = f THEN m ELSE entries[g]]
  /\ Touched
  /\ UNCHANGED <<step, skip, preview, previewing, committing, imported, taps>>

RemoveFile(f) ==
  /\ step = 1 /\ f \in DOMAIN entries /\ Tap
  /\ entries' = Restrict(entries, DOMAIN entries \ {f}) /\ Touched
  /\ UNCHANGED <<step, reading, skip, preview, previewing, committing, imported>>

\* The role in the first step, the fields and the match key in the second.
MapFile(f, m) ==
  /\ step \in {1, 2} /\ f \in DOMAIN entries /\ m # entries[f] /\ Tap
  /\ (step = 2 => m # Unknown)
  /\ entries' = [entries EXCEPT ![f] = m] /\ Touched
  /\ UNCHANGED <<step, reading, skip, preview, previewing, committing, imported>>

CanGoToStep2 == entries # NoEntries /\ \A f \in DOMAIN entries : entries[f] # Unknown
CanRunPreview == CanGoToStep2 /\ \A f \in DOMAIN entries : entries[f] \in Complete

Continue ==
  /\ step = 1 /\ CanGoToStep2 /\ Tap /\ step' = 2
  /\ UNCHANGED <<reading, entries, skip, preview, previewing, committing, imported, meddled>>

Back ==
  /\ step > 1 /\ Tap /\ step' = step - 1
  /\ UNCHANGED <<reading, entries, skip, preview, previewing, committing, imported, meddled>>

\* A mutant of the next: a report there is already is shown again.
ShowLastPreview ==
  /\ step = 2 /\ CanRunPreview /\ Tap
  /\ IF preview # None THEN step' = 3 /\ UNCHANGED previewing
                       ELSE previewing' = entries /\ UNCHANGED step
  /\ UNCHANGED <<reading, entries, skip, preview, committing, imported, meddled>>

RunPreview ==
  /\ step = 2 /\ CanRunPreview /\ previewing = None /\ Tap
  /\ previewing' = entries /\ meddled' = FALSE
  /\ UNCHANGED <<step, reading, entries, skip, preview, committing, imported>>

\* The report comes up wherever the user went meanwhile.
PreviewAnswers ==
  /\ previewing # None /\ previewing' = None
  /\ \/ preview' = previewing /\ step' = 3
     \/ UNCHANGED <<preview, step>>
  /\ UNCHANGED <<reading, entries, skip, committing, imported, meddled, taps>>

SkipUnmatched ==
  /\ step = 3 /\ preview # None /\ Tap /\ skip' = ~skip
  /\ UNCHANGED <<step, reading, entries, preview, previewing, committing, imported, meddled>>

Reset == step' = 1 /\ entries' = NoEntries /\ preview' = None

Cancel ==
  /\ step = 3 /\ preview # None /\ Tap /\ Reset /\ Touched
  /\ UNCHANGED <<reading, skip, previewing, committing, imported>>

\* The files and their mapping go up once more, as they are now.
Commit ==
  /\ step = 3 /\ preview # None /\ committing = None /\ entries # NoEntries /\ Tap
  /\ committing' = entries
  /\ imported' \in {imported, imported \cup {<<entries, preview, meddled>>}}
  /\ UNCHANGED <<step, reading, entries, skip, preview, previewing, meddled>>

CommitAnswers ==
  /\ committing # None /\ committing' = None
  /\ \/ Reset /\ Touched
     \/ UNCHANGED <<step, entries, preview, meddled>>
  /\ UNCHANGED <<reading, skip, previewing, imported, taps>>

ImportInit ==
  /\ step = 1 /\ reading = {} /\ entries = NoEntries /\ skip = TRUE
  /\ preview = None /\ previewing = None /\ committing = None
  /\ imported = {} /\ meddled = FALSE /\ taps = 0

ImportNext ==
  \/ Continue \/ Back \/ RunPreview \/ PreviewAnswers \/ SkipUnmatched \/ Cancel \/ Commit \/ CommitAnswers
  \/ \E f \in Files : AddFile(f) \/ FileIsRead(f) \/ RemoveFile(f) \/ \E m \in Mappings : MapFile(f, m)

ImportSpec == ImportInit /\ [][ImportNext]_importVars

-----------------------------------------------------------------------------
(***************************************************************************)
(* What is imported is what the report on screen was made of: the wizard sends  *)
(* its entries twice, and going back, mapping anew, cancelling and reading     *)
(* more files in between never lets the two differ, unless an entry changed    *)
(* under a preview that was on its way, or a file read late joined under one     *)
(* that was on screen.                                                     *)
(***************************************************************************)
ImportedIsPreviewed ==
  \A i \in imported : i[3] \/ i[1] = i[2]

=============================================================================
