------------------------------ MODULE DealsProofs ------------------------------
(***************************************************************************)
(* Theorems about the pages around deals: the board and its cards, the stages,   *)
(* how a deal is decided, the calendar and its event form, the capture dialogs,  *)
(* the forms, the timeline, the lists and the search.  They hold for any deals,  *)
(* stages, days, words and rows, whatever the bounds.                         *)
(***************************************************************************)
EXTENDS Deals, BoardProofs

\* A page moves by its own steps, or rests.
LEMMA EachByItself ==
  ASSUME [DealsNext]_dealsVars
  PROVE  /\ screen' = screen
         /\ screen = "board" => [AtBoard!BoardNext]_AtBoard!boardVars
         /\ screen = "card" => [AtCard!GestureNext]_AtCard!gestureVars
         /\ screen = "life" => [AtLife!LifeNext]_AtLife!lifeVars
         /\ screen = "event" => [AtEvent!EventNext]_AtEvent!eventVars
         /\ screen = "agenda" => [AtAgenda!AgendaNext]_AtAgenda!agendaVars
         /\ screen = "capture" => [AtCapture!CaptureNext]_AtCapture!captureVars
         /\ screen = "autofill" => [AtAutofill!AutofillNext]_AtAutofill!autofillVars
         /\ screen = "stages" => [AtStages!StagesNext]_AtStages!stagesVars
         /\ screen = "reminders" => [AtReminders!RemindersNext]_AtReminders!remindersVars
         /\ screen = "form" => [AtForm!FormsNext]_AtForm!formVars
         /\ screen = "entry" => [AtEntry!EntryNext]_AtEntry!entryVars
         /\ screen = "draft" => [AtDraft!DraftNext]_AtDraft!draftVars
         /\ screen = "list" => [AtList!ListsNext]_AtList!listVars
         /\ screen = "search" => [AtSearch!SearchNext]_AtSearch!searchVars
<1>1. CASE UNCHANGED dealsVars
  <2> USE <1>1 DEF dealsVars, screenVars, importVars
  <2>1. UNCHANGED <<AtBoard!boardVars, AtCard!gestureVars, AtLife!lifeVars>>
    BY DEF AtBoard!boardVars, AtCard!gestureVars, AtLife!lifeVars
  <2>2. UNCHANGED AtEvent!eventVars
    BY DEF AtEvent!eventVars, AtEvent!formVars, AtEvent!ghostVars, AtEvent!pageVars, AtEvent!serverVars
  <2>3. UNCHANGED <<AtAgenda!agendaVars, AtReminders!remindersVars, AtAutofill!autofillVars>>
    BY DEF AtAgenda!agendaVars, AtReminders!remindersVars, AtAutofill!autofillVars
  <2>4. UNCHANGED <<AtCapture!captureVars, AtStages!stagesVars>>
    BY DEF AtCapture!captureVars, AtStages!stagesVars
  <2>5. screen' = screen
    OBVIOUS
  <2>6. UNCHANGED <<AtForm!formVars, AtEntry!entryVars, AtDraft!draftVars>>
    BY DEF AtForm!formVars, AtEntry!entryVars, AtDraft!draftVars
  <2>7. UNCHANGED <<AtList!listVars, AtSearch!searchVars>>
    BY DEF AtList!listVars, AtList!boxVars, AtList!serverVars, AtList!basketVars, AtSearch!searchVars
  <2> QED
    BY <2>1, <2>2, <2>3, <2>4, <2>5, <2>6, <2>7
<1>2. CASE DealsNext
  BY <1>2 DEF DealsNext, Stays
<1> QED
  BY <1>1, <1>2

LEMMA EachBegins ==
  ASSUME DealsInit
  PROVE  /\ screen = "board" => AtBoard!BoardInit
         /\ screen = "card" => AtCard!GestureInit
         /\ screen = "life" => AtLife!LifeInit
         /\ screen = "event" => AtEvent!EventInit
         /\ screen = "agenda" => AtAgenda!AgendaInit
         /\ screen = "capture" => AtCapture!CaptureInit
         /\ screen = "autofill" => AtAutofill!AutofillInit
         /\ screen = "stages" => AtStages!StagesInit
         /\ screen = "reminders" => AtReminders!RemindersInit
         /\ screen = "form" => AtForm!FormsInit
         /\ screen = "entry" => AtEntry!EntryInit
         /\ screen = "draft" => AtDraft!DraftInit
         /\ screen = "list" => AtList!ListsInit
         /\ screen = "search" => AtSearch!SearchInit
  BY DEF DealsInit

\* A sequence is one of any set that has its elements.
LEMMA SeqOfItsElements ==
  ASSUME NEW S, NEW s \in Seq(S), NEW T, \A j \in 1 .. Len(s) : s[j] \in T
  PROVE  s \in Seq(T)
<1>1. Len(s) \in Nat /\ s = [j \in 1 .. Len(s) |-> s[j]]
  OBVIOUS
<1> QED
  BY <1>1, IsASeq

-----------------------------------------------------------------------------
(***************************************************************************)
(* The import wizard.                                                      *)
(***************************************************************************)
\* An entry that changes is noticed as long as somebody compares by it: a preview on its
\* way, or the report on screen.  No preview is on its way under a report.
ReportIsAlone == step \in 1..3 /\ (step = 3 => previewing = None)
ReportIsOfEntries == step = 3 /\ preview # None /\ ~meddled => entries = preview
PreviewIsOfEntries == previewing # None /\ ~meddled => entries = previewing
ImportInv == ReportIsAlone /\ ReportIsOfEntries /\ PreviewIsOfEntries /\ ImportedIsPreviewed

LEMMA ImportStarts == ImportInit => ImportInv
  BY DEF ImportInit, ImportInv, ReportIsAlone, ReportIsOfEntries, PreviewIsOfEntries, ImportedIsPreviewed

\* An entry may change as long as Touched says so.
LEMMA ChangesAreNoticed ==
  ASSUME ImportInv, Touched, UNCHANGED <<step, preview, previewing, imported>>
  PROVE  ImportInv'
<1>1. meddled => meddled'
  BY DEF Touched
<1>2. previewing # None \/ step = 3 => meddled'
  BY DEF Touched
<1> QED
  BY <1>1, <1>2 DEF ImportInv, ReportIsAlone, ReportIsOfEntries, PreviewIsOfEntries, ImportedIsPreviewed

\* Every action of the wizard preserves the invariant.
LEMMA ImportKeeps == ImportInv /\ [ImportNext]_importVars => ImportInv'
<1> SUFFICES ASSUME ImportInv, [ImportNext]_importVars PROVE ImportInv'
  OBVIOUS
<1> USE DEF ImportInv, ReportIsAlone, ReportIsOfEntries, PreviewIsOfEntries, ImportedIsPreviewed
<1>1. CASE Continue
  BY <1>1 DEF Continue
<1>2. CASE Back
  BY <1>2 DEF Back
<1>3. CASE RunPreview
  BY <1>3 DEF RunPreview
<1>4. CASE PreviewAnswers
  BY <1>4 DEF PreviewAnswers
<1>5. CASE SkipUnmatched
  BY <1>5 DEF SkipUnmatched
<1>6. CASE Cancel
  BY <1>6 DEF Cancel, Reset, Touched
<1>7. CASE Commit
  BY <1>7 DEF Commit
<1>8. CASE CommitAnswers
  <2>1. UNCHANGED <<previewing, imported>>
    BY <1>8 DEF CommitAnswers
  \* A success empties the wizard, under whatever preview is on its way.
  <2>2. CASE Reset /\ Touched
    <3>1. step' = 1 /\ (previewing # None => meddled')
      BY <2>2 DEF Reset, Touched
    <3> QED
      BY <2>1, <3>1
  <2>3. CASE UNCHANGED <<step, entries, preview, meddled>>
    BY <2>1, <2>3
  <2> QED
    BY <1>8, <2>2, <2>3 DEF CommitAnswers
<1>9. ASSUME NEW f \in Files, AddFile(f) PROVE ImportInv'
  BY <1>9 DEF AddFile
<1>10. ASSUME NEW f \in Files, FileIsRead(f) PROVE ImportInv'
  BY <1>10, ChangesAreNoticed DEF FileIsRead
<1>11. ASSUME NEW f \in Files, RemoveFile(f) PROVE ImportInv'
  BY <1>11, ChangesAreNoticed DEF RemoveFile
<1>12. ASSUME NEW f \in Files, NEW m \in Mappings, MapFile(f, m) PROVE ImportInv'
  BY <1>12, ChangesAreNoticed DEF MapFile
<1>13. CASE UNCHANGED importVars
  BY <1>13 DEF importVars
<1> QED
  BY <1>1, <1>2, <1>3, <1>4, <1>5, <1>6, <1>7, <1>8, <1>9, <1>10, <1>11, <1>12, <1>13 DEF ImportNext

\* The rest of the import: what is previewed, sent and imported are entries with their mappings.
LEMMA EntriesAre ==
  /\ NoEntries \in Mapped
  /\ \A e \in Mapped : DOMAIN e \subseteq Files /\ e \in [DOMAIN e -> Mappings]
  /\ \A F \in SUBSET Files : [F -> Mappings] \subseteq Mapped
<1>1. \A F \in SUBSET Files : [F -> Mappings] \subseteq Mapped
  BY DEF Mapped
<1>2. NoEntries \in [{} -> Mappings]
  BY DEF NoEntries
<1>3. ASSUME NEW e \in Mapped PROVE DOMAIN e \subseteq Files /\ e \in [DOMAIN e -> Mappings]
  <2>1. PICK F \in SUBSET Files : e \in [F -> Mappings]
    BY DEF Mapped
  <2> QED
    BY <2>1
<1> QED
  BY <1>1, <1>2, <1>3

LEMMA ImportTypesStart == ImportInit \/ NoImport => ImportTypeOK
<1> SUFFICES ASSUME ImportInit \/ NoImport PROVE ImportTypeOK
  OBVIOUS
<1>1. /\ step = 1 /\ reading = {} /\ entries = NoEntries /\ preview = None /\ previewing = None /\ committing = None
      /\ imported = {}
  BY DEF ImportInit, NoImport
<1>2. skip = TRUE /\ meddled = FALSE
  BY Zenon DEF ImportInit, NoImport
<1>3. /\ step \in 1..3 /\ reading \subseteq Files /\ entries \in Mapped
      /\ {preview, previewing, committing} \subseteq Mapped \cup {None}
      /\ imported \subseteq Mapped \X (Mapped \cup {None}) \X BOOLEAN
  BY <1>1, EntriesAre
<1>4. {skip, meddled} \subseteq BOOLEAN
  BY <1>2
<1> QED
  BY <1>3, <1>4, Zenon DEF ImportTypeOK

LEMMA ImportTypesStay == ImportTypeOK /\ ([ImportNext]_importVars \/ UNCHANGED importOwnVars) => ImportTypeOK'
<1> SUFFICES ASSUME ImportTypeOK, [ImportNext]_importVars \/ UNCHANGED importOwnVars PROVE ImportTypeOK'
  OBVIOUS
<1> USE DEF ImportTypeOK
<1>1. CASE Continue
  BY <1>1 DEF Continue
<1>2. CASE Back
  BY <1>2 DEF Back
<1>3. CASE RunPreview
  BY <1>3 DEF RunPreview
<1>4. CASE PreviewAnswers
  BY <1>4 DEF PreviewAnswers
<1>5. CASE SkipUnmatched
  BY <1>5 DEF SkipUnmatched
<1>6. ASSUME Touched PROVE meddled' \in BOOLEAN
  <2>1. meddled \in BOOLEAN /\ (previewing # None) \in BOOLEAN /\ (step = 3) \in BOOLEAN
    OBVIOUS
  <2>2. meddled' = (meddled \/ previewing # None \/ step = 3)
    BY <1>6 DEF Touched
  <2> QED
    BY <2>1, <2>2
<1>7. CASE Cancel
  <2>1. meddled' \in BOOLEAN
    BY <1>6, <1>7 DEF Cancel
  <2>2. step' = 1 /\ entries' = NoEntries /\ preview' = None /\ UNCHANGED <<reading, skip, previewing, committing, imported>>
    BY <1>7 DEF Cancel, Reset
  <2> QED
    BY <2>1, <2>2, EntriesAre
<1>8. CASE Commit
  <2>1. <<entries, preview, meddled>> \in Mapped \X (Mapped \cup {None}) \X BOOLEAN
    OBVIOUS
  <2>2. imported' = imported \/ imported' = imported \cup {<<entries, preview, meddled>>}
    BY <1>8 DEF Commit
  <2>3. imported' \subseteq Mapped \X (Mapped \cup {None}) \X BOOLEAN
    BY <2>1, <2>2
  <2>4. committing' = entries /\ UNCHANGED <<step, reading, entries, skip, preview, previewing, meddled>>
    BY <1>8 DEF Commit
  <2> QED
    BY <2>3, <2>4
<1>9. CASE CommitAnswers
  <2>1. committing' = None /\ UNCHANGED <<reading, skip, previewing, imported>>
    BY <1>9 DEF CommitAnswers
  <2>2. CASE Reset /\ Touched
    <3>1. meddled' \in BOOLEAN
      BY <1>6, <2>2
    <3> QED
      BY <2>1, <2>2, <3>1, EntriesAre DEF Reset
  <2>3. CASE UNCHANGED <<step, entries, preview, meddled>>
    BY <2>1, <2>3
  <2> QED
    BY <1>9, <2>2, <2>3 DEF CommitAnswers
<1>10. ASSUME NEW f \in Files, AddFile(f) PROVE ImportTypeOK'
  BY <1>10 DEF AddFile
<1>11. ASSUME NEW f \in Files, FileIsRead(f) PROVE ImportTypeOK'
  <2>1. PICK m \in Mappings : entries' = [g \in DOMAIN entries \cup {f} |-> IF g = f THEN m ELSE entries[g]]
    BY <1>11 DEF FileIsRead
  <2>2. DOMAIN entries \subseteq Files /\ \A g \in DOMAIN entries : entries[g] \in Mappings
    BY EntriesAre
  <2>3. entries' \in [DOMAIN entries \cup {f} -> Mappings]
    BY <2>1, <2>2
  <2>4. entries' \in Mapped
    BY <2>2, <2>3, EntriesAre
  <2>5. meddled' \in BOOLEAN /\ reading' \subseteq Files
    BY <1>6, <1>11 DEF FileIsRead
  <2> QED
    BY <1>11, <2>4, <2>5 DEF FileIsRead
<1>12. ASSUME NEW f \in Files, RemoveFile(f) PROVE ImportTypeOK'
  <2>1. entries' = [g \in DOMAIN entries \ {f} |-> entries[g]]
    BY <1>12 DEF RemoveFile, Restrict
  <2>2. DOMAIN entries \subseteq Files /\ \A g \in DOMAIN entries : entries[g] \in Mappings
    BY EntriesAre
  <2>3. entries' \in [DOMAIN entries \ {f} -> Mappings]
    BY <2>1, <2>2
  <2>4. entries' \in Mapped
    BY <2>2, <2>3, EntriesAre
  <2>5. meddled' \in BOOLEAN
    BY <1>6, <1>12 DEF RemoveFile
  <2> QED
    BY <1>12, <2>4, <2>5 DEF RemoveFile
<1>13. ASSUME NEW f \in Files, NEW m \in Mappings, MapFile(f, m) PROVE ImportTypeOK'
  <2>1. entries' = [entries EXCEPT ![f] = m]
    BY <1>13 DEF MapFile
  <2>2. DOMAIN entries \subseteq Files /\ entries \in [DOMAIN entries -> Mappings]
    BY EntriesAre
  <2>3. entries' \in [DOMAIN entries -> Mappings]
    BY <2>1, <2>2
  <2>4. entries' \in Mapped
    BY <2>2, <2>3, EntriesAre
  <2>5. meddled' \in BOOLEAN
    BY <1>6, <1>13 DEF MapFile
  <2> QED
    BY <1>13, <2>4, <2>5 DEF MapFile
<1>14. CASE UNCHANGED importVars \/ UNCHANGED importOwnVars
  BY <1>14 DEF importVars, importOwnVars
<1> QED
  BY <1>1, <1>2, <1>3, <1>4, <1>5, <1>7, <1>8, <1>9, <1>10, <1>11, <1>12, <1>13, <1>14 DEF ImportNext

-----------------------------------------------------------------------------
(***************************************************************************)
(* The event form.                                                          *)
(***************************************************************************)
EventInv ==
  /\ s6 \in EventDeals \cup {None} /\ {s7, s8} \subseteq AtEvent!Minutes
  /\ AtEvent!OwnTitleStays /\ AtEvent!PickedSlotIsValid

LEMMA EventBounds ==
  /\ Quarter \in Nat \ {0} /\ LastOption \in Nat /\ DayEnd \in Nat /\ LastOption < DayEnd
  /\ Quarter <= DayEnd /\ LastOption % Quarter = 0 /\ DayEnd < LastOption + Quarter
  /\ None \notin EventDeals /\ "own" \notin EventDeals /\ "own" # "" /\ "own" # None
<1>1. /\ Quarter \in Nat /\ LastOption \in Nat /\ DayEnd \in Nat /\ Quarter > 0
      /\ Quarter <= DayEnd /\ LastOption < DayEnd /\ DayEnd < LastOption + Quarter
  BY DealsAssumption DEF AtEvent!EventFormAssumption
<1>2. LastOption % Quarter = 0
  BY DealsAssumption DEF AtEvent!EventFormAssumption
<1>3. None \notin EventDeals /\ "own" \notin EventDeals /\ "own" # None
  BY DealsAssumption DEF AtEvent!EventFormAssumption
<1> QED
  BY <1>1, <1>2, <1>3

\* The day ends before another step would begin.
LEMMA HoursEndInTheDay == \A h \in AtEvent!Hours : h < DayEnd
<1> SUFFICES ASSUME NEW h \in AtEvent!Hours PROVE h < DayEnd
  OBVIOUS
<1> DEFINE p == h \div Quarter
           q == LastOption \div Quarter
<1>1. h \in Nat /\ h <= DayEnd /\ h % Quarter = 0 /\ LastOption % Quarter = 0 /\ DayEnd < LastOption + Quarter
  BY EventBounds DEF AtEvent!Hours, AtEvent!Minutes
<1>2. p \in Int /\ q \in Int /\ h = Quarter * p + (h % Quarter) /\ LastOption = Quarter * q + (LastOption % Quarter)
  BY <1>1, EventBounds
<1> HIDE DEF p, q
<1>3. h = Quarter * p /\ LastOption = Quarter * q
  BY <1>1, <1>2, EventBounds
<1>4. Quarter * p < Quarter * (q + 1)
  BY <1>1, <1>2, <1>3, EventBounds
<1>5. p < q + 1
  BY <1>2, <1>4, EventBounds
<1>6. p <= q
  BY <1>2, <1>5
<1>7. Quarter * p <= Quarter * q
  BY <1>2, <1>6, EventBounds
<1> QED
  BY <1>1, <1>3, <1>7, EventBounds

LEMMA DefaultSlotIsValid ==
  ASSUME NEW h \in AtEvent!Hours, AtEvent!DefaultSlot(h)
  PROVE  {s7, s8}' \subseteq AtEvent!Minutes /\ s8' > s7'
<1>1. h \in Nat /\ h < DayEnd /\ s7' = h /\ s8' = IF h + Quarter > DayEnd THEN DayEnd ELSE h + Quarter
  BY HoursEndInTheDay DEF AtEvent!Hours, AtEvent!Minutes, AtEvent!DefaultSlot
<1> QED
  BY <1>1, EventBounds DEF AtEvent!Minutes

LEMMA FillingInIsValid ==
  ASSUME s6 \in EventDeals \cup {None}, NEW mode, NEW e, NEW g, NEW h \in AtEvent!Hours, AtEvent!FillIn(mode, e, g, h)
  PROVE  {s7, s8}' \subseteq AtEvent!Minutes /\ s8' > s7' /\ s6' \in EventDeals \cup {None}
  BY DefaultSlotIsValid DEF AtEvent!FillIn

LEMMA EventStarts == AtEvent!EventInit => EventInv
<1> SUFFICES ASSUME AtEvent!EventInit PROVE EventInv
  OBVIOUS
<1>1. s2 = "no" /\ s6 = None /\ s7 = 0 /\ s8 = Quarter
  BY DEF AtEvent!EventInit
<1>2. {0, Quarter} \subseteq AtEvent!Minutes
  BY EventBounds DEF AtEvent!Minutes
<1> QED
  BY <1>1, <1>2 DEF EventInv, AtEvent!OwnTitleStays, AtEvent!PickedSlotIsValid

\* Picked times make a slot the form takes.
LEMMA SlotsStayValid ==
  ASSUME EventInv, NEW s \in AtEvent!Minutes, NEW e \in AtEvent!Minutes, AtEvent!Slots(s, e), ~s23' => ~s23 /\ e > s
  PROVE  EventInv'
<1>1. UNCHANGED <<s2, s5, s6, s20, s21>> /\ s7' = s /\ s8' = e /\ s2 # "no"
  BY DEF AtEvent!Slots, AtEvent!Edits
<1> QED
  BY <1>1 DEF EventInv, AtEvent!OwnTitleStays, AtEvent!PickedSlotIsValid

LEMMA EventStays == EventInv /\ [AtEvent!EventNext]_AtEvent!eventVars => EventInv'
<1> SUFFICES ASSUME EventInv, [AtEvent!EventNext]_AtEvent!eventVars PROVE EventInv'
  OBVIOUS
<1>0. s7 \in AtEvent!Minutes /\ s8 \in AtEvent!Minutes /\ AtEvent!Minutes \subseteq Nat /\ Quarter \in Nat \ {0}
  BY EventBounds DEF EventInv, AtEvent!Minutes
<1>1. ASSUME NEW mode \in {"create", "edit"}, NEW e, AtEvent!OpenForm(mode, e) PROVE EventInv'
  <2>1. PICK h \in AtEvent!Hours : AtEvent!FillIn(mode, e, s10, h)
    BY <1>1 DEF AtEvent!OpenForm
  <2>2. s20' = None
    BY <1>1 DEF AtEvent!OpenForm
  <2> QED
    BY <2>1, <2>2, FillingInIsValid, EventBounds DEF EventInv, AtEvent!OwnTitleStays, AtEvent!PickedSlotIsValid
<1>2. CASE AtEvent!StatusArrives
  <2>1. PICK h \in AtEvent!Hours : AtEvent!FillIn(s2, s3, s11, h)
    BY <1>2 DEF AtEvent!StatusArrives
  <2>2. s21'
    BY <1>2 DEF AtEvent!StatusArrives
  <2> QED
    BY <2>1, <2>2, FillingInIsValid DEF EventInv, AtEvent!OwnTitleStays, AtEvent!PickedSlotIsValid
<1>3. ASSUME NEW w \in {"", "own"}, AtEvent!TypeTitle(w) PROVE EventInv'
  <2>1. s5' = s20' /\ UNCHANGED <<s2, s6, s7, s8, s23>>
    BY <1>3 DEF AtEvent!TypeTitle, AtEvent!Edits, AtEvent!Times
  <2> QED
    BY <2>1 DEF EventInv, AtEvent!OwnTitleStays, AtEvent!PickedSlotIsValid
<1>4. ASSUME NEW d \in EventDeals, AtEvent!PickDeal(d) PROVE EventInv'
  <2>1. UNCHANGED <<s2, s7, s8, s23, s20, s21>> /\ s6' \in {s6, d} /\ s2 # "no"
    BY <1>4 DEF AtEvent!PickDeal, AtEvent!Edits, AtEvent!Times, AtEvent!NamedAfter
  <2>2. s5 = "own" => s5' = s5
    BY <1>4, EventBounds DEF AtEvent!PickDeal, AtEvent!NamedAfter, EventInv
  <2> QED
    BY <2>1, <2>2 DEF EventInv, AtEvent!OwnTitleStays, AtEvent!PickedSlotIsValid
<1>5. ASSUME NEW m \in AtEvent!Minutes, AtEvent!PickStart(m) PROVE EventInv'
  <2>1. AtEvent!Slots(m, AtEvent!ShiftEnd(m)) /\ s23' = s23 /\ m \in AtEvent!StartOptions /\ s2 # "no"
    BY <1>5 DEF AtEvent!PickStart, AtEvent!Slots, AtEvent!Edits
  <2>2. ~s23 => s8 > s7
    BY <2>1 DEF EventInv, AtEvent!PickedSlotIsValid
  <2>3. m \in Nat /\ (m <= LastOption \/ m = s7) /\ m <= DayEnd
    BY <1>0, <2>1, EventBounds DEF AtEvent!StartOptions, AtEvent!Minutes
  <2>4. AtEvent!ShiftEnd(m) \in AtEvent!Minutes /\ (~s23 => AtEvent!ShiftEnd(m) > m)
    BY <1>0, <2>2, <2>3, EventBounds DEF AtEvent!ShiftEnd, AtEvent!Clamp, AtEvent!Minutes
  <2> QED
    BY <2>1, <2>4, SlotsStayValid
<1>6. ASSUME NEW m \in AtEvent!Minutes, AtEvent!PickEnd(m) PROVE EventInv'
  <2>1. AtEvent!Slots(s7, m) /\ s23' = s23 /\ m \in AtEvent!EndOptions
    BY <1>6 DEF AtEvent!PickEnd
  <2>2. m > s7
    BY <1>0, <2>1, EventBounds DEF AtEvent!EndOptions
  <2> QED
    BY <1>0, <2>1, <2>2, SlotsStayValid
<1>7. ASSUME NEW m \in AtEvent!Minutes, AtEvent!TypeStart(m) PROVE EventInv'
  <2>1. AtEvent!ShiftEnd(m) \in AtEvent!Minutes
    BY <1>0, EventBounds DEF AtEvent!ShiftEnd, AtEvent!Clamp, AtEvent!Minutes
  <2> QED
    BY <1>7, <2>1, SlotsStayValid DEF AtEvent!TypeStart
<1>8. ASSUME NEW m \in AtEvent!Minutes, AtEvent!TypeEnd(m) PROVE EventInv'
  BY <1>0, <1>8, SlotsStayValid DEF AtEvent!TypeEnd
\* The rest of the form and of the page leaves the title and the times alone.
<1>9. ASSUME UNCHANGED <<s5, s6, s7, s8, s20, s21, s23>>, s2' \in {s2, "no"} PROVE EventInv'
  BY <1>9 DEF EventInv, AtEvent!OwnTitleStays, AtEvent!PickedSlotIsValid
<1>10. CASE AtEvent!SearchAgain \/ AtEvent!ToggleAllDay \/ AtEvent!ToggleGoogle \/ AtEvent!ToggleMeet \/ AtEvent!ToggleLabel \/ AtEvent!MakeLabel
  BY <1>9, <1>10 DEF AtEvent!SearchAgain, AtEvent!ToggleAllDay, AtEvent!ToggleGoogle, AtEvent!ToggleMeet,
     AtEvent!ToggleLabel, AtEvent!MakeLabel, AtEvent!Edits, AtEvent!Times
<1>11. CASE AtEvent!ConnectionTurns \/ AtEvent!LabelIsMade \/ AtEvent!Submit \/ AtEvent!SaveAnswers \/ AtEvent!Close
  BY <1>9, <1>11 DEF AtEvent!ConnectionTurns, AtEvent!LabelIsMade, AtEvent!Submit, AtEvent!SaveAnswers,
     AtEvent!Close, AtEvent!Times, AtEvent!formVars, AtEvent!ghostVars
<1>12. ASSUME AtEvent!CancelDelete \/ AtEvent!ConfirmDelete \/ AtEvent!DeleteSettles \/ (\E e \in Events : AtEvent!AskDelete(e)) \/ UNCHANGED AtEvent!eventVars
       PROVE  EventInv'
  BY <1>9, <1>12 DEF AtEvent!CancelDelete, AtEvent!ConfirmDelete, AtEvent!DeleteSettles, AtEvent!AskDelete,
     AtEvent!formVars, AtEvent!ghostVars, AtEvent!eventVars
<1> QED
  BY <1>1, <1>2, <1>3, <1>4, <1>5, <1>6, <1>7, <1>8, <1>10, <1>11, <1>12 DEF AtEvent!EventNext,
     AtEvent!OpenCreate, AtEvent!OpenEdit

\* The rest of the event form: its mode, its boxes, and what is saved and deleted.
EventTyped ==
  /\ s1 \in {"calendar", "deal"} /\ s2 \in {"no", "create", "edit"}
  /\ {s3, s18, s19} \subseteq Events \cup {None} /\ s4 \in EventDeals \cup {None}
  /\ {s5, s16.title} \subseteq AtEvent!Titles /\ DOMAIN s17 = Events /\ s20 \in {None, "own", ""}

BoxesTyped == {s9, s10, s11, s12, s13, s21, s22, s23} \subseteq BOOLEAN

LEMMA EventTypes == EventInv /\ EventTyped /\ BoxesTyped => AtEvent!EventTypeOK
  BY DEF EventInv, EventTyped, BoxesTyped, AtEvent!EventTypeOK

LEMMA EventTypesStart == AtEvent!EventInit => EventTyped /\ BoxesTyped
<1> SUFFICES ASSUME AtEvent!EventInit PROVE EventTyped /\ BoxesTyped
  OBVIOUS
<1>1. EventTyped
  BY DEF AtEvent!EventInit, EventTyped, AtEvent!NoFlight, AtEvent!Titles
<1>2. s10 \in BOOLEAN /\ s11 = s10
  BY Zenon DEF AtEvent!EventInit
<1>3. s9 = FALSE /\ s12 = FALSE /\ s13 = FALSE /\ s21 = FALSE /\ s22 = FALSE /\ s23 = FALSE
  BY Zenon DEF AtEvent!EventInit
<1> QED
  BY <1>1, <1>2, <1>3 DEF BoxesTyped

\* What each step makes of the form, of the page and of the boxes.
LEMMA FormMoves ==
  ASSUME [AtEvent!EventNext]_AtEvent!eventVars
  PROVE  /\ s1' = s1 /\ s2' \in {s2, "no", "create", "edit"}
         /\ s4' \in {s4, None} \cup EventDeals
         /\ s5' \in {s5, "", "own", "stored", Home} \cup EventDeals
         /\ s20' \in {s20, None, "own", ""}
<1> USE DEF AtEvent!EventNext, AtEvent!OpenCreate, AtEvent!OpenEdit, AtEvent!OpenForm, AtEvent!StatusArrives,
        AtEvent!FillIn, AtEvent!DefaultSlot, AtEvent!ConnectionTurns, AtEvent!Edits, AtEvent!Times,
        AtEvent!Copy, AtEvent!LabelVars, AtEvent!TypeTitle, AtEvent!PickDeal, AtEvent!NamedAfter,
        AtEvent!SearchAgain, AtEvent!Slots, AtEvent!PickStart, AtEvent!PickEnd, AtEvent!TypeStart,
        AtEvent!TypeEnd, AtEvent!ToggleAllDay, AtEvent!ToggleGoogle, AtEvent!ToggleMeet, AtEvent!ToggleLabel,
        AtEvent!MakeLabel, AtEvent!LabelIsMade, AtEvent!Submit, AtEvent!SaveAnswers, AtEvent!Close,
        AtEvent!AskDelete, AtEvent!CancelDelete, AtEvent!ConfirmDelete, AtEvent!DeleteSettles,
        AtEvent!eventVars, AtEvent!formVars, AtEvent!ghostVars, AtEvent!pageVars, AtEvent!serverVars,
        AtEvent!Tap
<1>1. s1' = s1
  OBVIOUS
<1>2. s2' \in {s2, "no", "create", "edit"}
  OBVIOUS
<1>3. s4' \in {s4, None} \cup EventDeals
  OBVIOUS
<1>4. s5' \in {s5, "", "own", "stored", Home} \cup EventDeals
  OBVIOUS
<1>5. s20' \in {s20, None, "own", ""}
  OBVIOUS
<1> QED
  BY <1>1, <1>2, <1>3, <1>4, <1>5

LEMMA PageMoves ==
  ASSUME [AtEvent!EventNext]_AtEvent!eventVars
  PROVE  /\ s3' \in {s3, None} \cup Events /\ s18' \in {s18, None} \cup Events /\ s19' \in {s19, None, s18}
         /\ s16' \in {s16, AtEvent!NoFlight} \/ s16'.title = s5
         /\ DOMAIN s17' = DOMAIN s17
<1> USE DEF AtEvent!EventNext, AtEvent!OpenCreate, AtEvent!OpenEdit, AtEvent!OpenForm, AtEvent!StatusArrives,
        AtEvent!FillIn, AtEvent!DefaultSlot, AtEvent!ConnectionTurns, AtEvent!Edits, AtEvent!Times,
        AtEvent!Copy, AtEvent!LabelVars, AtEvent!TypeTitle, AtEvent!PickDeal, AtEvent!NamedAfter,
        AtEvent!SearchAgain, AtEvent!Slots, AtEvent!PickStart, AtEvent!PickEnd, AtEvent!TypeStart,
        AtEvent!TypeEnd, AtEvent!ToggleAllDay, AtEvent!ToggleGoogle, AtEvent!ToggleMeet, AtEvent!ToggleLabel,
        AtEvent!MakeLabel, AtEvent!LabelIsMade, AtEvent!Submit, AtEvent!SaveAnswers, AtEvent!Close,
        AtEvent!AskDelete, AtEvent!CancelDelete, AtEvent!ConfirmDelete, AtEvent!DeleteSettles,
        AtEvent!eventVars, AtEvent!formVars, AtEvent!ghostVars, AtEvent!pageVars, AtEvent!serverVars,
        AtEvent!Tap
<1>1. s3' \in {s3, None} \cup Events
  OBVIOUS
<1>2. s18' \in {s18, None} \cup Events
  OBVIOUS
<1>3. s19' \in {s19, None, s18}
  OBVIOUS
<1>4. s16' \in {s16, AtEvent!NoFlight} \/ s16'.title = s5
  <2>1. CASE AtEvent!Submit
    BY <2>1 DEF AtEvent!Submit
  <2>2. CASE ~AtEvent!Submit
    BY <2>2
  <2> QED
    BY <2>1, <2>2
<1>5. DOMAIN s17' = DOMAIN s17
  OBVIOUS
<1> QED
  BY <1>1, <1>2, <1>3, <1>4, <1>5

LEMMA EventTypesStay == EventTyped /\ [AtEvent!EventNext]_AtEvent!eventVars => EventTyped'
<1> SUFFICES ASSUME EventTyped, [AtEvent!EventNext]_AtEvent!eventVars PROVE EventTyped'
  OBVIOUS
<1>1. Home \in EventDeals
  BY DealsAssumption DEF AtEvent!EventFormAssumption
<1>2. AtEvent!NoFlight.title \in AtEvent!Titles
  BY DEF AtEvent!NoFlight, AtEvent!Titles
<1>3. s16'.title \in AtEvent!Titles
  BY <1>2, PageMoves DEF EventTyped
<1>4. s5' \in AtEvent!Titles
  BY <1>1, FormMoves DEF EventTyped, AtEvent!Titles
<1>5. s1' \in {"calendar", "deal"} /\ s2' \in {"no", "create", "edit"} /\ s4' \in EventDeals \cup {None} /\ s20' \in {None, "own", ""}
  BY FormMoves DEF EventTyped
<1>6. {s3', s18', s19'} \subseteq Events \cup {None} /\ DOMAIN s17' = Events
  BY PageMoves DEF EventTyped
<1> QED
  BY <1>3, <1>4, <1>5, <1>6 DEF EventTyped

LEMMA BoxesStayTyped == BoxesTyped /\ [AtEvent!EventNext]_AtEvent!eventVars => BoxesTyped'
<1> SUFFICES ASSUME BoxesTyped, [AtEvent!EventNext]_AtEvent!eventVars PROVE BoxesTyped'
  OBVIOUS
<1> USE DEF BoxesTyped
<1>1. ASSUME NEW mode, NEW e, AtEvent!OpenForm(mode, e) PROVE BoxesTyped'
  <2>1. PICK h \in AtEvent!Hours : AtEvent!FillIn(mode, e, s10, h)
    BY <1>1 DEF AtEvent!OpenForm
  <2>2. s9' \in BOOLEAN /\ s13' \in BOOLEAN /\ s12' \in {FALSE, s10}
    BY <2>1 DEF AtEvent!FillIn
  <2>3. s21' = FALSE /\ s22' = FALSE /\ s23' = FALSE /\ s10' = s10 /\ s11' = s11
    BY <1>1 DEF AtEvent!OpenForm, AtEvent!serverVars
  <2> QED
    BY <2>2, <2>3
<1>2. CASE AtEvent!StatusArrives
  <2>1. PICK h \in AtEvent!Hours : AtEvent!FillIn(s2, s3, s11, h)
    BY <1>2 DEF AtEvent!StatusArrives
  <2>2. s9' \in BOOLEAN /\ s13' \in BOOLEAN /\ s12' \in {FALSE, s11}
    BY <2>1 DEF AtEvent!FillIn
  <2>3. s21' = TRUE /\ s22' = s22 /\ s23' = s23 /\ s10' = s11 /\ s11' = s11
    BY <1>2 DEF AtEvent!StatusArrives, AtEvent!serverVars
  <2> QED
    BY <2>2, <2>3
<1>3. CASE AtEvent!ConnectionTurns
  BY <1>3 DEF AtEvent!ConnectionTurns, AtEvent!formVars, AtEvent!ghostVars
<1>4. ASSUME NEW w \in {"", "own"}, AtEvent!TypeTitle(w) PROVE BoxesTyped'
  BY <1>4 DEF AtEvent!TypeTitle, AtEvent!Edits, AtEvent!Times, AtEvent!Copy, AtEvent!serverVars
<1>5. ASSUME NEW d \in EventDeals, AtEvent!PickDeal(d) PROVE BoxesTyped'
  BY <1>5 DEF AtEvent!PickDeal, AtEvent!Edits, AtEvent!Times, AtEvent!Copy, AtEvent!serverVars
<1>6. CASE AtEvent!SearchAgain
  BY <1>6 DEF AtEvent!SearchAgain, AtEvent!Edits, AtEvent!Times, AtEvent!Copy, AtEvent!serverVars
<1>7. ASSUME NEW s, NEW e, AtEvent!Slots(s, e), s23' = s23 \/ s23' = TRUE PROVE BoxesTyped'
  BY <1>7 DEF AtEvent!Slots, AtEvent!Edits, AtEvent!Copy, AtEvent!serverVars
<1>8. ASSUME NEW m \in AtEvent!Minutes, AtEvent!PickStart(m) \/ AtEvent!PickEnd(m) \/ AtEvent!TypeStart(m) \/ AtEvent!TypeEnd(m)
      PROVE  BoxesTyped'
  BY <1>7, <1>8 DEF AtEvent!PickStart, AtEvent!PickEnd, AtEvent!TypeStart, AtEvent!TypeEnd
<1>9. CASE AtEvent!ToggleAllDay
  BY <1>9 DEF AtEvent!ToggleAllDay, AtEvent!Edits, AtEvent!Copy, AtEvent!serverVars
<1>10. CASE AtEvent!ToggleGoogle
  <2>1. s12' = ~s12 /\ s13' = (s13 /\ s12') /\ UNCHANGED <<s9, s10, s11, s21, s22, s23>>
    BY <1>10 DEF AtEvent!ToggleGoogle, AtEvent!Edits, AtEvent!Times, AtEvent!serverVars
  <2>2. s12' \in BOOLEAN
    BY <2>1
  <2>3. s13' \in BOOLEAN
    BY <2>1, <2>2
  <2> QED
    BY <2>1, <2>2, <2>3
<1>11. CASE AtEvent!ToggleMeet
  BY <1>11 DEF AtEvent!ToggleMeet, AtEvent!Edits, AtEvent!Times, AtEvent!serverVars
<1>12. CASE AtEvent!ToggleLabel \/ AtEvent!MakeLabel
  BY <1>12 DEF AtEvent!ToggleLabel, AtEvent!MakeLabel, AtEvent!Edits, AtEvent!Times, AtEvent!Copy, AtEvent!serverVars
<1>13. ASSUME UNCHANGED <<s9, s10, s11, s12, s13, s21, s22, s23>> PROVE BoxesTyped'
  BY <1>13
<1>14. CASE AtEvent!LabelIsMade \/ AtEvent!Submit \/ AtEvent!SaveAnswers \/ AtEvent!Close
  BY <1>13, <1>14 DEF AtEvent!LabelIsMade, AtEvent!Submit, AtEvent!SaveAnswers, AtEvent!Close, AtEvent!Times, AtEvent!Copy,
     AtEvent!formVars, AtEvent!ghostVars, AtEvent!serverVars
<1>15. CASE AtEvent!CancelDelete \/ AtEvent!ConfirmDelete \/ AtEvent!DeleteSettles \/ \E e \in Events : AtEvent!AskDelete(e)
  BY <1>13, <1>15 DEF AtEvent!CancelDelete, AtEvent!ConfirmDelete, AtEvent!DeleteSettles, AtEvent!AskDelete,
     AtEvent!formVars, AtEvent!ghostVars, AtEvent!serverVars
<1>16. CASE UNCHANGED AtEvent!eventVars
  BY <1>13, <1>16 DEF AtEvent!eventVars, AtEvent!formVars, AtEvent!ghostVars, AtEvent!serverVars
<1> QED
  BY <1>1, <1>2, <1>3, <1>4, <1>5, <1>6, <1>8, <1>9, <1>10, <1>11, <1>12, <1>14, <1>15, <1>16
     DEF AtEvent!EventNext, AtEvent!OpenCreate, AtEvent!OpenEdit

-----------------------------------------------------------------------------
(***************************************************************************)
(* The reminders of an event.                                               *)
(***************************************************************************)
Reminder == [minutes : AtReminders!Minutes, who : Nat]

RowsTyped ==
  /\ s1 \in Seq(Reminder) /\ s2 \in Seq(Nat) /\ Len(s2) = Len(s1) /\ Len(s1) \in Nat
  /\ s6 \in Nat /\ s3 \in Nat /\ s4 \subseteq Nat /\ s5 \subseteq Nat

\* The rows have keys and reminders of their own, and no number is given twice.
RowsApart ==
  /\ \A i \in 1 .. Len(s1) : /\ s2[i] \in Nat /\ s2[i] < s3
                             /\ s1[i].who \in Nat /\ s1[i].who <= s6
  /\ \A k \in s4 : k < s3
  /\ \A w \in s5 : w <= s6
  /\ \A i, j \in 1 .. Len(s1) : i # j => s2[i] # s2[j] /\ s1[i].who # s1[j].who

RowsSwitched ==
  ~s7 => \A i \in 1 .. Len(s1) : s2[i] \in s4 <=> s1[i].who \in s5

RowsInv == RowsTyped /\ RowsApart /\ RowsSwitched

LEMMA RowsAreOfTheirReminders == RowsInv => AtReminders!SwitchIsItsReminders
  BY DEF RowsInv, RowsTyped, RowsSwitched, AtReminders!SwitchIsItsReminders

LEMMA RowsStart == AtReminders!RemindersInit => RowsInv
  BY DEF AtReminders!RemindersInit, RowsInv, RowsTyped, RowsApart, RowsSwitched

LEMMA FreshRows ==
  ASSUME NEW list \in Loaded, NEW b \in Nat, b = s6
  PROVE  /\ Len(list) \in Nat /\ AtReminders!Fresh(list) \in Seq(Reminder) /\ Len(AtReminders!Fresh(list)) = Len(list)
         /\ \A i \in 1 .. Len(list) : AtReminders!Fresh(list)[i].who = b + i
<1>1. list \in Seq(AtReminders!Minutes) /\ Len(list) \in Nat /\ DOMAIN list = 1 .. Len(list)
  BY DealsAssumption DEF AtReminders!RemindersAssumption, AtReminders!Minutes
<1>2. \A i \in 1 .. Len(list) : list[i] \in AtReminders!Minutes
  BY <1>1
<1> DEFINE f == AtReminders!Fresh(list)
<1>3. f = [i \in 1 .. Len(list) |-> [minutes |-> list[i], who |-> b + i]]
  BY <1>1 DEF AtReminders!Fresh
<1>4. f \in Seq(Reminder) /\ Len(f) = Len(list)
  BY <1>1, <1>2, <1>3, IsASeq DEF Reminder
<1> QED
  BY <1>1, <1>3, <1>4

LEMMA FreshKeysAre ==
  ASSUME NEW n \in Nat, NEW from \in Nat
  PROVE  /\ AtReminders!FreshKeys(from, n) \in Seq(Nat) /\ Len(AtReminders!FreshKeys(from, n)) = n
         /\ \A i \in 1 .. n : AtReminders!FreshKeys(from, n)[i] = from + i - 1
<1> DEFINE k == AtReminders!FreshKeys(from, n)
<1>1. k = [i \in 1 .. n |-> from + i - 1]
  BY DEF AtReminders!FreshKeys
<1>2. k \in Seq(Nat) /\ Len(k) = n
  BY <1>1, IsASeq
<1> QED
  BY <1>1, <1>2

LEMMA FillingKeepsRows ==
  ASSUME RowsInv, NEW list \in Loaded, AtReminders!Open(list) \/ AtReminders!Replace(list)
  PROVE  RowsInv'
<1> DEFINE n == Len(list)
           kept == AtReminders!Replace(list) /\ n = Len(s1)
           from == IF AtReminders!Open(list) THEN 0 ELSE s3
<1>0. /\ s6 \in Nat /\ s3 \in Nat /\ s4 \subseteq Nat /\ \A k \in s4 : k < s3
      /\ s2 \in Seq(Nat) /\ Len(s2) = Len(s1) /\ Len(s1) \in Nat
  BY DEF RowsInv, RowsTyped, RowsApart
<1>1. n \in Nat /\ s1' = AtReminders!Fresh(list) /\ s6' = s6 + n /\ s5' = {}
  BY <1>0, FreshRows DEF AtReminders!Open, AtReminders!Replace
<1>2. s1' \in Seq(Reminder) /\ Len(s1') = n /\ \A i \in 1 .. n : s1'[i].who = s6 + i
  BY <1>0, <1>1, FreshRows
<1>3. from \in Nat
  BY <1>0
<1>4. /\ AtReminders!FreshKeys(from, n) \in Seq(Nat) /\ Len(AtReminders!FreshKeys(from, n)) = n
      /\ \A i \in 1 .. n : AtReminders!FreshKeys(from, n)[i] = from + i - 1
  <2> HIDE DEF from, n
  <2> QED
    BY <1>1, <1>3, FreshKeysAre
<1>5. CASE AtReminders!Open(list)
  <2>1. s2' = AtReminders!FreshKeys(from, n) /\ s3' = from + n /\ s4' = {} /\ from = 0
    BY <1>1, <1>5 DEF AtReminders!Open
  <2> HIDE DEF n, from
  <2>2. RowsTyped'
    BY <1>0, <1>1, <1>2, <1>3, <1>4, <2>1 DEF RowsTyped
  <2>3. \A i \in 1 .. n : s2'[i] = i - 1 /\ s1'[i].who = s6 + i
    BY <1>0, <1>1, <1>2, <1>4, <2>1
  <2>4. RowsApart' /\ RowsSwitched'
    BY <1>0, <1>1, <1>2, <2>1, <2>3 DEF RowsApart, RowsSwitched
  <2> QED
    BY <2>2, <2>4 DEF RowsInv
<1>6. CASE AtReminders!Replace(list) /\ ~AtReminders!Open(list) /\ n # Len(s1)
  <2>1. s2' = AtReminders!FreshKeys(from, n) /\ s3' = from + n /\ from = s3 /\ UNCHANGED s4
    BY <1>6 DEF AtReminders!Replace
  <2> HIDE DEF n, from
  <2>2. RowsTyped'
    BY <1>0, <1>1, <1>2, <1>3, <1>4, <2>1 DEF RowsTyped
  <2>3. \A i \in 1 .. n : s2'[i] = s3 + i - 1 /\ s1'[i].who = s6 + i
    BY <1>0, <1>1, <1>2, <1>4, <2>1
  <2>4. \A k \in s4 : k \in Nat /\ k < s3
    BY <1>0
  <2>5. \A i \in 1 .. n : s2'[i] \notin s4
    BY <1>0, <1>1, <2>3, <2>4
  <2>6. RowsApart'
    <3>1. \A k \in s4 : k < s3 + n
      BY <1>0, <1>1, <2>4
    <3>2. \A i \in 1 .. n : /\ s2'[i] \in Nat /\ s2'[i] < s3 + n
                            /\ s1'[i].who \in Nat /\ s1'[i].who <= s6 + n
      BY <1>0, <1>1, <2>3
    <3>3. \A i, j \in 1 .. n : i # j => s2'[i] # s2'[j] /\ s1'[i].who # s1'[j].who
      BY <1>0, <1>1, <2>3
    <3> QED
      BY <1>1, <1>2, <2>1, <3>1, <3>2, <3>3 DEF RowsApart
  <2>7. RowsSwitched'
    BY <1>1, <1>2, <2>1, <2>5 DEF RowsSwitched
  <2> QED
    BY <2>2, <2>6, <2>7 DEF RowsInv
<1>7. CASE AtReminders!Replace(list) /\ ~AtReminders!Open(list) /\ n = Len(s1)
  <2>1. UNCHANGED <<s2, s3, s4>> /\ s7' = (s7 \/ list # << >>)
    BY <1>7 DEF AtReminders!Replace
  <2>2. \A i \in 1 .. n : s2[i] \in Nat /\ s2[i] < s3
    BY <1>7 DEF RowsInv, RowsApart
  <2>3. \A i, j \in 1 .. n : i # j => s2[i] # s2[j]
    BY <1>7 DEF RowsInv, RowsApart
  <2>4. list = << >> => n = 0
    OBVIOUS
  <2> HIDE DEF n, from
  <2>5. RowsTyped'
    BY <1>0, <1>1, <1>2, <1>7, <2>1 DEF RowsTyped
  <2>6. RowsApart'
    <3>1. \A i \in 1 .. n : s1'[i].who \in Nat /\ s1'[i].who <= s6 + n
      BY <1>0, <1>1, <1>2
    <3>2. \A i, j \in 1 .. n : i # j => s1'[i].who # s1'[j].who
      BY <1>0, <1>1, <1>2
    <3> QED
      BY <1>0, <1>1, <1>2, <2>1, <2>2, <2>3, <3>1, <3>2 DEF RowsApart
  <2>7. RowsSwitched'
    <3>1. CASE list = << >>
      BY <1>2, <2>4, <3>1 DEF RowsSwitched
    <3>2. CASE list # << >>
      BY <2>1, <3>2 DEF RowsSwitched
    <3> QED
      BY <3>1, <3>2
  <2> QED
    BY <2>5, <2>6, <2>7 DEF RowsInv
<1> QED
  BY <1>5, <1>6, <1>7

LEMMA AddingKeepsRows ==
  ASSUME RowsInv, AtReminders!Add
  PROVE  RowsInv'
<1> DEFINE new == [minutes |-> Default, who |-> s6 + 1]
           n == Len(s1)
<1>0. s6 \in Nat /\ s3 \in Nat /\ n \in Nat
  BY DEF RowsInv, RowsTyped
<1>1. s1 \in Seq(Reminder) /\ s2 \in Seq(Nat) /\ Len(s2) = n
  BY DEF RowsInv, RowsTyped
<1>2. new \in Reminder /\ new.who = s6 + 1
  BY <1>0, DealsAssumption DEF AtReminders!RemindersAssumption, AtReminders!Minutes, Reminder
<1>3. /\ s1' = Append(s1, new) /\ s2' = Append(s2, s3) /\ s6' = s6 + 1
      /\ s3' = s3 + 1 /\ UNCHANGED <<s4, s5, s7>>
  BY DEF AtReminders!Add
<1> HIDE DEF new
<1>4. /\ s1' \in Seq(Reminder) /\ Len(s1') = n + 1
      /\ \A i \in 1 .. n : s1'[i] = s1[i]
      /\ s1'[n + 1] = new
  BY <1>1, <1>2, <1>3, AppendProperties
<1>5. /\ s2' \in Seq(Nat) /\ Len(s2') = n + 1
      /\ \A i \in 1 .. n : s2'[i] = s2[i]
      /\ s2'[n + 1] = s3
  BY <1>0, <1>1, <1>3, AppendProperties
<1>6. RowsTyped'
  BY <1>0, <1>3, <1>4, <1>5 DEF RowsInv, RowsTyped
<1>7. /\ \A i \in 1 .. n : /\ s2[i] \in Nat /\ s2[i] < s3
                           /\ s1[i].who \in Nat /\ s1[i].who <= s6
      /\ \A k \in s4 : k \in Nat /\ k < s3
      /\ \A w \in s5 : w \in Nat /\ w <= s6
      /\ \A i, j \in 1 .. n : i # j => s2[i] # s2[j] /\ s1[i].who # s1[j].who
  BY DEF RowsInv, RowsApart, RowsTyped
<1>8. RowsSwitched
  BY DEF RowsInv
\* What the rows hold, as two functions of their places.
<1> DEFINE key(i) == IF i = n + 1 THEN s3 ELSE s2[i]
           who(i) == IF i = n + 1 THEN s6 + 1 ELSE s1[i].who
<1>9. \A i \in 1 .. n + 1 : s2'[i] = key(i) /\ s1'[i].who = who(i) /\ (i \in 1 .. n \/ i = n + 1)
  BY <1>0, <1>2, <1>4, <1>5
<1> HIDE DEF n
<1>10. /\ \A i \in 1 .. n + 1 : /\ key(i) \in Nat /\ key(i) < s3 + 1 /\ who(i) \in Nat /\ who(i) <= s6 + 1
       /\ \A i, j \in 1 .. n + 1 : i # j => key(i) # key(j) /\ who(i) # who(j)
  BY <1>0, <1>7
<1>11. \A k \in s4 : k < s3 + 1
  BY <1>0, <1>7
<1>12. \A w \in s5 : w <= s6 + 1
  BY <1>0, <1>7
<1> HIDE DEF key, who
<1>13. RowsApart'
  <2>1. \A i \in 1 .. n + 1 : /\ s2'[i] \in Nat /\ s2'[i] < s3 + 1
                              /\ s1'[i].who \in Nat /\ s1'[i].who <= s6 + 1
    BY <1>9, <1>10
  <2>2. \A i, j \in 1 .. n + 1 : i # j => s2'[i] # s2'[j] /\ s1'[i].who # s1'[j].who
    BY <1>9, <1>10
  <2> QED
    <3>1. Len(s1') = n + 1 /\ s3' = s3 + 1 /\ s6' = s6 + 1
      BY <1>3, <1>4
    <3>2. s4' = s4 /\ s5' = s5
      BY <1>3
    <3> QED
      BY <1>11, <1>12, <2>1, <2>2, <3>1, <3>2 DEF RowsApart
<1>14. RowsSwitched'
  <2> SUFFICES ASSUME ~s7, NEW i \in 1 .. n + 1
               PROVE  key(i) \in s4 <=> who(i) \in s5
    BY <1>3, <1>4, <1>9 DEF RowsSwitched
  <2>1. CASE i = n + 1
    BY <1>0, <1>7, <2>1 DEF key, who
  <2>2. CASE i \in 1 .. n
    BY <1>0, <1>8, <2>2 DEF key, who, RowsSwitched, n
  <2> QED
    BY <1>9, <2>1, <2>2
<1> QED
  BY <1>6, <1>13, <1>14 DEF RowsInv

LEMMA RemovingKeepsRows ==
  ASSUME RowsInv, NEW i \in 1 .. MaxRows, AtReminders!RemoveRow(i)
  PROVE  RowsInv'
<1> DEFINE n == Len(s1)
           up(j) == IF j < i THEN j ELSE j + 1
<1>0. n \in Nat /\ i \in 1 .. n
  BY DEF RowsInv, RowsTyped, AtReminders!RemoveRow
<1>1. s1 \in Seq(Reminder) /\ s2 \in Seq(Nat) /\ Len(s2) = n
  BY DEF RowsInv, RowsTyped
<1>2. /\ s1' = AtReminders!RemoveAt(s1, i) /\ s2' = AtReminders!RemoveAt(s2, i) /\ s5' = s5 \ {s1[i].who}
      /\ UNCHANGED <<s3, s4, s6, s7>>
  BY DEF AtReminders!RemoveRow, AtReminders!DropsKey
<1>3. /\ s1' \in Seq(Reminder) /\ Len(s1') = n - 1
      /\ \A j \in 1 .. n - 1 : s1'[j] = IF j < i THEN s1[j] ELSE s1[j + 1]
  BY <1>0, <1>1, <1>2, TakenOutProperties DEF TakenOut, AtReminders!RemoveAt
<1>4. /\ s2' \in Seq(Nat) /\ Len(s2') = n - 1
      /\ \A j \in 1 .. n - 1 : s2'[j] = IF j < i THEN s2[j] ELSE s2[j + 1]
  <2>1. i \in 1 .. Len(s2)
    BY <1>0, <1>1
  <2> QED
    BY <1>1, <1>2, <2>1, TakenOutProperties DEF TakenOut, AtReminders!RemoveAt
<1>5. /\ \A j \in 1 .. n - 1 : /\ up(j) \in 1 .. n /\ up(j) # i
                               /\ s2'[j] = s2[up(j)] /\ s1'[j] = s1[up(j)]
      /\ \A j, k \in 1 .. n - 1 : j # k => up(j) # up(k)
  BY <1>0, <1>3, <1>4
<1> HIDE DEF up
<1>6. RowsTyped'
  <2>1. n - 1 \in Nat
    BY <1>0
  <2>2. s6 \in Nat /\ s3 \in Nat /\ s4 \subseteq Nat /\ s5 \subseteq Nat
    BY DEF RowsInv, RowsTyped
  <2> HIDE DEF n
  <2> QED
    BY <1>2, <1>3, <1>4, <2>1, <2>2 DEF RowsTyped
<1>7. RowsApart'
  <2>1. /\ \A j \in 1 .. n : /\ s2[j] \in Nat /\ s2[j] < s3
                             /\ s1[j].who \in Nat /\ s1[j].who <= s6
        /\ \A k \in s4 : k < s3
        /\ \A w \in s5 : w <= s6
        /\ \A j, k \in 1 .. n : j # k => s2[j] # s2[k] /\ s1[j].who # s1[k].who
    BY DEF RowsInv, RowsApart
  <2> HIDE DEF n
  <2>2. \A j \in 1 .. n - 1 : /\ s2'[j] \in Nat /\ s2'[j] < s3
                              /\ s1'[j].who \in Nat /\ s1'[j].who <= s6
    BY <1>5, <2>1
  <2>3. \A j, k \in 1 .. n - 1 : j # k => s2'[j] # s2'[k] /\ s1'[j].who # s1'[k].who
    BY <1>5, <2>1
  <2> QED
    BY <1>2, <1>3, <2>1, <2>2, <2>3 DEF RowsApart
<1>8. RowsSwitched'
  <2> SUFFICES ASSUME ~s7, NEW j \in 1 .. n - 1
               PROVE  s2'[j] \in s4' <=> s1'[j].who \in s5'
    BY <1>2, <1>3 DEF RowsSwitched
  <2>1. up(j) \in 1 .. n /\ s1[up(j)].who # s1[i].who
    BY <1>0, <1>5 DEF RowsInv, RowsApart
  <2> QED
    BY <1>2, <1>5, <2>1 DEF RowsInv, RowsSwitched
<1> QED
  BY <1>6, <1>7, <1>8 DEF RowsInv

LEMMA UpdatingKeepsWho ==
  ASSUME RowsInv, NEW i \in DOMAIN s1, NEW m \in AtReminders!Minutes, AtReminders!Update(i, m)
  PROVE  s1' \in Seq(Reminder) /\ Len(s1') = Len(s1) /\ \A j \in 1 .. Len(s1) : s1'[j].who = s1[j].who
<1> DEFINE n == [s1[i] EXCEPT !.minutes = m]
<1>1. s1 \in Seq(Reminder)
  BY DEF RowsInv, RowsTyped
<1>2. i \in 1 .. Len(s1) /\ s1[i] \in Reminder
  BY <1>1
<1>3. n \in Reminder /\ n.who = s1[i].who
  BY <1>2 DEF Reminder
<1>4. s1' = [s1 EXCEPT ![i] = n]
  BY <1>2 DEF AtReminders!Update
<1> HIDE DEF n
<1>5. /\ s1' \in Seq(Reminder) /\ Len(s1') = Len(s1)
      /\ \A j \in 1 .. Len(s1) : s1'[j] = IF j = i THEN n ELSE s1[j]
  BY <1>1, <1>2, <1>3, <1>4, ExceptSeq
<1> QED
  BY <1>3, <1>5

LEMMA PickingKeepsRows ==
  ASSUME RowsInv, NEW i \in 1 .. MaxRows, NEW m \in AtReminders!Minutes, AtReminders!PickCustom(i) \/ AtReminders!PickPreset(i, m) \/ AtReminders!TypeMinutes(i, m)
  PROVE  RowsInv'
<1>0. i \in DOMAIN s1 /\ UNCHANGED <<s2, s3, s6, s7>>
  BY DEF AtReminders!PickCustom, AtReminders!PickPreset, AtReminders!TypeMinutes
<1>1. i \in 1 .. Len(s1)
  BY <1>0 DEF RowsInv, RowsTyped
<1>2. s1' \in Seq(Reminder) /\ Len(s1') = Len(s1) /\ \A j \in 1 .. Len(s1) : s1'[j].who = s1[j].who
  <2>1. CASE AtReminders!PickCustom(i)
    BY <2>1 DEF AtReminders!PickCustom, RowsInv, RowsTyped
  <2>2. CASE AtReminders!PickPreset(i, m) \/ AtReminders!TypeMinutes(i, m)
    BY <1>0, <2>2, UpdatingKeepsWho DEF AtReminders!PickPreset, AtReminders!TypeMinutes
  <2> QED
    BY <2>1, <2>2
<1>3. \/ UNCHANGED <<s4, s5>>
      \/ s4' = s4 \cup {s2[i]} /\ s5' = s5 \cup {s1[i].who}
      \/ s4' = s4 \ {s2[i]} /\ s5' = s5 \ {s1[i].who}
  BY DEF AtReminders!PickCustom, AtReminders!PickPreset, AtReminders!TypeMinutes
<1>4. /\ s2[i] \in Nat /\ s2[i] < s3 /\ s1[i].who \in Nat /\ s1[i].who <= s6
      /\ \A j \in 1 .. Len(s1) : j # i => s2[j] # s2[i] /\ s1[j].who # s1[i].who
  BY <1>1 DEF RowsInv, RowsApart
<1>5. RowsTyped'
  BY <1>0, <1>2, <1>3, <1>4 DEF RowsInv, RowsTyped
<1>6. RowsApart'
  BY <1>0, <1>2, <1>3, <1>4 DEF RowsInv, RowsApart
<1>7. RowsSwitched'
  BY <1>0, <1>2, <1>3, <1>4 DEF RowsInv, RowsSwitched
<1> QED
  BY <1>5, <1>6, <1>7 DEF RowsInv

LEMMA RowsStay == RowsInv /\ [AtReminders!RemindersNext]_AtReminders!remindersVars => RowsInv'
<1> SUFFICES ASSUME RowsInv, [AtReminders!RemindersNext]_AtReminders!remindersVars PROVE RowsInv'
  OBVIOUS
<1>1. CASE UNCHANGED AtReminders!remindersVars
  BY <1>1 DEF AtReminders!remindersVars, RowsInv, RowsTyped, RowsApart, RowsSwitched
<1>2. ASSUME NEW i \in 1 .. MaxRows, AtReminders!PickCustom(i) PROVE RowsInv'
  <2>1. Default \in AtReminders!Minutes
    BY DealsAssumption DEF AtReminders!RemindersAssumption, AtReminders!Minutes
  <2> QED
    BY <1>2, <2>1, PickingKeepsRows
<1> QED
  BY <1>1, <1>2, FillingKeepsRows, AddingKeepsRows, RemovingKeepsRows,
     PickingKeepsRows DEF AtReminders!RemindersNext

\* The reminders there were are counted from one, and a list has the rows it may have.
RemindersCounted ==
  /\ Len(s1) <= MaxRows /\ \A i \in 1 .. Len(s1) : s1[i].who >= 1
  /\ \A w \in s5 : w >= 1
  /\ taps \in Nat

LEMMA RowsBounds == MaxRows \in Nat /\ AtReminders!Minutes = Presets \cup Others /\ Default \in AtReminders!Minutes
                    /\ \A list \in Loaded : Len(list) <= MaxRows
  BY DealsAssumption DEF AtReminders!RemindersAssumption, AtReminders!Minutes

LEMMA RowsTypes == RowsInv /\ RemindersCounted /\ s7 \in BOOLEAN => AtReminders!RemindersTypeOK
<1> SUFFICES ASSUME RowsInv, RemindersCounted, s7 \in BOOLEAN PROVE AtReminders!RemindersTypeOK
  OBVIOUS
<1>1. /\ s1 \in Seq(Reminder) /\ s2 \in Seq(Nat) /\ Len(s2) = Len(s1) /\ Len(s1) \in Nat
      /\ s6 \in Nat /\ s3 \in Nat /\ s4 \subseteq Nat /\ s5 \subseteq Nat
  BY DEF RowsInv, RowsTyped
<1>2. /\ \A i \in 1 .. Len(s1) : s2[i] < s3 /\ s1[i].who <= s6 /\ s1[i].who >= 1
      /\ \A k \in s4 : k < s3
      /\ \A w \in s5 : w <= s6 /\ w >= 1
      /\ \A i, j \in 1 .. Len(s1) : i # j => s2[i] # s2[j]
  <2>1. \A k \in s4 : k < s3
    BY DEF RowsInv, RowsApart
  <2>2. \A w \in s5 : w <= s6 /\ w >= 1
    BY DEF RowsInv, RowsApart, RemindersCounted
  <2> QED
    BY <2>1, <2>2 DEF RowsInv, RowsApart, RemindersCounted
<1>3. s1 \in Seq([minutes : AtReminders!Minutes, who : 1 .. s6])
  <2>1. \A i \in 1 .. Len(s1) : s1[i] \in [minutes : AtReminders!Minutes, who : 1 .. s6]
    <3> SUFFICES ASSUME NEW i \in 1 .. Len(s1) PROVE s1[i] \in [minutes : AtReminders!Minutes, who : 1 .. s6]
      OBVIOUS
    <3>1. s1[i] \in Reminder
      BY <1>1
    <3>2. s1[i].minutes \in AtReminders!Minutes /\ s1[i].who \in Nat /\ s1[i] = [minutes |-> s1[i].minutes, who |-> s1[i].who]
      BY <3>1 DEF Reminder
    <3>3. s1[i].who \in 1 .. s6
      BY <1>1, <1>2, <3>2
    <3> QED
      BY <3>2, <3>3
  <2> QED
    BY <1>1, <2>1, SeqOfItsElements
<1>4. AtReminders!IsInjective(s2)
  BY <1>1, <1>2 DEF AtReminders!IsInjective
<1>5. \A k \in AtReminders!RowKeys \cup s4 : k < s3
  <2>1. DOMAIN s2 = 1 .. Len(s1)
    BY <1>1
  <2> QED
    BY <1>2, <2>1 DEF AtReminders!RowKeys
<1>6. s5 \subseteq 1 .. s6
  BY <1>1, <1>2
<1>7. Len(s1) <= MaxRows /\ taps \in Nat
  BY DEF RemindersCounted
<1> QED
  BY <1>1, <1>3, <1>4, <1>5, <1>6, <1>7 DEF AtReminders!RemindersTypeOK

LEMMA RowsTypesStart == AtReminders!RemindersInit => RemindersCounted /\ s7 \in BOOLEAN
<1> SUFFICES ASSUME AtReminders!RemindersInit PROVE RemindersCounted /\ s7 \in BOOLEAN
  OBVIOUS
<1>1. s1 = << >> /\ s5 = {} /\ taps = 0
  BY Zenon DEF AtReminders!RemindersInit
<1>2. s7 = FALSE
  BY Zenon DEF AtReminders!RemindersInit
<1>3. RemindersCounted
  BY <1>1, RowsBounds DEF RemindersCounted
<1> QED
  BY <1>2, <1>3

LEMMA SwappedStaysTyped == s7 \in BOOLEAN /\ [AtReminders!RemindersNext]_AtReminders!remindersVars => s7' \in BOOLEAN
<1>1. s7 \in BOOLEAN /\ [AtReminders!RemindersNext]_AtReminders!remindersVars
        => s7' = s7 \/ s7' = FALSE \/ \E list \in Loaded : s7' = (s7 \/ list # << >>)
  BY DEF AtReminders!RemindersNext, AtReminders!Open, AtReminders!Replace, AtReminders!Add, AtReminders!RemoveRow,
     AtReminders!PickCustom, AtReminders!PickPreset, AtReminders!TypeMinutes, AtReminders!remindersVars
<1>2. \A list \in Loaded : (s7 \/ list # << >>) \in BOOLEAN
  OBVIOUS
<1> QED
  BY <1>1, <1>2

LEMMA RowsTypesStay == RowsInv /\ RemindersCounted /\ [AtReminders!RemindersNext]_AtReminders!remindersVars => RemindersCounted'
<1> SUFFICES ASSUME RowsInv, RemindersCounted, [AtReminders!RemindersNext]_AtReminders!remindersVars PROVE RemindersCounted'
  OBVIOUS
<1>0. s1 \in Seq(Reminder) /\ s6 \in Nat /\ Len(s1) \in Nat /\ s5 \subseteq Nat /\ MaxRows \in Nat /\ Len(s2) = Len(s1)
  BY RowsBounds DEF RowsInv, RowsTyped
<1>t. taps' = taps \/ taps' = taps + 1
  BY DEF AtReminders!RemindersNext, AtReminders!Open, AtReminders!Replace, AtReminders!Add, AtReminders!RemoveRow,
     AtReminders!PickCustom, AtReminders!PickPreset, AtReminders!TypeMinutes, AtReminders!remindersVars, AtReminders!Tap
<1>u. taps' \in Nat
  BY <1>t DEF RemindersCounted
<1>1. ASSUME NEW list \in Loaded, AtReminders!Open(list) \/ AtReminders!Replace(list) PROVE RemindersCounted'
  <2>1. s1' = AtReminders!Fresh(list) /\ s5' = {}
    BY <1>1 DEF AtReminders!Open, AtReminders!Replace
  <2>2. Len(s1') = Len(list) /\ Len(list) \in Nat /\ \A i \in 1 .. Len(list) : s1'[i].who = s6 + i
    BY <1>0, <2>1, FreshRows
  <2> QED
    BY <1>0, <1>u, <2>1, <2>2, RowsBounds DEF RemindersCounted
<1>2. CASE AtReminders!Add
  <2> DEFINE r == [minutes |-> Default, who |-> s6 + 1]
  <2>1. s1' = Append(s1, r) /\ s5' = s5 /\ Len(s1) < MaxRows
    BY <1>2 DEF AtReminders!Add
  <2>2. r \in Reminder /\ r.who = s6 + 1
    BY <1>0, RowsBounds DEF Reminder
  <2> HIDE DEF r
  <2>3. Len(s1') = Len(s1) + 1 /\ \A i \in 1 .. Len(s1) + 1 : s1'[i] = IF i = Len(s1) + 1 THEN r ELSE s1[i]
    BY <1>0, <2>1, <2>2
  <2>4. Len(s1') <= MaxRows /\ \A i \in 1 .. Len(s1') : s1'[i].who >= 1
    BY <1>0, <2>1, <2>2, <2>3 DEF RemindersCounted
  <2> QED
    BY <1>u, <2>1, <2>4 DEF RemindersCounted
<1>3. ASSUME NEW i \in 1 .. MaxRows, AtReminders!RemoveRow(i) PROVE RemindersCounted'
  <2>1. i \in 1 .. Len(s1) /\ s1' = TakenOut(s1, i) /\ s5' \subseteq s5
    BY <1>0, <1>3 DEF AtReminders!RemoveRow, AtReminders!RemoveAt, TakenOut
  <2>2. /\ Len(s1') = Len(s1) - 1
        /\ \A k \in 1 .. Len(s1) - 1 : s1'[k] = IF k < i THEN s1[k] ELSE s1[k + 1]
    BY <1>0, <2>1, TakenOutProperties
  <2>3. \A k \in 1 .. Len(s1) - 1 : s1'[k].who >= 1
    BY <1>0, <2>1, <2>2 DEF RemindersCounted
  <2>4. Len(s1') <= MaxRows
    BY <1>0, <2>2 DEF RemindersCounted
  <2> QED
    BY <1>u, <2>1, <2>2, <2>3, <2>4 DEF RemindersCounted
<1>4. ASSUME NEW i \in 1 .. MaxRows, AtReminders!PickCustom(i) PROVE RemindersCounted'
  <2>1. i \in 1 .. Len(s1) /\ s1' = s1 /\ s5' = s5 \cup {s1[i].who}
    BY <1>0, <1>4 DEF AtReminders!PickCustom
  <2> QED
    BY <1>u, <2>1 DEF RemindersCounted
<1>5. ASSUME NEW i \in 1 .. MaxRows, NEW m \in AtReminders!Minutes, AtReminders!PickPreset(i, m) \/ AtReminders!TypeMinutes(i, m)
      PROVE  RemindersCounted'
  <2>1. i \in 1 .. Len(s1) /\ s1' = [s1 EXCEPT ![i].minutes = m] /\ s5' \subseteq s5
    BY <1>0, <1>5 DEF AtReminders!PickPreset, AtReminders!TypeMinutes, AtReminders!Update
  <2>2. Len(s1') = Len(s1) /\ \A k \in 1 .. Len(s1) : s1'[k] = IF k = i THEN [s1[i] EXCEPT !.minutes = m] ELSE s1[k]
    BY <1>0, <2>1
  <2>3. s1[i] \in Reminder
    BY <1>0, <2>1
  <2>4. [s1[i] EXCEPT !.minutes = m].who = s1[i].who
    BY <2>3 DEF Reminder
  <2>5. \A k \in 1 .. Len(s1) : s1'[k].who = s1[k].who
    BY <2>2, <2>4
  <2> QED
    BY <1>u, <2>1, <2>2, <2>5 DEF RemindersCounted
<1>6. CASE UNCHANGED AtReminders!remindersVars
  BY <1>u, <1>6 DEF RemindersCounted, AtReminders!remindersVars
<1> QED
  BY <1>1, <1>2, <1>3, <1>4, <1>5, <1>6 DEF AtReminders!RemindersNext

-----------------------------------------------------------------------------
(***************************************************************************)
(* The agenda.                                                              *)
(***************************************************************************)
AgendaInv ==
  /\ s1 \in {"week", "month"} /\ {s2, s3, s4} \subseteq AtAgenda!CalendarDays
  /\ s3 \in AtAgenda!Grid(s1, s2)

\* Dividing keeps the order, and leaves less than the divisor.
LEMMA Divides ==
  ASSUME NEW d \in Nat, NEW n \in Nat \ {0}
  PROVE  /\ d \div n \in Nat /\ (d \div n) * n \in Nat
         /\ (d \div n) * n <= d /\ d < (d \div n) * n + n
<1>1. d % n \in 0 .. n - 1 /\ d \div n \in Int
  OBVIOUS
<1>2. d = n * (d \div n) + (d % n)
  OBVIOUS
<1>3. d \div n >= 0
  OBVIOUS
<1>4. n * (d \div n) = (d \div n) * n
  OBVIOUS
<1> QED
  BY <1>1, <1>2, <1>3, <1>4

LEMMA DividesInOrder ==
  ASSUME NEW n \in Nat \ {0}, NEW d \in Nat, NEW e \in Nat, d <= e
  PROVE  d \div n <= e \div n
<1> DEFINE p == d \div n
           q == e \div n
<1>1. p \in Nat /\ q \in Nat /\ p * n <= d /\ e < q * n + n
  BY Divides
<1> HIDE DEF p, q
<1>2. p * n < (q + 1) * n
  BY <1>1
<1>3. p < q + 1
  BY <1>1, <1>2
<1> QED
  BY <1>1, <1>3 DEF p, q

\* A multiple divides without rest.
LEMMA DividesMultiple ==
  ASSUME NEW n \in Nat \ {0}, NEW p \in Nat
  PROVE  (p * n) \div n = p
<1> DEFINE q == (p * n) \div n
<1>1. p * n \in Nat
  OBVIOUS
<1>2. q \in Nat /\ q * n <= p * n /\ p * n < q * n + n
  BY <1>1, Divides
<1> HIDE DEF q
<1>3. p * n < (q + 1) * n
  BY <1>2
<1>4. q <= p /\ p < q + 1
  BY <1>2, <1>3
<1> QED
  BY <1>2, <1>4 DEF q

\* A grid has its anchor in it, and a first day of the period.
LEMMA GridHasAnchor ==
  ASSUME NEW z \in {"week", "month"}, NEW a \in AtAgenda!CalendarDays
  PROVE  a \in AtAgenda!Grid(z, a) /\ AtAgenda!Min(AtAgenda!InMonth(z, a)) \in AtAgenda!Grid(z, a)
<1>1. NumDays \in Nat /\ WeekLength \in Nat \ {0} /\ MonthLength \in Nat \ {0} /\ a \in Nat
  BY DealsAssumption DEF AtAgenda!AgendaAssumption, AtAgenda!CalendarDays
<1>2. CASE z = "week"
  <2> DEFINE f == AtAgenda!Week(a) * WeekLength
  <2>1. f \in Nat /\ f <= a /\ AtAgenda!Week(a) \in Nat
    BY <1>1, Divides DEF AtAgenda!Week
  <2>2. AtAgenda!Week(f) = AtAgenda!Week(a)
    BY <1>1, <2>1, DividesMultiple DEF AtAgenda!Week
  <2> HIDE DEF f
  <2>3. f \in AtAgenda!CalendarDays
    BY <1>1, <2>1 DEF AtAgenda!CalendarDays
  <2>4. f \in AtAgenda!InMonth(z, a) /\ a \in AtAgenda!Grid(z, a)
    BY <1>2, <2>2, <2>3 DEF AtAgenda!InMonth, AtAgenda!Grid, AtAgenda!WeekGrid
  <2>5. ASSUME NEW d \in AtAgenda!InMonth(z, a) PROVE f <= d
    <3>1. d \in Nat /\ AtAgenda!Week(d) = AtAgenda!Week(a)
      BY <1>2 DEF AtAgenda!InMonth, AtAgenda!Grid, AtAgenda!WeekGrid, AtAgenda!CalendarDays
    <3> QED
      BY <1>1, <3>1, Divides DEF AtAgenda!Week, f
  <2>6. AtAgenda!Min(AtAgenda!InMonth(z, a)) \in AtAgenda!InMonth(z, a)
    BY <2>4, <2>5 DEF AtAgenda!Min
  <2> QED
    BY <2>4, <2>6 DEF AtAgenda!InMonth
<1>3. CASE z = "month"
  <2> DEFINE f == AtAgenda!Month(a) * MonthLength
             l == f + MonthLength - 1
  <2>11. f \in Nat /\ f <= a /\ a < f + MonthLength /\ AtAgenda!Month(a) \in Nat
    BY <1>1, Divides DEF AtAgenda!Month
  <2> HIDE DEF f
  <2>1. a <= l /\ l \in Nat
    BY <1>1, <2>11
  <2> USE DEF f
  <2>2. AtAgenda!Month(f) = AtAgenda!Month(a)
    BY <1>1, <2>11, DividesMultiple DEF AtAgenda!Month
  <2>3. l = AtAgenda!Month(a) * MonthLength + MonthLength - 1
    OBVIOUS
  <2>4. AtAgenda!Grid(z, a) = {d \in AtAgenda!CalendarDays : AtAgenda!Week(d) \in AtAgenda!Week(f) .. AtAgenda!Week(l)}
    BY <1>3 DEF AtAgenda!Grid, AtAgenda!MonthGrid
  <2> HIDE DEF f, l
  <2>5. f \in AtAgenda!CalendarDays
    BY <1>1, <2>11 DEF AtAgenda!CalendarDays
  <2>6. /\ AtAgenda!Week(f) \in Nat /\ AtAgenda!Week(l) \in Nat /\ AtAgenda!Week(a) \in Nat
        /\ AtAgenda!Week(f) <= AtAgenda!Week(a) /\ AtAgenda!Week(a) <= AtAgenda!Week(l)
    BY <1>1, <2>1, <2>11, Divides, DividesInOrder DEF AtAgenda!Week
  <2>7. f \in AtAgenda!Grid(z, a) /\ a \in AtAgenda!Grid(z, a)
    BY <2>4, <2>5, <2>6
  <2>8. f \in AtAgenda!InMonth(z, a)
    BY <2>2, <2>7 DEF AtAgenda!InMonth
  <2>9. ASSUME NEW d \in AtAgenda!InMonth(z, a) PROVE f <= d
    <3>1. d \in Nat /\ AtAgenda!Month(d) = AtAgenda!Month(a)
      BY <1>3, <2>4 DEF AtAgenda!InMonth, AtAgenda!CalendarDays
    <3> QED
      BY <1>1, <3>1, Divides DEF AtAgenda!Month, f
  <2>10. AtAgenda!Min(AtAgenda!InMonth(z, a)) \in AtAgenda!InMonth(z, a)
    BY <2>8, <2>9 DEF AtAgenda!Min
  <2> QED
    BY <2>7, <2>10 DEF AtAgenda!InMonth
<1> QED
  BY <1>2, <1>3

LEMMA AgendaStarts == AtAgenda!AgendaInit => AgendaInv
  BY GridHasAnchor DEF AtAgenda!AgendaInit, AgendaInv

LEMMA TurningShowsSelected ==
  ASSUME AgendaInv, NEW z \in {"week", "month"}, NEW a \in AtAgenda!CalendarDays, NEW s \in AtAgenda!CalendarDays, AtAgenda!Turn(z, a, s)
  PROVE  AgendaInv'
<1>1. AtAgenda!Clamped(z, a, s) \in AtAgenda!Grid(z, a)
  BY GridHasAnchor DEF AtAgenda!Clamped
<1>2. AtAgenda!Grid(z, a) \subseteq AtAgenda!CalendarDays
  BY DEF AtAgenda!Grid, AtAgenda!WeekGrid, AtAgenda!MonthGrid
<1> QED
  BY <1>1, <1>2 DEF AgendaInv, AtAgenda!Turn

LEMMA AgendaStays == AgendaInv /\ [AtAgenda!AgendaNext]_AtAgenda!agendaVars => AgendaInv'
<1> SUFFICES ASSUME AgendaInv, [AtAgenda!AgendaNext]_AtAgenda!agendaVars PROVE AgendaInv'
  OBVIOUS
<1>1. CASE AtAgenda!GoToday
  BY <1>1, TurningShowsSelected DEF AtAgenda!GoToday, AgendaInv
<1>2. ASSUME NEW z \in {"week", "month"}, AtAgenda!Zoom(z) PROVE AgendaInv'
  BY <1>2, TurningShowsSelected DEF AtAgenda!Zoom, AgendaInv
<1>3. ASSUME NEW by \in {-1, 1}, AtAgenda!Page(by) PROVE AgendaInv'
  BY <1>3, TurningShowsSelected DEF AtAgenda!Page, AgendaInv
<1>4. ASSUME NEW d \in AtAgenda!CalendarDays, AtAgenda!Select(d) PROVE AgendaInv'
  BY <1>4 DEF AtAgenda!Select, AgendaInv
<1>5. ASSUME NEW d \in AtAgenda!CalendarDays, AtAgenda!EventComesOrGoes(d) PROVE AgendaInv'
  BY <1>5 DEF AtAgenda!EventComesOrGoes, AgendaInv
<1>6. CASE AtAgenda!Midnight \/ AtAgenda!Fetch \/ UNCHANGED AtAgenda!agendaVars
  BY <1>6 DEF AtAgenda!Midnight, AtAgenda!Fetch, AtAgenda!agendaVars, AgendaInv
<1> QED
  BY <1>1, <1>2, <1>3, <1>4, <1>5, <1>6 DEF AtAgenda!AgendaNext

LEMMA PanelIsTrue == AgendaInv => AtAgenda!NoFalseEmptyDay
  BY DEF AgendaInv, AtAgenda!NoFalseEmptyDay, AtAgenda!EmptyPanel, AtAgenda!Visible

\* The busy days, and those of the answer on screen.
DaysTyped ==
  /\ s5 \subseteq AtAgenda!CalendarDays /\ s6.days \subseteq AtAgenda!CalendarDays /\ s6.busy \subseteq AtAgenda!CalendarDays
  /\ taps \in Nat

LEMMA DaysTypes == AgendaInv /\ DaysTyped => AtAgenda!AgendaTypeOK
  BY DEF AgendaInv, DaysTyped, AtAgenda!AgendaTypeOK

LEMMA DaysTypesStart == AtAgenda!AgendaInit => DaysTyped
  BY DEF AtAgenda!AgendaInit, DaysTyped

LEMMA DaysTypesStay == DaysTyped /\ [AtAgenda!AgendaNext]_AtAgenda!agendaVars => DaysTyped'
<1> SUFFICES ASSUME DaysTyped, [AtAgenda!AgendaNext]_AtAgenda!agendaVars PROVE DaysTyped'
  OBVIOUS
<1>1. UNCHANGED taps \/ taps' = taps + 1
  BY DEF AtAgenda!AgendaNext, AtAgenda!GoToday, AtAgenda!Zoom, AtAgenda!Page, AtAgenda!Turn, AtAgenda!Select, AtAgenda!Midnight,
     AtAgenda!Fetch, AtAgenda!EventComesOrGoes, AtAgenda!agendaVars, AtAgenda!Tap
<1>2. taps' \in Nat
  BY <1>1 DEF DaysTyped
<1>3. ASSUME NEW d \in AtAgenda!CalendarDays, AtAgenda!EventComesOrGoes(d) PROVE DaysTyped'
  BY <1>2, <1>3 DEF DaysTyped, AtAgenda!EventComesOrGoes
<1>4. CASE AtAgenda!Fetch
  <2>1. AtAgenda!Visible \subseteq AtAgenda!CalendarDays
    BY DEF AtAgenda!Visible, AtAgenda!Grid, AtAgenda!WeekGrid, AtAgenda!MonthGrid
  <2>2. s6'.days = AtAgenda!Visible /\ s6'.busy \subseteq AtAgenda!Visible /\ s5' = s5
    BY <1>4 DEF AtAgenda!Fetch
  <2> QED
    BY <1>2, <2>1, <2>2 DEF DaysTyped
<1>5. CASE UNCHANGED <<s5, s6>>
  BY <1>2, <1>5 DEF DaysTyped
<1>6. \/ UNCHANGED <<s5, s6>> \/ AtAgenda!Fetch
      \/ \E d \in AtAgenda!CalendarDays : AtAgenda!EventComesOrGoes(d)
  BY DEF AtAgenda!AgendaNext, AtAgenda!GoToday, AtAgenda!Zoom, AtAgenda!Page, AtAgenda!Turn, AtAgenda!Select, AtAgenda!Midnight,
     AtAgenda!agendaVars
<1> QED
  BY <1>3, <1>4, <1>5, <1>6

-----------------------------------------------------------------------------
(***************************************************************************)
(* The capture dialogs.                                                     *)
(***************************************************************************)
\* A submit under way: its company is made first or not at all, and what it is to be filed
\* with is of that company.  The server checks a link itself.
AfterCompany == Seq({"contact", "deal", "link"})
Together ==
  {r \in [company : AtCapture!Owner \cup {None}, part : AtCapture!Owner \cup {None}, person : BOOLEAN, clean : BOOLEAN,
          todo : Seq({"company", "contact", "deal", "link"})] :
     /\ r.todo # << >> /\ Tail(r.todo) \in AfterCompany
     /\ r.clean /\ Head(r.todo) = "company" => r.part = None
     /\ r.clean /\ Head(r.todo) \in {"contact", "deal"} => r.part \in {None, r.company}}

CaptureTyped ==
  /\ s1 \in AtCapture!Dialogs /\ s3 \in Companies \cup {None} /\ s6 \in Companies \cup {None}
  /\ s8 \in Companies \cup {"all"} /\ {s4, s10, s14, s15} \subseteq BOOLEAN

\* The contact chosen is of the company picked, unless it came from another's list.
FormIsTogether ==
  /\ s1.offers = "deal" => ~s4
  /\ s1.offers # "deal" /\ ~s15 => s6 \in {None, s3}
  /\ s4 /\ ~s14 => s3 = None

CaptureInv == CaptureTyped /\ FormIsTogether /\ s12 \in Seq(Together) /\ AtCapture!FiledTogether

LEMMA DialogFields ==
  ASSUME NEW d \in AtCapture!Dialogs
  PROVE  /\ d.makes \in AfterCompany /\ d.makes # << >>
         /\ d.offers \in {"contact", "deal", "none"}
         /\ d.offers = "deal" => d.makes = <<"link">> /\ d.company = "picked"
         /\ d.offers = "none" => d.company = "typed"
<1> DEFINE Orders == {<<"contact">>, <<"contact", "deal">>, <<"contact", "deal", "link">>, <<"link">>}
<1>1. /\ d.makes \in Orders /\ d.offers \in {"contact", "deal", "none"}
      /\ d.offers = "deal" => d.makes = <<"link">> /\ d.company = "picked"
      /\ d.offers = "none" => d.company = "typed"
  BY DEF AtCapture!Dialogs, AtCapture!AddDealModal, AtCapture!AddDealOfCompany, AtCapture!AddCompanyModal,
     AtCapture!LinkEmailCreate, AtCapture!LinkEmailExisting
<1>2. <<"contact">> \in AfterCompany /\ <<"link">> \in AfterCompany
  BY DEF AfterCompany
<1>3. <<"contact", "deal">> \in AfterCompany
  BY DEF AfterCompany
<1>4. <<"contact", "deal", "link">> \in AfterCompany
  BY DEF AfterCompany
<1>5. \A m \in Orders : m # << >>
  OBVIOUS
<1> QED
  BY <1>1, <1>2, <1>3, <1>4, <1>5

LEMMA CaptureStarts == AtCapture!CaptureInit => CaptureInv
<1> SUFFICES ASSUME AtCapture!CaptureInit PROVE CaptureInv
  OBVIOUS
<1>1. << >> \in Seq(Together)
  OBVIOUS
<1> QED
  BY <1>1 DEF AtCapture!CaptureInit, CaptureInv, CaptureTyped, FormIsTogether, AtCapture!FiledTogether,
     AtCapture!Foreign

\* What a pick leaves chosen is the company's own, but for the deals of a list to come.
LEMMA PickedIsTogether ==
  ASSUME CaptureTyped, NEW c \in Companies \cup {None}, AtCapture!Picked(c)
  PROVE  s6' \in Companies \cup {None} /\ (s1.offers # "deal" => s6' \in {None, c})
  BY DealsAssumption DEF AtCapture!CaptureAssumption, CaptureTyped, AtCapture!Picked

\* The form changes; what is under way and filed does not.
LEMMA EditsKeepRuns ==
  ASSUME CaptureInv, UNCHANGED <<s12, s13>>
  PROVE  s12' \in Seq(Together) /\ AtCapture!FiledTogether'
  BY DEF CaptureInv, AtCapture!FiledTogether, AtCapture!Foreign

LEMMA FormStaysTogether ==
  ASSUME CaptureInv, AtCapture!CaptureNext
  PROVE  CaptureTyped' /\ FormIsTogether'
<1> USE DEF CaptureInv, CaptureTyped, FormIsTogether, AtCapture!companyVars, AtCapture!partVars
<1>d. s1' = s1
  BY DEF AtCapture!CaptureNext, AtCapture!OpenDialog, AtCapture!Close, AtCapture!Search, AtCapture!OpenPanel,
     AtCapture!HidePanel, AtCapture!NameCompany, AtCapture!ListArrives, AtCapture!AddNewPerson,
         AtCapture!PickExistingPerson, AtCapture!NamePerson, AtCapture!Submit, AtCapture!PickCompany,
         AtCapture!DetailArrives, AtCapture!ChoosePart, AtCapture!StepSettles, AtCapture!Edits
<1>1. CASE AtCapture!OpenDialog
  <2>1. AtCapture!Given \in Companies
    BY DealsAssumption DEF AtCapture!CaptureAssumption, AtCapture!Given
  <2>2. s1.offers = "deal" => s1.company # "typed"
    BY DialogFields
  <2> QED
    BY <1>1, <1>d, <2>1, <2>2 DEF AtCapture!OpenDialog
<1>2. CASE AtCapture!Close
  BY <1>2 DEF AtCapture!Close
<1>3. ASSUME NEW c \in Companies, AtCapture!PickCompany(c) PROVE CaptureTyped' /\ FormIsTogether'
  <2>1. s6' \in Companies \cup {None} /\ (s1.offers # "deal" => s6' \in {None, c})
    BY <1>3, PickedIsTogether DEF AtCapture!PickCompany
  <2> QED
    BY <1>3, <1>d, <2>1 DEF AtCapture!PickCompany, AtCapture!Edits
<1>4. CASE AtCapture!Search
  <2>1. s6' \in Companies \cup {None} /\ (s1.offers # "deal" => s6' = None)
    BY <1>4, PickedIsTogether DEF AtCapture!Search
  <2> QED
    BY <1>4, <1>d, <2>1 DEF AtCapture!Search, AtCapture!Edits
<1>5. CASE AtCapture!OpenPanel
  <2>1. s1.offers # "deal"
    BY <1>5, DialogFields DEF AtCapture!OpenPanel
  <2>2. s3 # None => s6' = None
    BY <1>5, <2>1, PickedIsTogether DEF AtCapture!OpenPanel
  <2> QED
    BY <1>5, <1>d, <2>1, <2>2 DEF AtCapture!OpenPanel, AtCapture!Edits
<1>6. CASE AtCapture!HidePanel \/ AtCapture!NameCompany
  BY <1>6, <1>d DEF AtCapture!HidePanel, AtCapture!NameCompany, AtCapture!Edits
<1>7. CASE AtCapture!ListArrives
  BY <1>7, <1>d DEF AtCapture!ListArrives
<1>8. ASSUME NEW c \in Companies, AtCapture!DetailArrives(c) PROVE CaptureTyped' /\ FormIsTogether'
  BY <1>8, <1>d DEF AtCapture!DetailArrives
<1>9. ASSUME NEW c \in Companies \cup {None}, AtCapture!ChoosePart(c) PROVE CaptureTyped' /\ FormIsTogether'
  BY <1>9, <1>d DEF AtCapture!ChoosePart, AtCapture!Edits
<1>10. CASE AtCapture!AddNewPerson \/ AtCapture!PickExistingPerson \/ AtCapture!NamePerson
  <2>1. UNCHANGED <<s3, s4, s8, s14, s15>> /\ s6' \in {s6, None} /\ s10' \in BOOLEAN
    BY <1>10 DEF AtCapture!AddNewPerson, AtCapture!PickExistingPerson, AtCapture!NamePerson, AtCapture!Edits
  <2> QED
    BY <1>d, <2>1
<1>11. CASE AtCapture!Submit
  BY <1>11, <1>d DEF AtCapture!Submit
<1>12. ASSUME NEW i \in DOMAIN s12, AtCapture!StepSettles(i) PROVE CaptureTyped' /\ FormIsTogether'
  BY <1>12, <1>d DEF AtCapture!StepSettles
<1> QED
  BY <1>1, <1>2, <1>3, <1>4, <1>5, <1>6, <1>7, <1>8, <1>9, <1>10, <1>11, <1>12 DEF AtCapture!CaptureNext

LEMMA SubmitIsTogether ==
  ASSUME CaptureInv, AtCapture!Submit
  PROVE  s12' \in Seq(Together) /\ AtCapture!FiledTogether'
<1> DEFINE todo == (IF AtCapture!NewCompany THEN <<"company">> ELSE << >>) \o s1.makes
           run == [company |-> IF AtCapture!NewCompany THEN None ELSE s3, part |-> s6,
                   clean |-> ~s14 /\ ~s15,
                   person |-> s10 /\ (AtCapture!NewContactFields \/ s1.company = "typed"), todo |-> todo]
<1>1. s1.makes \in AfterCompany /\ s1.makes # << >>
  BY DialogFields DEF CaptureInv, CaptureTyped
<1>2. /\ todo \in Seq({"company", "contact", "deal", "link"}) /\ todo # << >> /\ Tail(todo) \in AfterCompany
      /\ Head(todo) = IF AtCapture!NewCompany THEN "company" ELSE Head(s1.makes)
  <2>1. CASE AtCapture!NewCompany
    <3>1. s1.makes \in Seq({"company", "contact", "deal", "link"}) /\ <<"company">> \in Seq({"company", "contact", "deal", "link"})
      BY <1>1 DEF AfterCompany
    <3>2. todo = <<"company">> \o s1.makes
      BY <2>1
    <3> HIDE DEF todo
    <3>3. Len(<<"company">>) = 1 /\ <<"company">>[1] = "company" /\ Len(s1.makes) \in Nat
      BY <3>1
    <3>4. /\ todo \in Seq({"company", "contact", "deal", "link"}) /\ Len(todo) = 1 + Len(s1.makes)
          /\ \A j \in 1 .. 1 + Len(s1.makes) :
                todo[j] = IF j <= 1 THEN <<"company">>[j] ELSE s1.makes[j - 1]
      BY <3>1, <3>2, <3>3, ConcatProperties
    <3>5. todo # << >> /\ todo[1] = "company" /\ \A j \in 1 .. Len(s1.makes) : todo[j + 1] = s1.makes[j]
      BY <3>3, <3>4
    <3>6. /\ Tail(todo) \in Seq({"company", "contact", "deal", "link"}) /\ Len(Tail(todo)) = Len(s1.makes)
          /\ \A j \in 1 .. Len(s1.makes) : Tail(todo)[j] = s1.makes[j]
      BY <3>3, <3>4, <3>5, HeadTailProperties
    <3>7. \A j \in 1 .. Len(s1.makes) : s1.makes[j] \in {"contact", "deal", "link"}
      BY <1>1 DEF AfterCompany
    <3>8. Tail(todo) \in Seq({"contact", "deal", "link"})
      BY <3>6, <3>7, SeqOfItsElements
    <3> QED
      BY <2>1, <3>4, <3>5, <3>8 DEF AfterCompany
  <2>2. CASE ~AtCapture!NewCompany
    <3>1. todo = s1.makes
      BY <1>1, <2>2 DEF AfterCompany
    <3> QED
      BY <1>1, <2>2, <3>1 DEF AfterCompany
  <2> QED
    BY <2>1, <2>2
<1> HIDE DEF todo
<1>3. /\ s3 \in Companies \cup {None} /\ s6 \in Companies \cup {None}
      /\ {s4, s10, s14, s15} \subseteq BOOLEAN
      /\ (s1.offers = "deal" => ~s4) /\ (s4 /\ ~s14 => s3 = None)
      /\ (s1.offers # "deal" /\ ~s15 => s6 \in {None, s3})
  BY DEF CaptureInv, CaptureTyped, FormIsTogether
<1>4. s1.offers = "deal" => Head(s1.makes) = "link"
  BY DialogFields DEF CaptureInv, CaptureTyped
<1>5. run.clean => /\ Head(todo) = "company" => s6 = None
                   /\ Head(todo) \in {"contact", "deal"} => s6 \in {None, run.company}
  <2>1. CASE AtCapture!NewCompany
    BY <1>2, <1>3, <2>1 DEF AtCapture!NewCompany
  <2>2. CASE ~AtCapture!NewCompany /\ s1.offers = "deal"
    BY <1>2, <1>4, <2>2
  <2>3. CASE ~AtCapture!NewCompany /\ s1.offers # "deal"
    <3>1. Head(todo) # "company"
      <4>1. Head(s1.makes) \in {"contact", "deal", "link"}
        BY <1>1 DEF AfterCompany
      <4> QED
        BY <1>2, <2>3, <4>1
    <3> QED
      BY <1>3, <2>3, <3>1
  <2> QED
    BY <2>1, <2>2, <2>3
<1>6. run \in Together
  <2>1. /\ run.company \in AtCapture!Owner \cup {None} /\ run.part \in AtCapture!Owner \cup {None}
        /\ run.person \in BOOLEAN /\ run.clean \in BOOLEAN
    BY <1>3 DEF AtCapture!Owner
  <2> QED
    BY <1>2, <1>5, <2>1 DEF Together
<1>7. s12' = Append(s12, run) /\ s13' = s13
  BY DEF AtCapture!Submit, todo
<1> HIDE DEF run
<1> QED
  BY <1>6, <1>7 DEF CaptureInv, AtCapture!FiledTogether, AtCapture!Foreign

\* A run that goes on without the first of what it has to do.
GoesOn(r) == [r EXCEPT !.todo = Tail(@)]

LEMMA NextIsTogether ==
  ASSUME CaptureInv, NEW i \in DOMAIN s12, NEW r,
         Len(r.todo) # 1 => GoesOn(r) \in Together,
         \/ Len(r.todo) = 1 /\ s12' = AtCapture!RemoveAt(s12, i)
         \/ Len(r.todo) # 1 /\ s12' = [s12 EXCEPT ![i] = GoesOn(r)]
  PROVE  s12' \in Seq(Together)
<1>1. s12 \in Seq(Together) /\ i \in 1 .. Len(s12)
  BY DEF CaptureInv
<1>2. CASE s12' = AtCapture!RemoveAt(s12, i)
  BY <1>1, <1>2, TakenOutProperties DEF AtCapture!RemoveAt, TakenOut
<1>3. CASE Len(r.todo) # 1 /\ s12' = [s12 EXCEPT ![i] = GoesOn(r)]
  BY <1>1, <1>3
<1> QED
  BY <1>2, <1>3

LEMMA GoingOnIsTogether ==
  ASSUME NEW r \in Together, NEW s, Len(r.todo) # 1,
         s \in [company : AtCapture!Owner \cup {None}, part : AtCapture!Owner \cup {None}, person : BOOLEAN, clean : BOOLEAN,
                todo : Seq({"company", "contact", "deal", "link"})],
         s.todo = r.todo, s.clean => s.part \in {None, s.company}
  PROVE  GoesOn(s) \in Together
<1> DEFINE g == GoesOn(s)
           rest == Tail(r.todo)
<1>1. /\ g.company = s.company /\ g.part = s.part /\ g.person = s.person /\ g.clean = s.clean /\ g.todo = rest
      /\ g = [company |-> s.company, part |-> s.part, person |-> s.person, clean |-> s.clean, todo |-> rest]
  <2>1. s = [company |-> s.company, part |-> s.part, person |-> s.person, clean |-> s.clean, todo |-> r.todo]
    OBVIOUS
  <2>2. g = [s EXCEPT !.todo = Tail(s.todo)]
    BY DEF GoesOn
  <2> QED
    BY <2>1, <2>2
<1>2. rest \in AfterCompany /\ rest # << >>
  <2>1. r.todo \in Seq({"company", "contact", "deal", "link"}) /\ r.todo # << >> /\ rest \in AfterCompany
    BY DEF Together
  <2>2. Len(rest) = Len(r.todo) - 1
    BY <2>1, HeadTailProperties
  <2>3. Len(r.todo) \in Nat \ {0}
    BY <2>1, EmptySeq
  <2>4. Len(rest) # 0
    BY <2>2, <2>3
  <2> QED
    BY <2>1, <2>4, EmptySeq
<1> HIDE DEF rest, g
<1>3. Head(rest) \in {"contact", "deal", "link"} /\ Tail(rest) \in AfterCompany
      /\ rest \in Seq({"company", "contact", "deal", "link"})
  BY <1>2 DEF AfterCompany
<1>4. g \in [company : AtCapture!Owner \cup {None}, part : AtCapture!Owner \cup {None}, person : BOOLEAN, clean : BOOLEAN,
             todo : Seq({"company", "contact", "deal", "link"})]
  BY <1>1, <1>3
<1>5. g \in Together
  BY <1>1, <1>2, <1>3, <1>4 DEF Together
<1> QED
  BY <1>5 DEF g

LEMMA StepIsTogether ==
  ASSUME CaptureInv, NEW i \in DOMAIN s12, AtCapture!StepSettles(i)
  PROVE  s12' \in Seq(Together) /\ AtCapture!FiledTogether'
<1> DEFINE run == s12[i]
           next(r) == IF Len(r.todo) = 1
                      THEN s12' = AtCapture!RemoveAt(s12, i) /\ s2' = FALSE
                      ELSE s12' = [s12 EXCEPT ![i] = [r EXCEPT !.todo = Tail(@)]] /\ UNCHANGED s2
           fails == s12' = AtCapture!RemoveAt(s12, i) /\ UNCHANGED <<s2, s13>>
           mark == [company |-> run.company, part |-> run.part, clean |-> run.clean]
           done == s13' = s13 \cup {mark}
<1>1. run \in Together /\ s12 \in Seq(Together) /\ i \in 1 .. Len(s12)
  BY DEF CaptureInv
<1>2. /\ run.company \in AtCapture!Owner \cup {None} /\ run.part \in AtCapture!Owner \cup {None} /\ "new" \in AtCapture!Owner
      /\ run.person \in BOOLEAN /\ run.clean \in BOOLEAN /\ run.todo \in Seq({"company", "contact", "deal", "link"})
      /\ run = [company |-> run.company, part |-> run.part, person |-> run.person, clean |-> run.clean, todo |-> run.todo]
  BY <1>1 DEF Together, AtCapture!Owner
<1>3. /\ run.clean /\ Head(run.todo) = "company" => run.part = None
      /\ run.clean /\ Head(run.todo) \in {"contact", "deal"} => run.part \in {None, run.company}
  BY <1>1 DEF Together
<1>4. \/ /\ Head(run.todo) = "company" /\ s13' = s13
         /\ next([run EXCEPT !.company = "new"]) \/ fails
      \/ /\ Head(run.todo) = "contact" /\ s13' = s13
         /\ next([run EXCEPT !.part = IF run.person THEN run.company ELSE @]) \/ next(run)
      \/ /\ Head(run.todo) = "deal" /\ ((done /\ next([run EXCEPT !.part = run.company])) \/ fails)
      \/ /\ Head(run.todo) = "link" /\ ((run.part \in {None, run.company} /\ done /\ next(run)) \/ fails)
  BY DEF AtCapture!StepSettles
<1> HIDE DEF run
<1>5. ASSUME NEW s, next(s), s.todo = run.todo, s.clean => s.part \in {None, s.company},
             s \in [company : AtCapture!Owner \cup {None}, part : AtCapture!Owner \cup {None}, person : BOOLEAN, clean : BOOLEAN,
                    todo : Seq({"company", "contact", "deal", "link"})]
      PROVE  s12' \in Seq(Together)
  <2>1. Len(s.todo) # 1 => GoesOn(s) \in Together
    BY <1>1, <1>5, GoingOnIsTogether
  <2>2. \/ Len(s.todo) = 1 /\ s12' = AtCapture!RemoveAt(s12, i)
        \/ Len(s.todo) # 1 /\ s12' = [s12 EXCEPT ![i] = GoesOn(s)]
    BY <1>5 DEF GoesOn
  <2> QED
    BY <2>1, <2>2, NextIsTogether
<1>6. fails => s12' \in Seq(Together)
  BY <1>1, TakenOutProperties DEF AtCapture!RemoveAt, TakenOut
<1> HIDE DEF next, fails
<1>7. s12' \in Seq(Together)
  <2>1. ASSUME Head(run.todo) = "company", next([run EXCEPT !.company = "new"]) PROVE s12' \in Seq(Together)
    <3> DEFINE s == [run EXCEPT !.company = "new"]
    <3>1. s = [company |-> "new", part |-> run.part, person |-> run.person, clean |-> run.clean, todo |-> run.todo]
      BY <1>2
    <3>2. next(s)
      BY <2>1
    <3> HIDE DEF s
    <3>3. s.todo = run.todo /\ (s.clean => s.part \in {None, s.company})
      BY <1>3, <2>1, <3>1
    <3>4. s \in [company : AtCapture!Owner \cup {None}, part : AtCapture!Owner \cup {None}, person : BOOLEAN, clean : BOOLEAN,
                 todo : Seq({"company", "contact", "deal", "link"})]
      BY <1>2, <3>1
    <3> QED
      BY <1>5, <3>2, <3>3, <3>4
  <2>2. ASSUME Head(run.todo) \in {"contact", "deal"}, NEW p \in {run.part, run.company}, next([run EXCEPT !.part = p])
        PROVE  s12' \in Seq(Together)
    <3> DEFINE s == [run EXCEPT !.part = p]
    <3>1. s = [company |-> run.company, part |-> p, person |-> run.person, clean |-> run.clean, todo |-> run.todo]
      BY <1>2
    <3>2. next(s)
      BY <2>2
    <3> HIDE DEF s
    <3>3. s.todo = run.todo /\ (s.clean => s.part \in {None, s.company})
      BY <1>3, <2>2, <3>1
    <3>4. s \in [company : AtCapture!Owner \cup {None}, part : AtCapture!Owner \cup {None}, person : BOOLEAN, clean : BOOLEAN,
                 todo : Seq({"company", "contact", "deal", "link"})]
      BY <1>2, <3>1
    <3> QED
      BY <1>5, <3>2, <3>3, <3>4
  <2>3. ASSUME next(run), run.clean => run.part \in {None, run.company} PROVE s12' \in Seq(Together)
    BY <1>2, <1>5, <2>3
  <2>4. [run EXCEPT !.part = IF run.person THEN run.company ELSE @]
          = [run EXCEPT !.part = IF run.person THEN run.company ELSE run.part]
    BY <1>2
  <2>5. ASSUME Head(run.todo) = "contact", next([run EXCEPT !.part = IF run.person THEN run.company ELSE @])
        PROVE  s12' \in Seq(Together)
    <3>1. PICK p \in {run.part, run.company} : p = IF run.person THEN run.company ELSE run.part
      OBVIOUS
    <3>2. next([run EXCEPT !.part = p])
      BY <2>4, <2>5, <3>1
    <3> QED
      BY <2>2, <2>5, <3>2
  <2> QED
    BY <1>3, <1>4, <1>6, <2>1, <2>2, <2>3, <2>5
<1>8. AtCapture!FiledTogether'
  <2>1. s13' = s13 \/ (s13' = s13 \cup {mark} /\ (run.clean => run.part \in {None, run.company}))
    BY <1>3, <1>4 DEF fails
  <2>2. /\ mark.company = run.company /\ mark.part = run.part /\ mark.clean = run.clean
        /\ \A f \in s13 : f.part \notin {None, f.company} => ~f.clean
    BY DEF CaptureInv, AtCapture!FiledTogether, AtCapture!Foreign
  <2> HIDE DEF mark
  <2>3. \A f \in s13' : f.part \notin {None, f.company} => ~f.clean
    BY <2>1, <2>2
  <2> QED
    BY <2>3 DEF AtCapture!FiledTogether, AtCapture!Foreign
<1> QED
  BY <1>7, <1>8

LEMMA CaptureStays == CaptureInv /\ [AtCapture!CaptureNext]_AtCapture!captureVars => CaptureInv'
<1> SUFFICES ASSUME CaptureInv, [AtCapture!CaptureNext]_AtCapture!captureVars PROVE CaptureInv'
  OBVIOUS
<1>1. CASE AtCapture!CaptureNext
  <2>1. CaptureTyped' /\ FormIsTogether'
    BY <1>1, FormStaysTogether
  <2>2. CASE AtCapture!Submit
    BY <2>1, <2>2, SubmitIsTogether DEF CaptureInv
  <2>3. ASSUME NEW i \in DOMAIN s12, AtCapture!StepSettles(i) PROVE CaptureInv'
    BY <2>1, <2>3, StepIsTogether DEF CaptureInv
  <2>4. CASE UNCHANGED <<s12, s13>>
    BY <2>1, <2>4, EditsKeepRuns DEF CaptureInv
  <2>5. AtCapture!Submit \/ (\E i \in DOMAIN s12 : AtCapture!StepSettles(i)) \/ UNCHANGED <<s12, s13>>
    BY <1>1 DEF AtCapture!CaptureNext, AtCapture!OpenDialog, AtCapture!Close, AtCapture!Search,
       AtCapture!OpenPanel, AtCapture!HidePanel, AtCapture!NameCompany, AtCapture!ListArrives,
       AtCapture!AddNewPerson,
         AtCapture!PickExistingPerson, AtCapture!NamePerson, AtCapture!PickCompany, AtCapture!DetailArrives,
         AtCapture!ChoosePart, AtCapture!Edits
  <2> QED
    BY <2>2, <2>3, <2>4, <2>5
<1>2. CASE UNCHANGED AtCapture!captureVars
  BY <1>2 DEF AtCapture!captureVars, CaptureInv, CaptureTyped, FormIsTogether, AtCapture!FiledTogether,
     AtCapture!Foreign
<1> QED
  BY <1>1, <1>2

\* A submit that no longer has its company to make has one.
HasCompany == \A i \in 1 .. Len(s12) : Head(s12[i].todo) # "company" => s12[i].company \in AtCapture!Owner
Filed == [company : AtCapture!Owner, part : AtCapture!Owner \cup {None}, clean : BOOLEAN]
CaptureRestTyped ==
  /\ s2 \in BOOLEAN /\ s5 \in BOOLEAN /\ s11 \in BOOLEAN
  /\ s7 \in Companies \cup {None} /\ s9 \subseteq Companies
FilesAreTyped == HasCompany /\ s13 \subseteq Filed

LEMMA CaptureTypes == CaptureInv /\ CaptureRestTyped /\ FilesAreTyped => AtCapture!CaptureTypeOK
<1> SUFFICES ASSUME CaptureInv, CaptureRestTyped, FilesAreTyped PROVE AtCapture!CaptureTypeOK
  OBVIOUS
<1>1. \A i \in DOMAIN s12 : s12[i] \in AtCapture!Run
  BY DEF CaptureInv, Together, AtCapture!Run
<1>2. s6 \in AtCapture!Owner \cup {None}
  BY DEF CaptureInv, CaptureTyped, AtCapture!Owner
<1> QED
  BY <1>1, <1>2 DEF CaptureInv, CaptureTyped, CaptureRestTyped, FilesAreTyped, Filed, AtCapture!CaptureTypeOK

LEMMA CaptureTypesStart == AtCapture!CaptureInit => CaptureRestTyped /\ FilesAreTyped
<1> SUFFICES ASSUME AtCapture!CaptureInit PROVE CaptureRestTyped /\ FilesAreTyped
  OBVIOUS
<1>1. s2 = FALSE /\ s5 = FALSE /\ s11 = FALSE
  BY Zenon DEF AtCapture!CaptureInit
<1>2. s7 = None /\ s9 = {} /\ s12 = << >> /\ s13 = {}
  BY DEF AtCapture!CaptureInit
<1>3. HasCompany
  <2>1. Len(s12) = 0
    BY <1>2
  <2> QED
    BY <2>1 DEF HasCompany
<1>4. FilesAreTyped
  BY <1>2, <1>3 DEF FilesAreTyped
<1> QED
  BY <1>1, <1>2, <1>4 DEF CaptureRestTyped

LEMMA CaptureRestStays ==
  CaptureInv /\ CaptureRestTyped /\ [AtCapture!CaptureNext]_AtCapture!captureVars => CaptureRestTyped'
<1> SUFFICES ASSUME CaptureInv, CaptureRestTyped, [AtCapture!CaptureNext]_AtCapture!captureVars PROVE CaptureRestTyped'
  OBVIOUS
<1> USE DEF AtCapture!CaptureNext, AtCapture!OpenDialog, AtCapture!Close, AtCapture!Edits,
        AtCapture!PickCompany, AtCapture!Picked, AtCapture!Search, AtCapture!OpenPanel, AtCapture!HidePanel,
        AtCapture!NameCompany, AtCapture!DetailArrives, AtCapture!ListArrives, AtCapture!ChoosePart,
        AtCapture!AddNewPerson, AtCapture!PickExistingPerson, AtCapture!NamePerson, AtCapture!Submit,
        AtCapture!StepSettles, AtCapture!Tap, AtCapture!companyVars, AtCapture!partVars, AtCapture!captureVars
<1>1. s2' \in {s2, TRUE, FALSE}
  OBVIOUS
<1>2. s5' = s5 \/ s5' = FALSE \/ s5' = ~s5 \/ s5' \in BOOLEAN
  OBVIOUS
<1>3. s11' \in {s11, TRUE, FALSE}
  OBVIOUS
<1>4. s7' \in {s7, None} \cup Companies
  OBVIOUS
<1>5. s9' = s9 \/ \E c \in Companies : s9' = s9 \cup {c}
  OBVIOUS
<1>6. s2' \in BOOLEAN /\ s5' \in BOOLEAN /\ s11' \in BOOLEAN
  BY <1>1, <1>2, <1>3 DEF CaptureRestTyped
<1> QED
  BY <1>4, <1>5, <1>6 DEF CaptureRestTyped

\* Runs are left as they are, or one is added, goes on, or ends.
LEMMA FilesStayTyped ==
  CaptureInv /\ CaptureRestTyped /\ FilesAreTyped /\ [AtCapture!CaptureNext]_AtCapture!captureVars => FilesAreTyped'
<1> SUFFICES ASSUME CaptureInv, CaptureRestTyped, FilesAreTyped, [AtCapture!CaptureNext]_AtCapture!captureVars
             PROVE  FilesAreTyped'
  OBVIOUS
<1>0. s12 \in Seq(Together) /\ Len(s12) \in Nat /\ DOMAIN s12 = 1 .. Len(s12)
  BY DEF CaptureInv
<1>1. CASE AtCapture!Submit
  <2> DEFINE todo == (IF AtCapture!NewCompany THEN <<"company">> ELSE << >>) \o s1.makes
             run == [company |-> IF AtCapture!NewCompany THEN None ELSE s3, part |-> s6,
                     clean |-> ~s14 /\ ~s15,
                     person |-> s10 /\ (AtCapture!NewContactFields \/ s1.company = "typed"), todo |-> todo]
  <2>1. s12' = Append(s12, run) /\ s13' = s13 /\ (s3 # None \/ AtCapture!NewCompany)
    BY <1>1 DEF AtCapture!Submit, AtCapture!CanSubmit
  <2>2. Head(run.todo) # "company" => run.company \in AtCapture!Owner
    <3>0. s3 \in Companies \cup {None}
      BY DEF CaptureInv, CaptureTyped
    <3>1. s1.makes \in Seq({"contact", "deal", "link"})
      BY DialogFields DEF CaptureInv, CaptureTyped, AfterCompany
    <3>2. Head(<<"company">> \o s1.makes) = "company"
      BY <3>1
    <3> QED
      BY <2>1, <3>0, <3>2 DEF AtCapture!Owner
  <2> HIDE DEF run
  <2>3. Len(s12') = Len(s12) + 1 /\ \A i \in 1 .. Len(s12) + 1 : s12'[i] = IF i = Len(s12) + 1 THEN run ELSE s12[i]
    BY <1>0, <2>1
  <2>4. HasCompany'
    BY <1>0, <2>2, <2>3 DEF FilesAreTyped, HasCompany
  <2> QED
    BY <2>1, <2>4 DEF FilesAreTyped
<1>2. ASSUME NEW i \in DOMAIN s12, AtCapture!StepSettles(i) PROVE FilesAreTyped'
  <2> DEFINE run == s12[i]
             next(r) == IF Len(r.todo) = 1
                        THEN s12' = AtCapture!RemoveAt(s12, i) /\ s2' = FALSE
                        ELSE s12' = [s12 EXCEPT ![i] = [r EXCEPT !.todo = Tail(@)]] /\ UNCHANGED s2
             fails == s12' = AtCapture!RemoveAt(s12, i) /\ UNCHANGED <<s2, s13>>
             mark == [company |-> run.company, part |-> run.part, clean |-> run.clean]
             done == s13' = s13 \cup {mark}
  <2>1. run \in Together /\ i \in 1 .. Len(s12)
    BY <1>0
  <2>2. /\ run.company \in AtCapture!Owner \cup {None} /\ run.part \in AtCapture!Owner \cup {None} /\ "new" \in AtCapture!Owner
        /\ run.clean \in BOOLEAN
        /\ run = [company |-> run.company, part |-> run.part, person |-> run.person, clean |-> run.clean, todo |-> run.todo]
    BY <2>1 DEF Together, AtCapture!Owner
  <2>3. Head(run.todo) # "company" => run.company \in AtCapture!Owner
    BY <2>1 DEF FilesAreTyped, HasCompany
  <2>4. \/ /\ Head(run.todo) = "company" /\ s13' = s13
           /\ next([run EXCEPT !.company = "new"]) \/ fails
        \/ /\ Head(run.todo) = "contact" /\ s13' = s13
           /\ next([run EXCEPT !.part = IF run.person THEN run.company ELSE @]) \/ next(run)
        \/ /\ Head(run.todo) = "deal" /\ ((done /\ next([run EXCEPT !.part = run.company])) \/ fails)
        \/ /\ Head(run.todo) = "link" /\ ((done /\ next(run)) \/ fails)
    BY <1>2 DEF AtCapture!StepSettles
  <2> HIDE DEF run
  <2>5. s13' \subseteq Filed
    <3>1. s13' = s13 \/ (s13' = s13 \cup {mark} /\ run.company \in AtCapture!Owner)
      BY <2>3, <2>4
    <3>2. run.company \in AtCapture!Owner => mark \in Filed
      BY <2>2 DEF Filed
    <3> HIDE DEF mark
    <3> QED
      BY <3>1, <3>2 DEF FilesAreTyped
  <2>6. ASSUME NEW r \in [company : AtCapture!Owner \cup {None}, part : AtCapture!Owner \cup {None}, person : BOOLEAN,
                           clean : BOOLEAN, todo : Seq({"company", "contact", "deal", "link"})],
               r.company \in AtCapture!Owner, next(r) PROVE HasCompany'
    <3>1. CASE Len(r.todo) = 1
      <4>1. s12' = TakenOut(s12, i)
        BY <2>6, <3>1 DEF AtCapture!RemoveAt, TakenOut
      <4>2. /\ Len(s12') = Len(s12) - 1
            /\ \A k \in 1 .. Len(s12) - 1 : s12'[k] = IF k < i THEN s12[k] ELSE s12[k + 1]
        BY <1>0, <2>1, <4>1, TakenOutProperties
      <4>3. ASSUME NEW k \in 1 .. Len(s12') PROVE Head(s12'[k].todo) # "company" => s12'[k].company \in AtCapture!Owner
        <5>1. \E j \in 1 .. Len(s12) : s12'[k] = s12[j]
          BY <1>0, <2>1, <4>2
        <5> QED
          BY <5>1 DEF FilesAreTyped, HasCompany
      <4> QED
        BY <4>3 DEF HasCompany
    <3>2. CASE Len(r.todo) # 1
      <4>1. s12' = [s12 EXCEPT ![i] = GoesOn(r)]
        BY <2>6, <3>2 DEF GoesOn
      <4>2. /\ Len(s12') = Len(s12)
            /\ \A k \in 1 .. Len(s12) : s12'[k] = IF k = i THEN GoesOn(r) ELSE s12[k]
        BY <1>0, <2>1, <4>1
      <4>3. GoesOn(r).company = r.company
        BY <2>6 DEF GoesOn
      <4>4. ASSUME NEW k \in 1 .. Len(s12') PROVE Head(s12'[k].todo) # "company" => s12'[k].company \in AtCapture!Owner
        BY <2>6, <4>2, <4>3, <4>4 DEF FilesAreTyped, HasCompany
      <4> QED
        BY <4>4 DEF HasCompany
    <3> QED
      BY <3>1, <3>2
  <2>7. HasCompany'
    <3> DEFINE Runs == [company : AtCapture!Owner \cup {None}, part : AtCapture!Owner \cup {None}, person : BOOLEAN,
                        clean : BOOLEAN, todo : Seq({"company", "contact", "deal", "link"})]
    <3>1. run \in Runs
      BY <2>1 DEF Together
    <3>2. /\ [run EXCEPT !.company = "new"] \in Runs /\ [run EXCEPT !.company = "new"].company = "new"
          /\ \A p \in AtCapture!Owner \cup {None} :
               [run EXCEPT !.part = p] \in Runs /\ [run EXCEPT !.part = p].company = run.company
      BY <2>2, <3>1
    <3>3. CASE s12' = TakenOut(s12, i)
      <4>2. /\ Len(s12') = Len(s12) - 1
            /\ \A k \in 1 .. Len(s12) - 1 : s12'[k] = IF k < i THEN s12[k] ELSE s12[k + 1]
        BY <1>0, <2>1, <3>3, TakenOutProperties
      <4>3. ASSUME NEW k \in 1 .. Len(s12') PROVE Head(s12'[k].todo) # "company" => s12'[k].company \in AtCapture!Owner
        <5>1. \E j \in 1 .. Len(s12) : s12'[k] = s12[j]
          BY <1>0, <2>1, <4>2
        <5> QED
          BY <5>1 DEF FilesAreTyped, HasCompany
      <4> QED
        BY <4>3 DEF HasCompany
    <3>4. \/ s12' = TakenOut(s12, i)
          \/ \E r \in Runs : r.company \in AtCapture!Owner /\ next(r)
      <4>1. ASSUME fails PROVE s12' = TakenOut(s12, i)
        BY <4>1 DEF AtCapture!RemoveAt, TakenOut
      <4>2. (IF run.person THEN run.company ELSE run.part) \in AtCapture!Owner \cup {None}
        BY <2>2
      <4>3. Head(run.todo) = "company" => fails \/ \E r \in Runs : r.company \in AtCapture!Owner /\ next(r)
        BY <2>2, <2>4, <3>2
      <4>4. Head(run.todo) = "contact" => \E r \in Runs : r.company \in AtCapture!Owner /\ next(r)
        BY <2>3, <2>4, <3>1, <3>2, <4>2
      <4>5. Head(run.todo) = "deal" => fails \/ \E r \in Runs : r.company \in AtCapture!Owner /\ next(r)
        BY <2>2, <2>3, <2>4, <3>2
      <4>6. Head(run.todo) = "link" => fails \/ \E r \in Runs : r.company \in AtCapture!Owner /\ next(r)
        BY <2>3, <2>4, <3>1
      <4> HIDE DEF next, fails, Runs
      <4> QED
        BY <2>4, <4>1, <4>3, <4>4, <4>5, <4>6
    <3> HIDE DEF next, fails
    <3> QED
      BY <2>6, <3>3, <3>4
  <2> QED
    BY <2>5, <2>7 DEF FilesAreTyped
<1>3. CASE UNCHANGED <<s12, s13>>
  BY <1>3 DEF FilesAreTyped, HasCompany
<1>4. UNCHANGED <<s12, s13>> \/ AtCapture!Submit \/ \E i \in DOMAIN s12 : AtCapture!StepSettles(i)
  BY DEF AtCapture!CaptureNext, AtCapture!OpenDialog, AtCapture!Close, AtCapture!Edits, AtCapture!PickCompany, AtCapture!Picked, AtCapture!Search, AtCapture!OpenPanel, AtCapture!HidePanel, AtCapture!NameCompany, AtCapture!DetailArrives, AtCapture!ListArrives, AtCapture!ChoosePart, AtCapture!AddNewPerson, AtCapture!PickExistingPerson, AtCapture!NamePerson, AtCapture!Tap, AtCapture!companyVars, AtCapture!partVars, AtCapture!captureVars
<1> QED
  BY <1>1, <1>2, <1>3, <1>4

-----------------------------------------------------------------------------
(***************************************************************************)
(* The business registry.                                                   *)
(***************************************************************************)
\* What was filled in stays as long as its number does, in the form and in the lookup.
AutofillInv ==
  s1.clears => /\ s6 # None => s6 = s3 /\ s6 = s4
               /\ {s7, s8} \subseteq {s6, None, "own"}

LEMMA AutofillShows == AutofillInv => AtAutofill!FieldsAreOfTheNumber
  BY DEF AutofillInv, AtAutofill!FieldsAreOfTheNumber

LEMMA AutofillStarts == AtAutofill!AutofillInit => AutofillInv
<1> SUFFICES ASSUME AtAutofill!AutofillInit, s1.clears PROVE AutofillInv
  BY DEF AutofillInv
<1>1. ~s1.saved
  BY DEF AtAutofill!AutofillInit, AtAutofill!FormKinds, AtAutofill!AddCompanyForm,
     AtAutofill!NewCompanyPanel, AtAutofill!OrgBillingFields, AtAutofill!NewOrgBilling
<1> QED
  BY <1>1 DEF AtAutofill!AutofillInit, AutofillInv

\* The effect, for a number that is the old one, or another that the lookup does not know yet.
LEMMA EffectKeepsFields ==
  ASSUME AutofillInv, s1.clears, NEW n, NEW q, NEW c, s3' = n, s4' = q,
         s6 # None => s6 = n \/ n # q,
         s6 = n /\ n # None => q = n,
         AtAutofill!Effect(n, q, c, s7, s8)
  PROVE  /\ s6' # None => s6' = s3' /\ s6' = s4'
         /\ {s7', s8'} \subseteq {s6', None, "own"}
<1>1. {s7, s8} \subseteq {s6, None, "own"}
  BY DEF AutofillInv
<1>2. CASE AtAutofill!Matches(n, q, c) /\ (s1.repeats \/ s6 # n)
  <2>1. s6' = n /\ s7' = AtAutofill!Data(q, c) /\ s8' \in {AtAutofill!Data(q, c), s8}
    BY <1>2 DEF AtAutofill!Effect
  <2>2. AtAutofill!Data(q, c) = n /\ q = n
    BY <1>2 DEF AtAutofill!Matches, AtAutofill!Data
  <2>3. s6 = None \/ s6 = n
    BY <2>2
  <2> QED
    BY <1>1, <2>1, <2>2, <2>3
<1>3. CASE ~(AtAutofill!Matches(n, q, c) /\ (s1.repeats \/ s6 # n)) /\ s6 # None /\ n # s6
  BY <1>3 DEF AtAutofill!Effect
<1>4. CASE ~(AtAutofill!Matches(n, q, c) /\ (s1.repeats \/ s6 # n)) /\ ~(s6 # None /\ n # s6)
  <2>1. UNCHANGED s6 /\ s7' = s7 /\ s8' = s8
    BY <1>4 DEF AtAutofill!Effect
  <2> QED
    BY <1>1, <1>4, <2>1
<1> QED
  BY <1>2, <1>3, <1>4

LEMMA AutofillStays == AutofillInv /\ [AtAutofill!AutofillNext]_AtAutofill!autofillVars => AutofillInv'
<1> SUFFICES ASSUME AutofillInv, [AtAutofill!AutofillNext]_AtAutofill!autofillVars, s1'.clears PROVE AutofillInv'
  BY DEF AutofillInv
<1>1. s1' = s1 /\ s1.clears
  BY DEF AtAutofill!AutofillNext, AtAutofill!Quiet, AtAutofill!TypeName, AtAutofill!TypeVat, AtAutofill!Fold,
     AtAutofill!Unfold, AtAutofill!TypeNumber, AtAutofill!LookupAnswers, AtAutofill!LookupFails,
     AtAutofill!autofillVars
<1>2. ASSUME NEW n \in Numbers \cup {None}, AtAutofill!TypeNumber(n) PROVE AutofillInv'
  <2>1. n # s3 /\ s3' = n /\ s4' = s4 /\ AtAutofill!Effect(n, s4, s9, s7, s8)
    BY <1>2 DEF AtAutofill!TypeNumber
  <2>2. s6 # None => s6 = s3 /\ s6 = s4
    BY <1>1 DEF AutofillInv
  <2> QED
    BY <1>1, <2>1, <2>2, EffectKeepsFields DEF AutofillInv
<1>3. CASE AtAutofill!Quiet
  <2>1. s3' = s3 /\ s4' = s3 /\ s4 # s3
    BY <1>3 DEF AtAutofill!Quiet
  <2>2. s6 = None
    BY <1>1, <2>1 DEF AutofillInv
  <2>3. CASE s2
    <3>1. AtAutofill!Effect(s3, s3, s9, s7, s8)
      BY <1>3, <2>3 DEF AtAutofill!Quiet
    <3> QED
      BY <1>1, <2>1, <2>2, <3>1, EffectKeepsFields DEF AutofillInv
  <2>4. CASE ~s2
    BY <1>3, <2>2, <2>4 DEF AtAutofill!Quiet, AutofillInv
  <2> QED
    BY <2>3, <2>4
<1>4. ASSUME NEW n \in Numbers, AtAutofill!LookupAnswers(n) PROVE AutofillInv'
  <2>1. s3' = s3 /\ s4' = s4
    BY <1>4 DEF AtAutofill!LookupAnswers
  <2>2. s6 # None => s6 = s3 /\ s6 = s4
    BY <1>1 DEF AutofillInv
  <2>3. CASE s2
    <3>1. AtAutofill!Effect(s3, s4, s9', s7, s8)
      BY <1>4, <2>3 DEF AtAutofill!LookupAnswers
    <3> QED
      BY <1>1, <2>1, <2>2, <3>1, EffectKeepsFields DEF AutofillInv
  <2>4. CASE ~s2
    BY <1>4, <2>4 DEF AtAutofill!LookupAnswers, AutofillInv
  <2> QED
    BY <2>3, <2>4
<1>5. ASSUME NEW n \in Numbers, AtAutofill!LookupFails(n) PROVE AutofillInv'
  BY <1>5 DEF AtAutofill!LookupFails, AutofillInv
<1>6. CASE AtAutofill!TypeName \/ AtAutofill!TypeVat
  BY <1>6 DEF AtAutofill!TypeName, AtAutofill!TypeVat, AutofillInv
<1>7. CASE AtAutofill!Fold \/ AtAutofill!Unfold
  BY <1>7 DEF AtAutofill!Fold, AtAutofill!Unfold, AutofillInv
<1>8. CASE UNCHANGED AtAutofill!autofillVars
  BY <1>8 DEF AtAutofill!autofillVars, AutofillInv
<1> QED
  BY <1>2, <1>3, <1>4, <1>5, <1>6, <1>7, <1>8 DEF AtAutofill!AutofillNext

LEMMA AutofillTypesStart == AtAutofill!AutofillInit => AtAutofill!AutofillTypeOK
<1> SUFFICES ASSUME AtAutofill!AutofillInit PROVE AtAutofill!AutofillTypeOK
  OBVIOUS
<1>1. s5 \in Numbers \cup {None}
  BY DEF AtAutofill!AutofillInit
<1>2. s2 \in BOOLEAN
  <2>1. s1.folds \in BOOLEAN /\ s2 = ~s1.folds
    <3>1. \A k \in AtAutofill!FormKinds : k.folds \in BOOLEAN
      <4>1. /\ AtAutofill!AddCompanyForm.folds = TRUE /\ AtAutofill!NewCompanyPanel.folds = TRUE
            /\ AtAutofill!OrgBillingFields.folds = FALSE
        BY DEF AtAutofill!AddCompanyForm, AtAutofill!NewCompanyPanel, AtAutofill!OrgBillingFields
      <4>2. AtAutofill!NewOrgBilling.folds = FALSE
        BY DEF AtAutofill!OrgBillingFields, AtAutofill!NewOrgBilling
      <4> QED
        BY <4>1, <4>2 DEF AtAutofill!FormKinds
    <3>2. s1 \in AtAutofill!FormKinds
      BY DEF AtAutofill!AutofillInit
    <3>3. s2 = ~s1.folds
      BY Zenon DEF AtAutofill!AutofillInit
    <3> QED
      BY <3>1, <3>2, <3>3
  <2> QED
    BY <2>1
<1>3. s1 \in AtAutofill!FormKinds /\ s3 = s5 /\ s4 = s5 /\ s6 = s5 /\ s7 = s5 /\ s8 \in {s5, None} /\ s9 = {} /\ s10 = {} /\ taps = 0
  BY DEF AtAutofill!AutofillInit
<1> QED
  BY <1>1, <1>2, <1>3 DEF AtAutofill!AutofillTypeOK, AtAutofill!Content

LEMMA EffectIsTyped ==
  ASSUME NEW n \in Numbers \cup {None}, NEW q \in Numbers \cup {None}, NEW c \in SUBSET Numbers,
         {s7, s8} \subseteq AtAutofill!Content, s6 \in Numbers \cup {None}, AtAutofill!Effect(n, q, c, s7, s8)
  PROVE  {s7', s8'} \subseteq AtAutofill!Content /\ s6' \in Numbers \cup {None}
  BY DEF AtAutofill!Effect, AtAutofill!Data, AtAutofill!Content

LEMMA AutofillTypesStay ==
  AtAutofill!AutofillTypeOK /\ [AtAutofill!AutofillNext]_AtAutofill!autofillVars => AtAutofill!AutofillTypeOK'
<1> SUFFICES ASSUME AtAutofill!AutofillTypeOK, [AtAutofill!AutofillNext]_AtAutofill!autofillVars PROVE AtAutofill!AutofillTypeOK'
  OBVIOUS
<1>0. Listed \subseteq Numbers
  BY DealsAssumption DEF AtAutofill!AutofillAssumption
<1>1. UNCHANGED taps \/ taps' = taps + 1
  BY DEF AtAutofill!AutofillNext, AtAutofill!Quiet, AtAutofill!TypeName, AtAutofill!TypeVat, AtAutofill!Fold, AtAutofill!Tap,
     AtAutofill!Unfold, AtAutofill!TypeNumber, AtAutofill!LookupAnswers, AtAutofill!LookupFails, AtAutofill!autofillVars
<1>2. taps' \in Nat
  BY <1>1 DEF AtAutofill!AutofillTypeOK
<1> USE DEF AtAutofill!AutofillTypeOK
<1>3. ASSUME NEW n \in Numbers \cup {None}, AtAutofill!TypeNumber(n) PROVE AtAutofill!AutofillTypeOK'
  <2>1. AtAutofill!Effect(n, s4, s9, s7, s8) /\ s3' = n
    BY <1>3 DEF AtAutofill!TypeNumber
  <2>2. {s7', s8'} \subseteq AtAutofill!Content /\ s6' \in Numbers \cup {None}
    BY <1>0, <2>1, EffectIsTyped
  <2> QED
    BY <1>2, <1>3, <2>1, <2>2 DEF AtAutofill!TypeNumber, AtAutofill!Content
<1>4. CASE AtAutofill!Quiet
  <2>1. {s7', s8'} \subseteq AtAutofill!Content /\ s6' \in Numbers \cup {None}
    <3>1. CASE s2
      <4>1. AtAutofill!Effect(s3, s3, s9, s7, s8)
        BY <1>4, <3>1 DEF AtAutofill!Quiet
      <4> QED
        BY <1>0, <4>1, EffectIsTyped
    <3>2. CASE ~s2
      BY <1>4, <3>2 DEF AtAutofill!Quiet
    <3> QED
      BY <3>1, <3>2
  <2> QED
    BY <1>2, <1>4, <2>1 DEF AtAutofill!Quiet, AtAutofill!Content
<1>5. ASSUME NEW n \in Numbers, AtAutofill!LookupAnswers(n) PROVE AtAutofill!AutofillTypeOK'
  <2>1. s9' \subseteq Listed /\ s10' \subseteq Numbers
    BY <1>5 DEF AtAutofill!LookupAnswers
  <2>2. {s7', s8'} \subseteq AtAutofill!Content /\ s6' \in Numbers \cup {None}
    <3>1. CASE s2
      <4>1. AtAutofill!Effect(s3, s4, s9', s7, s8)
        BY <1>5, <3>1 DEF AtAutofill!LookupAnswers
      <4> QED
        BY <1>0, <2>1, <4>1, EffectIsTyped
    <3>2. CASE ~s2
      BY <1>5, <3>2 DEF AtAutofill!LookupAnswers
    <3> QED
      BY <3>1, <3>2
  <2> QED
    BY <1>2, <1>5, <2>1, <2>2 DEF AtAutofill!LookupAnswers, AtAutofill!Content
<1>6. ASSUME NEW n \in Numbers, AtAutofill!LookupFails(n) PROVE AtAutofill!AutofillTypeOK'
  BY <1>2, <1>6 DEF AtAutofill!LookupFails
<1>7. CASE AtAutofill!TypeName \/ AtAutofill!TypeVat
  BY <1>2, <1>7 DEF AtAutofill!TypeName, AtAutofill!TypeVat, AtAutofill!Content
<1>8. CASE AtAutofill!Fold \/ AtAutofill!Unfold
  BY <1>2, <1>8 DEF AtAutofill!Fold, AtAutofill!Unfold, AtAutofill!Content
<1>9. CASE UNCHANGED AtAutofill!autofillVars
  BY <1>9 DEF AtAutofill!autofillVars
<1> QED
  BY <1>3, <1>4, <1>5, <1>6, <1>7, <1>8, <1>9 DEF AtAutofill!AutofillNext

-----------------------------------------------------------------------------
(***************************************************************************)
(* The types of all of them.                                                *)
(***************************************************************************)
LEMMA FormTypes == FormsInv => AtForm!FormsTypeOK
<1> SUFFICES ASSUME FormsInv PROVE AtForm!FormsTypeOK
  OBVIOUS
<1>1. {s2, s14, s15} \subseteq BOOLEAN
  BY DEF FormsInv, FormsTyped
<1>2. s1 \in AtForm!Form
  BY FormsAreKnown DEF FormsInv, FormsTyped
<1>3. /\ {s3, s4, s5, s6} \subseteq AtForm!Record
      /\ s11 \in FormWords \cup {None} /\ s12 \subseteq FormWords /\ s13 \in FormWords
      /\ {s8, s9, s10, taps} \subseteq Nat
  BY DEF FormsInv, FormsTyped
<1> QED
  BY <1>1, <1>2, <1>3 DEF AtForm!FormsTypeOK

LEMMA EntryTypes == EntryInv => AtEntry!EntryTypeOK
<1> SUFFICES ASSUME EntryInv PROVE AtEntry!EntryTypeOK
  OBVIOUS
<1>1. {s3, s4, s11, s12} \subseteq BOOLEAN
  BY DEF EntryInv, EntryTyped
<1>2. /\ {s1, s2, s6, s7, s10} \subseteq Texts /\ s8 \in Texts \cup {None} /\ s9 \in Seq(AtEntry!Patch)
      /\ taps \in Nat /\ s5 \in Nat
  BY DEF EntryInv, EntryTyped
<1> QED
  BY <1>1, <1>2 DEF AtEntry!EntryTypeOK

LEMMA DraftTypes == DraftInv => AtDraft!DraftTypeOK
<1> SUFFICES ASSUME DraftInv PROVE AtDraft!DraftTypeOK
  OBVIOUS
<1>1. {s1, s4, s5, s7, s11, s12} \subseteq BOOLEAN
  BY DEF DraftInv, DraftTyped
<1>2. /\ s2 \in Notes \cup {None} /\ s3 \in Kinds \cup {NewKind, None} /\ s9 \in Notes \cup {None}
      /\ s6 \in Seq(AtDraft!Commit) /\ s8 \in Seq(AtDraft!Entry) /\ taps \in Nat /\ s10 \in Nat
  BY DEF DraftInv, DraftTyped
<1> QED
  BY <1>1, <1>2 DEF AtDraft!DraftTypeOK

LEMMA ListTypes == ListsInv => AtList!ListsTypeOK
<1> SUFFICES ASSUME ListsInv PROVE AtList!ListsTypeOK
  OBVIOUS
<1>1. {s2, s3, s4, s5, s14, s15, s16} \subseteq BOOLEAN
  BY DEF ListsInv, ListsTyped
<1>2. s1 \in AtList!List
  BY ListsAreKnown DEF ListsInv, ListsTyped
<1>3. {s7, s8, s10, s11, s12, s13, s17} \subseteq SUBSET AtList!Rows
  BY DEF ListsInv, ListsTyped
<1>4. s9 \in AtList!Answer /\ {s6, taps} \subseteq Nat
  BY DEF ListsInv, ListsTyped
<1> QED
  BY <1>1, <1>2, <1>3, <1>4 DEF AtList!ListsTypeOK

LEMMA SearchTypes == SearchInv => AtSearch!SearchTypeOK
<1> SUFFICES ASSUME SearchInv PROVE AtSearch!SearchTypeOK
  OBVIOUS
<1>1. {s1, s9, s10} \subseteq BOOLEAN
  BY DEF SearchInv, SearchTyped
<1>2. /\ {s2, s3} \subseteq SearchWords /\ s4 \in {Before, After}
      /\ s5 \in [AtSearch!Asked -> AtSearch!Lists \cup {None}] /\ s6 \subseteq AtSearch!Asked
  BY DEF SearchInv, SearchTyped
<1>3. /\ s7 \in AtSearch!Shown /\ s8 \in AtSearch!Asked \cup {None} /\ s11 \in 0 .. Len(s7.hits)
      /\ s12 \in AtSearch!Hits \cup {None} /\ s13 \in AtSearch!Opened \cup {None} /\ taps \in Nat
  BY DEF SearchInv, SearchTyped
<1> QED
  BY <1>1, <1>2, <1>3 DEF AtSearch!SearchTypeOK

\* The import moves by its own steps, or rests while another page is looked at.
LEMMA ImportByItself == [DealsNext]_dealsVars => [ImportNext]_importVars \/ UNCHANGED importOwnVars
  BY DEF DealsNext, dealsVars, importVars, importOwnVars

LEMMA ImportBegins == DealsInit => ImportInit \/ NoImport
  BY DEF DealsInit

\* Each part keeps the invariant that proves what it promises, and the types that the
\* invariant leaves out.
TypedPages ==
  /\ ImportTypeOK
  /\ (screen = "board" => BoardInv)
  /\ (screen = "entry" => EntryInv)
  /\ (screen = "draft" => DraftInv)
  /\ (screen = "card" => GestureInv /\ PressTyped)
  /\ (screen = "life" => LifeInv /\ LifeTyped)
  /\ (screen = "form" => FormsInv)
  /\ (screen = "list" => ListsInv)
  /\ (screen = "event" => EventInv /\ EventTyped /\ BoxesTyped)
  /\ (screen = "agenda" => AgendaInv /\ DaysTyped)
  /\ (screen = "capture" => CaptureInv /\ CaptureRestTyped /\ FilesAreTyped)
  /\ (screen = "autofill" => AtAutofill!AutofillTypeOK)
  /\ (screen = "stages" => StagesInv /\ StagesTyped)
  /\ (screen = "search" => SearchInv)
  /\ (screen = "reminders" => RowsInv /\ RemindersCounted /\ s7 \in BOOLEAN)

\* However long an edit, its answer and the dialog of a loss overlap (PipelinePage and
\* EditDealModal), the reason of a loss is stored at the deal it was given for, and a deal
\* is closed exactly when it was won or lost.
THEOREM DecisionsReach == DealsSpec => []DecisionReachesItsDeal
<1> DEFINE Inv == screen = "life" => LifeInv
<1>1. DealsInit => Inv
  BY EachBegins, LifeStarts
<1>2. Inv /\ [DealsNext]_dealsVars => Inv'
  BY EachByItself, LifeStays
<1>3. Inv => DecisionReachesItsDeal
  BY DEF LifeInv, DecisionReachesItsDeal
<1> QED
  BY <1>1, <1>2, <1>3, PTL DEF DealsSpec

\* A title of the user's own is never replaced by one made from the deal (EventForm's
\* useEffect), picked times are a slot the form takes, a row of the reminders keeps its free
\* box (RemindersEditor's row ids), and the agenda never calls a day empty that has an event.
THEOREM CalendarStaysTrue == DealsSpec => []CalendarIsTrue
<1> DEFINE Inv == /\ screen = "event" => EventInv
                  /\ screen = "reminders" => RowsInv
                  /\ screen = "agenda" => AgendaInv
<1>1. DealsInit => Inv
  BY EachBegins, EventStarts, RowsStart, AgendaStarts
<1>2. Inv /\ [DealsNext]_dealsVars => Inv'
  BY EachByItself, EventStays, RowsStay, AgendaStays
<1>3. Inv => CalendarIsTrue
  BY RowsAreOfTheirReminders, PanelIsTrue DEF EventInv, CalendarIsTrue
<1> QED
  BY <1>1, <1>2, <1>3, PTL DEF DealsSpec

\* A card stays in the column it was dropped on until its move is answered
\* (useMoveDealStage's onMutate), and one press on a card has one effect, the one its
\* movement means (DealCard's handlers).
THEOREM CardsObey == DealsSpec => []CardObeysTheHand
<1> DEFINE Inv == (screen = "board" => BoardInv) /\ (screen = "card" => GestureInv)
<1>1. DealsInit => Inv
  BY EachBegins, BoardStarts, GestureStarts
<1>2. Inv /\ [DealsNext]_dealsVars => Inv'
  BY EachByItself, BoardStays, GestureStays
<1>3. Inv => CardObeysTheHand
  BY BoardShows DEF GestureInv, CardObeysTheHand
<1> QED
  BY <1>1, <1>2, <1>3, PTL DEF DealsSpec

\* Once its answers are in, the board shows what the server held, and nothing older than
\* the moves it confirmed (useMoveDealStage's cancel, rollback and invalidation); the
\* section of the stages shows the server's order, an admin who waits for each answer gets
\* the order he asked for, and no order sent from an old list drops or revives a stage
\* (reorder_stages' check).
THEOREM BoardsSettle == DealsSpec => []BoardSettles
<1> DEFINE Inv == (screen = "board" => BoardInv) /\ (screen = "stages" => StagesInv)
<1>1. DealsInit => Inv
  BY EachBegins, BoardStarts, StagesStart
<1>2. Inv /\ [DealsNext]_dealsVars => Inv'
  BY EachByItself, BoardStays, StagesStay
<1>3. Inv => BoardSettles
  BY BoardShows, StagesAreKept DEF BoardSettles
<1> QED
  BY <1>1, <1>2, <1>3, PTL DEF DealsSpec

\* A deal is filed with a contact of its own company, and a mail with a deal of it, whatever
\* was picked, typed and hidden before and whichever answers came late (AddDealModal and
\* LinkEmailDialog), unless the user overtook the list; and what the business registry
\* filled in is of the number in the form (the effect of AddCompanyModal).
THEOREM CapturesAreTogether == DealsSpec => []FiledTogether
<1> DEFINE Inv == (screen = "capture" => CaptureInv) /\ (screen = "autofill" => AutofillInv)
<1>1. DealsInit => Inv
  BY EachBegins, CaptureStarts, AutofillStarts
<1>2. Inv /\ [DealsNext]_dealsVars => Inv'
  BY EachByItself, CaptureStays, AutofillStays
<1>3. Inv => FiledTogether
  BY AutofillShows DEF CaptureInv, FiledTogether
<1> QED
  BY <1>1, <1>2, <1>3, PTL DEF DealsSpec

\* What was typed last is in the form or was taken by the server, a draft makes one record
\* and no save undoes a colleague's change, but for the forms that Forms names, however saves,
\* answers, openings and refetches overlap; the last text of an entry (EntryRow's debounce)
\* reaches the server or is taken back on screen, and a draft of one makes one entry and
\* keeps what was typed until it has (TimelineTab).
THEOREM FormsKeep == DealsSpec => []FormsKeepTyping
<1> DEFINE Inv == /\ screen = "form" => FormsInv
                  /\ screen = "entry" => EntryInv
                  /\ screen = "draft" => DraftInv
<1>1. DealsInit => Inv
  BY EachBegins, FormsStart, EntryStarts, DraftStarts
<1>2. Inv /\ [DealsNext]_dealsVars => Inv'
  BY EachByItself, FormsStay, EntryStays, DraftStays
<1>3. Inv => FormsKeepTyping
  BY FormsShow, EntryShows, DraftShows DEF FormsKeepTyping
<1> QED
  BY <1>1, <1>2, <1>3, PTL DEF DealsSpec

\* A settled list leaves nobody on a page without rows, whatever the debounced word, the
\* filters and the address did to the page; the basket of the companies survives paging,
\* searching and failed sends; and the search opens the hit that is highlighted, of the word
\* in question once it is answered (GlobalSearch), however hits change under the highlight.
THEOREM ListsKeep == DealsSpec => []ListsKeepTheirPlace
<1> DEFINE Inv == (screen = "list" => ListsInv) /\ (screen = "search" => SearchInv)
<1>1. DealsInit => Inv
  BY EachBegins, ListsStart, SearchStarts
<1>2. Inv /\ [DealsNext]_dealsVars => Inv'
  BY EachByItself, ListsStay, SearchStays
<1>3. Inv => ListsKeepTheirPlace
  BY ListsShow, SearchShows DEF ListsKeepTheirPlace
<1> QED
  BY <1>1, <1>2, <1>3, PTL DEF DealsSpec

\* What the server imports is what the report on screen was made of (ImportPage.tsx sends
\* its entries once to preview and once more to import), unless an entry changed under it.
THEOREM ImportIsPreviewed == ImportSpec => []ImportedIsPreviewed
<1>1. ImportInv => ImportedIsPreviewed
  BY DEF ImportInv
<1> QED
  BY ImportStarts, ImportKeeps, <1>1, PTL DEF ImportSpec

\* The state of each part stays of the form its module gives it.
THEOREM DealsAreTyped == DealsSpec => []DealsTypeOK
<1>1. DealsInit => TypedPages
  <2> SUFFICES ASSUME DealsInit PROVE TypedPages
    OBVIOUS
  <2>1. ImportTypeOK
    BY ImportBegins, ImportTypesStart
  <2>2. /\ screen = "board" => BoardInv
        /\ screen = "entry" => EntryInv
        /\ screen = "draft" => DraftInv
        /\ screen = "form" => FormsInv
        /\ screen = "list" => ListsInv
        /\ screen = "search" => SearchInv
    BY EachBegins, BoardStarts, EntryStarts, DraftStarts, FormsStart, ListsStart, SearchStarts
  <2>3. /\ screen = "card" => GestureInv /\ PressTyped
        /\ screen = "life" => LifeInv /\ LifeTyped
        /\ screen = "event" => EventInv /\ EventTyped /\ BoxesTyped
        /\ screen = "agenda" => AgendaInv /\ DaysTyped
    BY EachBegins, GestureStarts, PressTypesStart, LifeStarts, LifeTypesStart, EventStarts, EventTypesStart,
       AgendaStarts, DaysTypesStart
  <2>4. /\ screen = "capture" => CaptureInv /\ CaptureRestTyped /\ FilesAreTyped
        /\ screen = "autofill" => AtAutofill!AutofillTypeOK
        /\ screen = "stages" => StagesInv /\ StagesTyped
        /\ screen = "reminders" => RowsInv /\ RemindersCounted /\ s7 \in BOOLEAN
    BY EachBegins, CaptureStarts, CaptureTypesStart, AutofillTypesStart, StagesStart, StagesTypesStart,
       RowsStart, RowsTypesStart
  <2> QED
    BY <2>1, <2>2, <2>3, <2>4 DEF TypedPages
<1>2. TypedPages /\ [DealsNext]_dealsVars => TypedPages'
  <2> SUFFICES ASSUME TypedPages, [DealsNext]_dealsVars PROVE TypedPages'
    OBVIOUS
  <2>0. screen' = screen
    BY EachByItself
  <2>1. ImportTypeOK'
    BY ImportByItself, ImportTypesStay DEF TypedPages
  <2>2. /\ screen = "board" => BoardInv'
        /\ screen = "entry" => EntryInv'
        /\ screen = "draft" => DraftInv'
        /\ screen = "form" => FormsInv'
        /\ screen = "list" => ListsInv'
        /\ screen = "search" => SearchInv'
    BY EachByItself, BoardStays, EntryStays, DraftStays, FormsStay, ListsStay, SearchStays DEF TypedPages
  <2>3. /\ screen = "card" => (GestureInv /\ PressTyped)'
        /\ screen = "life" => (LifeInv /\ LifeTyped)'
        /\ screen = "event" => (EventInv /\ EventTyped /\ BoxesTyped)'
        /\ screen = "agenda" => (AgendaInv /\ DaysTyped)'
    BY EachByItself, GestureStays, PressTypesStay, LifeStays, LifeTypesStay, EventStays, EventTypesStay,
       BoxesStayTyped, AgendaStays, DaysTypesStay DEF TypedPages
  <2>4. /\ screen = "capture" => (CaptureInv /\ CaptureRestTyped /\ FilesAreTyped)'
        /\ screen = "autofill" => AtAutofill!AutofillTypeOK'
        /\ screen = "stages" => (StagesInv /\ StagesTyped)'
    BY EachByItself, CaptureStays, CaptureRestStays, FilesStayTyped, AutofillTypesStay, StagesStay, StagesTypesStay
    DEF TypedPages
  <2>5. screen = "reminders" => (RowsInv /\ RemindersCounted)' /\ s7' \in BOOLEAN
    BY EachByItself, RowsStay, RowsTypesStay, SwappedStaysTyped DEF TypedPages
  <2> QED
    BY <2>0, <2>1, <2>2, <2>3, <2>4, <2>5 DEF TypedPages
<1>3. TypedPages => DealsTypeOK
  <2> SUFFICES ASSUME TypedPages PROVE DealsTypeOK
    OBVIOUS
  <2>1. screen = "board" => AtBoard!TypeOK
    BY DEF TypedPages, BoardInv
  <2>2. /\ screen = "entry" => AtEntry!EntryTypeOK
        /\ screen = "draft" => AtDraft!DraftTypeOK
        /\ screen = "form" => AtForm!FormsTypeOK
        /\ screen = "list" => AtList!ListsTypeOK
        /\ screen = "search" => AtSearch!SearchTypeOK
    BY EntryTypes, DraftTypes, FormTypes, ListTypes, SearchTypes DEF TypedPages
  <2>3. /\ screen = "card" => AtCard!GestureTypeOK
        /\ screen = "life" => AtLife!LifeTypeOK
        /\ screen = "event" => AtEvent!EventTypeOK
        /\ screen = "agenda" => AtAgenda!AgendaTypeOK
    BY PressTypes, LifeTypes, EventTypes, DaysTypes DEF TypedPages
  <2>4. /\ screen = "capture" => AtCapture!CaptureTypeOK
        /\ screen = "stages" => AtStages!StagesTypeOK
        /\ screen = "reminders" => AtReminders!RemindersTypeOK
    BY CaptureTypes, StagesTypes, RowsTypes DEF TypedPages
  <2>5. ImportTypeOK /\ (screen = "autofill" => AtAutofill!AutofillTypeOK)
    BY DEF TypedPages
  <2> QED
    BY <2>1, <2>2, <2>3, <2>4, <2>5 DEF DealsTypeOK
<1> QED
  BY <1>1, <1>2, <1>3, PTL DEF DealsSpec
=============================================================================
