------------------------------- MODULE Reminders -------------------------------
(***************************************************************************)
(* The reminders of the event form (ReminderRows).  The list is the form's,    *)
(* which knows its rows by number; the rows keep keys of their own, and by     *)
(* those they remember which of them the user switched to a free lead time.    *)
(***************************************************************************)
EXTENDS Naturals, Sequences, SequencesExt

CONSTANTS
  Presets,     \* lead times of MINUTE_PRESETS,
  Others,      \* and others
  Default,     \* DEFAULT_REMINDER
  Loaded,      \* the lists an event may come with
  MaxRows,     \* MAX_REMINDERS
  MaxTaps      \* bound: what the user does

RemindersAssumption ==
  /\ Default \in Presets /\ Presets \cap Others = {} /\ {MaxRows, MaxTaps} \subseteq Nat
  /\ \A list \in Loaded : list \in Seq(Presets \cup Others) /\ Len(list) <= MaxRows

VARIABLES
  value,         \* the form's list: lead times, each with the number of its reminder
  rowIds,
  nextRowId,
  customRowIds,
  switched,      \* reminders the user switched and did not switch back
  born,          \* reminders there were
  swapped,       \* the form replaced a list by one as long
  taps

remindersVars == <<value, rowIds, nextRowId, customRowIds, switched, born, swapped, taps>>

Minutes == Presets \cup Others
RowKeys == {rowIds[i] : i \in DOMAIN rowIds}

RemindersTypeOK ==
  /\ value \in Seq([minutes : Minutes, who : 1 .. born]) /\ Len(value) <= MaxRows
  /\ Len(rowIds) = Len(value) /\ IsInjective(rowIds) /\ \A k \in RowKeys \cup customRowIds : k < nextRowId
  /\ switched \subseteq 1 .. born /\ swapped \in BOOLEAN /\ taps \in Nat

Tap == taps < MaxTaps /\ taps' = taps + 1

\* The reminders of a list the form is filled in with.
Fresh(list) == [i \in DOMAIN list |-> [minutes |-> list[i], who |-> born + i]]
FreshKeys(from, n) == [i \in 1 .. n |-> from + i - 1]
IsCustom(i) == rowIds[i] \in customRowIds \/ value[i].minutes \notin Presets

-----------------------------------------------------------------------------
\* The form is opened: the rows are mounted anew.
Open(list) ==
  /\ Tap
  /\ value' = Fresh(list) /\ born' = born + Len(list)
  /\ rowIds' = FreshKeys(0, Len(list)) /\ nextRowId' = Len(list)
  /\ customRowIds' = {} /\ switched' = {} /\ swapped' = FALSE

\* The form fills itself in again while it is open, since its event changed or Google's
\* state arrived: "the form replaced the whole list" is told by its length.
Replace(list) ==
  /\ Tap
  /\ value' = Fresh(list) /\ born' = born + Len(list) /\ switched' = {}
  /\ IF Len(list) # Len(value)
     THEN /\ rowIds' = FreshKeys(nextRowId, Len(list)) /\ nextRowId' = nextRowId + Len(list)
          /\ UNCHANGED swapped
     ELSE swapped' = (swapped \/ list # << >>) /\ UNCHANGED <<rowIds, nextRowId>>
  /\ UNCHANGED customRowIds

Add ==
  /\ Len(value) < MaxRows /\ Tap
  /\ value' = Append(value, [minutes |-> Default, who |-> born + 1]) /\ born' = born + 1
  /\ rowIds' = Append(rowIds, nextRowId) /\ nextRowId' = nextRowId + 1
  /\ UNCHANGED <<customRowIds, switched, swapped>>

\* Mutant: the last key goes with whatever row is removed.
DropsLastKey(i) == rowIds' = Front(rowIds)

DropsKey(i) == rowIds' = RemoveAt(rowIds, i)

RemoveRow(i) ==
  /\ i \in DOMAIN value /\ Tap
  /\ value' = RemoveAt(value, i) /\ DropsKey(i)
  /\ switched' = switched \ {value[i].who}
  /\ UNCHANGED <<nextRowId, customRowIds, born, swapped>>

Update(i, m) == value' = [value EXCEPT ![i].minutes = m]

\* pickMinutes.  A choice that is there already is no change.
PickCustom(i) ==
  /\ i \in DOMAIN value /\ ~IsCustom(i) /\ Tap
  /\ customRowIds' = customRowIds \cup {rowIds[i]} /\ switched' = switched \cup {value[i].who}
  /\ UNCHANGED <<value, rowIds, nextRowId, born, swapped>>

PickPreset(i, m) ==
  /\ i \in DOMAIN value /\ m \in Presets /\ (IsCustom(i) \/ m # value[i].minutes) /\ Tap
  /\ customRowIds' = customRowIds \ {rowIds[i]} /\ switched' = switched \ {value[i].who}
  /\ Update(i, m)
  /\ UNCHANGED <<rowIds, nextRowId, born, swapped>>

\* A key in the box of a custom row; emptied, it says zero (clampMinutes).
TypeMinutes(i, m) ==
  /\ i \in DOMAIN value /\ IsCustom(i) /\ m # value[i].minutes /\ Tap
  /\ Update(i, m)
  /\ UNCHANGED <<rowIds, nextRowId, customRowIds, switched, born, swapped>>

RemindersInit ==
  /\ value = << >> /\ rowIds = << >> /\ nextRowId = 0 /\ customRowIds = {}
  /\ switched = {} /\ born = 0 /\ swapped = FALSE /\ taps = 0

RemindersNext ==
  \/ \E list \in Loaded : Open(list) \/ Replace(list)
  \/ Add
  \/ \E i \in 1 .. MaxRows : RemoveRow(i) \/ PickCustom(i)
  \/ \E i \in 1 .. MaxRows, m \in Minutes : PickPreset(i, m) \/ TypeMinutes(i, m)

RemindersSpec == RemindersInit /\ [][RemindersNext]_remindersVars

-----------------------------------------------------------------------------
\* The rows with the free box are those the user switched to it, whatever rows came and
\* went before them, unless the form swapped the list for one as long (customRowIds).
SwitchIsItsReminders ==
  ~swapped => \A i \in DOMAIN value : rowIds[i] \in customRowIds <=> value[i].who \in switched

-----------------------------------------------------------------------------
(***************************************************************************)
(* What the code does not keep to.                                         *)
(***************************************************************************)
\* "would yank the input away mid-typing": so it is for a lead time that came with the
\* event, whose box goes when a preset is typed on the way, zero above all.
BoxStaysWhileTyping ==
  [][\A i \in 1 .. MaxRows, m \in Minutes : TypeMinutes(i, m) => IsCustom(i)']_remindersVars
=============================================================================
