-------------------------------- MODULE Forms --------------------------------
(***************************************************************************)
(* The client's forms over a record of the server: one machine, and for       *)
(* each form the choices its component makes, from what fills it in to what   *)
(* an answer does to it.  A colleague writes another field of the same        *)
(* record, and the record the cache shows lags behind the server's.           *)
(***************************************************************************)
EXTENDS Naturals, Sequences

CONSTANTS
  Words,
  Blank,     \* the word of a field nobody has written yet
  None,
  MaxTaps    \* bound: what the user and the colleague do

FormsAssumption == Blank \in Words /\ None \notin Words /\ MaxTaps \in Nat

-----------------------------------------------------------------------------
(***************************************************************************)
(* What a form is made of.                                                  *)
(*   creates   it makes a record (otherwise it edits one)                   *)
(*   seeded    what fills it in again: "never", "once" per opening, "data" a  *)
(*             change of its record in the cache, "render" each render of    *)
(*             its parent                                                   *)
(*   sends     the "whole" draft, what "changed" against the cache, or its    *)
(*             "own" field                                                  *)
(*   locks     its button is dead while it saves                            *)
(*   leaves    how it is closed: "key" (Escape), "button", "beside"          *)
(*   guards    a click beside it does nothing while it is dirty              *)
(*   stuck     it cannot be left while it saves                             *)
(*   late      an answer that outlives its opening: "dead", an "answer" to    *)
(*             the next one, or so with the button locked, too ("hooks")     *)
(*   done      what a success does: "closes", "stays", "empties", or nothing  *)
(*             since the form closed "at once"                              *)
(***************************************************************************)
Form ==
  [creates : BOOLEAN, seeded : {"never", "once", "data", "render"},
   sends : {"whole", "changed", "own"}, locks : BOOLEAN,
   leaves : SUBSET {"key", "button", "beside"}, guards : BOOLEAN, stuck : BOOLEAN,
   late : {"dead", "answer", "hooks"}, done : {"closes", "stays", "empties", "at once"}]

\* A dialog that stays mounted between its openings, with the focus trap and the guard.
Dialog ==
  [creates |-> FALSE, seeded |-> "once", sends |-> "whole", locks |-> TRUE,
   leaves |-> {"key", "button", "beside"}, guards |-> TRUE, stuck |-> FALSE,
   late |-> "hooks", done |-> "closes"]
NewDialog == [Dialog EXCEPT !.creates = TRUE]
\* One that is mounted for each opening; its handler awaits the answer all the same.
Popup == [Dialog EXCEPT !.late = "answer"]
\* One of the admin's, whose callbacks die with it.
AdminDialog == [NewDialog EXCEPT !.leaves = {"button", "beside"}, !.guards = FALSE, !.late = "dead"]
\* One of the drawer's, whose mutation answers even when the modal is gone.
DrawerModal == [Popup EXCEPT !.creates = TRUE, !.leaves = {"button"}, !.guards = FALSE]
\* A text that turns into an input and back.
Inline == [Dialog EXCEPT !.leaves = {"button"}, !.guards = FALSE]
\* A part of a page.
Section == [Dialog EXCEPT !.leaves = {}, !.seeded = "data", !.done = "stays"]
Field == [Section EXCEPT !.sends = "own"]
Composer == [Section EXCEPT !.creates = TRUE, !.seeded = "never", !.done = "empties"]

EditCompanyModal     == [Dialog EXCEPT !.seeded = "data", !.sends = "changed"]
EditContactModal     == [Dialog EXCEPT !.seeded = "data", !.sends = "changed"]
AddContactModal      == NewDialog
InlineNewContactForm == [Popup EXCEPT !.creates = TRUE, !.leaves = {"button"}, !.guards = FALSE]
EventFormModal       == [Dialog EXCEPT !.seeded = "data"]
MarkLostDialog       == Dialog
DealNoteField        == Field
DealEditForm         == Inline
QuickNote            == [NewDialog EXCEPT !.guards = FALSE]
EmailComposeModal    == [Popup EXCEPT !.creates = TRUE]
CreditNoteModal      == AdminDialog
ManualInvoiceModal   == AdminDialog
EraseOrgDialog       == [AdminDialog EXCEPT !.guards = TRUE, !.stuck = TRUE]
ActivateModal        == DrawerModal
SetCompModal         == DrawerModal
SetEnterpriseModal   == DrawerModal
ExtendTrialModal     == DrawerModal
CancelModal          == DrawerModal
TemplateEditor       == [Popup EXCEPT !.leaves = {"key", "button"}]
GoalEditor           == [Popup EXCEPT !.leaves = {"key", "button"}]
StageForm            == [Inline EXCEPT !.seeded = "render"]
\* Escape is the focus trap's, which closes the switcher around the boxes; their Enter is
\* not locked.
TodoListName         == [NewDialog EXCEPT !.guards = FALSE, !.seeded = "never", !.leaves = {"beside"}, !.locks = FALSE]
TodoListRename       == [TodoListName EXCEPT !.creates = FALSE, !.sends = "own"]
TodoItemText         == [Inline EXCEPT !.sends = "own", !.leaves = {"key"}, !.locks = FALSE, !.done = "at once"]
TodoComposer         == Composer
CreateLabelRow       == Composer
LabelRow             == [Field EXCEPT !.seeded = "never"]
TeamRow              == [Section EXCEPT !.seeded = "never", !.locks = FALSE]
NewTeamRow           == Composer
UserCap              == [Field EXCEPT !.locks = FALSE]
InvitationsSection   == Composer
InviteTeammatesCard  == Composer
BlockedCompanies     == Composer
FeedbackPage         == Composer
SmtpSettingsCard     == Section
InvoiceDetailsCard   == Section
AdminBillingSettings == Section
OrgDaysSetting       == Field
SeatCountCard        == Field
BillingIntervalCard  == Field
CompanyNotesTab      == Field
ContactCompanyField  == [Inline EXCEPT !.sends = "own"]

Forms ==
  {EditCompanyModal, EditContactModal, AddContactModal, InlineNewContactForm, EventFormModal,
   MarkLostDialog, DealNoteField, DealEditForm, QuickNote, EmailComposeModal, CreditNoteModal,
   ManualInvoiceModal, EraseOrgDialog, ActivateModal, SetCompModal, SetEnterpriseModal,
   ExtendTrialModal, CancelModal, TemplateEditor, GoalEditor, StageForm, TodoListName,
   TodoListRename, TodoItemText, TodoComposer, CreateLabelRow, LabelRow, TeamRow, NewTeamRow,
   UserCap, InvitationsSection, InviteTeammatesCard, BlockedCompanies, FeedbackPage,
   SmtpSettingsCard, InvoiceDetailsCard, AdminBillingSettings, OrgDaysSetting, SeatCountCard,
   BillingIntervalCard, CompanyNotesTab, ContactCompanyField}

-----------------------------------------------------------------------------
VARIABLES
  form,
  open,
  draft,     \* mine: the field the user types; other: the one the colleague writes
  seed,      \* what the draft was filled in with
  seen,      \* the record in the cache
  server,
  flights,   \* saves under way: what they set, for which opening, how far they are
  opening,
  made,      \* records created
  drafts,    \* drafts begun
  typed,     \* the last word typed, unless the user threw it away
  stored,    \* the words the server took from the user
  others,    \* the colleague's last word
  calm,      \* the user typed only while no save of before was unsettled
  lost,      \* an answer was lost
  taps

formVars == <<form, open, draft, seed, seen, server, flights, opening, made, drafts, typed,
              stored, others, calm, lost, taps>>

Record == [mine : Words, other : Words]
Empty == [mine |-> Blank, other |-> Blank]

FormsTypeOK ==
  /\ form \in Form /\ {open, calm, lost} \subseteq BOOLEAN
  /\ {draft, seed, seen, server} \subseteq Record
  /\ typed \in Words \cup {None} /\ stored \subseteq Words /\ others \in Words
  /\ {opening, made, drafts, taps} \subseteq Nat

Tap == taps < MaxTaps /\ taps' = taps + 1
FillIn(r) == draft' = r /\ seed' = r
Mine(i) == flights[i].opening = opening
Pending == \E i \in DOMAIN flights : Mine(i) \/ form.late = "hooks"

OpenForm ==
  /\ ~open /\ Tap
  /\ open' = TRUE /\ opening' = opening + 1
  /\ IF form.seeded = "never" THEN UNCHANGED <<draft, seed>>
                              ELSE FillIn(IF form.creates THEN Empty ELSE seen)
  /\ typed' = IF form.seeded = "never" THEN typed ELSE None
  /\ calm' = (calm /\ (flights = << >> \/ form.late = "dead"))
  /\ UNCHANGED <<form, seen, server, flights, made, drafts, stored, others, lost>>

TypeWord(w) ==
  /\ open /\ Tap /\ w # draft.mine
  /\ draft' = [draft EXCEPT !.mine = w] /\ typed' = w
  /\ drafts' = IF draft.mine = Blank THEN drafts + 1 ELSE drafts
  /\ calm' = (calm /\ flights = << >> /\ seen.mine = server.mine)
  /\ UNCHANGED <<form, open, seed, seen, server, flights, opening, made, stored, others, lost>>

\* A mutant of the next: every field is sent, changed or not.
WholeDraft == draft

\* What a save asks the server to set.
Sent ==
  IF form.sends = "whole" \/ form.creates THEN draft
  ELSE IF form.sends = "changed" THEN [f \in {g \in {"mine", "other"} : draft[g] # seen[g]} |-> draft[f]]
  ELSE [mine |-> draft.mine]

\* A parent that renders again makes the form's initial values anew.
Rendered(r) == IF open /\ form.seeded = "render" THEN FillIn(r) ELSE UNCHANGED <<draft, seed>>

Save ==
  /\ open /\ Tap /\ draft.mine # seed.mine
  /\ ~(form.locks /\ Pending)
  /\ flights' = Append(flights, [sets |-> Sent, opening |-> opening, step |-> "sent"])
  /\ open' = (form.done # "at once")
  /\ Rendered(seen)
  /\ UNCHANGED <<form, seen, server, opening, made, drafts, typed, stored, others, calm, lost>>

\* The record with the fields of a save set.
Written(sets) == [f \in DOMAIN server |-> IF f \in DOMAIN sets THEN sets[f] ELSE server[f]]

ServerSaves(i) ==
  /\ flights[i].step = "sent"
  /\ \/ \E answer \in {"ok", "refused"} :     \* done, and the answer may be lost
          /\ flights' = [flights EXCEPT ![i].step = answer]
          /\ lost' = (lost \/ answer = "refused")
          /\ IF form.creates
             THEN made' = made + 1 /\ UNCHANGED server
             ELSE server' = Written(flights[i].sets) /\ UNCHANGED made
          /\ stored' = IF "mine" \in DOMAIN flights[i].sets THEN stored \cup {flights[i].sets.mine}
                                                           ELSE stored
     \/ /\ flights' = [flights EXCEPT ![i].step = "refused"]
        /\ UNCHANGED <<lost, made, server, stored>>
  /\ UNCHANGED <<form, open, draft, seed, seen, opening, drafts, typed, others, calm, taps>>

Reaches(i) == Mine(i) \/ form.late # "dead"
Succeeds(i) == flights[i].step = "ok" /\ Reaches(i)

\* A success closes the form or empties it; a failure says so and leaves it as it is.
Answers(i) ==
  /\ flights[i].step # "sent"
  /\ flights' = SubSeq(flights, 1, i - 1) \o SubSeq(flights, i + 1, Len(flights))
  /\ IF Succeeds(i)
     THEN /\ open' = (open /\ form.done # "closes")
          /\ IF form.done = "empties" \/ (form.done = "closes" /\ form.creates)
             THEN FillIn(Empty) ELSE Rendered(seen)
     ELSE UNCHANGED open /\ Rendered(seen)
  /\ UNCHANGED <<form, seen, server, opening, made, drafts, typed, stored, others, calm, lost, taps>>

\* The close button and Escape throw the draft away; a click beside the form need not.
Leave(how) ==
  /\ open /\ how \in form.leaves
  /\ ~(form.stuck /\ Pending)
  /\ how = "beside" /\ form.guards => draft = seed
  /\ open' = FALSE
  /\ typed' = IF how = "beside" THEN typed ELSE None
  /\ IF form.seeded = "never" THEN UNCHANGED <<draft, seed>> ELSE FillIn(Empty)
  /\ UNCHANGED <<form, seen, server, flights, opening, made, drafts, stored, others, calm, lost, taps>>

ColleagueWrites(w) ==
  /\ ~form.creates /\ Tap /\ w # server.other
  /\ server' = [server EXCEPT !.other = w] /\ others' = w
  /\ UNCHANGED <<form, open, draft, seed, seen, flights, opening, made, drafts, typed, stored, calm, lost>>

\* A one-field form depends on that field, the others on the whole record.
Refetch ==
  /\ ~form.creates /\ seen # server
  /\ seen' = server
  /\ IF open /\ \/ form.seeded = "render"
                \/ form.seeded = "data" /\ (form.sends # "own" \/ seen.mine # server.mine)
     THEN FillIn(server) ELSE UNCHANGED <<draft, seed>>
  /\ UNCHANGED <<form, open, server, flights, opening, made, drafts, typed, stored, others, calm, lost, taps>>

FormsInit ==
  /\ form \in Forms
  /\ open = (form.leaves = {}) /\ opening = 0
  /\ draft = Empty /\ seed = Empty /\ seen = Empty /\ server = Empty
  /\ flights = << >> /\ made = 0 /\ drafts = 0 /\ typed = None /\ stored = {}
  /\ others = Blank /\ calm = TRUE /\ lost = FALSE /\ taps = 0

FormsNext ==
  \/ OpenForm \/ Save \/ Refetch
  \/ \E w \in Words : TypeWord(w) \/ ColleagueWrites(w)
  \/ \E i \in DOMAIN flights : ServerSaves(i) \/ Answers(i)
  \/ \E how \in {"key", "button", "beside"} : Leave(how)

FormsSpec == FormsInit /\ [][FormsNext]_formVars

-----------------------------------------------------------------------------
\* Forms that drop what was typed: filled in again by somebody else's change, by their
\* own failed save, or closed before the answer; and those a stray click closes.
Forgetful ==
  {EditCompanyModal, EditContactModal, EventFormModal, SmtpSettingsCard, InvoiceDetailsCard,
   AdminBillingSettings, StageForm, TodoItemText, QuickNote, CreditNoteModal, ManualInvoiceModal}

(***************************************************************************)
(* What the user typed last is in the form or was taken by the server: a      *)
(* failed save, a colleague's change or a click beside a dirty dialog never   *)
(* eats it, as long as nothing was typed into an unsettled save.  The forms    *)
(* of Forgetful are the exceptions the code makes.                          *)
(***************************************************************************)
FormKeepsTyping == form \notin Forgetful /\ calm => typed \in stored \cup {None, draft.mine}

\* The box whose Enter is sent again while the first is under way.
Repeatable == {TodoListName}

(***************************************************************************)
(* A form that creates makes one record per draft, however often it is sent,   *)
(* left and opened again, unless an answer was lost.  The forms of Repeatable   *)
(* are the exception the code makes.                                        *)
(***************************************************************************)
OneRecordPerDraft == form \notin Repeatable /\ ~lost => made <= drafts

\* Forms that send no field the user did not change.
Careful ==
  {EditCompanyModal, EditContactModal, TodoListRename, TodoItemText, LabelRow, UserCap,
   OrgDaysSetting, SeatCountCard, BillingIntervalCard, CompanyNotesTab, DealNoteField,
   ContactCompanyField}

(***************************************************************************)
(* A save never undoes what a colleague wrote to another field meanwhile,     *)
(* for the forms that send only what was changed.  The others write back       *)
(* whatever they were filled in with.                                       *)
(***************************************************************************)
ColleagueIsNotUndone == form \in Careful => server.other = others

=============================================================================
