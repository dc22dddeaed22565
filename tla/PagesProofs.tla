------------------------------ MODULE PagesProofs ------------------------------
(***************************************************************************)
(* The invariants of the forms, of an entry of the timeline and of the draft of   *)
(* one, of the lists and of the search: each holds at the start and after every  *)
(* step of its part, for any words, rows, pages and answers of the server.      *)
(***************************************************************************)
EXTENDS Pages, SequenceTheorems, FiniteSetTheorems, WellFoundedInduction, Integers, TLAPS

-----------------------------------------------------------------------------
(***************************************************************************)
(* Sequences that lose an element, as the requests under way do.             *)
(***************************************************************************)
TakenOut(s, i) == SubSeq(s, 1, i - 1) \o SubSeq(s, i + 1, Len(s))

\* Taking one element out moves those behind it up by one.
LEMMA TakenOutProperties ==
  ASSUME NEW S, NEW s \in Seq(S), NEW i \in 1 .. Len(s)
  PROVE  /\ TakenOut(s, i) \in Seq(S) /\ Len(TakenOut(s, i)) = Len(s) - 1
         /\ \A j \in 1 .. Len(s) - 1 : TakenOut(s, i)[j] = IF j < i THEN s[j] ELSE s[j + 1]
<1> DEFINE a == SubSeq(s, 1, i - 1)
           b == SubSeq(s, i + 1, Len(s))
<1>0. Len(s) \in Nat /\ i \in Int /\ 1 <= i /\ i <= Len(s) /\ \A j \in 1 .. Len(s) : s[j] \in S
  OBVIOUS
<1>1. a \in Seq(S) /\ Len(a) = i - 1 /\ \A j \in 1 .. i - 1 : a[j] = s[j]
  <2>1. \A j \in 1 .. i - 1 : s[j] \in S
    BY <1>0
  <2>2. 1 \in Int /\ i - 1 \in Int
    BY <1>0
  <2>3. /\ a \in Seq(S) /\ Len(a) = (IF 1 <= i - 1 THEN (i - 1) - 1 + 1 ELSE 0)
        /\ \A j \in 1 .. (i - 1) - 1 + 1 : a[j] = s[1 + j - 1]
    BY <2>1, <2>2, SubSeqProperties
  <2> QED
    BY <1>0, <2>3
<1>2. b \in Seq(S) /\ Len(b) = Len(s) - i /\ \A j \in 1 .. Len(s) - i : b[j] = s[i + j]
  <2>1. \A j \in i + 1 .. Len(s) : s[j] \in S
    BY <1>0
  <2>2. i + 1 \in Int /\ Len(s) \in Int
    BY <1>0
  <2>3. /\ b \in Seq(S) /\ Len(b) = (IF i + 1 <= Len(s) THEN Len(s) - (i + 1) + 1 ELSE 0)
        /\ \A j \in 1 .. Len(s) - (i + 1) + 1 : b[j] = s[(i + 1) + j - 1]
    BY <2>1, <2>2, SubSeqProperties
  <2> QED
    BY <1>0, <2>3
<1>3. TakenOut(s, i) = a \o b
  BY DEF TakenOut
<1> HIDE DEF a, b
<1>4. /\ a \o b \in Seq(S) /\ Len(a \o b) = Len(a) + Len(b)
      /\ \A j \in 1 .. Len(a) + Len(b) : (a \o b)[j] = IF j <= Len(a) THEN a[j] ELSE b[j - Len(a)]
  BY <1>1, <1>2, ConcatProperties
<1>5. ASSUME NEW j \in 1 .. Len(s) - 1 PROVE (a \o b)[j] = IF j < i THEN s[j] ELSE s[j + 1]
  <2>1. j \in 1 .. Len(a) + Len(b) /\ (j <= Len(a) <=> j < i)
    BY <1>0, <1>1, <1>2
  <2>2. CASE j < i
    BY <1>0, <1>1, <1>4, <2>1, <2>2
  <2>3. CASE ~(j < i)
    <3>1. (a \o b)[j] = b[j - (i - 1)]
      BY <1>1, <1>4, <2>1, <2>3
    <3>2. j - (i - 1) \in 1 .. Len(s) - i /\ i + (j - (i - 1)) = j + 1
      BY <1>0, <2>3
    <3> QED
      BY <1>2, <2>3, <3>1, <3>2
  <2> QED
    BY <2>2, <2>3
<1> QED
  BY <1>0, <1>1, <1>2, <1>3, <1>4, <1>5

\* Where the elements of T are in a sequence, and how their number changes.
Places(s, T) == {i \in DOMAIN s : s[i] \in T}

LEMMA PlacesAreFinite ==
  ASSUME NEW S, NEW s \in Seq(S), NEW T
  PROVE  IsFiniteSet(Places(s, T)) /\ Cardinality(Places(s, T)) \in Nat
<1>1. Places(s, T) \subseteq 1 .. Len(s) /\ Len(s) \in Nat
  BY DEF Places
<1>2. IsFiniteSet(1 .. Len(s))
  BY <1>1, FS_Interval
<1> QED
  BY <1>1, <1>2, FS_Subset, FS_CardinalityType

LEMMA PlacesOfNone == ASSUME NEW T PROVE Cardinality(Places(<< >>, T)) = 0
<1>1. Places(<< >>, T) = {}
  BY DEF Places
<1> QED
  BY <1>1, FS_EmptySet

LEMMA OnePlaceMore ==
  ASSUME NEW S, NEW s \in Seq(S), NEW T, NEW e \in T
  PROVE  Cardinality(Places(Append(s, e), T)) = Cardinality(Places(s, T)) + 1
<1> DEFINE t == Append(s, e)
<1>1. /\ Len(s) \in Nat /\ DOMAIN s = 1 .. Len(s) /\ DOMAIN t = 1 .. Len(s) + 1 /\ t[Len(s) + 1] = e
      /\ \A j \in 1 .. Len(s) : t[j] = s[j]
  OBVIOUS
<1> HIDE DEF t
<1>2. Places(t, T) = Places(s, T) \cup {Len(s) + 1} /\ Len(s) + 1 \notin Places(s, T)
  BY <1>1 DEF Places
<1>3. Cardinality(Places(t, T)) = Cardinality(Places(s, T)) + 1
  BY <1>2, PlacesAreFinite, FS_AddElement
<1> QED
  BY <1>3 DEF t

LEMMA OnePlaceLess ==
  ASSUME NEW S, NEW s \in Seq(S), NEW t \in Seq(S), NEW T, NEW i \in DOMAIN s, s[i] \in T, t[i] \notin T,
         DOMAIN t = DOMAIN s, \A j \in DOMAIN s \ {i} : t[j] = s[j]
  PROVE  Cardinality(Places(t, T)) = Cardinality(Places(s, T)) - 1
<1>1. Places(t, T) = Places(s, T) \ {i} /\ i \in Places(s, T)
  BY DEF Places
<1>2. IsFiniteSet(Places(s, T)) /\ Cardinality(Places(s, T)) \in Nat
  BY PlacesAreFinite
<1>3. Cardinality(Places(s, T) \ {i}) = Cardinality(Places(s, T)) - 1
  BY <1>1, <1>2, FS_RemoveElement
<1> QED
  BY <1>1, <1>3

LEMMA SamePlaces ==
  ASSUME NEW S, NEW s \in Seq(S), NEW T, NEW i \in 1 .. Len(s), s[i] \notin T
  PROVE  Cardinality(Places(TakenOut(s, i), T)) = Cardinality(Places(s, T))
<1> DEFINE t == TakenOut(s, i)
           P == Places(s, T)
           Q == Places(t, T)
           g == [j \in Q |-> IF j < i THEN j ELSE j + 1]
<1>1. /\ Len(s) \in Nat /\ DOMAIN s = 1 .. Len(s) /\ t \in Seq(S) /\ DOMAIN t = 1 .. Len(s) - 1
      /\ \A j \in 1 .. Len(s) - 1 : t[j] = IF j < i THEN s[j] ELSE s[j + 1]
  BY TakenOutProperties
<1> HIDE DEF t
<1>2. /\ P \subseteq (1 .. Len(s)) \ {i} /\ Q \subseteq 1 .. Len(s) - 1
      /\ \A j \in 1 .. Len(s) : j \in P <=> s[j] \in T
      /\ \A j \in 1 .. Len(s) - 1 : j \in Q <=> t[j] \in T
  BY <1>1 DEF Places
<1> HIDE DEF P, Q
<1>3. g \in [Q -> P]
  BY <1>1, <1>2
<1>4. \A j, k \in Q : g[j] = g[k] => j = k
  BY <1>1, <1>2
<1>5. \A k \in P : \E j \in Q : g[j] = k
  <2> SUFFICES ASSUME NEW k \in P PROVE \E j \in Q : g[j] = k
    OBVIOUS
  <2> DEFINE j == IF k < i THEN k ELSE k - 1
  <2>1. j \in 1 .. Len(s) - 1 /\ t[j] = s[k] /\ (IF j < i THEN j ELSE j + 1) = k
    BY <1>1, <1>2
  <2>2. j \in Q
    BY <1>2, <2>1
  <2> QED
    BY <2>1, <2>2
<1> HIDE DEF g
<1>6. g \in Bijection(Q, P)
  BY <1>3, <1>4, <1>5 DEF Bijection, Injection, IsInjective, Surjection
<1>7. IsFiniteSet(Q)
  BY <1>1, PlacesAreFinite DEF Q
<1>8. Cardinality(P) = Cardinality(Q)
  BY <1>6, <1>7, FS_Bijection DEF ExistsBijection
<1> QED
  BY <1>8 DEF P, Q, t

\* What is left of a sequence was there before, and what is taken out alone goes.
LEMMA LeftWithout ==
  ASSUME NEW S, NEW s \in Seq(S), NEW i \in DOMAIN s
  PROVE  LET t == TakenOut(s, i) IN
         /\ t \in Seq(S)
         /\ \A j \in DOMAIN t : \E k \in DOMAIN s \ {i} : t[j] = s[k]
         /\ \A k \in DOMAIN s \ {i} : \E j \in DOMAIN t : t[j] = s[k]
<1> DEFINE t == TakenOut(s, i)
<1>1. /\ Len(s) \in Nat /\ DOMAIN s = 1 .. Len(s) /\ t \in Seq(S) /\ DOMAIN t = 1 .. Len(s) - 1
      /\ \A j \in 1 .. Len(s) - 1 : t[j] = IF j < i THEN s[j] ELSE s[j + 1]
  BY TakenOutProperties
<1> HIDE DEF t
<1>2. ASSUME NEW j \in DOMAIN t PROVE \E k \in DOMAIN s \ {i} : t[j] = s[k]
  <2> DEFINE k == IF j < i THEN j ELSE j + 1
  <2>1. k \in DOMAIN s \ {i} /\ t[j] = s[k]
    BY <1>1
  <2> QED
    BY <2>1
<1>3. ASSUME NEW k \in DOMAIN s \ {i} PROVE \E j \in DOMAIN t : t[j] = s[k]
  <2> DEFINE j == IF k < i THEN k ELSE k - 1
  <2>1. j \in DOMAIN t /\ t[j] = s[k]
    BY <1>1
  <2> QED
    BY <2>1
<1>4. t \in Seq(S)
  BY <1>1
<1> QED
  BY <1>2, <1>3, <1>4 DEF t

-----------------------------------------------------------------------------
(***************************************************************************)
(* Forms.                                                                   *)
(***************************************************************************)
Sets == [{"mine", "other"} -> FormWords] \cup [{"mine"} -> FormWords] \cup [{"other"} -> FormWords] \cup [{} -> FormWords]
Flight == [sets : Sets, opening : Nat, step : {"sent", "ok", "refused"}]

FormsTyped ==
  /\ s1 \in AtForm!Forms /\ s2 \in BOOLEAN /\ s14 \in BOOLEAN /\ s15 \in BOOLEAN
  /\ s3 \in AtForm!Record /\ s4 \in AtForm!Record /\ s5 \in AtForm!Record /\ s6 \in AtForm!Record
  /\ s11 \in FormWords \cup {None} /\ s12 \subseteq FormWords /\ s13 \in FormWords
  /\ s8 \in Nat /\ s9 \in Nat /\ s10 \in Nat /\ taps \in Nat
  /\ s7 \in Seq(Flight)

\* A save under way writes what was typed last, unless that was stored before; and what the
\* server, the cache and the form's initial values hold, the server took from the user.
TypedIsKept(w) == s1 \notin AtForm!Forgetful /\ s14 => s11 \in s12 \cup {None, w}
SavesWhatWasTyped ==
  /\ {s6.mine, s5.mine, s4.mine} \subseteq s12 \cup {EmptyWord}
  /\ \A i \in DOMAIN s7 : LET f == s7[i] IN "mine" \in DOMAIN f.sets =>
       (f.step = "ok" => f.sets.mine \in s12) /\ TypedIsKept(f.sets.mine)
  /\ s1 \notin AtForm!Forgetful /\ s14 => s5.mine = s6.mine \/ s11 \in s12 \cup {None}

\* A form that creates sends its whole draft, and is filled in with nothing.
CreatesFromNothing ==
  s1.creates =>
    /\ s4 = AtForm!Empty
    /\ \A i \in DOMAIN s7 : "mine" \in DOMAIN s7[i].sets
CreatesOnly == ~s1.creates => s9 = 0

\* A draft that is not on its way has not made its record yet.
OnTheirWay == Places(s7, {f \in Flight : f.step = "sent"})
DraftIsSent == \E i \in DOMAIN s7 : s7[i].step \in {"sent", "ok"} /\ (AtForm!Mine(i) \/ s1.late = "hooks")
DraftsAreNotSpent ==
  s1.creates /\ s1 \notin AtForm!Repeatable /\ ~s15 =>
    /\ s9 + Cardinality(OnTheirWay) <= s10 /\ (s1.seeded = "never" => s2)
    /\ s3.mine # EmptyWord /\ ~DraftIsSent => s9 + Cardinality(OnTheirWay) < s10

\* A careful form has nothing to say of the colleague's field.
OthersFieldIsNotSent ==
  s1 \in AtForm!Careful =>
    /\ \A i \in DOMAIN s7 : "other" \notin DOMAIN s7[i].sets
    /\ s2 /\ s1.sends = "changed" => s3.other = s5.other

FormsInv ==
  /\ FormsTyped /\ SavesWhatWasTyped /\ CreatesFromNothing /\ CreatesOnly /\ DraftsAreNotSpent
  /\ OthersFieldIsNotSent /\ TypedIsKept(s3.mine) /\ AtForm!ColleagueIsNotUndone

\* What a component chooses has consequences for what it keeps.
MakesOnce(f) ==
  /\ f.creates => f.seeded # "render" /\ f.done \in {"closes", "empties"}
  /\ f.creates => f = AtForm!TodoListName \/ (f.locks /\ (f.seeded = "never" => f.leaves = {} /\ f.done = "empties"))
  /\ f.done = "empties" => f.creates
KeepsDraft(f) ==
  /\ f.seeded # "render" /\ f.sends # "changed"
  /\ f.seeded = "data" => f.sends = "own"
  /\ "beside" \in f.leaves /\ ~f.guards => f.seeded = "never"
IsCareful(f) ==
  /\ ~f.creates
  /\ f.sends = "own" \/ (f.sends = "changed" /\ f.seeded = "data")
  
LEMMA FormsAreKnown ==
  ASSUME NEW f \in AtForm!Forms
  PROVE  f \in AtForm!Form /\ MakesOnce(f) /\ (f \notin AtForm!Forgetful => KeepsDraft(f)) /\ (f \in AtForm!Careful => IsCareful(f))
<1> DEFINE Fits(x) == x \in AtForm!Form /\ MakesOnce(x)
<1>1. \A x \in {AtForm!EditCompanyModal, AtForm!EditContactModal, AtForm!AddContactModal, AtForm!InlineNewContactForm, AtForm!EventFormModal, AtForm!MarkLostDialog, AtForm!DealNoteField, AtForm!DealEditForm, AtForm!QuickNote, AtForm!EmailComposeModal, AtForm!CreditNoteModal, AtForm!ManualInvoiceModal, AtForm!EraseOrgDialog, AtForm!ActivateModal, AtForm!SetCompModal, AtForm!SetEnterpriseModal, AtForm!ExtendTrialModal, AtForm!CancelModal, AtForm!TemplateEditor, AtForm!GoalEditor, AtForm!StageForm, AtForm!TodoListName, AtForm!TodoListRename, AtForm!TodoItemText, AtForm!TodoComposer, AtForm!CreateLabelRow, AtForm!LabelRow, AtForm!TeamRow, AtForm!NewTeamRow, AtForm!UserCap, AtForm!InvitationsSection, AtForm!InviteTeammatesCard, AtForm!BlockedCompanies, AtForm!FeedbackPage, AtForm!SmtpSettingsCard, AtForm!InvoiceDetailsCard, AtForm!AdminBillingSettings, AtForm!OrgDaysSetting, AtForm!SeatCountCard, AtForm!BillingIntervalCard, AtForm!CompanyNotesTab, AtForm!ContactCompanyField} : Fits(x)
  <2>1. Fits(AtForm!MarkLostDialog)
    BY DEF MakesOnce, AtForm!Form, AtForm!MarkLostDialog, AtForm!Dialog
  <2>2. Fits(AtForm!AddContactModal)
    BY DEF MakesOnce, AtForm!Form, AtForm!AddContactModal, AtForm!NewDialog, AtForm!Dialog
  <2>3. Fits(AtForm!CreditNoteModal) /\ Fits(AtForm!ManualInvoiceModal)
    BY DEF MakesOnce, AtForm!Form, AtForm!CreditNoteModal, AtForm!AdminDialog, AtForm!NewDialog,
       AtForm!Dialog, AtForm!ManualInvoiceModal
  <2>4. Fits(AtForm!InlineNewContactForm) /\ Fits(AtForm!ActivateModal) /\ Fits(AtForm!SetCompModal) /\ Fits(AtForm!SetEnterpriseModal) /\ Fits(AtForm!ExtendTrialModal) /\ Fits(AtForm!CancelModal)
    BY DEF MakesOnce, AtForm!Form, AtForm!InlineNewContactForm, AtForm!Popup, AtForm!Dialog,
       AtForm!ActivateModal, AtForm!DrawerModal, AtForm!SetCompModal,
      AtForm!SetEnterpriseModal, AtForm!ExtendTrialModal, AtForm!CancelModal
  <2>5. Fits(AtForm!DealEditForm)
    BY DEF MakesOnce, AtForm!Form, AtForm!DealEditForm, AtForm!Inline, AtForm!Dialog
  <2>6. Fits(AtForm!SmtpSettingsCard) /\ Fits(AtForm!InvoiceDetailsCard) /\ Fits(AtForm!AdminBillingSettings)
    BY DEF MakesOnce, AtForm!Form, AtForm!SmtpSettingsCard, AtForm!Section, AtForm!Dialog,
       AtForm!InvoiceDetailsCard, AtForm!AdminBillingSettings
  <2>7. Fits(AtForm!DealNoteField) /\ Fits(AtForm!OrgDaysSetting) /\ Fits(AtForm!SeatCountCard) /\ Fits(AtForm!BillingIntervalCard) /\ Fits(AtForm!CompanyNotesTab)
    BY DEF MakesOnce, AtForm!Form, AtForm!DealNoteField, AtForm!Field, AtForm!Section, AtForm!Dialog,
       AtForm!OrgDaysSetting, AtForm!SeatCountCard,
      AtForm!BillingIntervalCard, AtForm!CompanyNotesTab
  <2>8. Fits(AtForm!TodoComposer) /\ Fits(AtForm!CreateLabelRow) /\ Fits(AtForm!NewTeamRow) /\ Fits(AtForm!InvitationsSection) /\ Fits(AtForm!InviteTeammatesCard) /\ Fits(AtForm!BlockedCompanies) /\ Fits(AtForm!FeedbackPage)
    BY DEF MakesOnce, AtForm!Form, AtForm!TodoComposer, AtForm!Composer, AtForm!Section, AtForm!Dialog,
       AtForm!CreateLabelRow, AtForm!NewTeamRow,
      AtForm!InvitationsSection, AtForm!InviteTeammatesCard, AtForm!BlockedCompanies, AtForm!FeedbackPage
  <2>9. Fits(AtForm!EditCompanyModal) /\ Fits(AtForm!EditContactModal)
    BY DEF MakesOnce, AtForm!Form, AtForm!EditCompanyModal, AtForm!Dialog, AtForm!EditContactModal
  <2>10. Fits(AtForm!EventFormModal)
    BY DEF MakesOnce, AtForm!Form, AtForm!EventFormModal, AtForm!Dialog
  <2>11. Fits(AtForm!QuickNote)
    BY DEF MakesOnce, AtForm!Form, AtForm!QuickNote, AtForm!NewDialog, AtForm!Dialog
  <2>12. Fits(AtForm!EmailComposeModal)
    BY DEF MakesOnce, AtForm!Form, AtForm!EmailComposeModal, AtForm!Popup, AtForm!Dialog
  <2>13. Fits(AtForm!EraseOrgDialog)
    BY DEF MakesOnce, AtForm!Form, AtForm!EraseOrgDialog, AtForm!AdminDialog, AtForm!NewDialog, AtForm!Dialog
  <2>14. Fits(AtForm!TemplateEditor) /\ Fits(AtForm!GoalEditor)
    BY DEF MakesOnce, AtForm!Form, AtForm!TemplateEditor, AtForm!Popup, AtForm!Dialog, AtForm!GoalEditor
  <2>15. Fits(AtForm!StageForm)
    BY DEF MakesOnce, AtForm!Form, AtForm!StageForm, AtForm!Inline, AtForm!Dialog
  <2>16. Fits(AtForm!TodoListName)
    <3>1. AtForm!TodoListName \in AtForm!Form /\ AtForm!TodoListName.seeded = "never" /\ AtForm!TodoListName.done = "closes"
      BY DEF AtForm!Form, AtForm!TodoListName, AtForm!NewDialog, AtForm!Dialog
    <3> QED
      BY <3>1 DEF MakesOnce
  <2>17. Fits(AtForm!TodoListRename)
    BY DEF MakesOnce, AtForm!Form, AtForm!TodoListRename, AtForm!TodoListName, AtForm!NewDialog, AtForm!Dialog
  <2>18. Fits(AtForm!TodoItemText)
    BY DEF MakesOnce, AtForm!Form, AtForm!TodoItemText, AtForm!Inline, AtForm!Dialog
  <2>19. Fits(AtForm!LabelRow)
    BY DEF MakesOnce, AtForm!Form, AtForm!LabelRow, AtForm!Field, AtForm!Section, AtForm!Dialog
  <2>20. Fits(AtForm!TeamRow)
    BY DEF MakesOnce, AtForm!Form, AtForm!TeamRow, AtForm!Section, AtForm!Dialog
  <2>21. Fits(AtForm!UserCap)
    BY DEF MakesOnce, AtForm!Form, AtForm!UserCap, AtForm!Field, AtForm!Section, AtForm!Dialog
  <2>22. Fits(AtForm!ContactCompanyField)
    BY DEF MakesOnce, AtForm!Form, AtForm!ContactCompanyField, AtForm!Inline, AtForm!Dialog
  <2> QED
    BY <2>1, <2>2, <2>3, <2>4, <2>5, <2>6, <2>7, <2>8, <2>9, <2>10, <2>11, <2>12, <2>13, <2>14, <2>15,
      <2>16, <2>17, <2>18, <2>19, <2>20, <2>21, <2>22
<1>2. \A x \in {AtForm!AddContactModal, AtForm!InlineNewContactForm, AtForm!MarkLostDialog, AtForm!DealNoteField, AtForm!DealEditForm, AtForm!EmailComposeModal, AtForm!EraseOrgDialog, AtForm!ActivateModal, AtForm!SetCompModal, AtForm!SetEnterpriseModal, AtForm!ExtendTrialModal, AtForm!CancelModal, AtForm!TemplateEditor, AtForm!GoalEditor, AtForm!TodoListName, AtForm!TodoListRename, AtForm!TodoComposer, AtForm!CreateLabelRow, AtForm!LabelRow, AtForm!TeamRow, AtForm!NewTeamRow, AtForm!UserCap, AtForm!InvitationsSection, AtForm!InviteTeammatesCard, AtForm!BlockedCompanies, AtForm!FeedbackPage, AtForm!OrgDaysSetting, AtForm!SeatCountCard, AtForm!BillingIntervalCard, AtForm!CompanyNotesTab, AtForm!ContactCompanyField} : KeepsDraft(x)
  <2>1. KeepsDraft(AtForm!MarkLostDialog)
    BY DEF KeepsDraft, AtForm!MarkLostDialog, AtForm!Dialog
  <2>2. KeepsDraft(AtForm!AddContactModal)
    BY DEF KeepsDraft, AtForm!AddContactModal, AtForm!NewDialog, AtForm!Dialog
  <2>3. KeepsDraft(AtForm!InlineNewContactForm) /\ KeepsDraft(AtForm!ActivateModal) /\ KeepsDraft(AtForm!SetCompModal) /\ KeepsDraft(AtForm!SetEnterpriseModal) /\ KeepsDraft(AtForm!ExtendTrialModal) /\ KeepsDraft(AtForm!CancelModal)
    BY DEF KeepsDraft, AtForm!InlineNewContactForm, AtForm!Popup, AtForm!Dialog, AtForm!ActivateModal,
       AtForm!DrawerModal, AtForm!SetCompModal,
      AtForm!SetEnterpriseModal, AtForm!ExtendTrialModal, AtForm!CancelModal
  <2>4. KeepsDraft(AtForm!DealEditForm)
    BY DEF KeepsDraft, AtForm!DealEditForm, AtForm!Inline, AtForm!Dialog
  <2>5. KeepsDraft(AtForm!DealNoteField) /\ KeepsDraft(AtForm!OrgDaysSetting) /\ KeepsDraft(AtForm!SeatCountCard) /\ KeepsDraft(AtForm!BillingIntervalCard) /\ KeepsDraft(AtForm!CompanyNotesTab)
    BY DEF KeepsDraft, AtForm!DealNoteField, AtForm!Field, AtForm!Section, AtForm!Dialog,
       AtForm!OrgDaysSetting, AtForm!SeatCountCard,
      AtForm!BillingIntervalCard, AtForm!CompanyNotesTab
  <2>6. KeepsDraft(AtForm!TodoComposer) /\ KeepsDraft(AtForm!CreateLabelRow) /\ KeepsDraft(AtForm!NewTeamRow) /\ KeepsDraft(AtForm!InvitationsSection) /\ KeepsDraft(AtForm!InviteTeammatesCard) /\ KeepsDraft(AtForm!BlockedCompanies) /\ KeepsDraft(AtForm!FeedbackPage)
    BY DEF KeepsDraft, AtForm!TodoComposer, AtForm!Composer, AtForm!Section, AtForm!Dialog,
       AtForm!CreateLabelRow, AtForm!NewTeamRow,
      AtForm!InvitationsSection, AtForm!InviteTeammatesCard, AtForm!BlockedCompanies, AtForm!FeedbackPage
  <2>7. KeepsDraft(AtForm!EmailComposeModal)
    BY DEF KeepsDraft, AtForm!EmailComposeModal, AtForm!Popup, AtForm!Dialog
  <2>8. KeepsDraft(AtForm!EraseOrgDialog)
    BY DEF KeepsDraft, AtForm!EraseOrgDialog, AtForm!AdminDialog, AtForm!NewDialog, AtForm!Dialog
  <2>9. KeepsDraft(AtForm!TemplateEditor) /\ KeepsDraft(AtForm!GoalEditor)
    BY DEF KeepsDraft, AtForm!TemplateEditor, AtForm!Popup, AtForm!Dialog, AtForm!GoalEditor
  <2>10. KeepsDraft(AtForm!TodoListName)
    BY DEF KeepsDraft, AtForm!TodoListName, AtForm!NewDialog, AtForm!Dialog
  <2>11. KeepsDraft(AtForm!TodoListRename)
    BY DEF KeepsDraft, AtForm!TodoListRename, AtForm!TodoListName, AtForm!NewDialog, AtForm!Dialog
  <2>12. KeepsDraft(AtForm!LabelRow)
    BY DEF KeepsDraft, AtForm!LabelRow, AtForm!Field, AtForm!Section, AtForm!Dialog
  <2>13. KeepsDraft(AtForm!TeamRow)
    BY DEF KeepsDraft, AtForm!TeamRow, AtForm!Section, AtForm!Dialog
  <2>14. KeepsDraft(AtForm!UserCap)
    BY DEF KeepsDraft, AtForm!UserCap, AtForm!Field, AtForm!Section, AtForm!Dialog
  <2>15. KeepsDraft(AtForm!ContactCompanyField)
    BY DEF KeepsDraft, AtForm!ContactCompanyField, AtForm!Inline, AtForm!Dialog
  <2> QED
    BY <2>1, <2>2, <2>3, <2>4, <2>5, <2>6, <2>7, <2>8, <2>9, <2>10, <2>11, <2>12, <2>13, <2>14, <2>15
<1>3. \A x \in {AtForm!EditCompanyModal, AtForm!EditContactModal, AtForm!TodoListRename, AtForm!TodoItemText, AtForm!LabelRow, AtForm!UserCap, AtForm!OrgDaysSetting, AtForm!SeatCountCard, AtForm!BillingIntervalCard, AtForm!CompanyNotesTab, AtForm!DealNoteField, AtForm!ContactCompanyField} : IsCareful(x)
  <2>1. IsCareful(AtForm!DealNoteField) /\ IsCareful(AtForm!OrgDaysSetting) /\ IsCareful(AtForm!SeatCountCard) /\ IsCareful(AtForm!BillingIntervalCard) /\ IsCareful(AtForm!CompanyNotesTab)
    BY DEF IsCareful, AtForm!DealNoteField, AtForm!Field, AtForm!Section, AtForm!Dialog,
       AtForm!OrgDaysSetting, AtForm!SeatCountCard,
      AtForm!BillingIntervalCard, AtForm!CompanyNotesTab
  <2>2. IsCareful(AtForm!EditCompanyModal) /\ IsCareful(AtForm!EditContactModal)
    BY DEF IsCareful, AtForm!EditCompanyModal, AtForm!Dialog, AtForm!EditContactModal
  <2>3. IsCareful(AtForm!TodoListRename)
    BY DEF IsCareful, AtForm!TodoListRename, AtForm!TodoListName, AtForm!NewDialog, AtForm!Dialog
  <2>4. IsCareful(AtForm!TodoItemText)
    BY DEF IsCareful, AtForm!TodoItemText, AtForm!Inline, AtForm!Dialog
  <2>5. IsCareful(AtForm!LabelRow)
    BY DEF IsCareful, AtForm!LabelRow, AtForm!Field, AtForm!Section, AtForm!Dialog
  <2>6. IsCareful(AtForm!UserCap)
    BY DEF IsCareful, AtForm!UserCap, AtForm!Field, AtForm!Section, AtForm!Dialog
  <2>7. IsCareful(AtForm!ContactCompanyField)
    BY DEF IsCareful, AtForm!ContactCompanyField, AtForm!Inline, AtForm!Dialog
  <2> QED
    BY <2>1, <2>2, <2>3, <2>4, <2>5, <2>6, <2>7
<1> HIDE DEF Fits
<1>4. Fits(f)
  BY <1>1 DEF AtForm!Forms
<1>5. f \notin AtForm!Forgetful => KeepsDraft(f)
  BY <1>2 DEF AtForm!Forms, AtForm!Forgetful
<1>6. f \in AtForm!Careful => IsCareful(f)
  BY <1>3 DEF AtForm!Careful
<1> QED
  BY <1>4, <1>5, <1>6 DEF Fits

LEMMA SentFields ==
  ASSUME s3 \in AtForm!Record, s5 \in AtForm!Record
  PROVE  /\ AtForm!Sent \in Sets
         /\ "mine" \in DOMAIN AtForm!Sent => AtForm!Sent.mine = s3.mine
         /\ s1.creates \/ s1.sends # "changed" => "mine" \in DOMAIN AtForm!Sent
         /\ IsCareful(s1) /\ (s1.sends = "changed" => s3.other = s5.other) => "other" \notin DOMAIN AtForm!Sent
<1> USE DEF Sets, AtForm!Record
<1>1. CASE s1.sends = "whole" \/ s1.creates
  BY <1>1 DEF AtForm!Sent, IsCareful
<1>2. CASE s1.sends = "changed" /\ ~s1.creates
  <2> DEFINE D == {g \in {"mine", "other"} : s3[g] # s5[g]}
  <2>1. AtForm!Sent = [f \in D |-> s3[f]]
    BY <1>2 DEF AtForm!Sent
  <2>2. D \in {{"mine", "other"}, {"mine"}, {"other"}, {}} /\ ("other" \in D <=> s3.other # s5.other)
    OBVIOUS
  <2>3. \A f \in D : s3[f] \in FormWords /\ ("mine" \in D => [g \in D |-> s3[g]].mine = s3.mine)
    OBVIOUS
  <2> HIDE DEF D
  <2>4. AtForm!Sent \in [D -> FormWords] /\ DOMAIN AtForm!Sent = D
    BY <2>1, <2>3
  <2>5. AtForm!Sent \in Sets
    BY <2>2, <2>4
  <2> QED
    BY <1>2, <2>1, <2>2, <2>3, <2>4, <2>5 DEF IsCareful
<1>3. CASE s1.sends # "whole" /\ ~s1.creates /\ s1.sends # "changed"
  BY <1>3 DEF AtForm!Sent, IsCareful
<1> QED
  BY <1>1, <1>2, <1>3

LEMMA WrittenFields ==
  ASSUME s6 \in AtForm!Record, NEW f \in Sets
  PROVE  /\ AtForm!Written(f) \in AtForm!Record
         /\ AtForm!Written(f).mine = IF "mine" \in DOMAIN f THEN f.mine ELSE s6.mine
         /\ AtForm!Written(f).other = IF "other" \in DOMAIN f THEN f.other ELSE s6.other
<1>1. s6 = [mine |-> s6.mine, other |-> s6.other] /\ DOMAIN s6 = {"mine", "other"}
      /\ s6.mine \in FormWords /\ s6.other \in FormWords
  BY DEF AtForm!Record
<1>2. \A x \in DOMAIN f : f[x] \in FormWords
  BY DEF Sets
<1>3. DOMAIN AtForm!Written(f) = {"mine", "other"} /\ AtForm!Written(f).mine = (IF "mine" \in DOMAIN f THEN f.mine ELSE s6.mine)
      /\ AtForm!Written(f).other = (IF "other" \in DOMAIN f THEN f.other ELSE s6.other)
  BY <1>1 DEF AtForm!Written
<1>4. AtForm!Written(f) = [mine |-> AtForm!Written(f).mine, other |-> AtForm!Written(f).other]
  BY <1>3 DEF AtForm!Written
<1> QED
  BY <1>1, <1>2, <1>3, <1>4 DEF AtForm!Record

LEMMA FlightsWithout ==
  ASSUME FormsTyped, NEW i \in DOMAIN s7, s7' = TakenOut(s7, i)
  PROVE  /\ s7' \in Seq(Flight)
         /\ \A j \in DOMAIN s7' : \E k \in DOMAIN s7 \ {i} : s7'[j] = s7[k]
         /\ \A k \in DOMAIN s7 \ {i} : \E j \in DOMAIN s7' : s7'[j] = s7[k]
<1>1. s7' = TakenOut(s7, i) /\ s7 \in Seq(Flight)
  BY DEF FormsTyped
<1> QED
  BY <1>1, LeftWithout

LEMMA CountIsNat == FormsTyped => Cardinality(OnTheirWay) \in Nat
  BY PlacesAreFinite DEF FormsTyped, OnTheirWay

LEMMA CountWithout ==
  ASSUME FormsTyped, NEW i \in DOMAIN s7, s7[i].step # "sent", s7' = TakenOut(s7, i)
  PROVE  Cardinality(OnTheirWay') = Cardinality(OnTheirWay)
<1> DEFINE T == {f \in Flight : f.step = "sent"}
<1>1. s7' = TakenOut(s7, i) /\ s7 \in Seq(Flight) /\ i \in 1 .. Len(s7) /\ s7[i] \notin T
  BY DEF FormsTyped
<1> HIDE DEF T
<1>2. Cardinality(Places(TakenOut(s7, i), T)) = Cardinality(Places(s7, T))
  BY <1>1, SamePlaces
<1> QED
  BY <1>1, <1>2 DEF OnTheirWay, T

LEMMA CountWithOneMore ==
  ASSUME FormsTyped, NEW f \in Flight, f.step = "sent", s7' = Append(s7, f)
  PROVE  Cardinality(OnTheirWay') = Cardinality(OnTheirWay) + 1
<1> DEFINE T == {e \in Flight : e.step = "sent"}
<1>1. s7 \in Seq(Flight) /\ f \in T
  BY DEF FormsTyped
<1> HIDE DEF T
<1>2. Cardinality(Places(Append(s7, f), T)) = Cardinality(Places(s7, T)) + 1
  BY <1>1, OnePlaceMore
<1> QED
  BY <1>2 DEF OnTheirWay, T

LEMMA CountWithOneLess ==
  ASSUME FormsTyped, s7' \in Seq(Flight), NEW i \in DOMAIN s7, s7[i].step = "sent",
         NEW a \in {"ok", "refused"}, s7' = [s7 EXCEPT ![i].step = a]
  PROVE  Cardinality(OnTheirWay') = Cardinality(OnTheirWay) - 1
<1> DEFINE T == {e \in Flight : e.step = "sent"}
<1>0. s7[i] \in Flight /\ s7 \in Seq(Flight)
  BY DEF FormsTyped
<1>1. DOMAIN s7' = DOMAIN s7 /\ s7'[i].step = a /\ \A j \in DOMAIN s7 \ {i} : s7'[j] = s7[j]
  BY <1>0 DEF Flight
<1>2. s7[i] \in T /\ s7'[i] \notin T
  BY <1>0, <1>1
<1> HIDE DEF T
<1> DEFINE s == s7
           t == s7'
<1>4. s \in Seq(Flight) /\ t \in Seq(Flight)
  BY <1>0
<1>5. i \in DOMAIN s /\ s[i] \in T /\ t[i] \notin T /\ DOMAIN t = DOMAIN s /\ \A j \in DOMAIN s \ {i} : t[j] = s[j]
  BY <1>1, <1>2
<1> HIDE DEF s, t
<1>3. Cardinality(Places(t, T)) = Cardinality(Places(s, T)) - 1
  BY <1>4, <1>5, OnePlaceLess
<1> QED
  BY <1>3 DEF OnTheirWay, T, s, t

LEMMA FormsShow == FormsInv => AtForm!FormKeepsTyping /\ AtForm!OneRecordPerDraft /\ AtForm!ColleagueIsNotUndone
<1> SUFFICES ASSUME FormsInv PROVE AtForm!OneRecordPerDraft
  BY DEF FormsInv, TypedIsKept, AtForm!FormKeepsTyping
<1> QED
  BY CountIsNat DEF FormsInv, FormsTyped, CreatesOnly, DraftsAreNotSpent, AtForm!OneRecordPerDraft

LEMMA FormsStart == AtForm!FormsInit => FormsInv
<1> SUFFICES ASSUME AtForm!FormsInit PROVE FormsInv
  OBVIOUS
<1> USE DEF AtForm!FormsInit
<1>0. EmptyWord \in FormWords /\ None \notin FormWords /\ AtForm!Empty \in AtForm!Record /\ AtForm!Empty.mine = EmptyWord /\ AtForm!Empty.other = EmptyWord
  BY PagesAssumption DEF AtForm!FormsAssumption, AtForm!Empty, AtForm!Record
<1>1. FormsTyped
  <2>1. s7 \in Seq(Flight) /\ s2 \in BOOLEAN
    OBVIOUS
  <2> QED
    BY <1>0, <2>1 DEF FormsTyped
<1>2. SavesWhatWasTyped /\ CreatesFromNothing /\ CreatesOnly /\ OthersFieldIsNotSent
  BY <1>0 DEF SavesWhatWasTyped, CreatesFromNothing, CreatesOnly, OthersFieldIsNotSent
<1>3. Cardinality(OnTheirWay) = 0
  BY PlacesOfNone DEF OnTheirWay
<1>4. DraftsAreNotSpent
  <2>1. s1.creates /\ s1 \notin AtForm!Repeatable => (s1.seeded = "never" => s1.leaves = {})
    BY FormsAreKnown DEF MakesOnce, AtForm!Repeatable
  <2>2. s1.leaves = {} => s2
    OBVIOUS
  <2> QED
    BY <1>0, <1>3, <2>1, <2>2 DEF DraftsAreNotSpent
<1>5. TypedIsKept(s3.mine) /\ AtForm!ColleagueIsNotUndone
  BY <1>0 DEF TypedIsKept, AtForm!ColleagueIsNotUndone
<1> QED
  BY <1>1, <1>2, <1>4, <1>5 DEF FormsInv

LEMMA EmptyFields == EmptyWord \in FormWords /\ None \notin FormWords /\ AtForm!Empty \in AtForm!Record /\ AtForm!Empty.mine = EmptyWord /\ AtForm!Empty.other = EmptyWord
  BY PagesAssumption DEF AtForm!FormsAssumption, AtForm!Empty, AtForm!Record

LEMMA FlightAdded ==
  ASSUME FormsTyped, AtForm!Save
  PROVE  LET f == [sets |-> AtForm!Sent, opening |-> s8, step |-> "sent"] IN
         /\ f \in Flight /\ s7' = Append(s7, f) /\ s7' \in Seq(Flight)
         /\ DOMAIN s7' = DOMAIN s7 \cup {Len(s7) + 1} /\ s7'[Len(s7) + 1] = f
         /\ \A j \in DOMAIN s7 : s7'[j] = s7[j]
<1> DEFINE f == [sets |-> AtForm!Sent, opening |-> s8, step |-> "sent"]
<1>1. f \in Flight
  BY SentFields DEF FormsTyped, Flight
<1>2. s7' = Append(s7, f) /\ s7 \in Seq(Flight)
  BY DEF AtForm!Save, FormsTyped
<1> HIDE DEF f
<1> QED
  BY <1>1, <1>2 DEF f

LEMMA FormsStayTyped ==
  ASSUME FormsTyped, [AtForm!FormsNext]_AtForm!formVars
  PROVE  FormsTyped'
<1> USE EmptyFields
<1>0. s1 \in AtForm!Form /\ taps \in Nat /\ s8 \in Nat
  BY FormsAreKnown DEF FormsTyped
<1>1. CASE AtForm!OpenForm
  <2>1. s2' = TRUE /\ s8' \in Nat /\ taps' \in Nat /\ s14' \in BOOLEAN /\ s11' \in FormWords \cup {None}
    BY <1>1 DEF AtForm!OpenForm, AtForm!Tap, FormsTyped
  <2>2. s3' \in AtForm!Record /\ s4' \in AtForm!Record
    BY <1>1 DEF AtForm!OpenForm, AtForm!FillIn, FormsTyped
  <2> QED
    BY <1>1, <2>1, <2>2 DEF AtForm!OpenForm, FormsTyped
<1>2. CASE AtForm!Save
  <2>1. s7' \in Seq(Flight)
    BY <1>2, FlightAdded
  <2>2. taps' \in Nat /\ s2' \in BOOLEAN
    <3>1. taps' = taps + 1
      BY <1>2 DEF AtForm!Save, AtForm!Tap
    <3>2. s2' = (s1.done # "at once")
      BY <1>2 DEF AtForm!Save
    <3>3. s2' \in BOOLEAN
      BY <3>2
    <3> QED
      BY <1>0, <3>1, <3>3
  <2>3. s3' \in AtForm!Record /\ s4' \in AtForm!Record
    BY <1>2 DEF AtForm!Save, AtForm!Rendered, AtForm!FillIn, FormsTyped
  <2> QED
    <3>1. UNCHANGED <<s1, s5, s6, s8, s9, s10, s11, s12, s13, s14, s15>>
      BY <1>2 DEF AtForm!Save
    <3> QED
      BY <1>0, <2>1, <2>2, <2>3, <3>1 DEF FormsTyped
<1>3. CASE AtForm!Refetch
  <2>1. s3' \in AtForm!Record /\ s4' \in AtForm!Record
    BY <1>3 DEF AtForm!Refetch, AtForm!FillIn, FormsTyped
  <2> QED
    BY <1>3, <2>1 DEF AtForm!Refetch, FormsTyped
<1>4. ASSUME NEW w \in FormWords, AtForm!TypeWord(w) PROVE FormsTyped'
  <2>1. s3' \in AtForm!Record
    BY <1>4 DEF AtForm!TypeWord, FormsTyped, AtForm!Record
  <2> QED
    BY <1>4, <2>1 DEF AtForm!TypeWord, AtForm!Tap, FormsTyped
<1>5. ASSUME NEW w \in FormWords, AtForm!ColleagueWrites(w) PROVE FormsTyped'
  <2>1. s6' \in AtForm!Record
    BY <1>5 DEF AtForm!ColleagueWrites, FormsTyped, AtForm!Record
  <2> QED
    BY <1>5, <2>1 DEF AtForm!ColleagueWrites, AtForm!Tap, FormsTyped
<1>6. ASSUME NEW i \in DOMAIN s7, AtForm!ServerSaves(i) PROVE FormsTyped'
  <2>0. s7[i] \in Flight /\ s7 \in Seq(Flight)
    BY DEF FormsTyped
  <2>1. ASSUME NEW a \in {"ok", "refused"}, s7' = [s7 EXCEPT ![i].step = a] PROVE s7' \in Seq(Flight)
    <3>1. [s7[i] EXCEPT !.step = a] \in Flight
      BY <2>0 DEF Flight
    <3>2. s7' = [s7 EXCEPT ![i] = [s7[i] EXCEPT !.step = a]]
      BY <2>1
    <3> QED
      BY <2>0, <3>1, <3>2
  <2>2. s7' \in Seq(Flight) /\ s15' \in BOOLEAN
    BY <1>6, <2>1 DEF AtForm!ServerSaves, FormsTyped
  <2>3. s7[i].sets \in Sets /\ ("mine" \in DOMAIN s7[i].sets => s7[i].sets.mine \in FormWords)
    BY <2>0 DEF Flight, Sets
  <2>4. s6' \in AtForm!Record /\ s9' \in Nat /\ s12' \subseteq FormWords
    BY <1>6, <2>3, WrittenFields DEF AtForm!ServerSaves, FormsTyped
  <2> QED
    BY <1>6, <2>2, <2>4 DEF AtForm!ServerSaves, FormsTyped
<1>7. ASSUME NEW i \in DOMAIN s7, AtForm!Answers(i) PROVE FormsTyped'
  <2>1. s7' \in Seq(Flight)
    BY <1>7, FlightsWithout DEF AtForm!Answers, TakenOut
  <2>2. s3' \in AtForm!Record /\ s4' \in AtForm!Record /\ s2' \in BOOLEAN
    BY <1>7 DEF AtForm!Answers, AtForm!FillIn, AtForm!Rendered, FormsTyped
  <2> QED
    BY <1>7, <2>1, <2>2 DEF AtForm!Answers, FormsTyped
<1>8. ASSUME NEW how \in {"key", "button", "beside"}, AtForm!Leave(how) PROVE FormsTyped'
  <2>1. s3' \in AtForm!Record /\ s4' \in AtForm!Record
    BY <1>8 DEF AtForm!Leave, AtForm!FillIn, FormsTyped
  <2> QED
    BY <1>8, <2>1 DEF AtForm!Leave, FormsTyped
<1>9. CASE UNCHANGED AtForm!formVars
  BY <1>9 DEF AtForm!formVars, FormsTyped
<1> QED
  BY <1>1, <1>2, <1>3, <1>4, <1>5, <1>6, <1>7, <1>8, <1>9 DEF AtForm!FormsNext

\* What is on its way after a step was on its way before, in the same state or another.
LEMMA FlightOfFlight ==
  ASSUME FormsTyped, NEW i \in DOMAIN s7, NEW a \in {"ok", "refused"}, s7' = [s7 EXCEPT ![i].step = a]
  PROVE  /\ DOMAIN s7' = DOMAIN s7
         /\ s7'[i].step = a /\ s7'[i].sets = s7[i].sets /\ s7'[i].opening = s7[i].opening
         /\ \A j \in DOMAIN s7 \ {i} : s7'[j] = s7[j]
<1>1. s7[i] \in Flight
  BY DEF FormsTyped
<1> QED
  BY <1>1 DEF Flight, FormsTyped

LEMMA TypedStaysKept ==
  ASSUME FormsInv, [AtForm!FormsNext]_AtForm!formVars, s1' = s1
  PROVE  SavesWhatWasTyped' /\ TypedIsKept(s3.mine)'
<1> USE EmptyFields DEF SavesWhatWasTyped, TypedIsKept
<1>0. FormsTyped /\ SavesWhatWasTyped /\ TypedIsKept(s3.mine) /\ CreatesFromNothing
  BY DEF FormsInv
<1>k. s1 \in AtForm!Form /\ MakesOnce(s1) /\ (s1 \notin AtForm!Forgetful => KeepsDraft(s1))
  BY <1>0, FormsAreKnown DEF FormsTyped
<1>1. CASE AtForm!OpenForm
  <2>1. UNCHANGED <<s5, s6, s7, s12, s1>> /\ (s14' => s14)
    BY <1>1 DEF AtForm!OpenForm
  <2>2. CASE s1.seeded = "never"
    BY <1>0, <1>1, <2>1, <2>2 DEF AtForm!OpenForm
  <2>3. CASE s1.seeded # "never"
    <3>1. s11' = None /\ s4'.mine \in s12 \cup {EmptyWord}
      BY <1>0, <1>1, <2>3 DEF AtForm!OpenForm, AtForm!FillIn
    <3> QED
      BY <1>0, <2>1, <3>1
  <2> QED
    BY <2>2, <2>3
<1>2. CASE AtForm!Save
  <2>1. UNCHANGED <<s5, s6, s12, s1, s11, s14>>
    BY <1>2 DEF AtForm!Save
  <2>2. s4'.mine \in s12 \cup {EmptyWord} /\ (s1 \notin AtForm!Forgetful => s3' = s3)
    BY <1>0, <1>2, <1>k DEF AtForm!Save, AtForm!Rendered, AtForm!FillIn, KeepsDraft
  <2>3. "mine" \in DOMAIN AtForm!Sent => AtForm!Sent.mine = s3.mine
    BY <1>0, SentFields DEF FormsTyped
  <2>4. \A i \in DOMAIN s7' : s7'[i] = [sets |-> AtForm!Sent, opening |-> s8, step |-> "sent"]
                                   \/ \E j \in DOMAIN s7 : s7'[i] = s7[j]
    BY <1>0, <1>2, FlightAdded
  <2> QED
    BY <1>0, <2>1, <2>2, <2>3, <2>4
<1>3. CASE AtForm!Refetch
  <2>1. UNCHANGED <<s7, s12, s1, s11, s14, s6>> /\ s5' = s6
    BY <1>3 DEF AtForm!Refetch
  <2>2. s4'.mine \in s12 \cup {EmptyWord}
    BY <1>0, <1>3 DEF AtForm!Refetch, AtForm!FillIn
  <2>3. s1 \notin AtForm!Forgetful => s3' = s3 \/ (s3' = s6 /\ s5.mine # s6.mine)
    BY <1>k, <1>3 DEF AtForm!Refetch, AtForm!FillIn, KeepsDraft
  <2> QED
    BY <1>0, <2>1, <2>2, <2>3
<1>4. ASSUME NEW w \in FormWords, AtForm!TypeWord(w) PROVE SavesWhatWasTyped' /\ TypedIsKept(s3.mine)'
  <2>1. UNCHANGED <<s4, s5, s6, s7, s12, s1>> /\ s11' = w /\ s3'.mine = w
    BY <1>0, <1>4 DEF AtForm!TypeWord, FormsTyped, AtForm!Record
  <2>2. s14' => s7 = << >> /\ s5.mine = s6.mine
    BY <1>4 DEF AtForm!TypeWord
  <2>3. s14' => DOMAIN s7 = {}
    BY <2>2
  <2> QED
    BY <1>0, <2>1, <2>2, <2>3
<1>5. ASSUME NEW w \in FormWords, AtForm!ColleagueWrites(w) PROVE SavesWhatWasTyped' /\ TypedIsKept(s3.mine)'
  <2>1. UNCHANGED <<s3, s4, s5, s7, s12, s1, s11, s14>> /\ s6'.mine = s6.mine
    BY <1>0, <1>5 DEF AtForm!ColleagueWrites, FormsTyped, AtForm!Record
  <2> QED
    BY <1>0, <2>1
<1>6. ASSUME NEW i \in DOMAIN s7, AtForm!ServerSaves(i) PROVE SavesWhatWasTyped' /\ TypedIsKept(s3.mine)'
  <2>1. UNCHANGED <<s3, s4, s5, s1, s11, s14>> /\ s12 \subseteq s12'
    BY <1>6 DEF AtForm!ServerSaves
  <2>2. PICK a \in {"ok", "refused"} : s7' = [s7 EXCEPT ![i].step = a]
    BY <1>6 DEF AtForm!ServerSaves
  <2>3. (a = "ok" \/ s6' # s6) /\ "mine" \in DOMAIN s7[i].sets => s7[i].sets.mine \in s12'
    <3>1. s7'[i].step = a
      BY <1>0, <2>2, FlightOfFlight
    <3> QED
      BY <1>0, <1>6, <2>2, <3>1, FlightOfFlight DEF AtForm!ServerSaves
  <2>4. s6'.mine = s6.mine \/ ("mine" \in DOMAIN s7[i].sets /\ s6'.mine = s7[i].sets.mine /\ s6 # s6')
    <3>1. s7[i] \in Flight
      BY <1>0 DEF FormsTyped
    <3>2. s7[i].sets \in Sets
      BY <3>1 DEF Flight
    <3> QED
      BY <1>0, <1>6, <3>2, WrittenFields DEF AtForm!ServerSaves, FormsTyped
  <2> HIDE DEF SavesWhatWasTyped
  <2>5. {s6'.mine, s5'.mine, s4'.mine} \subseteq s12' \cup {EmptyWord}
    BY <1>0, <2>1, <2>3, <2>4 DEF SavesWhatWasTyped
  <2> DEFINE KeptThen(w) == s1' \notin AtForm!Forgetful /\ s14' => s11' \in s12' \cup {None, w}
             Then(f) == "mine" \in DOMAIN f.sets => (f.step = "ok" => f.sets.mine \in s12') /\ KeptThen(f.sets.mine)
  <2>6. \A j \in DOMAIN s7' : Then(s7'[j])
    <3>0. /\ DOMAIN s7' = DOMAIN s7 /\ s7'[i].step = a /\ s7'[i].sets = s7[i].sets
          /\ \A j \in DOMAIN s7 \ {i} : s7'[j] = s7[j]
      BY <1>0, <2>2, FlightOfFlight
    <3>1. ASSUME NEW j \in DOMAIN s7 \ {i} PROVE Then(s7'[j])
      BY <1>0, <2>1, <3>0 DEF SavesWhatWasTyped
    <3>2. Then(s7'[i])
      BY <1>0, <2>1, <2>3, <3>0 DEF SavesWhatWasTyped
    <3> QED
      BY <3>0, <3>1, <3>2
  <2>7. s1' \notin AtForm!Forgetful /\ s14' => s5'.mine = s6'.mine \/ s11' \in s12' \cup {None}
    BY <1>0, <2>1, <2>3, <2>4 DEF SavesWhatWasTyped
  <2>8. TypedIsKept(s3.mine)'
    BY <1>0, <2>1
  <2> QED
    BY <2>5, <2>6, <2>7, <2>8 DEF SavesWhatWasTyped
<1>7. ASSUME NEW i \in DOMAIN s7, AtForm!Answers(i) PROVE SavesWhatWasTyped' /\ TypedIsKept(s3.mine)'
  <2>1. UNCHANGED <<s5, s6, s12, s1, s11, s14>>
    BY <1>7 DEF AtForm!Answers
  <2>0. s7' = TakenOut(s7, i)
    BY <1>7 DEF AtForm!Answers, TakenOut
  <2>2. \A j \in DOMAIN s7' : \E k \in DOMAIN s7 : s7'[j] = s7[k]
    BY <1>0, <1>7, <2>0, FlightsWithout
  <2>3. s4'.mine \in s12 \cup {EmptyWord}
    BY <1>0, <1>7 DEF AtForm!Answers, AtForm!Rendered, AtForm!FillIn
  \* A form is emptied by the answer to a draft that was stored.
  <2>4. s1 \notin AtForm!Forgetful => s3' = s3 \/ (s1.creates /\ s7[i].step = "ok")
    BY <1>7, <1>k DEF AtForm!Answers, AtForm!Succeeds, AtForm!Rendered, AtForm!FillIn, KeepsDraft, MakesOnce
  <2>5. TypedIsKept(s3.mine)'
    BY <1>0, <2>1, <2>4 DEF CreatesFromNothing
  <2> QED
    BY <1>0, <2>1, <2>2, <2>3, <2>5
<1>8. ASSUME NEW how \in {"key", "button", "beside"}, AtForm!Leave(how) PROVE SavesWhatWasTyped' /\ TypedIsKept(s3.mine)'
  <2>1. UNCHANGED <<s5, s6, s7, s12, s1, s14>>
    BY <1>8 DEF AtForm!Leave
  <2>2. s4'.mine \in s12 \cup {EmptyWord}
    BY <1>0, <1>8 DEF AtForm!Leave, AtForm!FillIn
  <2>3. s11' = None \/ (s11' = s11 /\ (s3' = s3 \/ (s3' = AtForm!Empty /\ s3 = s4) \/ s1 \in AtForm!Forgetful))
    BY <1>8, <1>k DEF AtForm!Leave, AtForm!FillIn, KeepsDraft
  <2> QED
    BY <1>0, <2>1, <2>2, <2>3
<1>9. CASE UNCHANGED AtForm!formVars
  BY <1>0, <1>9 DEF AtForm!formVars
<1> QED
  BY <1>1, <1>2, <1>3, <1>4, <1>5, <1>6, <1>7, <1>8, <1>9 DEF AtForm!FormsNext

LEMMA CreatesStay ==
  ASSUME FormsInv, [AtForm!FormsNext]_AtForm!formVars, s1' = s1
  PROVE  CreatesFromNothing' /\ CreatesOnly'
<1> USE EmptyFields DEF CreatesFromNothing, CreatesOnly
<1>0. FormsTyped /\ CreatesFromNothing /\ CreatesOnly /\ MakesOnce(s1)
  BY FormsAreKnown DEF FormsInv, FormsTyped
<1>1. CASE AtForm!OpenForm
  BY <1>0, <1>1 DEF AtForm!OpenForm, AtForm!FillIn
<1>2. CASE AtForm!Save
  <2>1. UNCHANGED s9 /\ (s1.creates => s4' = AtForm!Empty)
    BY <1>0, <1>2 DEF AtForm!Save, AtForm!Rendered, AtForm!FillIn, MakesOnce
  <2>2. s1.creates => "mine" \in DOMAIN AtForm!Sent
    BY <1>0, SentFields DEF FormsTyped
  <2>3. \A i \in DOMAIN s7' : s7'[i] = [sets |-> AtForm!Sent, opening |-> s8, step |-> "sent"]
                                   \/ \E j \in DOMAIN s7 : s7'[i] = s7[j]
    BY <1>0, <1>2, FlightAdded
  <2> QED
    BY <1>0, <2>1, <2>2, <2>3
<1>3. CASE AtForm!Refetch
  BY <1>0, <1>3 DEF AtForm!Refetch
<1>4. ASSUME NEW w \in FormWords, AtForm!TypeWord(w) PROVE CreatesFromNothing' /\ CreatesOnly'
  BY <1>0, <1>4 DEF AtForm!TypeWord
<1>5. ASSUME NEW w \in FormWords, AtForm!ColleagueWrites(w) PROVE CreatesFromNothing' /\ CreatesOnly'
  BY <1>0, <1>5 DEF AtForm!ColleagueWrites
<1>6. ASSUME NEW i \in DOMAIN s7, AtForm!ServerSaves(i) PROVE CreatesFromNothing' /\ CreatesOnly'
  <2>1. PICK a \in {"ok", "refused"} : s7' = [s7 EXCEPT ![i].step = a]
    BY <1>6 DEF AtForm!ServerSaves
  <2>2. \A j \in DOMAIN s7' : j \in DOMAIN s7 /\ s7'[j].sets = s7[j].sets
    BY <1>0, <2>1, FlightOfFlight
  <2>3. UNCHANGED s4 /\ (~s1.creates => s9' = s9)
    BY <1>6 DEF AtForm!ServerSaves
  <2> QED
    BY <1>0, <2>2, <2>3
<1>7. ASSUME NEW i \in DOMAIN s7, AtForm!Answers(i) PROVE CreatesFromNothing' /\ CreatesOnly'
  <2>0. s7' = TakenOut(s7, i)
    BY <1>7 DEF AtForm!Answers, TakenOut
  <2>1. \A j \in DOMAIN s7' : \E k \in DOMAIN s7 : s7'[j] = s7[k]
    BY <1>0, <1>7, <2>0, FlightsWithout
  <2>2. UNCHANGED s9 /\ (s1.creates => s4' = AtForm!Empty)
    BY <1>0, <1>7 DEF AtForm!Answers, AtForm!Rendered, AtForm!FillIn, MakesOnce
  <2> QED
    BY <1>0, <2>1, <2>2
<1>8. ASSUME NEW how \in {"key", "button", "beside"}, AtForm!Leave(how) PROVE CreatesFromNothing' /\ CreatesOnly'
  BY <1>0, <1>8 DEF AtForm!Leave, AtForm!FillIn
<1>9. CASE UNCHANGED AtForm!formVars
  BY <1>0, <1>9 DEF AtForm!formVars
<1> QED
  BY <1>1, <1>2, <1>3, <1>4, <1>5, <1>6, <1>7, <1>8, <1>9 DEF AtForm!FormsNext

LEMMA OthersFieldStaysOut ==
  ASSUME FormsInv, [AtForm!FormsNext]_AtForm!formVars, s1' = s1
  PROVE  OthersFieldIsNotSent' /\ AtForm!ColleagueIsNotUndone'
<1> SUFFICES ASSUME s1 \in AtForm!Careful PROVE OthersFieldIsNotSent' /\ AtForm!ColleagueIsNotUndone'
  BY DEF OthersFieldIsNotSent, AtForm!ColleagueIsNotUndone
<1> USE EmptyFields DEF OthersFieldIsNotSent, AtForm!ColleagueIsNotUndone
<1>0. FormsTyped /\ OthersFieldIsNotSent /\ AtForm!ColleagueIsNotUndone
  BY DEF FormsInv
<1>k. s1 \in AtForm!Form /\ MakesOnce(s1) /\ IsCareful(s1)
  BY <1>0, FormsAreKnown DEF FormsTyped
<1>1. CASE AtForm!OpenForm
  <2>1. UNCHANGED <<s5, s6, s13, s7>> /\ (s1.sends = "changed" => s3' = s5)
    BY <1>k, <1>1 DEF AtForm!OpenForm, AtForm!FillIn, IsCareful
  <2> QED
    BY <1>0, <2>1
<1>2. CASE AtForm!Save
  <2>1. UNCHANGED <<s5, s6, s13>> /\ (s1.sends = "changed" => s3' = s3)
    BY <1>k, <1>2 DEF AtForm!Save, AtForm!Rendered, IsCareful
  <2>2. "other" \notin DOMAIN AtForm!Sent /\ s2
    BY <1>0, <1>2, <1>k, SentFields DEF AtForm!Save, FormsTyped
  <2>3. \A i \in DOMAIN s7' : s7'[i] = [sets |-> AtForm!Sent, opening |-> s8, step |-> "sent"]
                                   \/ \E j \in DOMAIN s7 : s7'[i] = s7[j]
    BY <1>0, <1>2, FlightAdded
  <2> QED
    BY <1>0, <2>1, <2>2, <2>3
<1>3. CASE AtForm!Refetch
  <2>1. UNCHANGED <<s2, s6, s13, s7>> /\ s5' = s6
    BY <1>3 DEF AtForm!Refetch
  <2>2. s2 /\ s1.sends = "changed" => s3' = s6
    BY <1>k, <1>3 DEF AtForm!Refetch, AtForm!FillIn, IsCareful
  <2> QED
    BY <1>0, <2>1, <2>2
<1>4. ASSUME NEW w \in FormWords, AtForm!TypeWord(w) PROVE OthersFieldIsNotSent' /\ AtForm!ColleagueIsNotUndone'
  <2>1. UNCHANGED <<s2, s5, s6, s13, s7>> /\ s3'.other = s3.other
    BY <1>0, <1>4 DEF AtForm!TypeWord, FormsTyped, AtForm!Record
  <2> QED
    BY <1>0, <2>1
<1>5. ASSUME NEW w \in FormWords, AtForm!ColleagueWrites(w) PROVE OthersFieldIsNotSent' /\ AtForm!ColleagueIsNotUndone'
  <2>1. UNCHANGED <<s2, s5, s3, s7>> /\ s6'.other = w /\ s13' = w
    BY <1>0, <1>5 DEF AtForm!ColleagueWrites, FormsTyped, AtForm!Record
  <2> QED
    BY <1>0, <2>1
<1>6. ASSUME NEW i \in DOMAIN s7, AtForm!ServerSaves(i) PROVE OthersFieldIsNotSent' /\ AtForm!ColleagueIsNotUndone'
  <2>1. PICK a \in {"ok", "refused"} : s7' = [s7 EXCEPT ![i].step = a]
    BY <1>6 DEF AtForm!ServerSaves
  <2>2. \A j \in DOMAIN s7' : j \in DOMAIN s7 /\ s7'[j].sets = s7[j].sets
    BY <1>0, <2>1, FlightOfFlight
  <2>3. UNCHANGED <<s2, s3, s5, s13>>
    BY <1>6 DEF AtForm!ServerSaves
  <2>4. s7[i] \in Flight
    BY <1>0 DEF FormsTyped
  <2>5. s7[i].sets \in Sets
    BY <2>4 DEF Flight
  <2>6. AtForm!Written(s7[i].sets).other = s6.other
    BY <1>0, <2>5, WrittenFields DEF FormsTyped
  <2>7. s6'.other = s6.other
    BY <1>6, <2>6 DEF AtForm!ServerSaves
  <2> QED
    BY <1>0, <2>2, <2>3, <2>7
<1>7. ASSUME NEW i \in DOMAIN s7, AtForm!Answers(i) PROVE OthersFieldIsNotSent' /\ AtForm!ColleagueIsNotUndone'
  <2>0. s7' = TakenOut(s7, i)
    BY <1>7 DEF AtForm!Answers, TakenOut
  <2>1. \A j \in DOMAIN s7' : \E k \in DOMAIN s7 : s7'[j] = s7[k]
    BY <1>0, <1>7, <2>0, FlightsWithout
  <2>2. UNCHANGED <<s5, s6, s13>> /\ (s2' => s2) /\ (s1.sends = "changed" => s3' = s3)
    BY <1>k, <1>7 DEF AtForm!Answers, AtForm!Rendered, IsCareful, MakesOnce
  <2> QED
    BY <1>0, <2>1, <2>2
<1>8. ASSUME NEW how \in {"key", "button", "beside"}, AtForm!Leave(how) PROVE OthersFieldIsNotSent' /\ AtForm!ColleagueIsNotUndone'
  BY <1>0, <1>8 DEF AtForm!Leave
<1>9. CASE UNCHANGED AtForm!formVars
  BY <1>0, <1>9 DEF AtForm!formVars
<1> QED
  BY <1>1, <1>2, <1>3, <1>4, <1>5, <1>6, <1>7, <1>8, <1>9 DEF AtForm!FormsNext

\* The drafts that are spent, or about to be, are at most those that were begun.
LEMMA DraftsStayUnspent ==
  ASSUME FormsInv, [AtForm!FormsNext]_AtForm!formVars, s1' = s1
  PROVE  DraftsAreNotSpent'
<1> SUFFICES ASSUME s1.creates, s1 \notin AtForm!Repeatable, ~s15' PROVE DraftsAreNotSpent'
  BY DEF DraftsAreNotSpent
<1> DEFINE n == Cardinality(OnTheirWay)
<1>0. FormsTyped /\ n \in Nat /\ s9 \in Nat /\ s10 \in Nat
  BY CountIsNat DEF FormsInv, FormsTyped
<1>k. s1 \in AtForm!Form /\ MakesOnce(s1) /\ s1.locks
      /\ (s1.seeded = "never" => s1.leaves = {} /\ s1.done = "empties")
  BY <1>0, FormsAreKnown DEF FormsTyped, MakesOnce, AtForm!Repeatable
<1>l. ~s15
  BY DEF AtForm!FormsNext, AtForm!formVars, AtForm!OpenForm, AtForm!Save, AtForm!Refetch, AtForm!TypeWord,
     AtForm!ColleagueWrites, AtForm!ServerSaves, AtForm!Answers, AtForm!Leave
<1>m. /\ s9 + n <= s10 /\ (s1.seeded = "never" => s2)
      /\ (s3.mine # EmptyWord /\ ~DraftIsSent => s9 + n < s10)
  BY <1>l DEF FormsInv, DraftsAreNotSpent
<1> USE EmptyFields
<1> HIDE DEF n
<1>o. s1.seeded = "never" => s2'
  BY <1>k, <1>m DEF AtForm!FormsNext, AtForm!formVars, AtForm!OpenForm, AtForm!Save, AtForm!Refetch,
     AtForm!TypeWord, AtForm!ColleagueWrites, AtForm!ServerSaves, AtForm!Answers, AtForm!Leave,
    MakesOnce
<1> DEFINE NotSpentThen == s9' + n' <= s10' /\ (s3'.mine # EmptyWord /\ ~DraftIsSent' => s9' + n' < s10')
<1>s. SUFFICES NotSpentThen
  BY <1>o DEF DraftsAreNotSpent, n
<1>1. CASE AtForm!OpenForm
  <2>1. n' = n /\ UNCHANGED <<s9, s10, s1, s7>>
    BY <1>1 DEF AtForm!OpenForm, n, OnTheirWay
  <2>2. s3'.mine = EmptyWord
    BY <1>1, <1>k, <1>m DEF AtForm!OpenForm, AtForm!FillIn
  <2> QED
    BY <1>m, <2>1, <2>2
<1>2. CASE AtForm!Save
  <2>1. UNCHANGED <<s9, s10, s3, s8>>
    BY <1>2, <1>k DEF AtForm!Save, AtForm!Rendered, MakesOnce
  <2>2. n' = n + 1
    BY <1>0, <1>2, FlightAdded, CountWithOneMore DEF n
  <2>3. ~DraftIsSent /\ s3.mine # EmptyWord
    BY <1>2, <1>k, EmptyFields DEF AtForm!Save, AtForm!Pending, DraftIsSent, FormsInv, CreatesFromNothing
  <2>4. DraftIsSent'
    <3>1. /\ Len(s7) + 1 \in DOMAIN s7'
          /\ s7'[Len(s7) + 1] = [sets |-> AtForm!Sent, opening |-> s8, step |-> "sent"]
      BY <1>0, <1>2, FlightAdded
    <3> QED
      BY <2>1, <3>1 DEF DraftIsSent, AtForm!Mine
  <2> QED
    BY <1>0, <1>m, <2>1, <2>2, <2>3, <2>4
<1>3. CASE AtForm!Refetch
  BY <1>3 DEF AtForm!Refetch
<1>4. ASSUME NEW w \in FormWords, AtForm!TypeWord(w) PROVE NotSpentThen
  <2>1. UNCHANGED <<s9, s7, s8, s1>> /\ n' = n
    BY <1>4 DEF AtForm!TypeWord, n, OnTheirWay
  <2>2. DraftIsSent' <=> DraftIsSent
    BY <2>1 DEF DraftIsSent, AtForm!Mine
  <2>3. s10' = IF s3.mine = EmptyWord THEN s10 + 1 ELSE s10
    BY <1>4 DEF AtForm!TypeWord
  <2> QED
    BY <1>0, <1>m, <2>1, <2>2, <2>3
<1>5. ASSUME NEW w \in FormWords, AtForm!ColleagueWrites(w) PROVE FALSE
  BY <1>5 DEF AtForm!ColleagueWrites
<1>6. ASSUME NEW i \in DOMAIN s7, AtForm!ServerSaves(i) PROVE NotSpentThen
  <2>1. PICK a \in {"ok", "refused"} : s7' = [s7 EXCEPT ![i].step = a] /\ s9' = IF a = "ok" THEN s9 + 1 ELSE s9
    <3>1. \A a \in {"ok", "refused"} : s7' = [s7 EXCEPT ![i].step = a] => s7'[i].step = a
      BY <1>0, FlightOfFlight
    <3> QED
      BY <1>6, <1>l, <3>1 DEF AtForm!ServerSaves
  <2>2. n' = n - 1
    BY <1>0, <1>6, <2>1, CountWithOneLess, FormsStayTyped DEF AtForm!ServerSaves, FormsTyped, n
  <2>3. UNCHANGED <<s3, s8, s10>>
    BY <1>6 DEF AtForm!ServerSaves
  <2>4. a = "ok" => (DraftIsSent' <=> DraftIsSent)
    <3>1. s7[i].step = "sent"
      BY <1>6 DEF AtForm!ServerSaves
    <3> QED
      BY <1>0, <2>1, <2>3, <3>1, FlightOfFlight DEF DraftIsSent, AtForm!Mine
  <2> QED
    BY <1>0, <1>m, <2>1, <2>2, <2>3, <2>4
<1>7. ASSUME NEW i \in DOMAIN s7, AtForm!Answers(i) PROVE NotSpentThen
  <2>1. n' = n
    BY <1>0, <1>7, CountWithout DEF AtForm!Answers, TakenOut, n
  <2>2. UNCHANGED <<s9, s10, s8>>
    BY <1>7 DEF AtForm!Answers
  <2>3. CASE AtForm!Succeeds(i)
    <3>1. s3'.mine = EmptyWord
      BY <1>7, <1>k, <2>3 DEF AtForm!Answers, AtForm!FillIn, MakesOnce
    <3> QED
      BY <1>m, <2>1, <2>2, <3>1
  <2>4. CASE ~AtForm!Succeeds(i)
    <3>1. s3' = s3
      BY <1>7, <1>k, <2>4 DEF AtForm!Answers, AtForm!Rendered, MakesOnce
    \* The answer that goes was a refusal, or belonged to an opening that is gone.
    <3>2. s7[i].step = "refused" \/ ~(AtForm!Mine(i) \/ s1.late = "hooks")
      <4>1. s7[i] \in Flight
        BY <1>0 DEF FormsTyped
      <4> QED
        BY <1>7, <2>4, <4>1 DEF AtForm!Answers, AtForm!Succeeds, AtForm!Reaches, Flight
    <3>3. ASSUME DraftIsSent PROVE DraftIsSent'
      <4>1. PICK k \in DOMAIN s7 : s7[k].step \in {"sent", "ok"} /\ (AtForm!Mine(k) \/ s1.late = "hooks")
        BY <3>3 DEF DraftIsSent
      <4>2. k # i
        BY <3>2, <4>1
      <4>3. PICK j \in DOMAIN s7' : s7'[j] = s7[k]
        BY <1>0, <1>7, <4>2, FlightsWithout DEF AtForm!Answers, TakenOut
      <4> QED
        BY <2>2, <4>1, <4>3 DEF DraftIsSent, AtForm!Mine
    <3> QED
      BY <1>m, <2>1, <2>2, <3>1, <3>3
  <2> QED
    BY <2>3, <2>4
<1>8. ASSUME NEW how \in {"key", "button", "beside"}, AtForm!Leave(how) PROVE NotSpentThen
  <2>1. n' = n /\ UNCHANGED <<s9, s10>>
    BY <1>8 DEF AtForm!Leave, n, OnTheirWay
  <2>2. s3'.mine = EmptyWord
    BY <1>8, <1>k DEF AtForm!Leave, AtForm!FillIn
  <2> QED
    BY <1>m, <2>1, <2>2
<1>9. CASE UNCHANGED AtForm!formVars
  BY <1>m, <1>9 DEF AtForm!formVars, n, OnTheirWay, DraftIsSent, AtForm!Mine
<1> QED
  BY <1>1, <1>2, <1>3, <1>4, <1>5, <1>6, <1>7, <1>8, <1>9 DEF AtForm!FormsNext

LEMMA FormsStay == FormsInv /\ [AtForm!FormsNext]_AtForm!formVars => FormsInv'
<1> SUFFICES ASSUME FormsInv, [AtForm!FormsNext]_AtForm!formVars PROVE FormsInv'
  OBVIOUS
<1>1. s1' = s1
  BY DEF AtForm!FormsNext, AtForm!formVars, AtForm!OpenForm, AtForm!Save, AtForm!Refetch, AtForm!TypeWord,
     AtForm!ColleagueWrites, AtForm!ServerSaves, AtForm!Answers, AtForm!Leave
<1> QED
  BY <1>1, FormsStayTyped, TypedStaysKept, CreatesStay, DraftsStayUnspent, OthersFieldStaysOut DEF FormsInv

-----------------------------------------------------------------------------
(***************************************************************************)
(* An entry of the timeline.                                                *)
(***************************************************************************)
EntryTyped ==
  /\ s1 \in Texts /\ s2 \in Texts /\ s6 \in Texts /\ s7 \in Texts /\ s10 \in Texts
  /\ s8 \in Texts \cup {None} /\ s9 \in Seq(AtEntry!Patch)
  /\ s3 \in BOOLEAN /\ s4 \in BOOLEAN /\ s11 \in BOOLEAN /\ s12 \in BOOLEAN
  /\ taps \in Nat /\ s5 \in Nat
  /\ (~s4 => s8 = None)

\* The body the server holds once all that is on its way has reached it in order.
LastIsSent == s9 # << >> /\ s9[Len(s9)].step = "sent"
LastWord == IF LastIsSent THEN s9[Len(s9)].body ELSE s1

\* Nothing went wrong so far, or yet to be told.
Untroubled == s11 /\ \A i \in DOMAIN s9 : s9[i].step # "refused"
SentInOrder == \A j, k \in DOMAIN s9 : j < k /\ s9[j].step = "sent" => s9[k].step = "sent"
LastWordIsOnItsWay ==
  /\ s11 /\ s4 => s6 = s10
  /\ s11 /\ s8 # None => s8 = s10
  /\ Untroubled =>
       /\ SentInOrder
       /\ (s8 = None => LastWord = s10)
       /\ (s4 => LastWord = s7)

\* A save that is alone leaves the row as it was, or as the server now is.
AloneIsClear ==
  s12 /\ s4 /\ s5 = 0 =>
    /\ Len(s9) <= 1
    /\ (s8 # None => s6 = s8)
    /\ (s9 = << >> => s7 = s1 /\ (s8 = None => s6 = s7))
    /\ \A i \in DOMAIN s9 :
         /\ s8 = None /\ s6 = s7 /\ s9[i].prior # None
         /\ s6 = s9[i].body
         /\ s1 = IF s9[i].step = "ok" THEN s9[i].body ELSE s9[i].prior

EntryInv == EntryTyped /\ LastWordIsOnItsWay /\ AloneIsClear

LEMMA EntryShows == EntryInv => AtEntry!LastWordIsStored /\ AtEntry!RefusalIsTakenBack
<1> SUFFICES ASSUME EntryInv, AtEntry!Settled PROVE (s11 => s1 = s10) /\ (s4 /\ s5 = 0 /\ s12 => s6 = s1 /\ s7 = s1)
  BY DEF AtEntry!LastWordIsStored, AtEntry!RefusalIsTakenBack
<1>1. s9 = << >> /\ s8 = None /\ DOMAIN s9 = {}
  BY DEF AtEntry!Settled
<1>2. LastWord = s1 /\ (Untroubled <=> s11)
  BY <1>1 DEF LastWord, LastIsSent, Untroubled
<1> QED
  BY <1>1, <1>2 DEF EntryInv, LastWordIsOnItsWay, AloneIsClear

LEMMA EntryStarts == AtEntry!EntryInit => EntryInv
<1> SUFFICES ASSUME AtEntry!EntryInit PROVE EntryInv
  OBVIOUS
<1> USE DEF AtEntry!EntryInit
<1>1. First \in Texts /\ None \notin Texts /\ DOMAIN s9 = {} /\ s9 \in Seq(AtEntry!Patch) /\ Len(s9) = 0
  BY PagesAssumption DEF AtEntry!EntryAssumption
<1>2. EntryTyped
  BY <1>1 DEF EntryTyped
<1>3. LastWordIsOnItsWay
  BY <1>1 DEF LastWordIsOnItsWay, LastWord, LastIsSent, SentInOrder
<1>4. AloneIsClear
  BY <1>1 DEF AloneIsClear
<1> QED
  BY <1>2, <1>3, <1>4 DEF EntryInv

\* What a sequence longer by one, one changed in a place and one shorter by one hold.
LEMMA OnePatchMore ==
  ASSUME NEW S, NEW s \in Seq(S), NEW e \in S
  PROVE  LET t == Append(s, e) IN
         /\ t \in Seq(S) /\ Len(t) = Len(s) + 1 /\ DOMAIN t = 1 .. Len(s) + 1 /\ DOMAIN s = 1 .. Len(s)
         /\ t # << >> /\ t[Len(s) + 1] = e /\ \A j \in 1 .. Len(s) : t[j] = s[j]
OBVIOUS

LEMMA EntryIsSaved ==
  ASSUME EntryInv, s4, NEW w \in Texts, s11 => w = s10, s12 /\ s5 = 0 => s6 = w,
         s8' = None, AtEntry!SaveBody(w), UNCHANGED <<s1, s3, s4, s5, s6, s10, taps, s11>>
  PROVE  EntryInv'
<1> USE DEF EntryInv
<1>1. CASE w = s7
  <2>1. UNCHANGED <<s2, s7, s9, s12>>
    BY <1>1 DEF AtEntry!SaveBody
  <2>2. EntryTyped'
    BY <2>1 DEF EntryTyped
  <2>3. LastWord' = LastWord /\ Untroubled' = Untroubled /\ SentInOrder' = SentInOrder
    BY <2>1 DEF LastWord, LastIsSent, Untroubled, SentInOrder
  <2>4. LastWordIsOnItsWay'
    BY <1>1, <2>1, <2>3 DEF LastWordIsOnItsWay, Untroubled
  <2>5. AloneIsClear'
    BY <1>1, <2>1 DEF AloneIsClear
  <2> QED
    BY <2>2, <2>4, <2>5
<1>2. CASE w # s7
  <2> DEFINE e == [body |-> w, prior |-> s7, step |-> "sent"]
  <2>1. s9' = Append(s9, e) /\ s7' = w /\ s2' = w /\ s12' = (s12 /\ s9 = << >>)
    BY <1>2 DEF AtEntry!SaveBody, AtEntry!Sent
  <2>2. e \in AtEntry!Patch /\ s9 \in Seq(AtEntry!Patch)
    BY DEF EntryTyped, AtEntry!Patch
  <2>3. e.body = w /\ e.prior = s7 /\ e.step = "sent"
    OBVIOUS
  <2> HIDE DEF e
  <2>4. /\ s9' \in Seq(AtEntry!Patch) /\ Len(s9') = Len(s9) + 1 /\ DOMAIN s9' = 1 .. Len(s9) + 1
        /\ DOMAIN s9 = 1 .. Len(s9) /\ Len(s9) \in Nat
        /\ s9' # << >> /\ s9'[Len(s9) + 1] = e /\ \A j \in 1 .. Len(s9) : s9'[j] = s9[j]
    BY <2>1, <2>2, OnePatchMore
  <2>5. s12' \in BOOLEAN /\ (s12' => s12 /\ s9 = << >>)
    BY <2>1 DEF EntryTyped
  <2>6. EntryTyped'
    BY <2>1, <2>4, <2>5 DEF EntryTyped
  <2>7. LastWord' = w
    BY <2>3, <2>4 DEF LastWord, LastIsSent
  <2>8. Untroubled' => Untroubled
    BY <2>4 DEF Untroubled
  <2>9. SentInOrder => SentInOrder'
    BY <2>3, <2>4 DEF SentInOrder
  <2>10. LastWordIsOnItsWay'
    BY <2>1, <2>7, <2>8, <2>9 DEF LastWordIsOnItsWay, Untroubled
  <2>11. ASSUME s12', s5 = 0 PROVE s6 = w /\ Len(s9) = 0 /\ s7 = s1 /\ s7 # None
    BY <2>5, <2>11, PagesAssumption DEF AloneIsClear, EntryTyped, AtEntry!EntryAssumption
  <2>12. AloneIsClear'
    <3> SUFFICES ASSUME s12', s5 = 0 PROVE (AloneIsClear!2)'
      BY DEF AloneIsClear
    <3>1. DOMAIN s9' = {1} /\ s9'[1] = e
      BY <2>4, <2>11
    <3> QED
      BY <2>1, <2>3, <2>4, <2>11, <3>1
  <2> QED
    BY <2>6, <2>10, <2>12
<1> QED
  BY <1>1, <1>2

LEMMA EntryIsTyped == ASSUME EntryInv, NEW t \in Texts, AtEntry!TypeText(t) PROVE EntryInv'
<1> USE DEF EntryInv
<1>1. /\ s4 /\ s6' = t /\ s8' = t /\ s10' = t /\ taps' = taps + 1
      /\ UNCHANGED <<s1, s2, s3, s4, s5, s7, s9, s11>>
  BY DEF AtEntry!TypeText
<1>2. s12' \in BOOLEAN /\ (s12' => s12 /\ s9 = << >>)
  BY DEF AtEntry!TypeText, EntryTyped
<1>3. t # None
  BY PagesAssumption DEF AtEntry!EntryAssumption
<1>4. EntryTyped'
  BY <1>1, <1>2 DEF EntryTyped
<1>5. LastWord' = LastWord /\ Untroubled' = Untroubled /\ SentInOrder' = SentInOrder
  BY <1>1 DEF LastWord, LastIsSent, Untroubled, SentInOrder
<1>6. LastWordIsOnItsWay'
  BY <1>1, <1>3, <1>5 DEF LastWordIsOnItsWay
<1>7. AloneIsClear'
  BY <1>1, <1>2, <1>3 DEF AloneIsClear
<1> QED
  BY <1>4, <1>6, <1>7

LEMMA EntryIsLeft == ASSUME EntryInv, AtEntry!Unmount PROVE EntryInv'
<1> USE DEF EntryInv
<1>1. /\ s4 /\ s4' = FALSE /\ s8' = None /\ s9' = AtEntry!Flushed
      /\ UNCHANGED <<s1, s2, s3, s5, s6, s7, s10, taps, s11, s12>>
  BY DEF AtEntry!Unmount
<1>2. AloneIsClear'
  BY <1>1 DEF AloneIsClear
<1>3. CASE s8 \in {None, s7}
  <2>1. s9' = s9
    BY <1>1, <1>3 DEF AtEntry!Flushed
  <2>2. EntryTyped'
    BY <1>1, <2>1 DEF EntryTyped
  <2>3. LastWord' = LastWord /\ Untroubled' = Untroubled /\ SentInOrder' = SentInOrder
    BY <1>1, <2>1 DEF LastWord, LastIsSent, Untroubled, SentInOrder
  <2>4. LastWordIsOnItsWay'
    BY <1>1, <1>3, <2>3 DEF LastWordIsOnItsWay, Untroubled
  <2> QED
    BY <1>2, <2>2, <2>4
<1>4. CASE s8 \notin {None, s7}
  <2> DEFINE e == [body |-> s8, prior |-> None, step |-> "sent"]
  <2>1. s9' = Append(s9, e)
    BY <1>1, <1>4 DEF AtEntry!Flushed, AtEntry!Sent
  <2>2. e \in AtEntry!Patch /\ s9 \in Seq(AtEntry!Patch)
    BY <1>4 DEF EntryTyped, AtEntry!Patch
  <2>3. e.body = s8 /\ e.step = "sent"
    OBVIOUS
  <2> HIDE DEF e
  <2>4. /\ s9' \in Seq(AtEntry!Patch) /\ Len(s9') = Len(s9) + 1 /\ DOMAIN s9' = 1 .. Len(s9) + 1
        /\ DOMAIN s9 = 1 .. Len(s9) /\ Len(s9) \in Nat
        /\ s9' # << >> /\ s9'[Len(s9) + 1] = e /\ \A j \in 1 .. Len(s9) : s9'[j] = s9[j]
    BY <2>1, <2>2, OnePatchMore
  <2>5. EntryTyped'
    BY <1>1, <2>4 DEF EntryTyped
  <2>6. LastWord' = s8
    BY <2>3, <2>4 DEF LastWord, LastIsSent
  <2>7. Untroubled' => Untroubled
    BY <1>1, <2>4 DEF Untroubled
  <2>8. SentInOrder => SentInOrder'
    BY <2>3, <2>4 DEF SentInOrder
  <2>9. LastWordIsOnItsWay'
    BY <1>1, <1>4, <2>6, <2>7, <2>8 DEF LastWordIsOnItsWay, Untroubled
  <2> QED
    BY <1>2, <2>5, <2>9
<1> QED
  BY <1>3, <1>4

LEMMA EntryComesBack == ASSUME EntryInv, AtEntry!Mount PROVE EntryInv'
<1> USE DEF EntryInv
<1>1. /\ ~s4 /\ s4' = TRUE /\ s5' = s5 + 1 /\ s6' = s2 /\ s7' = s2 /\ s8' = None
      /\ UNCHANGED <<s1, s2, s3, s9, s10, taps, s12>>
  BY DEF AtEntry!Mount
<1>2. s11' \in BOOLEAN /\ (s11' => s11 /\ s9 = << >> /\ s2 = s1)
  BY DEF AtEntry!Mount, EntryTyped
<1>3. EntryTyped'
  BY <1>1, <1>2 DEF EntryTyped
<1>4. AloneIsClear'
  BY <1>1, <1>3 DEF AloneIsClear, EntryTyped
<1>5. ASSUME s11' PROVE Untroubled /\ LastWord = s1 /\ LastWord' = s1 /\ SentInOrder' /\ s8 = None
  BY <1>1, <1>2, <1>5 DEF LastWord, LastIsSent, SentInOrder, Untroubled, EntryTyped
<1>6. LastWordIsOnItsWay'
  BY <1>1, <1>2, <1>5 DEF LastWordIsOnItsWay, Untroubled
<1> QED
  BY <1>3, <1>4, <1>6

LEMMA EntrySaves == ASSUME EntryInv, AtEntry!Debounced \/ AtEntry!Blur PROVE EntryInv'
<1>1. CASE AtEntry!Debounced
  <2>1. /\ s4 /\ s8 # None /\ s8' = None /\ AtEntry!SaveBody(s8)
        /\ UNCHANGED <<s1, s3, s4, s5, s6, s10, taps, s11>>
    BY <1>1 DEF AtEntry!Debounced
  <2>2. s8 \in Texts /\ (s11 => s8 = s10) /\ (s12 /\ s5 = 0 => s6 = s8)
    BY <2>1 DEF EntryInv, EntryTyped, LastWordIsOnItsWay, AloneIsClear
  <2> QED
    BY <2>1, <2>2, EntryIsSaved
<1>2. CASE AtEntry!Blur
  <2>1. /\ s4 /\ s8' = None /\ AtEntry!SaveBody(s6)
        /\ UNCHANGED <<s1, s3, s4, s5, s6, s10, taps, s11>>
    BY <1>2 DEF AtEntry!Blur
  <2>2. s6 \in Texts /\ (s11 => s6 = s10)
    BY <2>1 DEF EntryInv, EntryTyped, LastWordIsOnItsWay
  <2> QED
    BY <2>1, <2>2, EntryIsSaved
<1> QED
  BY <1>1, <1>2

LEMMA EntryIsReread == ASSUME EntryInv, AtEntry!Refetch PROVE EntryInv'
<1>1. /\ s3' = FALSE /\ s2' = s1
      /\ UNCHANGED <<s1, s4, s5, s6, s7, s8, s9, s10, taps, s11, s12>>
  BY DEF AtEntry!Refetch
<1>2. LastWord' = LastWord /\ Untroubled' = Untroubled /\ SentInOrder' = SentInOrder
  BY <1>1 DEF LastWord, LastIsSent, Untroubled, SentInOrder
<1>3. EntryTyped'
  BY <1>1 DEF EntryInv, EntryTyped
<1>4. LastWordIsOnItsWay'
  BY <1>1, <1>2 DEF EntryInv, LastWordIsOnItsWay
<1>5. AloneIsClear'
  BY <1>1 DEF EntryInv, AloneIsClear
<1> QED
  BY <1>3, <1>4, <1>5 DEF EntryInv

LEMMA EntryIsReceived ==
  ASSUME EntryInv, NEW i \in DOMAIN s9, AtEntry!ServerPatches(i) PROVE EntryInv'
<1> USE DEF EntryInv
<1>1. /\ s9[i].step = "sent"
      /\ UNCHANGED <<s2, s3, s4, s5, s6, s7, s8, s10, taps>>
  BY DEF AtEntry!ServerPatches
<1>2. PICK a \in {"ok", "refused"} :
        /\ s9' = [s9 EXCEPT ![i].step = a]
        /\ \/ s1' = s9[i].body
           \/ a = "refused" /\ s1' = s1
    BY DEF AtEntry!ServerPatches
<1>3. /\ s11' \in BOOLEAN /\ s12' \in BOOLEAN /\ (s11' => s11)
      /\ (a = "refused" => (s1' = s1 /\ s12' = s12) \/ ~s12')
      /\ (a = "ok" => s1' = s9[i].body /\ (s12' => s12) /\ (s11' => \A j \in 1 .. i - 1 : s9[j].step # "sent"))
  <2>1. CASE s1' = s9[i].body /\ \E b \in {"ok", "refused"} :
             /\ s9' = [s9 EXCEPT ![i].step = b]
             /\ s11' = (s11 /\ b = "ok" /\ \A j \in 1 .. i - 1 : s9[j].step # "sent")
             /\ s12' = (s12 /\ b = "ok")
    <3> PICK b \in {"ok", "refused"} :
             /\ s9' = [s9 EXCEPT ![i].step = b]
             /\ s11' = (s11 /\ b = "ok" /\ \A j \in 1 .. i - 1 : s9[j].step # "sent")
             /\ s12' = (s12 /\ b = "ok")
      BY <2>1
    <3>1. s9[i] \in AtEntry!Patch
      BY DEF EntryTyped
    <3>2. b = s9'[i].step /\ a = s9'[i].step
      BY <1>2, <3>1 DEF EntryTyped, AtEntry!Patch
    <3> QED
      BY <2>1, <3>2 DEF EntryTyped
  <2>2. CASE s9' = [s9 EXCEPT ![i].step = "refused"] /\ UNCHANGED <<s1, s11, s12>>
    <3>1. s9[i] \in AtEntry!Patch
      BY DEF EntryTyped
    <3>2. a = s9'[i].step /\ s9'[i].step = "refused"
      BY <1>2, <2>2, <3>1 DEF EntryTyped, AtEntry!Patch
    <3> QED
      BY <2>2, <3>2 DEF EntryTyped
  <2> QED
    BY <2>1, <2>2 DEF AtEntry!ServerPatches
<1>4. s9[i] \in AtEntry!Patch /\ s9 \in Seq(AtEntry!Patch) /\ i \in 1 .. Len(s9) /\ Len(s9) \in Nat
  BY DEF EntryTyped
<1>5. /\ s9' \in Seq(AtEntry!Patch) /\ DOMAIN s9' = DOMAIN s9 /\ Len(s9') = Len(s9)
      /\ s9'[i].step = a /\ s9'[i].body = s9[i].body /\ s9'[i].prior = s9[i].prior
      /\ \A j \in DOMAIN s9 \ {i} : s9'[j] = s9[j]
      /\ s9' # << >> /\ s9 # << >> /\ DOMAIN s9 = 1 .. Len(s9)
  <2>1. [s9[i] EXCEPT !.step = a] \in AtEntry!Patch
    BY <1>2, <1>4 DEF AtEntry!Patch
  <2> QED
    BY <1>2, <1>4, <2>1 DEF AtEntry!Patch
<1>6. s9[i].body \in Texts
  BY <1>4 DEF AtEntry!Patch
<1>7. EntryTyped'
  BY <1>1, <1>2, <1>3, <1>5, <1>6 DEF EntryTyped
<1>8. AloneIsClear'
  <2> SUFFICES ASSUME s12', s4, s5 = 0 PROVE (AloneIsClear!2)'
    BY <1>1 DEF AloneIsClear
  <2>1. s12 /\ s1' = IF a = "ok" THEN s9[i].body ELSE s1
    BY <1>3 DEF EntryTyped
  <2>2. /\ Len(s9) <= 1 /\ s8 = None /\ s6 = s7
        /\ s9[i].prior # None /\ s6 = s9[i].body
        /\ s1 = IF s9[i].step = "ok" THEN s9[i].body ELSE s9[i].prior
    BY <1>1, <2>1 DEF AloneIsClear
  <2>3. i = 1 /\ Len(s9') = 1 /\ DOMAIN s9' = {1} /\ s9' # << >>
    BY <1>4, <1>5, <2>2
  <2>4. s1 = s9[i].prior
    BY <1>1, <2>2
  <2>5. /\ s9'[1].prior # None /\ s6' = s9'[1].body /\ s8' = None /\ s6' = s7'
        /\ s1' = IF s9'[1].step = "ok" THEN s9'[1].body ELSE s9'[1].prior
    BY <1>1, <1>2, <1>5, <2>1, <2>2, <2>3, <2>4
  <2>6. Len(s9') <= 1 /\ (s8' # None => s6' = s8') /\ (s9' = << >> => s7' = s1' /\ (s8' = None => s6' = s7'))
    BY <2>3, <2>5
  <2>7. ASSUME NEW k \in DOMAIN s9'
        PROVE  /\ s8' = None /\ s6' = s7' /\ s9'[k].prior # None
               /\ s6' = s9'[k].body
               /\ s1' = IF s9'[k].step = "ok" THEN s9'[k].body ELSE s9'[k].prior
    <3>1. k = 1
      BY <2>3
    <3> QED
      BY <2>5, <3>1
  <2> QED
    BY <2>6, <2>7
<1>9. LastWordIsOnItsWay'
  <2>1. SUFFICES ASSUME Untroubled' PROVE Untroubled /\ SentInOrder' /\ (SentInOrder => LastWord' = LastWord)
    BY <1>1, <1>3 DEF LastWordIsOnItsWay
  <2>2. a = "ok" /\ s11' /\ s11
    BY <1>3, <1>5, <2>1 DEF Untroubled
  <2>3. Untroubled
    BY <1>1, <1>5, <2>1, <2>2 DEF Untroubled
  <2>4. /\ s1' = s9[i].body /\ s9'[i].step = "ok"
        /\ \A j \in DOMAIN s9 : s9'[j].step = "sent" => s9[j].step = "sent" /\ j > i
    BY <1>3, <1>4, <1>5, <2>2
  <2>5. SentInOrder
    BY <2>3 DEF LastWordIsOnItsWay
  <2>6. SentInOrder'
    BY <1>4, <1>5, <2>4, <2>5 DEF SentInOrder
  <2>7. LastWord' = LastWord
    <3>1. CASE i = Len(s9)
      BY <1>1, <1>4, <1>5, <2>4, <3>1 DEF LastWord, LastIsSent
    <3>2. CASE i # Len(s9)
      <4>1. s9[Len(s9)].step = "sent" /\ s9'[Len(s9)] = s9[Len(s9)]
        BY <1>1, <1>4, <1>5, <2>5, <3>2 DEF SentInOrder
      <4> QED
        BY <1>5, <4>1 DEF LastWord, LastIsSent
    <3> QED
      BY <3>1, <3>2
  <2> QED
    BY <2>3, <2>6, <2>7
<1> QED
  BY <1>7, <1>8, <1>9

LEMMA EntrySucceeds ==
  ASSUME EntryInv, NEW i \in DOMAIN s9, AtEntry!PatchSucceeds(i) PROVE EntryInv'
<1> USE DEF EntryInv
<1>1. /\ s9[i].step = "ok" /\ s9' = TakenOut(s9, i) /\ s3' = TRUE
      /\ UNCHANGED <<s1, s2, s4, s5, s6, s7, s8, s10, taps, s11, s12>>
  BY DEF AtEntry!PatchSucceeds, TakenOut
<1>2. s9 \in Seq(AtEntry!Patch) /\ i \in 1 .. Len(s9) /\ Len(s9) \in Nat /\ DOMAIN s9 = 1 .. Len(s9)
  BY DEF EntryTyped
<1>3. /\ s9' \in Seq(AtEntry!Patch) /\ Len(s9') = Len(s9) - 1 /\ DOMAIN s9' = 1 .. Len(s9) - 1
      /\ \A j \in 1 .. Len(s9) - 1 : s9'[j] = IF j < i THEN s9[j] ELSE s9[j + 1]
  <2> DEFINE s == s9
             t == TakenOut(s, i)
  <2>1. s \in Seq(AtEntry!Patch) /\ i \in 1 .. Len(s)
    BY <1>2
  <2> HIDE DEF s, t
  <2>2. /\ TakenOut(s, i) \in Seq(AtEntry!Patch) /\ Len(TakenOut(s, i)) = Len(s) - 1
        /\ \A j \in 1 .. Len(s) - 1 : TakenOut(s, i)[j] = IF j < i THEN s[j] ELSE s[j + 1]
    BY <2>1, TakenOutProperties
  <2>3. /\ t \in Seq(AtEntry!Patch) /\ Len(t) = Len(s) - 1
        /\ \A j \in 1 .. Len(s) - 1 : t[j] = IF j < i THEN s[j] ELSE s[j + 1]
    BY <2>2 DEF t
  <2> QED
    BY <1>1, <2>3 DEF s, t
<1>4. EntryTyped'
  BY <1>1, <1>3 DEF EntryTyped
<1>5. AloneIsClear'
  <2> SUFFICES ASSUME s12, s4, s5 = 0 PROVE (AloneIsClear!2)'
    BY <1>1 DEF AloneIsClear
  <2>1. Len(s9) = 1 /\ i = 1 /\ s8 = None /\ s6 = s7 /\ s6 = s9[i].body /\ s1 = s9[i].body
    BY <1>1, <1>2 DEF AloneIsClear
  <2>2. Len(s9') = 0 /\ DOMAIN s9' = {}
    BY <1>3, <2>1
  <2> QED
    BY <1>1, <2>1, <2>2
<1>6. LastWordIsOnItsWay'
  <2>1. SUFFICES ASSUME Untroubled' PROVE Untroubled /\ (SentInOrder => SentInOrder' /\ LastWord' = LastWord)
    BY <1>1 DEF LastWordIsOnItsWay, Untroubled
  <2>2. Untroubled
    <3> SUFFICES ASSUME NEW j \in DOMAIN s9 PROVE s9[j].step # "refused"
      BY <1>1, <2>1 DEF Untroubled
    <3>1. CASE j = i
      BY <1>1, <3>1
    <3>2. CASE j < i
      <4>1. j \in DOMAIN s9' /\ s9'[j] = s9[j]
        BY <1>2, <1>3, <3>2
      <4> QED
        BY <2>1, <4>1 DEF Untroubled
    <3>3. CASE j > i
      <4>1. j - 1 \in DOMAIN s9' /\ s9'[j - 1] = s9[j]
        BY <1>2, <1>3, <3>3
      <4> QED
        BY <2>1, <4>1 DEF Untroubled
    <3> QED
      BY <1>2, <3>1, <3>2, <3>3
  <2>3. ASSUME SentInOrder PROVE SentInOrder' /\ LastWord' = LastWord
    <3>0. \A j \in 1 .. Len(s9) : s9[j].step = "sent" => j > i
      BY <1>1, <1>2, <2>3 DEF SentInOrder
    <3>1. SentInOrder'
      <4> SUFFICES ASSUME NEW j \in DOMAIN s9', NEW k \in DOMAIN s9', j < k, s9'[j].step = "sent"
                   PROVE  s9'[k].step = "sent"
        BY DEF SentInOrder
      <4>1. ~(j < i)
        BY <1>2, <1>3, <3>0
      <4>2. s9'[j] = s9[j + 1] /\ s9'[k] = s9[k + 1] /\ j + 1 \in DOMAIN s9 /\ k + 1 \in DOMAIN s9 /\ j + 1 < k + 1
        BY <1>2, <1>3, <4>1
      <4> QED
        BY <2>3, <4>2 DEF SentInOrder
    <3>2. CASE i = Len(s9)
      <4>1. ~LastIsSent /\ ~LastIsSent'
        BY <1>1, <1>2, <1>3, <3>0, <3>2 DEF LastIsSent
      <4> QED
        BY <1>1, <3>1, <4>1 DEF LastWord
    <3>3. CASE i # Len(s9)
      <4>1. s9' # << >> /\ s9 # << >> /\ Len(s9') = Len(s9) - 1 /\ s9'[Len(s9) - 1] = s9[Len(s9)]
        BY <1>2, <1>3, <3>3
      <4> QED
        BY <1>1, <3>1, <4>1 DEF LastWord, LastIsSent
    <3> QED
      BY <3>2, <3>3
  <2> QED
    BY <2>2, <2>3
<1> QED
  BY <1>4, <1>5, <1>6

LEMMA EntryFails ==
  ASSUME EntryInv, NEW i \in DOMAIN s9, AtEntry!PatchFails(i) PROVE EntryInv'
<1> USE DEF EntryInv
<1> DEFINE p == s9[i].prior
<1>1. /\ s9[i].step = "refused" /\ s9' = TakenOut(s9, i) /\ s11' = FALSE
      /\ s2' = (IF p = None THEN s2 ELSE p)
      /\ UNCHANGED <<s1, s3, s4, s5, s8, taps, s12>>
      /\ IF s4 /\ p # None THEN s6' = p /\ s7' = p /\ s10' = p
                           ELSE UNCHANGED <<s6, s7, s10>>
  BY DEF AtEntry!PatchFails, TakenOut
<1>2. s9 \in Seq(AtEntry!Patch) /\ i \in 1 .. Len(s9) /\ Len(s9) \in Nat /\ DOMAIN s9 = 1 .. Len(s9)
  BY DEF EntryTyped
<1>3. /\ s9' \in Seq(AtEntry!Patch) /\ Len(s9') = Len(s9) - 1 /\ DOMAIN s9' = 1 .. Len(s9) - 1
  <2> DEFINE s == s9
             t == TakenOut(s, i)
  <2>1. s \in Seq(AtEntry!Patch) /\ i \in 1 .. Len(s)
    BY <1>2
  <2> HIDE DEF s, t
  <2>2. /\ TakenOut(s, i) \in Seq(AtEntry!Patch) /\ Len(TakenOut(s, i)) = Len(s) - 1
        /\ \A j \in 1 .. Len(s) - 1 : TakenOut(s, i)[j] = IF j < i THEN s[j] ELSE s[j + 1]
    BY <2>1, TakenOutProperties
  <2>3. /\ t \in Seq(AtEntry!Patch) /\ Len(t) = Len(s) - 1
        /\ \A j \in 1 .. Len(s) - 1 : t[j] = IF j < i THEN s[j] ELSE s[j + 1]
    BY <2>2 DEF t
  <2> QED
    BY <1>1, <2>3 DEF s, t
<1>4. s9[i] \in AtEntry!Patch
  BY <1>2
<1>5. p \in Texts \cup {None}
  BY <1>4 DEF AtEntry!Patch
<1> HIDE DEF p
<1>6. EntryTyped'
  BY <1>1, <1>3, <1>5 DEF EntryTyped
<1>7. AloneIsClear'
  <2> SUFFICES ASSUME s12, s4, s5 = 0 PROVE (AloneIsClear!2)'
    BY <1>1 DEF AloneIsClear
  <2>1. Len(s9) = 1 /\ i = 1 /\ s8 = None /\ p # None /\ s1 = p
    BY <1>1, <1>2 DEF AloneIsClear, p
  <2>2. Len(s9') = 0 /\ DOMAIN s9' = {}
    BY <1>3, <2>1
  <2> QED
    BY <1>1, <2>1, <2>2
<1>8. LastWordIsOnItsWay'
  BY <1>1 DEF LastWordIsOnItsWay, Untroubled
<1> QED
  BY <1>6, <1>7, <1>8

LEMMA EntryStays == ASSUME EntryInv, [AtEntry!EntryNext]_AtEntry!entryVars PROVE EntryInv'
<1>1. CASE UNCHANGED AtEntry!entryVars
  BY <1>1 DEF AtEntry!entryVars, EntryInv, EntryTyped, LastWordIsOnItsWay, AloneIsClear, LastWord,
     LastIsSent, Untroubled, SentInOrder
<1>2. ASSUME NEW t \in Texts, AtEntry!TypeText(t) PROVE EntryInv'
  BY <1>2, EntryIsTyped
<1>3. CASE AtEntry!Debounced \/ AtEntry!Blur \/ AtEntry!Unmount \/ AtEntry!Mount \/ AtEntry!Refetch
  BY <1>3, EntrySaves, EntryIsLeft, EntryComesBack, EntryIsReread
<1>4. ASSUME NEW i \in DOMAIN s9, AtEntry!ServerPatches(i) \/ AtEntry!PatchSucceeds(i) \/ AtEntry!PatchFails(i) PROVE EntryInv'
  BY <1>4, EntryIsReceived, EntrySucceeds, EntryFails
<1> QED
  BY <1>1, <1>2, <1>3, <1>4 DEF AtEntry!EntryNext

-----------------------------------------------------------------------------
(***************************************************************************)
(* The draft of an entry.                                                   *)
(***************************************************************************)
DraftTyped ==
  /\ s1 \in BOOLEAN /\ s4 \in BOOLEAN /\ s5 \in BOOLEAN /\ s7 \in BOOLEAN
  /\ s11 \in BOOLEAN /\ s12 \in BOOLEAN
  /\ s2 \in Notes \cup {None} /\ s3 \in Kinds \cup {NewKind, None} /\ s9 \in Notes \cup {None}
  /\ s6 \in Seq(AtDraft!Commit) /\ s8 \in Seq(AtDraft!Entry) /\ taps \in Nat /\ s10 \in Nat

\* The row has one commit of its own, while it is locked, and has nothing when it is gone.
RowIsLocked ==
  /\ \A i \in DOMAIN s6 : s6[i].here => s7 /\ s1
  /\ \A i, k \in DOMAIN s6 : s6[i].here /\ s6[k].here => i = k
  /\ ~s1 => s9 = None /\ s2 = None /\ s3 = None /\ ~s7 /\ ~s4 /\ ~s5

\* A draft that is not on its way has made no entry yet.
CommitsOnTheirWay == Places(s6, {c \in AtDraft!Commit : c.step = "sent"})
RowIsSent == \E i \in DOMAIN s6 : s6[i].here /\ s6[i].step \in {"sent", "ok"}
NotesAreNotSpent ==
  ~s12 =>
    /\ Len(s8) + Cardinality(CommitsOnTheirWay) <= s10
    /\ ~AtDraft!Blank /\ ~RowIsSent => Len(s8) + Cardinality(CommitsOnTheirWay) < s10

\* What was made is on the timeline, and a row left alone still holds what it sent.
OnTimeline(w) == \E i \in DOMAIN s8 : s8[i].note = w
MadeIsOnTimeline == \A i \in DOMAIN s6 : s6[i].step = "ok" => OnTimeline(s6[i].entry.note)
RowHoldsWhatItSent ==
  s11 => \A i \in DOMAIN s6 : s6[i].here => s2 = s6[i].entry.note
NoteIsKept == s1 /\ s11 => s9 \in {None, s2} \/ OnTimeline(s9)

DraftInv ==
  DraftTyped /\ RowIsLocked /\ NotesAreNotSpent /\ MadeIsOnTimeline /\ RowHoldsWhatItSent /\ NoteIsKept

LEMMA DraftShows == DraftInv => AtDraft!OneEntryPerDraft /\ AtDraft!TypingIsKept
<1> SUFFICES ASSUME DraftInv PROVE AtDraft!OneEntryPerDraft /\ AtDraft!TypingIsKept
  OBVIOUS
<1>1. Cardinality(CommitsOnTheirWay) \in Nat /\ Len(s8) \in Nat /\ s10 \in Nat
  BY PlacesAreFinite DEF DraftInv, DraftTyped, CommitsOnTheirWay
<1>2. AtDraft!OneEntryPerDraft
  BY <1>1 DEF DraftInv, NotesAreNotSpent, AtDraft!OneEntryPerDraft
<1>3. AtDraft!TypingIsKept
  BY DEF DraftInv, NoteIsKept, OnTimeline, AtDraft!TypingIsKept
<1> QED
  BY <1>2, <1>3

LEMMA DraftStarts == AtDraft!DraftInit => DraftInv
<1> SUFFICES ASSUME AtDraft!DraftInit PROVE DraftInv
  OBVIOUS
<1> USE DEF AtDraft!DraftInit
<1>1. s6 \in Seq(AtDraft!Commit) /\ s8 \in Seq(AtDraft!Entry) /\ DOMAIN s6 = {} /\ Len(s8) = 0 /\ AtDraft!Blank
  BY DEF AtDraft!Blank
<1>2. Cardinality(CommitsOnTheirWay) = 0
  BY PlacesOfNone DEF CommitsOnTheirWay
<1>3. DraftTyped
  BY <1>1 DEF DraftTyped
<1>4. RowIsLocked /\ MadeIsOnTimeline /\ RowHoldsWhatItSent /\ NoteIsKept
  BY <1>1 DEF RowIsLocked, MadeIsOnTimeline, RowHoldsWhatItSent, NoteIsKept
<1>5. NotesAreNotSpent
  BY <1>1, <1>2 DEF NotesAreNotSpent
<1> QED
  BY <1>3, <1>4, <1>5 DEF DraftInv

\* A step that leaves the commits and the timeline alone.
LEMMA NotesAtRest ==
  ASSUME DraftInv, s6' = s6, s8' = s8, s12' = s12
  PROVE  /\ CommitsOnTheirWay' = CommitsOnTheirWay /\ Cardinality(CommitsOnTheirWay) \in Nat /\ Len(s8) \in Nat /\ s10 \in Nat
         /\ RowIsSent' = RowIsSent /\ MadeIsOnTimeline'
<1>1. Cardinality(CommitsOnTheirWay) \in Nat /\ Len(s8) \in Nat /\ s10 \in Nat
  BY PlacesAreFinite DEF DraftInv, DraftTyped, CommitsOnTheirWay
<1>2. RowIsSent' = RowIsSent /\ CommitsOnTheirWay' = CommitsOnTheirWay
  BY DEF RowIsSent, CommitsOnTheirWay, Places
<1>3. MadeIsOnTimeline'
  BY DEF DraftInv, MadeIsOnTimeline, OnTimeline
<1> QED
  BY <1>1, <1>2, <1>3

LEMMA Noting == ASSUME DraftInv, NEW t \in Notes, AtDraft!TypeNote(t) PROVE DraftInv'
<1> USE DEF DraftInv
<1>1. /\ s1 /\ taps' = taps + 1 /\ s2' = t /\ s9' = t /\ s4' = FALSE
      /\ s10' = (IF AtDraft!Blank THEN s10 + 1 ELSE s10)
      /\ UNCHANGED <<s1, s3, s5, s6, s7, s8, s12>>
  BY DEF AtDraft!TypeNote, AtDraft!Tap
<1>2. s11' \in BOOLEAN /\ (s11' => s11 /\ ~s7)
  BY DEF AtDraft!TypeNote, DraftTyped
<1>3. t # None
  BY PagesAssumption DEF AtDraft!DraftAssumption
<1>4. /\ CommitsOnTheirWay' = CommitsOnTheirWay /\ Cardinality(CommitsOnTheirWay) \in Nat /\ Len(s8) \in Nat /\ s10 \in Nat
      /\ RowIsSent' = RowIsSent /\ MadeIsOnTimeline'
  BY <1>1, NotesAtRest
<1>0. s10' \in Nat
  BY <1>1, <1>4
<1>5. DraftTyped'
  <2>1. taps' \in Nat
    BY <1>1 DEF DraftTyped
  <2>2. s1' \in BOOLEAN /\ s4' \in BOOLEAN /\ s5' \in BOOLEAN /\ s7' \in BOOLEAN /\ s12' \in BOOLEAN
    BY <1>1 DEF DraftTyped
  <2>3. /\ s2' \in Notes \cup {None} /\ s3' \in Kinds \cup {NewKind, None} /\ s9' \in Notes \cup {None}
        /\ s6' \in Seq(AtDraft!Commit) /\ s8' \in Seq(AtDraft!Entry)
    BY <1>1 DEF DraftTyped
  <2> QED
    BY <1>0, <1>2, <2>1, <2>2, <2>3 DEF DraftTyped
<1>6. RowIsLocked'
  BY <1>1 DEF RowIsLocked
<1>7. NotesAreNotSpent'
  BY <1>1, <1>4 DEF NotesAreNotSpent
<1>8. RowHoldsWhatItSent' /\ NoteIsKept'
  BY <1>1, <1>2 DEF RowHoldsWhatItSent, NoteIsKept, RowIsLocked
<1> QED
  BY <1>4, <1>5, <1>6, <1>7, <1>8

LEMMA SendingRow == ASSUME DraftInv, AtDraft!SendDraft PROVE DraftInv'
<1> USE DEF DraftInv
<1> DEFINE e == [entry |-> [note |-> s2, kind |-> s3], here |-> TRUE, step |-> "sent"]
<1>1. /\ s1 /\ ~s4 /\ ~AtDraft!Blank /\ ~s7 /\ taps' = taps + 1 /\ s7' = TRUE /\ s6' = Append(s6, e)
      /\ UNCHANGED <<s1, s2, s3, s4, s5, s8, s9, s10, s11, s12>>
  BY DEF AtDraft!SendDraft, AtDraft!Tap
<1>2. e \in AtDraft!Commit /\ e.here = TRUE /\ e.step = "sent" /\ e.entry.note = s2 /\ s6 \in Seq(AtDraft!Commit)
  BY DEF DraftTyped, AtDraft!Commit, AtDraft!Entry
<1> HIDE DEF e
<1>3. /\ s6' \in Seq(AtDraft!Commit) /\ DOMAIN s6' = 1 .. Len(s6) + 1 /\ Len(s6) \in Nat
      /\ DOMAIN s6 = 1 .. Len(s6)
      /\ s6'[Len(s6) + 1] = e /\ \A j \in 1 .. Len(s6) : s6'[j] = s6[j]
  BY <1>1, <1>2
<1>4. \A j \in DOMAIN s6 : ~s6[j].here
  BY <1>1 DEF RowIsLocked
<1>5. ~RowIsSent /\ RowIsSent'
  BY <1>2, <1>3, <1>4 DEF RowIsSent
<1>6. Cardinality(CommitsOnTheirWay') = Cardinality(CommitsOnTheirWay) + 1
  <2> DEFINE T == {c \in AtDraft!Commit : c.step = "sent"}
  <2>1. s6 \in Seq(AtDraft!Commit) /\ e \in T
    BY <1>2
  <2> HIDE DEF T
  <2>2. Cardinality(Places(Append(s6, e), T)) = Cardinality(Places(s6, T)) + 1
    BY <2>1, OnePlaceMore
  <2> QED
    BY <1>1, <2>2 DEF CommitsOnTheirWay, T
<1>7. Cardinality(CommitsOnTheirWay) \in Nat /\ Len(s8) \in Nat /\ s10 \in Nat
  BY PlacesAreFinite DEF DraftTyped, CommitsOnTheirWay
<1>8. DraftTyped'
  BY <1>1, <1>3 DEF DraftTyped
<1>9. RowIsLocked'
  BY <1>1, <1>3, <1>4 DEF RowIsLocked
<1>10. NotesAreNotSpent'
  BY <1>1, <1>5, <1>6, <1>7 DEF NotesAreNotSpent
<1>11. MadeIsOnTimeline'
  BY <1>1, <1>2, <1>3 DEF MadeIsOnTimeline, OnTimeline
<1>12. RowHoldsWhatItSent'
  BY <1>1, <1>2, <1>3, <1>4 DEF RowHoldsWhatItSent
<1>13. NoteIsKept'
  BY <1>1 DEF NoteIsKept, OnTimeline
<1> QED
  BY <1>8, <1>9, <1>10, <1>11, <1>12, <1>13

LEMMA ServingRow ==
  ASSUME DraftInv, NEW i \in DOMAIN s6, AtDraft!ServerCommits(i) PROVE DraftInv'
<1> USE DEF DraftInv
<1> DEFINE e == s6[i].entry
<1>1. /\ s6[i].step = "sent"
      /\ UNCHANGED <<s1, s2, s3, s4, s5, s7, s9, taps, s10, s11>>
  BY DEF AtDraft!ServerCommits
<1>2. PICK a \in {"ok", "refused"} :
        /\ s6' = [s6 EXCEPT ![i].step = a]
        /\ \/ s8' = Append(s8, e) /\ s12' = (s12 \/ a = "refused")
           \/ a = "refused" /\ UNCHANGED <<s8, s12>>
  BY DEF AtDraft!ServerCommits
<1>3. /\ s6[i] \in AtDraft!Commit /\ s6 \in Seq(AtDraft!Commit) /\ s8 \in Seq(AtDraft!Entry) /\ e \in AtDraft!Entry
      /\ s6[i].here \in BOOLEAN
  <2>1. s6[i] \in AtDraft!Commit /\ s6 \in Seq(AtDraft!Commit) /\ s8 \in Seq(AtDraft!Entry)
    BY DEF DraftTyped
  <2> QED
    BY <2>1 DEF AtDraft!Commit
<1>4. /\ s6' \in Seq(AtDraft!Commit) /\ DOMAIN s6' = DOMAIN s6
      /\ s6'[i].step = a /\ s6'[i].here = s6[i].here /\ s6'[i].entry = e
      /\ \A j \in DOMAIN s6 \ {i} : s6'[j] = s6[j]
  <2>1. [s6[i] EXCEPT !.step = a] \in AtDraft!Commit
    BY <1>3 DEF AtDraft!Commit
  <2> QED
    BY <1>2, <1>3, <2>1 DEF AtDraft!Commit
<1>0. \A k \in DOMAIN s6 : s6'[k].here = s6[k].here /\ s6'[k].entry = s6[k].entry
  BY <1>4
<1> HIDE DEF e
<1>5. Cardinality(CommitsOnTheirWay') = Cardinality(CommitsOnTheirWay) - 1 /\ Cardinality(CommitsOnTheirWay) \in Nat
  <2> DEFINE T == {c \in AtDraft!Commit : c.step = "sent"}
             s == s6
             t == s6'
  <2>1. s \in Seq(AtDraft!Commit) /\ t \in Seq(AtDraft!Commit)
    BY <1>3, <1>4
  <2>2. i \in DOMAIN s /\ s[i] \in T /\ t[i] \notin T /\ DOMAIN t = DOMAIN s /\ \A j \in DOMAIN s \ {i} : t[j] = s[j]
    BY <1>1, <1>3, <1>4
  <2> HIDE DEF s, t, T
  <2>3. Cardinality(Places(t, T)) = Cardinality(Places(s, T)) - 1
    BY <2>1, <2>2, OnePlaceLess
  <2>4. Cardinality(Places(s, T)) \in Nat
    BY <2>1, PlacesAreFinite
  <2> QED
    BY <2>3, <2>4 DEF CommitsOnTheirWay, T, s, t
<1>6. /\ s8' \in Seq(AtDraft!Entry) /\ Len(s8) \in Nat /\ Len(s8') \in Nat /\ s12' \in BOOLEAN
      /\ (s12 => s12')
      /\ Len(s8') <= Len(s8) + 1
      /\ (a = "ok" => Len(s8') = Len(s8) + 1 /\ s8'[Len(s8) + 1] = e)
      /\ (a = "refused" => s12' \/ Len(s8') = Len(s8))
      /\ Len(s8') >= Len(s8)
      /\ DOMAIN s8 = 1 .. Len(s8) /\ DOMAIN s8' = 1 .. Len(s8')
      /\ \A j \in 1 .. Len(s8) : s8'[j] = s8[j]
  <2>1. CASE s8' = Append(s8, e) /\ s12' = (s12 \/ a = "refused")
    <3>1. s12' \in BOOLEAN /\ (s12 => s12') /\ (a = "refused" => s12')
      BY <2>1 DEF DraftTyped
    <3> QED
      BY <1>3, <2>1, <3>1
  <2>2. CASE a = "refused" /\ UNCHANGED <<s8, s12>>
    BY <1>2, <1>3, <2>2 DEF DraftTyped
  <2> QED
    BY <1>2, <2>1, <2>2
<1>15. DOMAIN s8 \subseteq DOMAIN s8' /\ \A j \in DOMAIN s8 : s8'[j] = s8[j]
  <2>1. Len(s8) \in Nat /\ Len(s8') \in Nat /\ Len(s8') >= Len(s8)
    BY <1>6
  <2>2. DOMAIN s8 = 1 .. Len(s8) /\ DOMAIN s8' = 1 .. Len(s8') /\ \A j \in 1 .. Len(s8) : s8'[j] = s8[j]
    BY <1>6
  <2> QED
    BY <2>1, <2>2
<1>7. ASSUME NEW w, OnTimeline(w) PROVE \E j \in DOMAIN s8' : s8'[j].note = w
  <2>1. PICK j \in DOMAIN s8 : s8[j].note = w
    BY <1>7 DEF OnTimeline
  <2>2. j \in DOMAIN s8' /\ s8'[j] = s8[j]
    BY <1>15, <2>1
  <2> QED
    BY <2>1, <2>2
<1>8. a = "ok" => \E j \in DOMAIN s8' : s8'[j].note = e.note
  <2>1. a = "ok" => Len(s8) + 1 \in DOMAIN s8' /\ s8'[Len(s8) + 1].note = e.note
    BY <1>6
  <2> QED
    BY <2>1
<1>9. DraftTyped'
  BY <1>1, <1>4, <1>6 DEF DraftTyped
<1>10. RowIsLocked'
  BY <1>0, <1>1, <1>4 DEF RowIsLocked
<1>11. MadeIsOnTimeline'
  <2> SUFFICES ASSUME NEW k \in DOMAIN s6', s6'[k].step = "ok"
               PROVE  \E j \in DOMAIN s8' : s8'[j].note = s6'[k].entry.note
    BY DEF MadeIsOnTimeline, OnTimeline
  <2>1. CASE k = i
    <3>1. a = "ok" /\ s6'[k].entry.note = e.note
      BY <1>4, <2>1
    <3> QED
      BY <1>8, <3>1
  <2>2. CASE k # i
    <3>1. k \in DOMAIN s6 /\ s6'[k] = s6[k]
      BY <1>4, <2>2
    <3>2. OnTimeline(s6[k].entry.note)
      BY <3>1 DEF MadeIsOnTimeline
    <3> QED
      BY <1>7, <3>1, <3>2
  <2> QED
    BY <2>1, <2>2
<1>12. RowHoldsWhatItSent'
  BY <1>0, <1>1, <1>4 DEF RowHoldsWhatItSent
<1>13. NoteIsKept'
  <2>1. OnTimeline(s9) => \E j \in DOMAIN s8' : s8'[j].note = s9
    BY <1>7
  <2> QED
    BY <1>1, <2>1 DEF NoteIsKept, OnTimeline
<1>14. NotesAreNotSpent'
  <2> SUFFICES ASSUME ~s12'
               PROVE /\ Len(s8') + Cardinality(CommitsOnTheirWay') <= s10
                     /\ ~AtDraft!Blank /\ ~RowIsSent' => Len(s8') + Cardinality(CommitsOnTheirWay') < s10
    BY <1>1 DEF NotesAreNotSpent, AtDraft!Blank
  <2>1. ~s12 /\ Len(s8) + Cardinality(CommitsOnTheirWay) <= s10 /\ s10 \in Nat
    BY <1>6 DEF NotesAreNotSpent, DraftTyped
  <2>3. CASE a = "refused"
    <3>1. Len(s8') = Len(s8) /\ Len(s8) \in Nat
      BY <1>6, <2>3
    <3> QED
      BY <1>5, <2>1, <3>1
  <2>4. CASE a = "ok"
    <3>1. ~RowIsSent' => ~RowIsSent
      <4> SUFFICES ASSUME RowIsSent PROVE RowIsSent'
        OBVIOUS
      <4>1. PICK k \in DOMAIN s6 : s6[k].here /\ s6[k].step \in {"sent", "ok"}
        BY DEF RowIsSent
      <4>2. k \in DOMAIN s6' /\ s6'[k].here /\ s6'[k].step \in {"sent", "ok"}
        BY <1>4, <2>4, <4>1
      <4> QED
        BY <4>2 DEF RowIsSent
    <3>2. Len(s8') + Cardinality(CommitsOnTheirWay') = Len(s8) + Cardinality(CommitsOnTheirWay)
      BY <1>5, <1>6, <2>4
    <3> QED
      BY <2>1, <3>1, <3>2 DEF NotesAreNotSpent
  <2> QED
    BY <2>3, <2>4
<1> QED
  BY <1>9, <1>10, <1>11, <1>12, <1>13, <1>14

LEMMA AnsweringRow ==
  ASSUME DraftInv, NEW i \in DOMAIN s6, AtDraft!CommitAnswers(i) PROVE DraftInv'
<1> USE DEF DraftInv
<1> DEFINE c == s6[i]
<1>1. /\ c.step # "sent" /\ s6' = TakenOut(s6, i)
      /\ UNCHANGED <<s1, s4, s5, s8, s9, taps, s10, s11, s12>>
      /\ IF ~c.here THEN UNCHANGED <<s2, s3, s7>>
         ELSE s7' = FALSE /\ IF c.step = "ok" THEN s2' = None /\ s3' = None ELSE UNCHANGED <<s2, s3>>
  BY DEF AtDraft!CommitAnswers, TakenOut
<1>2. /\ s6 \in Seq(AtDraft!Commit) /\ i \in 1 .. Len(s6) /\ Len(s6) \in Nat /\ DOMAIN s6 = 1 .. Len(s6)
      /\ c \in AtDraft!Commit
  BY DEF DraftTyped
<1>3. /\ s6' \in Seq(AtDraft!Commit) /\ DOMAIN s6' = 1 .. Len(s6) - 1
      /\ \A j \in 1 .. Len(s6) - 1 : s6'[j] = IF j < i THEN s6[j] ELSE s6[j + 1]
  <2> DEFINE s == s6
             t == TakenOut(s, i)
  <2>1. s \in Seq(AtDraft!Commit) /\ i \in 1 .. Len(s)
    BY <1>2
  <2> HIDE DEF s, t
  <2>2. /\ TakenOut(s, i) \in Seq(AtDraft!Commit) /\ Len(TakenOut(s, i)) = Len(s) - 1
        /\ \A j \in 1 .. Len(s) - 1 : TakenOut(s, i)[j] = IF j < i THEN s[j] ELSE s[j + 1]
    BY <2>1, TakenOutProperties
  <2>3. /\ t \in Seq(AtDraft!Commit) /\ Len(t) = Len(s) - 1
        /\ \A j \in 1 .. Len(s) - 1 : t[j] = IF j < i THEN s[j] ELSE s[j + 1]
    BY <2>2 DEF t
  <2> QED
    BY <1>1, <2>3 DEF s, t
<1>4. \A j \in DOMAIN s6' : \E k \in DOMAIN s6 \ {i} :
        s6'[j] = s6[k] /\ k = IF j < i THEN j ELSE j + 1
  <2> SUFFICES ASSUME NEW j \in DOMAIN s6'
               PROVE  \E k \in DOMAIN s6 \ {i} : s6'[j] = s6[k] /\ k = IF j < i THEN j ELSE j + 1
    OBVIOUS
  <2> DEFINE k == IF j < i THEN j ELSE j + 1
  <2>1. k \in DOMAIN s6 \ {i} /\ s6'[j] = s6[k]
    BY <1>2, <1>3
  <2> QED
    BY <2>1
<1>5. \A k \in DOMAIN s6 \ {i} : \E j \in DOMAIN s6' : s6'[j] = s6[k]
  <2> SUFFICES ASSUME NEW k \in DOMAIN s6 \ {i} PROVE \E j \in DOMAIN s6' : s6'[j] = s6[k]
    OBVIOUS
  <2> DEFINE j == IF k < i THEN k ELSE k - 1
  <2>1. j \in DOMAIN s6' /\ s6'[j] = s6[k]
    BY <1>2, <1>3
  <2> QED
    BY <2>1
<1>6. Cardinality(CommitsOnTheirWay') = Cardinality(CommitsOnTheirWay) /\ Cardinality(CommitsOnTheirWay) \in Nat
  <2> DEFINE T == {e \in AtDraft!Commit : e.step = "sent"}
             s == s6
  <2>1. s \in Seq(AtDraft!Commit) /\ i \in 1 .. Len(s) /\ s[i] \notin T
    BY <1>1, <1>2
  <2> HIDE DEF s, T
  <2>2. Cardinality(Places(TakenOut(s, i), T)) = Cardinality(Places(s, T)) /\ Cardinality(Places(s, T)) \in Nat
    BY <2>1, SamePlaces, PlacesAreFinite
  <2> QED
    BY <1>1, <2>2 DEF CommitsOnTheirWay, T, s
<1>7. c.here \in BOOLEAN /\ (c.here => s7 /\ s1) /\ (c.here => \A k \in DOMAIN s6 \ {i} : ~s6[k].here)
  BY <1>2 DEF RowIsLocked, AtDraft!Commit
<1>8. c.step = "ok" => OnTimeline(c.entry.note)
  BY DEF MadeIsOnTimeline
<1>9. c.here /\ s11 => s2 = c.entry.note
  BY DEF RowHoldsWhatItSent
<1> HIDE DEF c
<1>10. s7' \in BOOLEAN /\ s2' \in Notes \cup {None} /\ s3' \in Kinds \cup {NewKind, None}
  BY <1>1, <1>7 DEF DraftTyped
<1>11. DraftTyped'
  BY <1>1, <1>3, <1>10 DEF DraftTyped
<1>12. RowIsLocked'
  <2>1. ASSUME NEW j \in DOMAIN s6', s6'[j].here PROVE ~c.here
    BY <1>4, <1>7, <2>1
  <2>2. \A j \in DOMAIN s6' : s6'[j].here => s7' /\ s1'
    BY <1>1, <1>4, <2>1 DEF RowIsLocked
  <2>3. ASSUME NEW j \in DOMAIN s6', NEW k \in DOMAIN s6', s6'[j].here, s6'[k].here PROVE j = k
    <3>1. PICK x \in DOMAIN s6 \ {i} : s6'[j] = s6[x] /\ x = IF j < i THEN j ELSE j + 1
      BY <1>4
    <3>2. PICK y \in DOMAIN s6 \ {i} : s6'[k] = s6[y] /\ y = IF k < i THEN k ELSE k + 1
      BY <1>4
    <3>3. x = y
      BY <2>3, <3>1, <3>2 DEF RowIsLocked
    <3> QED
      BY <1>2, <1>3, <3>1, <3>2, <3>3
  <2>4. ~s1 => ~s7' /\ s2' = None /\ s3' = None
    BY <1>1, <1>7 DEF RowIsLocked
  <2> QED
    BY <1>1, <2>2, <2>3, <2>4 DEF RowIsLocked
<1>13. NotesAreNotSpent'
  <2> SUFFICES ASSUME ~s12 PROVE /\ Len(s8) + Cardinality(CommitsOnTheirWay) <= s10
                                 /\ ~AtDraft!Blank' /\ ~RowIsSent' => Len(s8) + Cardinality(CommitsOnTheirWay) < s10
    BY <1>1, <1>6 DEF NotesAreNotSpent
  <2>1. ~AtDraft!Blank' => ~AtDraft!Blank
    BY <1>1 DEF AtDraft!Blank
  <2>2. ASSUME ~AtDraft!Blank', ~RowIsSent' PROVE ~RowIsSent
    <3> SUFFICES ASSUME NEW k \in DOMAIN s6, s6[k].here, s6[k].step \in {"sent", "ok"} PROVE FALSE
      BY DEF RowIsSent
    <3>1. k = i
      BY <1>5, <2>2 DEF RowIsSent
    <3> QED
      BY <1>1, <2>2, <3>1 DEF AtDraft!Blank, c
  <2> QED
    BY <2>1, <2>2 DEF NotesAreNotSpent
<1>14. MadeIsOnTimeline'
  BY <1>1, <1>4 DEF MadeIsOnTimeline, OnTimeline
<1>15. RowHoldsWhatItSent'
  BY <1>1, <1>4, <1>7 DEF RowHoldsWhatItSent
<1>16. NoteIsKept'
  <2>1. \A w : OnTimeline(w)' = OnTimeline(w)
    BY <1>1 DEF OnTimeline
  <2>2. CASE s2' = s2
    BY <1>1, <2>1, <2>2 DEF NoteIsKept, OnTimeline
  <2>3. CASE c.here /\ c.step = "ok"
    BY <1>1, <1>8, <1>9, <2>1, <2>3 DEF NoteIsKept, OnTimeline
  <2> QED
    BY <1>1, <2>2, <2>3
<1> QED
  BY <1>11, <1>12, <1>13, <1>14, <1>15, <1>16

LEMMA KindIsPicked ==
  ASSUME DraftInv, s1, NEW k \in Kinds \cup {NewKind, None}, AtDraft!Picked(k), taps' \in Nat, s5' \in BOOLEAN,
         UNCHANGED <<s1, s2, s6, s7, s8, s9, s12>>
  PROVE  DraftInv'
<1> USE DEF DraftInv
<1>1. s3' = k /\ s4' = FALSE /\ s10' = (IF AtDraft!Blank /\ k # None THEN s10 + 1 ELSE s10)
  BY DEF AtDraft!Picked
<1>2. s11' \in BOOLEAN /\ (s11' => s11 /\ ~s7)
  BY DEF AtDraft!Picked, DraftTyped
<1>3. /\ CommitsOnTheirWay' = CommitsOnTheirWay /\ Cardinality(CommitsOnTheirWay) \in Nat /\ Len(s8) \in Nat /\ s10 \in Nat
      /\ RowIsSent' = RowIsSent /\ MadeIsOnTimeline'
  BY NotesAtRest
<1>0. s10' \in Nat
  BY <1>1, <1>3
<1>4. DraftTyped'
  BY <1>0, <1>1, <1>2 DEF DraftTyped
<1>5. RowIsLocked'
  BY <1>1 DEF RowIsLocked
<1>6. NotesAreNotSpent'
  BY <1>1, <1>3 DEF NotesAreNotSpent, AtDraft!Blank
<1>7. RowHoldsWhatItSent' /\ NoteIsKept'
  BY <1>1, <1>2 DEF RowHoldsWhatItSent, NoteIsKept, OnTimeline
<1> QED
  BY <1>3, <1>4, <1>5, <1>6, <1>7

LEMMA PickerMoves ==
  ASSUME DraftInv, s1, s4' \in BOOLEAN, s5' \in BOOLEAN, taps' \in Nat,
         UNCHANGED <<s1, s2, s3, s6, s7, s8, s9, s10, s11, s12>>
  PROVE  DraftInv'
<1> USE DEF DraftInv
<1>1. /\ CommitsOnTheirWay' = CommitsOnTheirWay /\ RowIsSent' = RowIsSent /\ MadeIsOnTimeline'
  BY NotesAtRest
<1>2. DraftTyped' /\ RowIsLocked'
  BY DEF DraftTyped, RowIsLocked
<1>3. NotesAreNotSpent'
  BY <1>1 DEF NotesAreNotSpent, AtDraft!Blank
<1>4. RowHoldsWhatItSent' /\ NoteIsKept'
  BY DEF RowHoldsWhatItSent, NoteIsKept, OnTimeline
<1> QED
  BY <1>1, <1>2, <1>3, <1>4

LEMMA OfThePicker ==
  ASSUME DraftInv, AtDraft!OpenPicker \/ AtDraft!ClosePicker \/ AtDraft!PickKind \/ AtDraft!MakeKind \/ AtDraft!KindIsMade PROVE DraftInv'
<1>1. CASE AtDraft!OpenPicker \/ AtDraft!ClosePicker
  <2>1. /\ s1 /\ s4' \in BOOLEAN /\ taps' = taps
        /\ UNCHANGED <<s1, s2, s3, s5, s6, s7, s8, s9, s10, s11, s12>>
    BY <1>1 DEF AtDraft!OpenPicker, AtDraft!ClosePicker, DraftInv, RowIsLocked
  <2>2. taps' \in Nat /\ s5' \in BOOLEAN
    BY <2>1 DEF DraftInv, DraftTyped
  <2> QED
    BY <2>1, <2>2, PickerMoves
<1>2. CASE AtDraft!MakeKind
  <2>1. /\ s1 /\ taps' = taps + 1 /\ s5' = TRUE
        /\ UNCHANGED <<s1, s2, s3, s4, s6, s7, s8, s9, s10, s11, s12>>
    BY <1>2 DEF AtDraft!MakeKind, AtDraft!Tap, DraftInv, RowIsLocked
  <2>2. taps' \in Nat /\ s5' \in BOOLEAN /\ s4' \in BOOLEAN
    BY <2>1 DEF DraftInv, DraftTyped
  <2> QED
    BY <2>1, <2>2, PickerMoves
<1>3. CASE AtDraft!PickKind
  <2>1. s1 /\ taps' = taps + 1 /\ s5' = s5 /\ UNCHANGED <<s1, s2, s6, s7, s8, s9, s12>>
    BY <1>3 DEF AtDraft!PickKind, AtDraft!Tap, DraftInv, RowIsLocked
  <2>2. PICK k \in Kinds \cup {None} : AtDraft!Picked(k)
    BY <1>3 DEF AtDraft!PickKind
  <2>3. taps' \in Nat /\ s5' \in BOOLEAN
    BY <2>1 DEF DraftInv, DraftTyped
  <2> QED
    BY <2>1, <2>2, <2>3, KindIsPicked
<1>4. CASE AtDraft!KindIsMade
  <2>1. s1 /\ s5' = FALSE /\ UNCHANGED <<s1, s2, s6, s7, s8, s9, taps, s12>>
    BY <1>4 DEF AtDraft!KindIsMade, DraftInv, RowIsLocked
  <2>2. taps' \in Nat /\ s5' \in BOOLEAN
    BY <2>1 DEF DraftInv, DraftTyped
  <2>3. CASE AtDraft!Picked(NewKind)
    BY <2>1, <2>2, <2>3, KindIsPicked
  <2>4. CASE UNCHANGED <<s3, s4, s10, s11>>
    <3>1. s4' \in BOOLEAN
      BY <2>4 DEF DraftInv, DraftTyped
    <3> QED
      BY <2>1, <2>2, <2>4, <3>1, PickerMoves
  <2> QED
    BY <1>4, <2>3, <2>4 DEF AtDraft!KindIsMade
<1> QED
  BY <1>1, <1>2, <1>3, <1>4

LEMMA ClosingRow == ASSUME DraftInv, AtDraft!DialogCloses PROVE DraftInv'
<1> USE DEF DraftInv
<1>1. /\ s1 /\ s1' = FALSE /\ s2' = None /\ s3' = None /\ s4' = FALSE /\ s5' = FALSE
      /\ s7' = FALSE /\ s9' = None
      /\ s6' = [i \in DOMAIN s6 |-> [s6[i] EXCEPT !.here = FALSE]]
      /\ UNCHANGED <<s8, taps, s10, s11, s12>>
  BY DEF AtDraft!DialogCloses
<1>2. s6 \in Seq(AtDraft!Commit) /\ Len(s6) \in Nat /\ DOMAIN s6 = 1 .. Len(s6)
  BY DEF DraftTyped
<1>3. ASSUME NEW i \in DOMAIN s6
      PROVE  /\ s6'[i] \in AtDraft!Commit /\ s6'[i].here = FALSE
             /\ s6'[i].step = s6[i].step /\ s6'[i].entry = s6[i].entry
  <2>1. s6[i] \in AtDraft!Commit /\ s6'[i] = [s6[i] EXCEPT !.here = FALSE]
    BY <1>1, <1>2
  <2> QED
    BY <2>1 DEF AtDraft!Commit
<1>4. DOMAIN s6' = DOMAIN s6 /\ s6' \in Seq(AtDraft!Commit)
  <2>1. s6' \in [1 .. Len(s6) -> AtDraft!Commit]
    BY <1>1, <1>2, <1>3
  <2> QED
    BY <1>1, <1>2, <2>1, SeqDef
<1>5. CommitsOnTheirWay' = CommitsOnTheirWay
  <2>1. \A i \in DOMAIN s6 : s6'[i] \in {c \in AtDraft!Commit : c.step = "sent"} <=> s6[i] \in {c \in AtDraft!Commit : c.step = "sent"}
    <3> SUFFICES ASSUME NEW i \in DOMAIN s6
                 PROVE  s6'[i] \in {c \in AtDraft!Commit : c.step = "sent"} <=> s6[i] \in {c \in AtDraft!Commit : c.step = "sent"}
      OBVIOUS
    <3>1. s6[i] \in AtDraft!Commit
      BY <1>2
    <3> QED
      BY <1>3, <3>1
  <2> QED
    BY <1>4, <2>1 DEF CommitsOnTheirWay, Places
<1>6. DraftTyped'
  BY <1>1, <1>4 DEF DraftTyped
<1>7. RowIsLocked'
  BY <1>1, <1>3, <1>4 DEF RowIsLocked
<1>8. NotesAreNotSpent'
  BY <1>1, <1>5 DEF NotesAreNotSpent, AtDraft!Blank
<1>9. MadeIsOnTimeline'
  <2> SUFFICES ASSUME NEW i \in DOMAIN s6', s6'[i].step = "ok"
               PROVE  \E j \in DOMAIN s8' : s8'[j].note = s6'[i].entry.note
    BY DEF MadeIsOnTimeline, OnTimeline
  <2>1. i \in DOMAIN s6 /\ s6[i].step = "ok" /\ s6'[i].entry = s6[i].entry
    BY <1>3, <1>4
  <2> QED
    BY <1>1, <2>1 DEF MadeIsOnTimeline, OnTimeline
<1>10. RowHoldsWhatItSent' /\ NoteIsKept'
  BY <1>1, <1>3, <1>4 DEF RowHoldsWhatItSent, NoteIsKept
<1> QED
  BY <1>6, <1>7, <1>8, <1>9, <1>10

LEMMA OpeningRow == ASSUME DraftInv, AtDraft!OpenDialog PROVE DraftInv'
<1> USE DEF DraftInv
<1>1. /\ ~s1 /\ s1' = TRUE /\ taps' = taps + 1
      /\ UNCHANGED <<s2, s3, s4, s5, s6, s7, s8, s9, s10, s11, s12>>
  BY DEF AtDraft!OpenDialog, AtDraft!Tap
<1>2. /\ CommitsOnTheirWay' = CommitsOnTheirWay /\ RowIsSent' = RowIsSent /\ MadeIsOnTimeline'
  BY <1>1, NotesAtRest
<1>3. DraftTyped' /\ RowIsLocked'
  BY <1>1 DEF DraftTyped, RowIsLocked
<1>4. NotesAreNotSpent'
  BY <1>1, <1>2 DEF NotesAreNotSpent, AtDraft!Blank
<1>5. RowHoldsWhatItSent' /\ NoteIsKept'
  BY <1>1 DEF RowHoldsWhatItSent, NoteIsKept, RowIsLocked
<1> QED
  BY <1>2, <1>3, <1>4, <1>5

LEMMA DraftStays == ASSUME DraftInv, [AtDraft!DraftNext]_AtDraft!draftVars PROVE DraftInv'
<1>1. CASE UNCHANGED AtDraft!draftVars
  BY <1>1 DEF AtDraft!draftVars, DraftInv, DraftTyped, RowIsLocked, NotesAreNotSpent, MadeIsOnTimeline,
     RowHoldsWhatItSent,
              NoteIsKept, OnTimeline, CommitsOnTheirWay, RowIsSent, AtDraft!Blank, Places
<1>2. ASSUME NEW t \in Notes, AtDraft!TypeNote(t) PROVE DraftInv'
  BY <1>2, Noting
<1>3. CASE AtDraft!SendDraft \/ AtDraft!OpenDialog \/ AtDraft!Escape \/ AtDraft!Dismiss
  BY <1>3, SendingRow, OpeningRow, ClosingRow DEF AtDraft!Escape, AtDraft!Dismiss
<1>4. ASSUME NEW i \in DOMAIN s6, AtDraft!ServerCommits(i) \/ AtDraft!CommitAnswers(i) PROVE DraftInv'
  BY <1>4, ServingRow, AnsweringRow
<1>5. CASE AtDraft!OpenPicker \/ AtDraft!ClosePicker \/ AtDraft!PickKind \/ AtDraft!MakeKind \/ AtDraft!KindIsMade
  BY <1>5, OfThePicker
<1> QED
  BY <1>1, <1>2, <1>3, <1>4, <1>5 DEF AtDraft!DraftNext

-----------------------------------------------------------------------------
(***************************************************************************)
(* Lists.                                                                   *)
(***************************************************************************)
LEMMA SmallestOf == ASSUME NEW T, T \subseteq Nat, T # {} PROVE \E m \in T : \A n \in T : m <= n
<1> DEFINE R == OpToRel(<, Nat)
<1>1. IsWellFoundedOn(R, Nat)
  BY NatLessThanWellFounded
<1>2. \A x, y \in Nat : <<y, x>> \in R <=> y < x
  BY DEF OpToRel
<1> HIDE DEF R
<1>3. PICK m \in T : \A y \in T : ~ (<<y, m>> \in R)
  BY <1>1, WFMin
<1>4. ASSUME NEW y \in T PROVE m <= y
  <2>1. m \in Nat /\ y \in Nat
    OBVIOUS
  <2>2. ~(y < m)
    BY <1>2, <1>3, <2>1, Zenon
  <2> QED
    BY <2>1, <2>2
<1> QED
  BY <1>4

\* A page before the last begins before the last row.
LEMMA PageBegins ==
  ASSUME NEW P \in Nat \ {0}, NEW t \in Nat, NEW p \in Nat, p + 1 < (t + P - 1) \div P
  PROVE  (p + 1) * P < t
<1> DEFINE q == (t + P - 1) \div P
<1>1. q \in Int /\ q * P <= t + P - 1
  OBVIOUS
<1>2. (p + 2) * P <= q * P
  <2> HIDE DEF q
  <2>1. q - (p + 2) \in Nat
    BY <1>1 DEF q
  <2>2. (q - (p + 2)) * P >= 0
    BY <2>1
  <2>3. (q - (p + 2)) * P = q * P - (p + 2) * P
    BY <1>1
  <2>4. (p + 2) * P \in Int /\ q * P \in Int
    BY <1>1
  <2> QED
    BY <2>2, <2>3, <2>4
<1>3. (p + 2) * P = (p + 1) * P + P /\ (p + 1) * P \in Int
  OBVIOUS
<1> QED
  BY <1>1, <1>2, <1>3

\* The rows are counted there as they are here.
LEMMA RowsCounted == ASSUME NEW S PROVE AtList!Cardinality(S) = Cardinality(S)
  BY DEF AtList!Cardinality, Cardinality

LEMMA RowsAreFinite == ASSUME NEW S, S \subseteq AtList!Rows PROVE IsFiniteSet(S) /\ Cardinality(S) \in Nat
<1>1. IsFiniteSet(AtList!Rows)
  BY PagesAssumption, FS_Interval DEF AtList!Rows, AtList!ListsAssumption
<1> QED
  BY <1>1, FS_Subset, FS_CardinalityType

\* Every rank below the number of rows is the rank of one of them.
LEMMA RanksAreTaken ==
  ASSUME NEW S, S \subseteq AtList!Rows, NEW k \in Nat, k < Cardinality(S) PROVE \E r \in S : AtList!Rank(r, S) = k
<1> DEFINE Below(r) == {s \in S : s < r}
           L == {r \in S : AtList!Rank(r, S) < k}
           g == [r \in L |-> AtList!Rank(r, S)]
<1>1. S \subseteq Nat
  BY DEF AtList!Rows
<1>0. \A r \in L : r \in S /\ AtList!Rank(r, S) < k
  OBVIOUS
<1>2. ASSUME NEW r PROVE AtList!Rank(r, S) = Cardinality(Below(r)) /\ AtList!Rank(r, S) \in Nat /\ IsFiniteSet(Below(r))
  BY RowsAreFinite, RowsCounted DEF AtList!Rank
<1>3. ASSUME NEW s \in S, NEW r \in S, s < r PROVE AtList!Rank(s, S) < AtList!Rank(r, S)
  <2>1. IsFiniteSet(Below(s)) /\ IsFiniteSet(Below(r)) /\ Cardinality(Below(s)) \in Nat /\ Cardinality(Below(r)) \in Nat
    BY RowsAreFinite
  <2>2. Below(s) \subseteq Below(r) /\ s \in Below(r) /\ s \notin Below(s)
    <3>1. s \in Nat /\ r \in Nat
      BY <1>1
    <3>2. ASSUME NEW x \in Below(s) PROVE x \in Below(r)
      <4>1. x \in S /\ x \in Nat /\ x < s
        BY <1>1
      <4> QED
        BY <1>3, <3>1, <4>1
    <3>3. s \in Below(r) /\ s \notin Below(s)
      BY <1>3, <3>1
    <3> QED
      BY <3>2, <3>3
  <2>3. Cardinality(Below(s)) <= Cardinality(Below(r)) /\ Cardinality(Below(s)) # Cardinality(Below(r))
    BY <2>1, <2>2, FS_Subset
  <2> QED
    BY <1>2, <2>1, <2>3
<1>4. Cardinality(L) <= k /\ Cardinality(L) \in Nat
  <2>1. IsFiniteSet(0 .. k - 1) /\ Cardinality(0 .. k - 1) = k
    BY FS_Interval
  <2>2. g \in [L -> 0 .. k - 1]
    <3>1. ASSUME NEW r \in L PROVE AtList!Rank(r, S) \in 0 .. k - 1
      <4>1. AtList!Rank(r, S) \in Nat /\ AtList!Rank(r, S) < k
        BY <1>2
      <4> QED
        BY <4>1
    <3> QED
      BY <3>1
  <2>3. ASSUME NEW a \in L, NEW b \in L, g[a] = g[b] PROVE a = b
    <3>1. a \in Nat /\ b \in Nat /\ AtList!Rank(a, S) = AtList!Rank(b, S) /\ AtList!Rank(a, S) \in Nat
      BY <1>1, <1>2, <2>3
    <3>2. ~(a < b) /\ ~(b < a)
      BY <1>3, <3>1
    <3> QED
      BY <3>1, <3>2
  <2>4. g \in Injection(L, 0 .. k - 1)
    BY <2>2, <2>3 DEF Injection, IsInjective
  <2>5. IsFiniteSet(L) /\ Cardinality(L) <= Cardinality(0 .. k - 1)
    BY <2>1, <2>4, FS_Injection
  <2> QED
    BY <2>1, <2>5, FS_CardinalityType
<1>5. S \ L # {} /\ S \ L \subseteq Nat
  <2>1. L # S
    BY <1>4
  <2> QED
    BY <1>1, <2>1
<1>6. PICK m \in S \ L : \A n \in S \ L : m <= n
  BY <1>5, SmallestOf
<1>7. Below(m) \subseteq L
  <2> SUFFICES ASSUME NEW x \in S, x < m, x \notin L PROVE FALSE
    OBVIOUS
  <2>1. m <= x
    BY <1>6
  <2>2. m \in Nat /\ x \in Nat
    BY <1>1, <1>6
  <2> QED
    BY <2>1, <2>2
<1>8. AtList!Rank(m, S) <= k
  <2>1. IsFiniteSet(L)
    BY RowsAreFinite
  <2>2. Cardinality(Below(m)) <= Cardinality(L)
    BY <1>7, <2>1, FS_Subset
  <2> QED
    BY <1>2, <1>4, <2>2
<1>9. ~(AtList!Rank(m, S) < k) /\ AtList!Rank(m, S) \in Nat /\ m \in S
  BY <1>2, <1>6
<1>10. AtList!Rank(m, S) = k
  BY <1>8, <1>9
<1> QED
  BY <1>9, <1>10

\* A page that begins before the last row is not empty.
LEMMA PageHasRows ==
  ASSUME NEW S, S \subseteq AtList!Rows, NEW p \in Nat, p * PageSize < Cardinality(S) PROVE AtList!OnPage(S, p) # {}
<1>1. PageSize \in Nat \ {0} /\ p * PageSize \in Nat
  BY PagesAssumption DEF AtList!ListsAssumption
<1>2. PICK r \in S : AtList!Rank(r, S) = p * PageSize
  BY <1>1, RanksAreTaken
<1>3. AtList!Rank(r, S) \in p * PageSize .. p * PageSize + PageSize - 1
  BY <1>1, <1>2
<1> QED
  BY <1>3 DEF AtList!OnPage

LEMMA ListsAreKnown ==
  ASSUME NEW l \in AtList!Lists
  PROVE  /\ l \in AtList!List
         /\ (l.address => l.search = "quiet")
         /\ (~l.address => l.pager \in {"always", "never"})
         /\ (l # AtList!ContactsPage => l.search # "here")
         /\ (l.search = "typed" => l.pager = "never")
         /\ (l = AtList!CompaniesListPage => l.selects = "adds" /\ l.empties = "success")
<1> DEFINE Known(m) ==
      /\ m \in AtList!List
      /\ (m.address => m.search = "quiet")
      /\ (~m.address => m.pager \in {"always", "never"})
      /\ (m # AtList!ContactsPage => m.search # "here")
      /\ (m.search = "typed" => m.pager = "never")
      /\ (m = AtList!CompaniesListPage => m.selects = "adds" /\ m.empties = "success")
<1>1. Known(AtList!CompaniesListPage)
  BY DEF AtList!List, AtList!CompaniesListPage
<1>2. Known(AtList!DealsListPage)
  BY DEF AtList!List, AtList!CompaniesListPage, AtList!DealsListPage
<1>3. Known(AtList!SentMailTab)
  BY DEF AtList!List, AtList!CompaniesListPage, AtList!SentMailTab
<1>4. /\ AtList!OrgList \in AtList!List /\ ~AtList!OrgList.address /\ AtList!OrgList.pager = "always" /\ AtList!OrgList.search = "quiet"
      /\ AtList!OrgList # AtList!CompaniesListPage
  BY DEF AtList!List, AtList!CompaniesListPage, AtList!OrgList
<1>5. Known(AtList!OrgList)
  BY <1>4
<1>6. Known(AtList!ContactsPage)
  <2>1. AtList!ContactsPage \in AtList!List /\ AtList!ContactsPage.address = FALSE /\ AtList!ContactsPage.pager = "never" /\ AtList!ContactsPage.search = "here"
    BY <1>4 DEF AtList!ContactsPage, AtList!List
  <2>2. AtList!ContactsPage # AtList!CompaniesListPage
    BY <2>1 DEF AtList!CompaniesListPage
  <2> QED
    BY <2>1, <2>2
<1>7. Known(AtList!InvoicesList)
  <2>1. AtList!InvoicesList \in AtList!List /\ AtList!InvoicesList.address = FALSE /\ AtList!InvoicesList.pager = "never" /\ AtList!InvoicesList.search = "typed"
    BY <1>4 DEF AtList!InvoicesList, AtList!List
  <2>2. AtList!InvoicesList # AtList!CompaniesListPage
    BY <2>1 DEF AtList!CompaniesListPage
  <2> QED
    BY <2>1, <2>2
<1>8. Known(AtList!EmailHistorySection)
  <2>1. /\ AtList!EmailHistorySection \in AtList!List /\ AtList!EmailHistorySection.address = FALSE
        /\ AtList!EmailHistorySection.pager = "never" /\ AtList!EmailHistorySection.search = "none"
    BY <1>4 DEF AtList!EmailHistorySection, AtList!List
  <2>2. AtList!EmailHistorySection # AtList!CompaniesListPage
    BY <2>1 DEF AtList!CompaniesListPage
  <2> QED
    BY <2>1, <2>2
<1> QED
  BY <1>1, <1>2, <1>3, <1>5, <1>6, <1>7, <1>8 DEF AtList!Lists, AtList!CampaignsList, AtList!CompanyActivityTab

ListsTyped ==
  /\ s1 \in AtList!Lists /\ s2 \in BOOLEAN /\ s3 \in BOOLEAN /\ s4 \in BOOLEAN /\ s5 \in BOOLEAN
  /\ s14 \in BOOLEAN /\ s15 \in BOOLEAN /\ s16 \in BOOLEAN
  /\ s7 \subseteq AtList!Rows /\ s8 \subseteq AtList!Rows /\ s10 \subseteq AtList!Rows /\ s11 \subseteq AtList!Rows
  /\ s12 \subseteq AtList!Rows /\ s13 \subseteq AtList!Rows /\ s17 \subseteq AtList!Rows
  /\ s9 \in AtList!Answer /\ s6 \in Nat /\ taps \in Nat

\* The word of the URL has been asked for; a page that was turned to begins before the last
\* row of what is asked, as long as no row went away.
AddressIsAsked == s1.address /\ s4 => s3
NeverTurned == s1.pager = "never" => s6 = 0
AllAreThere == ~s15 => s7 = AtList!Rows /\ s8 = AtList!Rows
SeenIsCounted == ~s15 /\ s1.search # "here" => s9.total <= Cardinality(AtList!Found(s9.to[1], s9.to[2]))
PageIsThere ==
  s1.address /\ ~s15 /\ ~s16 => s6 = 0 \/ s6 * PageSize < Cardinality(AtList!Found(s3, s5))

ListsInv ==
  ListsTyped /\ AddressIsAsked /\ NeverTurned /\ AllAreThere /\ SeenIsCounted /\ PageIsThere /\ AtList!BasketSurvives

LEMMA ListsShow == ListsInv => AtList!NotStranded /\ AtList!BasketSurvives
<1> SUFFICES ASSUME ListsInv PROVE AtList!NotStranded
  BY DEF ListsInv
<1> SUFFICES ASSUME s1 # AtList!ContactsPage, ~s15, ~s16, s9 = AtList!Asked, s3 = s2, AtList!Shown = {}, AtList!Found(s2, s5) # {}
             PROVE  AtList!Pager /\ s6 > 0
  BY DEF AtList!NotStranded
<1> USE DEF ListsInv
<1> DEFINE S == AtList!Found(s3, s5)
<1>1. /\ s1 \in AtList!Lists /\ s1.search # "here" /\ (~s1.address => s1.pager \in {"always", "never"})
      /\ s6 \in Nat /\ S \subseteq AtList!Rows /\ S # {}
  BY ListsAreKnown DEF ListsTyped, AtList!Found
<1>2. s9.rows = AtList!OnPage(S, s6) /\ s9.rows = {}
  <2>1. AtList!Found(s3 /\ s1.search # "here", s5) = S
    BY <1>1 DEF AtList!Found
  <2>2. AtList!Asked.rows = AtList!OnPage(AtList!Found(s3 /\ s1.search # "here", s5), s6)
    BY RowsCounted DEF AtList!Asked
  <2> QED
    BY <1>1, <2>1, <2>2 DEF AtList!Shown
<1>3. Cardinality(S) \in Nat /\ Cardinality(S) # 0
  BY <1>1, RowsAreFinite, FS_EmptySet
<1>4. PageSize \in Nat
  BY PagesAssumption DEF AtList!ListsAssumption
<1> HIDE DEF S
<1>5. s6 # 0
  <2> SUFFICES ASSUME s6 = 0 PROVE FALSE
    OBVIOUS
  <2>1. s6 * PageSize < Cardinality(S)
    BY <1>3, <1>4
  <2> QED
    BY <1>1, <1>2, <2>1, PageHasRows
<1>6. ~(s6 * PageSize < Cardinality(S))
  BY <1>1, <1>2, PageHasRows
<1>7. ~s1.address
  BY <1>5, <1>6 DEF PageIsThere, S
<1>8. AtList!Pager
  BY <1>1, <1>5, <1>7 DEF NeverTurned, AtList!Pager
<1> QED
  BY <1>1, <1>5, <1>8

LEMMA ListsStart == AtList!ListsInit => ListsInv
<1> SUFFICES ASSUME AtList!ListsInit PROVE ListsInv
  OBVIOUS
<1> USE DEF AtList!ListsInit
<1>1. ListsTyped
  BY DEF ListsTyped, AtList!Answer, AtList!Nothing
<1>2. AtList!Found(s9.to[1], s9.to[2]) \subseteq AtList!Rows
  BY DEF AtList!Found
<1>3. Cardinality(AtList!Found(s9.to[1], s9.to[2])) \in Nat
  BY <1>2, RowsAreFinite
<1>4. SeenIsCounted
  <2>1. s9.total = 0
    BY DEF AtList!Nothing
  <2> QED
    BY <1>3, <2>1 DEF SeenIsCounted
<1>5. AddressIsAsked /\ NeverTurned /\ AllAreThere /\ PageIsThere /\ AtList!BasketSurvives
  BY DEF AddressIsAsked, NeverTurned, AllAreThere, PageIsThere, AtList!BasketSurvives
<1> QED
  BY <1>1, <1>4, <1>5 DEF ListsInv

LEMMA FoundIsCounted == ASSUME ListsTyped, NEW w, NEW n PROVE AtList!Found(w, n) \subseteq AtList!Rows /\ Cardinality(AtList!Found(w, n)) \in Nat
<1>1. AtList!Found(w, n) \subseteq AtList!Rows
  BY DEF AtList!Found, ListsTyped
<1> QED
  BY <1>1, RowsAreFinite

LEMMA FoundAsAsked ==
  ASSUME NEW v \in BOOLEAN, NEW n \in BOOLEAN, NEW w \in BOOLEAN, NEW m \in BOOLEAN, v = w, n = m PROVE AtList!Found(v, n) = AtList!Found(w, m)
BY DEF AtList!Found

\* A step of the search box, the filter or the pager.
LEMMA OfTheBox ==
  ASSUME ListsInv, UNCHANGED <<s1, AtList!serverVars, AtList!basketVars>>, AtList!AskAnew,
         s2' \in BOOLEAN, s3' \in BOOLEAN, s4' \in BOOLEAN, s5' \in BOOLEAN, s16' \in BOOLEAN,
         s6' \in Nat, taps' \in Nat, AddressIsAsked', NeverTurned', PageIsThere'
  PROVE  ListsInv'
<1> USE DEF ListsInv
<1>1. UNCHANGED <<s1, s7, s8, s15, s10, s11, s12, s13, s14, s17>>
  BY DEF AtList!serverVars, AtList!basketVars
<1>2. s9' \in {s9, AtList!Nothing}
  BY DEF AtList!AskAnew
<1>3. AtList!Nothing \in AtList!Answer /\ AtList!Nothing.total = 0
  BY DEF AtList!Nothing, AtList!Answer
<1>4. s9' \in AtList!Answer
  BY <1>2, <1>3 DEF ListsTyped
<1>5. ListsTyped'
  BY <1>1, <1>4 DEF ListsTyped
<1>6. AllAreThere'
  BY <1>1 DEF AllAreThere
<1>7. SeenIsCounted'
  <2> SUFFICES ASSUME ~s15, s1.search # "here" PROVE s9'.total <= Cardinality(AtList!Found(s9.to[1], s9.to[2])')
    BY <1>1 DEF SeenIsCounted
  <2>2. CASE s9' = s9
    <3>1. AtList!Found(s9.to[1], s9.to[2])' = AtList!Found(s9.to[1], s9.to[2])
      BY <1>1, <2>2 DEF AtList!Found
    <3> QED
      BY <2>2, <3>1 DEF SeenIsCounted
  <2>3. CASE s9' = AtList!Nothing
    <3>1. AtList!Found(s9.to[1], s9.to[2])' \subseteq AtList!Rows
      BY <1>5 DEF AtList!Found, ListsTyped
    <3>2. Cardinality(AtList!Found(s9.to[1], s9.to[2])') \in Nat
      BY <3>1, RowsAreFinite
    <3> QED
      BY <1>3, <2>3, <3>2
  <2> QED
    BY <1>2, <2>2, <2>3
<1>8. AtList!BasketSurvives'
  BY <1>1 DEF AtList!BasketSurvives
<1> QED
  BY <1>5, <1>6, <1>7, <1>8

\* A step of the basket and of its dialog.
LEMMA OfTheBasket ==
  ASSUME ListsInv, UNCHANGED <<s1, AtList!boxVars, AtList!serverVars, s9>>,
         s10' \subseteq AtList!Rows, s11' \subseteq AtList!Rows, s12' \subseteq AtList!Rows, s13' \subseteq AtList!Rows, s17' \subseteq AtList!Rows,
         s14' \in BOOLEAN, taps' \in Nat, AtList!BasketSurvives'
  PROVE  ListsInv'
<1> USE DEF ListsInv
<1>1. UNCHANGED <<s1, s2, s3, s4, s5, s6, s16, s7, s8, s15, s9>>
  BY DEF AtList!serverVars, AtList!boxVars
<1>2. ListsTyped'
  BY <1>1 DEF ListsTyped
<1>3. AllAreThere' /\ AddressIsAsked' /\ NeverTurned'
  BY <1>1 DEF AllAreThere, AddressIsAsked, NeverTurned
<1>4. \A w, n : AtList!Found(w, n)' = AtList!Found(w, n)
  BY <1>1 DEF AtList!Found
<1>5. SeenIsCounted' /\ PageIsThere'
  BY <1>1 DEF AtList!Found, SeenIsCounted, PageIsThere
<1> QED
  BY <1>2, <1>3, <1>5

\* Rows go away.
LEMMA RowsGo ==
  ASSUME ListsInv, UNCHANGED <<s1, AtList!boxVars, s9>>, s15' = TRUE, s7' \subseteq AtList!Rows, s8' \subseteq AtList!Rows,
         s10' \subseteq AtList!Rows, s11' \subseteq AtList!Rows, s12' \subseteq AtList!Rows, s13' \subseteq AtList!Rows, s17' \subseteq AtList!Rows,
         s14' \in BOOLEAN, taps' \in Nat, AtList!BasketSurvives'
  PROVE  ListsInv'
<1> USE DEF ListsInv
<1>1. UNCHANGED <<s1, s2, s3, s4, s5, s6, s16, s9>>
  BY DEF AtList!boxVars
<1>2. ListsTyped'
  BY <1>1 DEF ListsTyped
<1>3. AllAreThere' /\ AddressIsAsked' /\ NeverTurned' /\ SeenIsCounted' /\ PageIsThere'
  BY <1>1 DEF AllAreThere, AddressIsAsked, NeverTurned, SeenIsCounted, PageIsThere
<1> QED
  BY <1>2, <1>3

LEMMA ListIsFetched == ASSUME ListsInv, AtList!Fetch PROVE ListsInv'
<1> USE DEF ListsInv
<1>1. /\ s9' = AtList!Asked
      /\ UNCHANGED <<s1, s2, s3, s4, s5, s6, s16, s7, s8, s15,
                     s10, s11, s12, s13, s14, s17, taps>>
  BY DEF AtList!Fetch, AtList!boxVars, AtList!serverVars, AtList!basketVars
<1> DEFINE all == AtList!Found(s3 /\ s1.search # "here", s5)
<1>2. all \subseteq AtList!Rows /\ Cardinality(all) \in Nat
  BY FoundIsCounted
<1>3. AtList!Asked = [rows |-> AtList!OnPage(all, s6), fit |-> AtList!OnPage(all, s6) \cap s8, total |-> Cardinality(all), to |-> <<s3, s5>>]
  BY RowsCounted DEF AtList!Asked
<1>4. s1.search # "here" => all = AtList!Found(s3, s5)
  BY DEF AtList!Found
<1>5. s3 \in BOOLEAN /\ s5 \in BOOLEAN /\ s8 \subseteq AtList!Rows
  BY DEF ListsTyped
<1> HIDE DEF all
<1>6. AtList!OnPage(all, s6) \subseteq AtList!Rows
  BY <1>2 DEF AtList!OnPage
<1>7. s9' \in AtList!Answer
  BY <1>1, <1>2, <1>3, <1>5, <1>6 DEF AtList!Answer
<1>8. ListsTyped'
  BY <1>1, <1>7 DEF ListsTyped
<1>9. AllAreThere' /\ AddressIsAsked' /\ NeverTurned' /\ AtList!BasketSurvives'
  BY <1>1 DEF AllAreThere, AddressIsAsked, NeverTurned, AtList!BasketSurvives
<1>10. PageIsThere'
  BY <1>1 DEF PageIsThere, AtList!Found
<1>11. SeenIsCounted'
  <2> SUFFICES ASSUME s1.search # "here" PROVE s9'.total <= Cardinality(AtList!Found(s9.to[1], s9.to[2])')
    BY <1>1 DEF SeenIsCounted
  <2>1. s9'.to[1] = s3 /\ s9'.to[2] = s5 /\ s9'.total = Cardinality(all)
    BY <1>1, <1>3
  <2>2. AtList!Found(s9.to[1], s9.to[2])' = AtList!Found(s3, s5)
    BY <1>1, <1>5, <2>1 DEF AtList!Found
  <2> QED
    BY <1>2, <1>4, <2>1, <2>2
<1> QED
  BY <1>8, <1>9, <1>10, <1>11

\* The page is the first, or as it was over no fewer rows.
LEMMA PageStays ==
  ASSUME ListsInv, UNCHANGED <<s1, s7, s8, s15, s16>>, s3' \in BOOLEAN, s5' \in BOOLEAN,
         s6' = 0 \/ (s6' = s6 /\ s5' = s5 /\ (s1.address => s3' = s3 \/ ~s3'))
  PROVE  NeverTurned' /\ PageIsThere'
<1> USE DEF ListsInv
<1>1. NeverTurned'
  BY DEF NeverTurned
<1>2. PageIsThere'
  <2> SUFFICES ASSUME s1.address, ~s15, ~s16, s6' # 0 PROVE s6' * PageSize < Cardinality(AtList!Found(s3, s5)')
    BY DEF PageIsThere
  <2>1. s6' = s6 /\ s5' = s5 /\ s6 * PageSize < Cardinality(AtList!Found(s3, s5))
    BY DEF PageIsThere
  <2>2. AtList!Found(s3, s5) \subseteq AtList!Found(s3, s5)'
    BY <2>1 DEF AtList!Found, ListsTyped
  <2>3. AtList!Found(s3, s5)' \subseteq AtList!Rows
    BY DEF AtList!Found, ListsTyped
  <2>4. Cardinality(AtList!Found(s3, s5)) <= Cardinality(AtList!Found(s3, s5)')
    BY <2>2, <2>3, RowsAreFinite, FS_Subset
  <2>5. Cardinality(AtList!Found(s3, s5)) \in Nat /\ Cardinality(AtList!Found(s3, s5)') \in Nat /\ s6 * PageSize \in Nat
    BY <2>3, RowsAreFinite, FoundIsCounted, PagesAssumption DEF ListsTyped, AtList!ListsAssumption
  <2> QED
    BY <2>1, <2>4, <2>5
<1> QED
  BY <1>1, <1>2

LEMMA ListIsSearched ==
  ASSUME ListsInv, AtList!TypeWord \/ AtList!LandsInUrl \/ AtList!ChooseFilter \/ AtList!ClearFilters \/ AtList!Sidebar PROVE ListsInv'
<1> USE DEF ListsInv
<1>1. UNCHANGED <<s1, AtList!serverVars, AtList!basketVars>> /\ AtList!AskAnew /\ s16' = s16
  BY DEF AtList!TypeWord, AtList!LandsInUrl, AtList!ChooseFilter, AtList!ClearFilters, AtList!Sidebar
<1>2. taps' \in Nat
  BY DEF AtList!TypeWord, AtList!LandsInUrl, AtList!ChooseFilter, AtList!ClearFilters, AtList!Sidebar,
     AtList!Tap, ListsTyped
<1>3. /\ s2' \in BOOLEAN /\ s3' \in BOOLEAN /\ s4' \in BOOLEAN /\ s5' \in BOOLEAN
      /\ (s6' = 0 \/ s6' = s6)
  BY DEF AtList!TypeWord, AtList!LandsInUrl, AtList!Debounced, AtList!ChooseFilter, AtList!ClearFilters,
     AtList!Sidebar, ListsTyped
<1>4. s6' \in Nat /\ s16' \in BOOLEAN
  BY <1>1, <1>3 DEF ListsTyped
<1>5. s1.address => s1.search = "quiet"
  BY ListsAreKnown DEF ListsTyped
<1>6. AddressIsAsked'
  BY <1>1, <1>5 DEF AddressIsAsked, AtList!TypeWord, AtList!LandsInUrl, AtList!Debounced,
     AtList!ChooseFilter, AtList!ClearFilters, AtList!Sidebar, ListsTyped
<1>7. s6' = 0 \/ (s6' = s6 /\ s5' = s5 /\ (s1.address => s3' = s3 \/ ~s3'))
  BY <1>5 DEF AddressIsAsked, AtList!TypeWord, AtList!LandsInUrl, AtList!Debounced, AtList!ChooseFilter,
     AtList!ClearFilters, AtList!Sidebar, ListsTyped
<1>8. NeverTurned' /\ PageIsThere'
  BY <1>1, <1>3, <1>7, PageStays DEF AtList!serverVars
<1> QED
  BY <1>1, <1>2, <1>3, <1>4, <1>6, <1>8, OfTheBox

LEMMA LargerOfTwo == ASSUME NEW y \in Int PROVE AtList!Max({1, y}) = IF y >= 1 THEN y ELSE 1
<1>1. \E x \in {1, y} : \A z \in {1, y} : x >= z
  OBVIOUS
<1>2. AtList!Max({1, y}) \in {1, y} /\ \A z \in {1, y} : AtList!Max({1, y}) >= z
  BY <1>1 DEF AtList!Max
<1> QED
  BY <1>2

LEMMA ListIsTurned == ASSUME ListsInv, AtList!NextPage \/ AtList!PreviousPage PROVE ListsInv'
<1> USE DEF ListsInv
<1>0. PageSize \in Nat \ {0} /\ s6 \in Nat
  BY PagesAssumption DEF AtList!ListsAssumption, ListsTyped
<1>1. /\ AtList!Pager /\ AtList!AskAnew /\ taps' = taps + 1
      /\ UNCHANGED <<s1, AtList!serverVars, AtList!basketVars>> /\ UNCHANGED <<s2, s3, s4, s5>>
  BY DEF AtList!NextPage, AtList!PreviousPage, AtList!Tap
<1>2. /\ s2' \in BOOLEAN /\ s3' \in BOOLEAN /\ s4' \in BOOLEAN /\ s5' \in BOOLEAN
      /\ s16' \in BOOLEAN /\ taps' \in Nat /\ AddressIsAsked'
  <2>1. s16' \in BOOLEAN
    BY DEF AtList!NextPage, AtList!PreviousPage, ListsTyped
  <2>2. taps' \in Nat
    BY <1>1 DEF ListsTyped
  <2> QED
    BY <1>1, <2>1, <2>2 DEF ListsTyped, AddressIsAsked
<1>3. NeverTurned'
  BY <1>1 DEF AtList!Pager, NeverTurned
<1>4. CASE AtList!NextPage
  <2>1. s6 + 1 < AtList!PageCount /\ s6' = s6 + 1 /\ (~s16' => ~s16 /\ s9.to = <<s3, s5>>)
    BY <1>4 DEF AtList!NextPage
  <2>2. s9.total \in Nat
    BY DEF ListsTyped, AtList!Answer
  <2>3. s6 + 1 < (s9.total + PageSize - 1) \div PageSize
    <3>1. (s9.total + PageSize - 1) \div PageSize \in Int
      BY <1>0, <2>2
    <3> QED
      BY <1>0, <2>1, <3>1, LargerOfTwo DEF AtList!PageCount
  <2>4. (s6 + 1) * PageSize < s9.total
    BY <1>0, <2>2, <2>3, PageBegins
  <2>5. PageIsThere'
    <3> SUFFICES ASSUME s1.address, ~s15, ~s16' PROVE s6' * PageSize < Cardinality(AtList!Found(s3, s5)')
      BY <1>1 DEF PageIsThere, AtList!serverVars
    <3>1. AtList!Found(s3, s5)' = AtList!Found(s3, s5)
      BY <1>1 DEF AtList!Found, AtList!serverVars
    <3>2. AtList!Found(s9.to[1], s9.to[2]) = AtList!Found(s3, s5)
      BY <2>1 DEF AtList!Found
    <3>3. s1.search # "here"
      BY ListsAreKnown DEF ListsTyped
    <3>4. s9.total <= Cardinality(AtList!Found(s3, s5))
      BY <3>2, <3>3 DEF SeenIsCounted
    <3>5. Cardinality(AtList!Found(s3, s5)) \in Nat /\ (s6 + 1) * PageSize \in Nat
      BY <1>0, FoundIsCounted
    <3> QED
      BY <2>1, <2>2, <2>4, <3>1, <3>4, <3>5
  <2>6. s6' \in Nat
    BY <1>0, <2>1
  <2> QED
    BY <1>1, <1>2, <1>3, <2>5, <2>6, OfTheBox
<1>5. CASE AtList!PreviousPage
  <2>1. s6 > 0 /\ s6' = s6 - 1 /\ s16' = s16
    BY <1>5 DEF AtList!PreviousPage
  <2>2. s6' \in Nat /\ s6' * PageSize <= s6 * PageSize
    <3>1. s6 * PageSize = (s6 - 1) * PageSize + PageSize /\ (s6 - 1) * PageSize \in Int
      BY <1>0
    <3> QED
      BY <1>0, <2>1, <3>1
  <2>3. PageIsThere'
    <3> SUFFICES ASSUME s1.address, ~s15, ~s16 PROVE s6' * PageSize < Cardinality(AtList!Found(s3, s5)')
      BY <1>1, <2>1 DEF PageIsThere, AtList!serverVars
    <3>1. AtList!Found(s3, s5)' = AtList!Found(s3, s5)
      BY <1>1 DEF AtList!Found, AtList!serverVars
    <3>2. s6 * PageSize < Cardinality(AtList!Found(s3, s5))
      BY <1>0, <2>1 DEF PageIsThere
    <3>3. Cardinality(AtList!Found(s3, s5)) \in Nat
      BY FoundIsCounted
    <3>4. s6 * PageSize \in Nat /\ s6' * PageSize \in Nat
      <4>1. ASSUME NEW a \in Nat, NEW b \in Nat PROVE a * b \in Nat
        OBVIOUS
      <4> QED
        BY <1>0, <2>2, <4>1
    <3> QED
      BY <2>2, <3>1, <3>2, <3>3, <3>4
  <2> QED
    BY <1>1, <1>2, <1>3, <2>2, <2>3, OfTheBox
<1> QED
  BY <1>4, <1>5

LEMMA ListIsTicked ==
  ASSUME ListsInv, AtList!SelectPage \/ AtList!ClearBasket \/ AtList!OpenDialog \/ (\E r \in AtList!Rows : AtList!ToggleOne(r)) PROVE ListsInv'
<1> USE DEF ListsInv
<1>1. /\ UNCHANGED <<s1, AtList!boxVars, AtList!serverVars, s9, s14, s17>> /\ taps' = taps + 1 /\ s13' = s13
  BY DEF AtList!SelectPage, AtList!ClearBasket, AtList!OpenDialog, AtList!ToggleOne, AtList!OfBasket, AtList!Tap
<1>2. AtList!Tickable \subseteq AtList!Rows /\ s10 \subseteq AtList!Rows /\ s11 \subseteq AtList!Rows /\ s12 \subseteq AtList!Rows
  BY DEF AtList!Tickable, ListsTyped, AtList!Answer
<1>3. s12' \subseteq AtList!Rows /\ s10' \subseteq AtList!Rows /\ s11' \subseteq AtList!Rows
  BY <1>2 DEF AtList!SelectPage, AtList!ClearBasket, AtList!OpenDialog, AtList!ToggleOne, AtList!WithPage,
     AtList!WithoutPage, AtList!Meant
<1>4. s14' \in BOOLEAN /\ s13' \subseteq AtList!Rows /\ s17' \subseteq AtList!Rows
  BY <1>1 DEF ListsTyped
<1>5. taps' \in Nat
  BY <1>1 DEF ListsTyped
<1>6. AtList!BasketSurvives'
  <2> SUFFICES ASSUME s1 = AtList!CompaniesListPage, ~s14 PROVE s11' \subseteq s10'
    BY <1>1 DEF AtList!BasketSurvives
  <2>1. s11 \subseteq s10 /\ s1.selects = "adds"
    BY ListsAreKnown DEF AtList!BasketSurvives, ListsTyped
  <2> QED
    BY <2>1 DEF AtList!SelectPage, AtList!ClearBasket, AtList!OpenDialog, AtList!ToggleOne, AtList!WithPage,
       AtList!WithoutPage
<1> QED
  BY <1>1, <1>3, <1>4, <1>5, <1>6, OfTheBasket

LEMMA ListDialogs == ASSUME ListsInv, AtList!CloseDialog \/ AtList!Confirm PROVE ListsInv'
<1> USE DEF ListsInv
<1>1. UNCHANGED <<s1, AtList!boxVars, AtList!serverVars, s9, s11, s17>> /\ taps' = taps + 1
  BY DEF AtList!CloseDialog, AtList!Confirm, AtList!Tap
<1>2. s10 \subseteq AtList!Rows /\ s11 \subseteq AtList!Rows /\ s12 \subseteq AtList!Rows /\ s13 \subseteq AtList!Rows /\ s17 \subseteq AtList!Rows /\ s14 \in BOOLEAN
  BY DEF ListsTyped
<1>3. s10' \subseteq AtList!Rows /\ s11' \subseteq AtList!Rows /\ s12' \subseteq AtList!Rows /\ s13' \subseteq AtList!Rows /\ s17' \subseteq AtList!Rows /\ s14' \in BOOLEAN
  BY <1>1, <1>2 DEF AtList!CloseDialog, AtList!Confirm
<1>4. taps' \in Nat
  BY <1>1 DEF ListsTyped
<1>5. AtList!BasketSurvives'
  <2> SUFFICES ASSUME s1 = AtList!CompaniesListPage, ~s14' PROVE s11' \subseteq s10'
    BY <1>1 DEF AtList!BasketSurvives
  <2>1. ~s14
    BY DEF AtList!CloseDialog, AtList!Confirm
  <2>2. s11 \subseteq s10 /\ s1.empties = "success"
    BY <2>1, ListsAreKnown DEF AtList!BasketSurvives, ListsTyped
  <2> QED
    BY <1>1, <2>2 DEF AtList!CloseDialog, AtList!Confirm
<1> QED
  BY <1>1, <1>3, <1>4, <1>5, OfTheBasket

LEMMA ListReaches == ASSUME ListsInv, NEW r \in AtList!Rows, AtList!Reaches(r) PROVE ListsInv'
<1> USE DEF ListsInv
<1>1. UNCHANGED <<s1, AtList!boxVars, s7, s9, s14, taps>> /\ s13' = s13 \ {r}
  BY DEF AtList!Reaches
<1>2. /\ s10 \subseteq AtList!Rows /\ s11 \subseteq AtList!Rows /\ s12 \subseteq AtList!Rows /\ s13 \subseteq AtList!Rows /\ s17 \subseteq AtList!Rows
      /\ s8 \subseteq AtList!Rows /\ s7 \subseteq AtList!Rows /\ s14 \in BOOLEAN /\ taps \in Nat
  BY DEF ListsTyped
<1>3. /\ s10' \subseteq AtList!Rows /\ s11' \subseteq AtList!Rows /\ s12' \subseteq AtList!Rows
      /\ \/ s11' = s11 /\ s10' = s10
         \/ s10' = {} /\ s11' = s11 \ (s10 \cup s12)
  <2>1. CASE s13' = {}
    <3>1. \/ s12' = {} /\ s10' = {} /\ s11' = s11 \ (s10 \cup s12)
          \/ UNCHANGED <<s12, s10, s11>>
      BY <2>1 DEF AtList!Reaches
    <3> QED
      BY <1>2, <3>1
  <2>2. CASE s13' # {}
    <3>1. UNCHANGED <<s12, s10, s11>>
      BY <2>2 DEF AtList!Reaches
    <3> QED
      BY <1>2, <3>1
  <2> QED
    BY <2>1, <2>2
<1>4. s13' \subseteq AtList!Rows /\ s7' \subseteq AtList!Rows /\ s14' \in BOOLEAN /\ taps' \in Nat
  BY <1>1, <1>2
<1>5. AtList!BasketSurvives'
  BY <1>1, <1>3 DEF AtList!BasketSurvives
<1>6. CASE UNCHANGED <<s8, s15, s17>>
  <2>1. UNCHANGED <<s1, AtList!boxVars, AtList!serverVars, s9>> /\ s17' \subseteq AtList!Rows
    BY <1>1, <1>2, <1>6 DEF AtList!serverVars
  <2> QED
    BY <1>3, <1>4, <1>5, <2>1, OfTheBasket
<1>7. CASE s8' = s8 \ {r} /\ s15' = TRUE /\ s17' = IF r \in s8 THEN s17 ELSE s17 \cup {r}
  <2>1. s8' \subseteq AtList!Rows /\ s17' \subseteq AtList!Rows
    BY <1>2, <1>7
  <2> QED
    BY <1>1, <1>3, <1>4, <1>5, <1>7, <2>1, RowsGo
<1> QED
  BY <1>6, <1>7 DEF AtList!Reaches

LEMMA ListDecided == ASSUME ListsInv, NEW r \in AtList!Rows, AtList!ColleagueDecides(r) \/ AtList!ColleagueDeletes(r) PROVE ListsInv'
<1> USE DEF ListsInv
<1>1. UNCHANGED <<s1, AtList!boxVars, s9, AtList!basketVars>> /\ s15' = TRUE /\ taps' = taps + 1
  BY DEF AtList!ColleagueDecides, AtList!ColleagueDeletes, AtList!Tap
<1>2. UNCHANGED <<s10, s11, s12, s13, s14, s17>>
  BY <1>1 DEF AtList!basketVars
<1>3. s7' \subseteq AtList!Rows /\ s8' \subseteq AtList!Rows
  BY DEF AtList!ColleagueDecides, AtList!ColleagueDeletes, ListsTyped
<1>4. taps' \in Nat
  BY <1>1 DEF ListsTyped
<1>5. /\ s10' \subseteq AtList!Rows /\ s11' \subseteq AtList!Rows /\ s12' \subseteq AtList!Rows /\ s13' \subseteq AtList!Rows /\ s17' \subseteq AtList!Rows
      /\ s14' \in BOOLEAN
  BY <1>2 DEF ListsTyped
<1>6. AtList!BasketSurvives'
  BY <1>1, <1>2 DEF AtList!BasketSurvives
<1> QED
  BY <1>1, <1>3, <1>4, <1>5, <1>6, RowsGo

LEMMA ListsStay == ASSUME ListsInv, [AtList!ListsNext]_AtList!listVars PROVE ListsInv'
<1>1. CASE UNCHANGED AtList!listVars
  BY <1>1 DEF AtList!listVars, ListsInv, ListsTyped, AddressIsAsked, NeverTurned, AllAreThere, SeenIsCounted,
     PageIsThere,
              AtList!BasketSurvives, AtList!Found
<1>2. CASE AtList!Fetch \/ AtList!TypeWord \/ AtList!LandsInUrl \/ AtList!ChooseFilter \/ AtList!ClearFilters \/ AtList!Sidebar
  BY <1>2, ListIsFetched, ListIsSearched
<1>3. CASE AtList!NextPage \/ AtList!PreviousPage
  BY <1>3, ListIsTurned
<1>4. CASE AtList!SelectPage \/ AtList!ClearBasket \/ AtList!OpenDialog
  BY <1>4, ListIsTicked
<1>5. CASE AtList!CloseDialog \/ AtList!Confirm
  BY <1>5, ListDialogs
<1>6. ASSUME NEW r \in AtList!Rows, AtList!ToggleOne(r) \/ AtList!Reaches(r) \/ AtList!ColleagueDecides(r) \/ AtList!ColleagueDeletes(r) PROVE ListsInv'
  BY <1>6, ListIsTicked, ListReaches, ListDecided
<1> QED
  BY <1>1, <1>2, <1>3, <1>4, <1>5, <1>6 DEF AtList!ListsNext

-----------------------------------------------------------------------------
(***************************************************************************)
(* The search.                                                              *)
(***************************************************************************)
SearchTyped ==
  /\ s1 \in BOOLEAN /\ s9 \in BOOLEAN /\ s10 \in BOOLEAN /\ s2 \in SearchWords /\ s3 \in SearchWords
  /\ s4 \in {Before, After} /\ s5 \in [AtSearch!Asked -> AtSearch!Lists \cup {None}] /\ s6 \subseteq AtSearch!Asked
  /\ s7 \in AtSearch!Shown /\ s8 \in AtSearch!Asked \cup {None} /\ s11 \in 0 .. Len(s7.hits)
  /\ s12 \in AtSearch!Hits \cup {None} /\ s13 \in AtSearch!Opened \cup {None} /\ taps \in Nat

\* The number that is highlighted is that of the hit the user pointed at.
PointedIsActive == IF s11 = 0 THEN s12 = None ELSE s12 = s7.hits[s11]

\* The word's own hits are on screen once they are known, or their absence once it is.
WordIsShown ==
  s3 \in AtSearch!Asked =>
    /\ (s5[s3] # None => s7 = [of |-> s3, hits |-> s5[s3]])
    /\ (s5[s3] = None /\ s3 \notin s6 => s7.of = s3)
LastIsKnown == s8 # None => s5[s8] # None

SearchInv == SearchTyped /\ PointedIsActive /\ WordIsShown /\ LastIsKnown /\ AtSearch!OpensWhatIsPointed

LEMMA SearchShows == SearchInv => AtSearch!OpensWhatIsPointed /\ AtSearch!HitsAreOfTheWord
<1> SUFFICES ASSUME SearchInv, s3 \notin Short, s3 \notin s6 PROVE s7.of = s3
  BY DEF SearchInv, AtSearch!HitsAreOfTheWord
<1>1. s3 \in AtSearch!Asked
  BY DEF SearchInv, SearchTyped, AtSearch!Asked
<1> QED
  BY <1>1 DEF SearchInv, WordIsShown

LEMMA ListsAreOfHits == ASSUME NEW h \in AtSearch!Lists PROVE h \in Seq(AtSearch!Hits) /\ h # None
<1>1. Before \in [AtSearch!Asked -> Seq(AtSearch!Hits)] /\ After \in [AtSearch!Asked -> Seq(AtSearch!Hits)] /\ None \notin AtSearch!Lists
  BY PagesAssumption DEF AtSearch!SearchAssumption
<1>2. << >> \in Seq(AtSearch!Hits)
  OBVIOUS
<1> QED
  BY <1>1, <1>2 DEF AtSearch!Lists

LEMMA AnswersAreLists == ASSUME SearchTyped, NEW w \in AtSearch!Asked PROVE s4[w] \in AtSearch!Lists /\ s4[w] # None
<1>1. s4[w] \in AtSearch!Lists
  BY DEF SearchTyped, AtSearch!Lists
<1> QED
  BY <1>1, ListsAreOfHits

LEMMA SearchStarts == AtSearch!SearchInit => SearchInv
<1> SUFFICES ASSUME AtSearch!SearchInit PROVE SearchInv
  OBVIOUS
<1>1. /\ s1 \in BOOLEAN /\ s2 \in Short /\ s3 = s2 /\ s4 = Before
      /\ s5 = [w \in AtSearch!Asked |-> None] /\ s6 = {} /\ s7 = [of |-> None, hits |-> << >>]
      /\ s8 = None
      /\ s9 = FALSE /\ s10 = FALSE /\ s11 = 0 /\ s12 = None /\ s13 = None /\ taps = 0
  BY DEF AtSearch!SearchInit
<1>2. Short \subseteq SearchWords /\ << >> \in AtSearch!Lists /\ Len(<< >>) = 0
  BY PagesAssumption DEF AtSearch!SearchAssumption, AtSearch!Lists
<1>3. s7 \in AtSearch!Shown
  BY <1>1, <1>2 DEF AtSearch!Shown
<1>4. SearchTyped
  <2>1. s5 \in [AtSearch!Asked -> AtSearch!Lists \cup {None}] /\ s6 \subseteq AtSearch!Asked
    BY <1>1
  <2>2. s11 \in 0 .. Len(s7.hits) /\ taps \in Nat
    BY <1>1, <1>2
  <2>3. s2 \in SearchWords /\ s3 \in SearchWords /\ s4 \in {Before, After}
    BY <1>1, <1>2
  <2> QED
    BY <1>1, <1>3, <2>1, <2>2, <2>3 DEF SearchTyped
<1>5. PointedIsActive /\ LastIsKnown /\ AtSearch!OpensWhatIsPointed
  BY <1>1 DEF PointedIsActive, LastIsKnown, AtSearch!OpensWhatIsPointed
<1>6. WordIsShown
  BY <1>1 DEF WordIsShown, AtSearch!Asked
<1> QED
  BY <1>4, <1>5, <1>6 DEF SearchInv

\* Nothing but the field changes.
LEMMA OfTheField ==
  ASSUME SearchInv, UNCHANGED <<s1, AtSearch!queryVars, s11, s12, s13>>,
         s2' \in SearchWords, s9' \in BOOLEAN, s10' \in BOOLEAN, taps' \in Nat
  PROVE  SearchInv'
<1> USE DEF SearchInv
<1>1. UNCHANGED <<s1, s3, s4, s5, s6, s7, s8, s11, s12, s13>>
  BY DEF AtSearch!queryVars
<1>2. SearchTyped'
  BY <1>1 DEF SearchTyped
<1>3. PointedIsActive' /\ LastIsKnown' /\ AtSearch!OpensWhatIsPointed' /\ WordIsShown'
  BY <1>1 DEF PointedIsActive, LastIsKnown, AtSearch!OpensWhatIsPointed, WordIsShown
<1> QED
  BY <1>2, <1>3

LEMMA InTheField ==
  ASSUME SearchInv,
         (\E w \in SearchWords : AtSearch!TypeWord(w)) \/ AtSearch!Focus \/ AtSearch!Leave \/ (\E empty \in Short : AtSearch!Clear(empty))
  PROVE  SearchInv'
<1>1. UNCHANGED <<s1, AtSearch!queryVars, s11, s12, s13>>
  BY DEF AtSearch!TypeWord, AtSearch!Focus, AtSearch!Leave, AtSearch!Clear
<1>2. s2' \in SearchWords
  BY PagesAssumption DEF AtSearch!TypeWord, AtSearch!Focus, AtSearch!Leave, AtSearch!Clear, SearchInv,
     SearchTyped, AtSearch!SearchAssumption
<1>3. s9' \in BOOLEAN /\ s10' \in BOOLEAN
  BY DEF AtSearch!TypeWord, AtSearch!Focus, AtSearch!Leave, AtSearch!Clear, SearchInv, SearchTyped
<1>4. taps' \in Nat
  <2>1. taps' = taps \/ taps' = taps + 1
    BY DEF AtSearch!TypeWord, AtSearch!Focus, AtSearch!Leave, AtSearch!Clear, AtSearch!Tap
  <2> QED
    BY <2>1 DEF SearchInv, SearchTyped
<1> QED
  BY <1>1, <1>2, <1>3, <1>4, OfTheField

\* A list put on screen is a list, with nothing highlighted.
LEMMA ShowsList ==
  ASSUME NEW w \in AtSearch!Asked \cup {None}, NEW h \in AtSearch!Lists, AtSearch!Shows([of |-> w, hits |-> h])
  PROVE  /\ s7' \in AtSearch!Shown /\ s7'.of = w /\ s7'.hits = h
         /\ s11' \in 0 .. Len(s7'.hits) /\ s12' \in AtSearch!Hits \cup {None} /\ PointedIsActive'
<1>1. s7' = [of |-> w, hits |-> h] /\ s11' = 0 /\ s12' = None
  BY DEF AtSearch!Shows
<1>2. Len(h) \in Nat
  BY ListsAreOfHits
<1> QED
  BY <1>1, <1>2 DEF AtSearch!Shown, PointedIsActive

\* What is on screen stays a list, and its highlight a number of it.
HitsOnScreen ==
  /\ s7 \in AtSearch!Shown /\ s8 \in AtSearch!Asked \cup {None} /\ s11 \in 0 .. Len(s7.hits)
  /\ s12 \in AtSearch!Hits \cup {None} /\ PointedIsActive

LEMMA KeepsScreen ==
  ASSUME SearchInv, UNCHANGED AtSearch!hitVars \/ AtSearch!KeepsPrevious
  PROVE  HitsOnScreen' /\ (s8' # None => s8 = s8') /\ s8' = s8
<1> USE DEF SearchInv
<1>1. CASE UNCHANGED AtSearch!hitVars
  BY <1>1 DEF AtSearch!hitVars, HitsOnScreen, SearchTyped, PointedIsActive
<1>2. CASE AtSearch!KeepsPrevious /\ s7.of # s8
  <2> DEFINE h == IF s8 = None THEN << >> ELSE s5[s8]
  <2>1. AtSearch!Shows([of |-> s8, hits |-> h]) /\ s8' = s8
    BY <1>2 DEF AtSearch!KeepsPrevious
  <2>2. h \in AtSearch!Lists /\ s8 \in AtSearch!Asked \cup {None}
    BY DEF SearchTyped, LastIsKnown, AtSearch!Lists
  <2> HIDE DEF h
  <2> QED
    BY <2>1, <2>2, ShowsList DEF HitsOnScreen
<1>3. CASE AtSearch!KeepsPrevious /\ s7.of = s8
  BY <1>1, <1>3 DEF AtSearch!KeepsPrevious
<1> QED
  BY <1>1, <1>2, <1>3

LEMMA BringsHits ==
  ASSUME SearchInv, NEW w \in AtSearch!Asked, NEW h \in AtSearch!Lists, AtSearch!Brings(w, h)
  PROVE  HitsOnScreen' /\ s8' = w /\ s7' = [of |-> w, hits |-> h]
<1>1. AtSearch!Shows([of |-> w, hits |-> h]) /\ s8' = w
  BY DEF AtSearch!Brings
<1>2. HitsOnScreen'
  BY <1>1, ShowsList DEF HitsOnScreen
<1> QED
  BY <1>1, <1>2 DEF AtSearch!Shows

LEMMA SearchQuiets == ASSUME SearchInv, NEW aged \in BOOLEAN, AtSearch!Debounced(aged) PROVE SearchInv'
<1> USE DEF SearchInv
<1>1. /\ s3' = s2
      /\ UNCHANGED <<s1, s2, s9, s10, s4, s5, s13, taps>>
  BY DEF AtSearch!Debounced, AtSearch!fieldVars
<1>2. AtSearch!OpensWhatIsPointed'
  BY <1>1 DEF AtSearch!OpensWhatIsPointed
<1>3. ASSUME HitsOnScreen', s6' \subseteq AtSearch!Asked, LastIsKnown', WordIsShown' PROVE SearchInv'
  BY <1>1, <1>2, <1>3 DEF SearchTyped, HitsOnScreen
<1>4. CASE s2 \in Short
  <2>1. s6' = s6 /\ AtSearch!KeepsPrevious
    BY <1>4 DEF AtSearch!Debounced
  <2>2. HitsOnScreen' /\ s8' = s8
    BY <2>1, KeepsScreen
  <2>3. WordIsShown' /\ LastIsKnown'
    BY <1>1, <1>4, <2>2 DEF WordIsShown, LastIsKnown, AtSearch!Asked
  <2> QED
    BY <1>3, <2>1, <2>2, <2>3 DEF SearchTyped
<1>5. CASE s2 \notin Short
  <2>0. s2 \in AtSearch!Asked
    BY <1>5 DEF SearchTyped, AtSearch!Asked
  <2>1. s6' = (IF s5[s2] = None \/ aged THEN s6 \cup {s2} ELSE s6)
    BY <1>5 DEF AtSearch!Debounced
  <2>2. s6' \subseteq AtSearch!Asked
    BY <2>0, <2>1 DEF SearchTyped
  <2>3. CASE s5[s2] = None
    <3>1. AtSearch!KeepsPrevious
      BY <1>5, <2>3 DEF AtSearch!Debounced
    <3>2. HitsOnScreen' /\ s8' = s8
      BY <3>1, KeepsScreen
    <3>3. WordIsShown' /\ LastIsKnown'
      BY <1>1, <2>1, <2>3, <3>2 DEF WordIsShown, LastIsKnown
    <3> QED
      BY <1>3, <2>2, <3>2, <3>3
  <2>4. CASE s5[s2] # None /\ s7 = [of |-> s2, hits |-> s5[s2]]
    <3>1. UNCHANGED AtSearch!hitVars
      BY <1>5, <2>4 DEF AtSearch!Debounced
    <3>2. HitsOnScreen' /\ s8' = s8 /\ s7' = s7
      BY <3>1, KeepsScreen DEF AtSearch!hitVars
    <3>3. WordIsShown' /\ LastIsKnown'
      BY <1>1, <2>4, <3>2 DEF WordIsShown, LastIsKnown
    <3> QED
      BY <1>3, <2>2, <3>2, <3>3
  <2>5. CASE s5[s2] # None /\ s7 # [of |-> s2, hits |-> s5[s2]]
    <3>1. AtSearch!Brings(s2, s5[s2])
      BY <1>5, <2>5 DEF AtSearch!Debounced
    <3>2. s5[s2] \in AtSearch!Lists
      BY <2>0, <2>5 DEF SearchTyped
    <3>3. HitsOnScreen' /\ s8' = s2 /\ s7' = [of |-> s2, hits |-> s5[s2]]
      BY <2>0, <3>1, <3>2, BringsHits
    <3>4. WordIsShown' /\ LastIsKnown'
      BY <1>1, <2>5, <3>3 DEF WordIsShown, LastIsKnown
    <3> QED
      BY <1>3, <2>2, <3>3, <3>4
  <2> QED
    BY <2>3, <2>4, <2>5
<1> QED
  BY <1>4, <1>5

LEMMA SearchAnswers ==
  ASSUME SearchInv, NEW w \in AtSearch!Asked, AtSearch!HitsArrive(w) \/ AtSearch!HitsFail(w) PROVE SearchInv'
<1> USE DEF SearchInv
<1>1. /\ s6' = s6 \ {w}
      /\ UNCHANGED <<s1, s2, s9, s10, s3, s4, s13, taps>>
  BY DEF AtSearch!HitsArrive, AtSearch!HitsFail, AtSearch!fieldVars
<1>2. AtSearch!OpensWhatIsPointed'
  BY <1>1 DEF AtSearch!OpensWhatIsPointed
<1>3. ASSUME HitsOnScreen', s5' \in [AtSearch!Asked -> AtSearch!Lists \cup {None}], LastIsKnown', WordIsShown' PROVE SearchInv'
  <2>1. SearchTyped'
    BY <1>1, <1>3 DEF SearchTyped, HitsOnScreen
  <2> QED
    BY <1>2, <1>3, <2>1 DEF HitsOnScreen
<1>4. CASE AtSearch!HitsArrive(w)
  <2>1. s5' = [s5 EXCEPT ![w] = s4[w]] /\ s4[w] \in AtSearch!Lists /\ s4[w] # None
    BY <1>4, AnswersAreLists DEF AtSearch!HitsArrive
  <2>2. s5' \in [AtSearch!Asked -> AtSearch!Lists \cup {None}] /\ s5'[w] = s4[w] /\ \A v \in AtSearch!Asked \ {w} : s5'[v] = s5[v]
    BY <2>1 DEF SearchTyped
  <2>3. CASE w = s3 /\ s5[w] # s4[w]
    <3>1. HitsOnScreen' /\ s8' = w /\ s7' = [of |-> w, hits |-> s4[w]]
      BY <1>4, <2>1, <2>3, BringsHits DEF AtSearch!HitsArrive
    <3>2. LastIsKnown' /\ WordIsShown'
      BY <1>1, <2>1, <2>2, <2>3, <3>1 DEF LastIsKnown, WordIsShown
    <3> QED
      BY <1>3, <2>2, <3>1, <3>2
  <2>4. CASE ~(w = s3 /\ s5[w] # s4[w])
    <3>1. UNCHANGED AtSearch!hitVars
      BY <1>4, <2>4 DEF AtSearch!HitsArrive
    <3>2. HitsOnScreen' /\ s8' = s8 /\ s7' = s7
      BY <3>1, KeepsScreen DEF AtSearch!hitVars
    <3>3. LastIsKnown'
      BY <2>1, <2>2, <3>2 DEF LastIsKnown, SearchTyped
    <3>4. WordIsShown'
      BY <1>1, <2>1, <2>2, <2>4, <3>2 DEF WordIsShown
    <3> QED
      BY <1>3, <2>2, <3>2, <3>3, <3>4
  <2> QED
    BY <2>3, <2>4
<1>5. CASE AtSearch!HitsFail(w)
  <2>1. s5' = s5 /\ s5' \in [AtSearch!Asked -> AtSearch!Lists \cup {None}]
    BY <1>5 DEF AtSearch!HitsFail, SearchTyped
  <2>2. CASE w = s3 /\ s5[w] = None
    <3>1. AtSearch!Shows([of |-> w, hits |-> << >>]) /\ s8' = s8 /\ << >> \in AtSearch!Lists
      BY <1>5, <2>2 DEF AtSearch!HitsFail, AtSearch!Lists
    <3>2. HitsOnScreen' /\ s7'.of = w
      BY <3>1, ShowsList DEF HitsOnScreen, SearchTyped
    <3>3. LastIsKnown' /\ WordIsShown'
      BY <1>1, <2>1, <2>2, <3>1, <3>2 DEF LastIsKnown, WordIsShown
    <3> QED
      BY <1>3, <2>1, <3>2, <3>3
  <2>3. CASE ~(w = s3 /\ s5[w] = None)
    <3>1. UNCHANGED AtSearch!hitVars
      BY <1>5, <2>3 DEF AtSearch!HitsFail
    <3>2. HitsOnScreen' /\ s8' = s8 /\ s7' = s7
      BY <3>1, KeepsScreen DEF AtSearch!hitVars
    <3>3. LastIsKnown' /\ WordIsShown'
      BY <1>1, <2>1, <2>3, <3>2 DEF LastIsKnown, WordIsShown
    <3> QED
      BY <1>3, <2>1, <3>2, <3>3
  <2> QED
    BY <2>2, <2>3
<1> QED
  BY <1>4, <1>5

LEMMA AnswersChange == ASSUME SearchInv, AtSearch!Colleague PROVE SearchInv'
<1> USE DEF SearchInv
<1>1. /\ s4' = After /\ taps' = taps + 1
      /\ UNCHANGED <<s1, s2, s9, s10, s3, s5, s6, s7, s8, s11, s12, s13>>
  BY DEF AtSearch!Colleague, AtSearch!Tap, AtSearch!fieldVars, AtSearch!hitVars
<1>2. taps' \in Nat
  BY <1>1 DEF SearchTyped
<1>3. SearchTyped'
  BY <1>1, <1>2 DEF SearchTyped
<1>4. PointedIsActive' /\ LastIsKnown' /\ AtSearch!OpensWhatIsPointed' /\ WordIsShown'
  BY <1>1 DEF PointedIsActive, LastIsKnown, AtSearch!OpensWhatIsPointed, WordIsShown
<1> QED
  BY <1>3, <1>4

LEMMA NumbersGoRound ==
  ASSUME NEW n \in Nat, n # 0, NEW a \in 0 .. n
  PROVE  (a % n) + 1 \in 1 .. n /\ (IF a <= 1 THEN n ELSE a - 1) \in 1 .. n
OBVIOUS

LEMMA PointsAtHit == ASSUME SearchInv, AtSearch!PointAtHit PROVE SearchInv'
<1> USE DEF SearchInv
<1>1. /\ taps' = taps + 1
      /\ UNCHANGED <<s1, s2, s9, s10, s3, s4, s5, s6, s7, s8, s13>>
  BY DEF AtSearch!PointAtHit, AtSearch!Tap, AtSearch!fieldVars, AtSearch!queryVars
<1>2. s7.hits \in Seq(AtSearch!Hits) /\ Len(s7.hits) \in Nat /\ DOMAIN s7.hits = 1 .. Len(s7.hits)
  <2>1. s7.hits \in AtSearch!Lists
    BY DEF SearchTyped, AtSearch!Shown
  <2> QED
    BY <2>1, ListsAreOfHits
<1>3. Len(s7.hits) # 0
  BY <1>2 DEF AtSearch!PointAtHit, AtSearch!ArrowDown, AtSearch!ArrowUp, AtSearch!Hover, AtSearch!ShowsPanel
<1>4. PICK k \in 1 .. Len(s7.hits) : s11' = k /\ s12' = s7.hits[k]
  <2>1. (s11 % Len(s7.hits)) + 1 \in 1 .. Len(s7.hits)
    BY <1>2, <1>3, NumbersGoRound DEF SearchTyped
  <2>2. (IF s11 <= 1 THEN Len(s7.hits) ELSE s11 - 1) \in 1 .. Len(s7.hits)
    BY <1>2, <1>3, NumbersGoRound DEF SearchTyped
  <2>3. CASE AtSearch!ArrowDown
    BY <2>1, <2>3 DEF AtSearch!ArrowDown, AtSearch!Highlights
  <2>4. CASE AtSearch!ArrowUp
    BY <2>2, <2>4 DEF AtSearch!ArrowUp, AtSearch!Highlights
  <2>5. CASE \E k \in 1 .. 2 : AtSearch!Hover(k)
    BY <1>2, <2>5 DEF AtSearch!Hover, AtSearch!Highlights
  <2> QED
    BY <2>3, <2>4, <2>5 DEF AtSearch!PointAtHit
<1>5. s12' \in AtSearch!Hits /\ s11' \in 0 .. Len(s7'.hits) /\ s11' # 0 /\ taps' \in Nat
  BY <1>1, <1>2, <1>4 DEF SearchTyped
<1>6. SearchTyped'
  BY <1>1, <1>5 DEF SearchTyped
<1>7. PointedIsActive' /\ LastIsKnown' /\ AtSearch!OpensWhatIsPointed' /\ WordIsShown'
  BY <1>1, <1>4, <1>5 DEF PointedIsActive, LastIsKnown, AtSearch!OpensWhatIsPointed, WordIsShown
<1> QED
  BY <1>6, <1>7

LEMMA EnterOpensHit == ASSUME SearchInv, NEW empty \in Short, AtSearch!Enter(empty) PROVE SearchInv'
<1> USE DEF SearchInv
<1> DEFINE o == [hit |-> s7.hits[AtSearch!Target], top |-> Head(s7.hits), pointed |-> s12,
                 of |-> s7.of, word |-> s2]
<1>1. /\ taps' = taps + 1 /\ s13' = o /\ s2' = empty /\ s9' = FALSE /\ s10' = FALSE
      /\ UNCHANGED <<s1, s3, s4, s5, s6, s7, s8, s11, s12>>
      /\ s7.hits # << >> /\ AtSearch!Target \in DOMAIN s7.hits
  BY DEF AtSearch!Enter, AtSearch!Tap, AtSearch!queryVars, AtSearch!ShowsPanel
<1>2. s7.hits \in Seq(AtSearch!Hits) /\ Len(s7.hits) \in Nat /\ s7.of \in AtSearch!Asked \cup {None}
  <2>1. s7.hits \in AtSearch!Lists /\ s7.of \in AtSearch!Asked \cup {None}
    BY DEF SearchTyped, AtSearch!Shown
  <2> QED
    BY <2>1, ListsAreOfHits
<1>3. Head(s7.hits) = s7.hits[1] /\ Head(s7.hits) \in AtSearch!Hits /\ s7.hits[AtSearch!Target] \in AtSearch!Hits
  BY <1>1, <1>2
<1>4. None \notin AtSearch!Hits /\ empty \in SearchWords
  BY PagesAssumption DEF AtSearch!SearchAssumption
<1>5. o \in AtSearch!Opened /\ o.hit = s7.hits[AtSearch!Target] /\ o.top = s7.hits[1] /\ o.pointed = s12
  BY <1>2, <1>3 DEF AtSearch!Opened, SearchTyped
<1>6. o.hit = IF o.pointed # None THEN o.pointed ELSE o.top
  <2>1. CASE s11 = 0
    BY <1>5, <2>1 DEF PointedIsActive, AtSearch!Target
  <2>2. CASE s11 # 0
    <3>1. AtSearch!Target = s11
      BY <2>2 DEF AtSearch!Target, SearchTyped
    <3>2. s12 = s7.hits[s11] /\ s12 # None
      BY <1>3, <1>4, <2>2, <3>1 DEF PointedIsActive
    <3> QED
      BY <1>5, <3>1, <3>2
  <2> QED
    BY <2>1, <2>2
<1> HIDE DEF o
<1>7. taps' \in Nat
  BY <1>1 DEF SearchTyped
<1>8. SearchTyped'
  BY <1>1, <1>4, <1>5, <1>7 DEF SearchTyped
<1>9. PointedIsActive' /\ LastIsKnown' /\ WordIsShown'
  BY <1>1 DEF PointedIsActive, LastIsKnown, WordIsShown
<1>10. AtSearch!OpensWhatIsPointed'
  BY <1>1, <1>6 DEF AtSearch!OpensWhatIsPointed
<1> QED
  BY <1>8, <1>9, <1>10

LEMMA SearchStays == ASSUME SearchInv, [AtSearch!SearchNext]_AtSearch!searchVars PROVE SearchInv'
<1>1. CASE UNCHANGED AtSearch!searchVars
  BY <1>1 DEF AtSearch!searchVars, SearchInv, SearchTyped, PointedIsActive, WordIsShown, LastIsKnown,
     AtSearch!OpensWhatIsPointed
<1>2. CASE (\E w \in SearchWords : AtSearch!TypeWord(w)) \/ AtSearch!Focus \/ AtSearch!Leave \/ (\E empty \in Short : AtSearch!Clear(empty))
  BY <1>2, InTheField
<1>3. ASSUME NEW aged \in BOOLEAN, AtSearch!Debounced(aged) PROVE SearchInv'
  BY <1>3, SearchQuiets
<1>4. ASSUME NEW w \in AtSearch!Asked, AtSearch!HitsArrive(w) \/ AtSearch!HitsFail(w) PROVE SearchInv'
  BY <1>4, SearchAnswers
<1>5. CASE AtSearch!Colleague \/ AtSearch!PointAtHit
  BY <1>5, AnswersChange, PointsAtHit
<1>6. ASSUME NEW empty \in Short, AtSearch!Enter(empty) PROVE SearchInv'
  BY <1>6, EnterOpensHit
<1> QED
  BY <1>1, <1>2, <1>3, <1>4, <1>5, <1>6 DEF AtSearch!SearchNext
=============================================================================
