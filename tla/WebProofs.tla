------------------------------- MODULE WebProofs -------------------------------
(***************************************************************************)
(* Theorems about the screens of the web client on the desk: the session, the  *)
(* admin console, the settings of the plan, the checkout, bulk e-mail, the     *)
(* guided tours, the dashboards and the to-dos, and the types of all that the  *)
(* desk keeps.  They hold for any accounts, organizations, plans, addresses,   *)
(* lists and tours, whatever the bounds.                                       *)
(***************************************************************************)
EXTENDS Integers, Desk, PeopleProofs, FiniteSetTheorems, SequenceTheorems, WellFoundedInduction, TLAPS

\* A screen moves by its own steps, or rests.
LEMMA EachByItself ==
  ASSUME [DeskNext]_deskVars
  PROVE  /\ screen' = screen
         /\ screen = "session" => [AtSession!SessionNext]_AtSession!sessionVars
         /\ screen = "checkout" => [AtCheckout!CheckoutNext]_AtCheckout!checkoutVars
         /\ screen = "plan" => [AtPlan!PlanSettingsNext]_AtPlan!settingsVars
         /\ screen = "bulk" => [AtBulk!BulkNext]_AtBulk!bulkVars
         /\ screen = "widgets" => [AtWidgets!WidgetsNext]_AtWidgets!widgetsVars
         /\ screen = "tour" => [AtTour!TourNext]_AtTour!tourVars
         /\ screen = "todos" => [AtTodos!TodosNext]_AtTodos!todosVars
         /\ [ConsoleNext]_consoleOwnVars
<1>1. CASE UNCHANGED deskVars
  <2> USE <1>1 DEF deskVars, screenVars, consoleVars, consoleOwnVars
  <2>1. UNCHANGED AtSession!sessionVars
    BY DEF AtSession!sessionVars, AtSession!pageVars, AtSession!tokenVars, AtSession!meVars, AtSession!wizardVars,
       AtSession!endVars
  <2>2. UNCHANGED AtCheckout!checkoutVars
    BY DEF AtCheckout!checkoutVars, AtCheckout!formVars, AtCheckout!orgVars, AtCheckout!serverVars
  <2>3. UNCHANGED AtPlan!settingsVars
    BY DEF AtPlan!settingsVars, AtPlan!readVars, AtPlan!cardVars
  <2>4. UNCHANGED AtBulk!bulkVars
    BY DEF AtBulk!bulkVars, AtBulk!filterVars
  <2>5. UNCHANGED <<AtWidgets!widgetsVars, AtTour!tourVars, AtTodos!todosVars>>
    BY DEF AtWidgets!widgetsVars, AtTour!tourVars, AtTodos!todosVars
  <2>6. screen' = screen /\ UNCHANGED consoleOwnVars
    OBVIOUS
  <2> QED
    BY <2>1, <2>2, <2>3, <2>4, <2>5, <2>6
<1>2. CASE DeskNext
  BY <1>2 DEF DeskNext, Stays
<1> QED
  BY <1>1, <1>2

LEMMA EachBegins ==
  ASSUME DeskInit
  PROVE  /\ screen = "session" => AtSession!SessionInit
         /\ screen = "checkout" => AtCheckout!CheckoutInit
         /\ screen = "plan" => AtPlan!PlanSettingsInit
         /\ screen = "bulk" => AtBulk!BulkInit
         /\ screen = "widgets" => AtWidgets!WidgetsInit
         /\ screen = "tour" => AtTour!TourInit
         /\ screen = "todos" => AtTodos!TodosInit
         /\ ConsoleInit \/ NoConsole
  BY DEF DeskInit

-----------------------------------------------------------------------------
(***************************************************************************)
(* The admin console.                                                      *)
(***************************************************************************)
\* A dialog never outlives the selection it was opened under.
ModalIsOfTheRow == modal # None => modal = org
ConsoleInv == ModalIsOfTheRow /\ ActedForItsOrg

LEMMA ConsoleStarts == ConsoleInit \/ NoConsole => ConsoleInv
  BY DEF ConsoleInit, NoConsole, ConsoleInv, ModalIsOfTheRow, ActedForItsOrg

LEMMA ConsoleStays == ConsoleInv /\ [ConsoleNext]_consoleOwnVars => ConsoleInv'
<1> SUFFICES ASSUME ConsoleInv, [ConsoleNext]_consoleOwnVars PROVE ConsoleInv'
  OBVIOUS
<1> USE DEF ConsoleInv, ModalIsOfTheRow, ActedForItsOrg
<1>1. ASSUME NEW t \in {"organizations", "invoices", "settings"}, PickTab(t) PROVE ConsoleInv'
  BY <1>1 DEF PickTab
<1>2. ASSUME NEW o \in Orgs, SelectOrg(o) PROVE ConsoleInv'
  BY <1>2 DEF SelectOrg
<1>3. CASE OpenModal
  BY <1>3 DEF OpenModal
<1>4. CASE SubmitModal
  BY <1>4 DEF SubmitModal
<1>5. CASE ModalAnswers
  BY <1>5 DEF ModalAnswers
<1>6. CASE CloseModal
  BY <1>6 DEF CloseModal
\* The other tab leaves the organizations alone.
<1>7. ASSUME UNCHANGED orgVars PROVE ConsoleInv'
  BY <1>7 DEF orgVars
<1>8. ASSUME \/ \E i \in Invoices : SelectInvoice(i)
             \/ \E r \in reads : useAdminInvoiceDetail(r)
             \/ TypeReason
             \/ \E k \in Kinds : Press(k)
             \/ \E a \in acts : useInvoiceAction(a)
             \/ CreditNoteModal \/ IssueCreditNote \/ CreditNoteAnswers
             \/ ManualInvoiceModal \/ IssueManualInvoice \/ ManualInvoiceAnswers
             \/ UNCHANGED consoleOwnVars
      PROVE  UNCHANGED orgVars
  BY <1>8 DEF SelectInvoice, useAdminInvoiceDetail, TypeReason, Press, useInvoiceAction,
     CreditNoteModal, IssueCreditNote, CreditNoteAnswers, ManualInvoiceModal,
     IssueManualInvoice, ManualInvoiceAnswers, consoleOwnVars
<1> QED
  BY <1>1, <1>2, <1>3, <1>4, <1>5, <1>6, <1>7, <1>8 DEF ConsoleNext

\* A plan is activated, granted or cancelled for the organization the dialog was filled in
\* for (OrgDetailDrawer.tsx), whatever rows and tabs are picked while it is on its way.
THEOREM DialogsActOnTheirOrg == DeskSpec => []ActedForItsOrg
<1>1. DeskInit => ConsoleInv
  BY EachBegins, ConsoleStarts
<1>2. ConsoleInv /\ [DeskNext]_deskVars => ConsoleInv'
  BY EachByItself, ConsoleStays
<1>3. ConsoleInv => ActedForItsOrg
  BY DEF ConsoleInv
<1> QED
  BY <1>1, <1>2, <1>3, PTL DEF DeskSpec

-----------------------------------------------------------------------------
(***************************************************************************)
(* The session.                                                            *)
(***************************************************************************)
LEMMA NobodyIsTyped ==
  /\ AtSession!Nobody \in [of : AtSession!Who, org : BOOLEAN, error : {"no", "auth", "trial"}, old : BOOLEAN]
  /\ AtSession!Nobody.of = None /\ AtSession!Nobody.error = "no"
  /\ AtSession!EmptyDraft \in AtSession!Draft /\ 1 \in 1..3
<1>1. 1 \in 1..FirstSeats
  BY DeskAssumption DEF AtSession!SessionAssumption
<1> QED
  BY <1>1 DEF AtSession!Nobody, AtSession!EmptyDraft, AtSession!Draft, AtSession!Who

LEMMA SessionStarts == AtSession!SessionInit => AtSession!SessionInv
<1> SUFFICES ASSUME AtSession!SessionInit PROVE AtSession!SessionInv
  OBVIOUS
<1> USE DEF AtSession!SessionInit
<1>0. Root \in Accounts /\ None \notin Accounts /\ None \in AtSession!Who
  BY DeskAssumption DEF AtSession!SessionAssumption, AtSession!Who
<1>1. AtSession!SessionTypeOK
  BY <1>0, NobodyIsTyped DEF AtSession!SessionTypeOK, AtSession!Pages
<1> QED
  BY <1>1, NobodyIsTyped DEF AtSession!SessionInv, AtSession!SignInOutrunsRefresh, AtSession!ProfileIsOfToken,
     AtSession!NoProfileAtTheDoor, AtSession!FoundingIsAlone, AtSession!ExchangeIsBeforeTheGate, AtSession!NoProfile

\* What becomes of the profile, and of the question for it, on the way to a place.
LEMMA MountKeeps ==
  ASSUME AtSession!SessionTypeOK, NEW p, NEW tok \in AtSession!Who, AtSession!Mount(p, tok)
  PROVE  /\ s11' \in [of : AtSession!Who, org : BOOLEAN, error : {"no", "auth", "trial"}, old : BOOLEAN]
         /\ s11'.of = s11.of /\ s12' \in AtSession!Who
         /\ s12' = s12 \/ (s12' = tok /\ p \in {"wizard", "app"})
  BY DEF AtSession!SessionTypeOK, AtSession!Mount

\* Another document.
LEMMA LoadedIs ==
  ASSUME AtSession!SessionTypeOK, NEW p \in {"public", "login", "wizard", "app"}, NEW tok \in AtSession!Who,
         AtSession!Loaded(p, tok),
         s16' \subseteq Accounts, s8' \in AtSession!Who, s10' \in AtSession!Who, s18' \in BOOLEAN
  PROVE  AtSession!SessionInv'
<1> USE DEF AtSession!Loaded
<1>0. None \notin Accounts /\ None \in AtSession!Who
  BY DeskAssumption DEF AtSession!SessionAssumption, AtSession!Who
<1>1. s7' \in BOOLEAN /\ s9' \in BOOLEAN /\ s6' \in BOOLEAN /\ s17' \in BOOLEAN /\ s19' \in BOOLEAN
  OBVIOUS
<1>2. s12' \in AtSession!Who /\ s5' \in AtSession!Who /\ s15' \in AtSession!Who
  BY <1>0
<1>3. s1' \in {"public", "login", "wizard", "app"} /\ s3' \in {"checking", "form", "sent", "dead"} /\ s4' = None
  OBVIOUS
<1>4. /\ s11' \in [of : AtSession!Who, org : BOOLEAN, error : {"no", "auth", "trial"}, old : BOOLEAN]
      /\ s14' \in AtSession!Draft /\ s13' \in 1..3
  BY NobodyIsTyped
<1>5. AtSession!SessionTypeOK'
  BY <1>1, <1>2, <1>3, <1>4 DEF AtSession!SessionTypeOK, AtSession!Pages
<1> QED
  BY <1>0, <1>5, NobodyIsTyped DEF AtSession!SessionInv, AtSession!SignInOutrunsRefresh, AtSession!ProfileIsOfToken,
     AtSession!NoProfileAtTheDoor, AtSession!FoundingIsAlone, AtSession!ExchangeIsBeforeTheGate, AtSession!NoProfile

LEMMA PagesAre ==
  ASSUME NEW k \in AtSession!Pages
  PROVE  k.start \in {"checking", "form"} /\ k.mails \in BOOLEAN /\ k.dies \in BOOLEAN
<1>1. CASE k = AtSession!LoginPage
  BY <1>1 DEF AtSession!LoginPage
<1>2. CASE k = AtSession!SignupPage
  BY <1>2 DEF AtSession!SignupPage
<1>3. CASE k = AtSession!VerifyEmailPage
  BY <1>3 DEF AtSession!VerifyEmailPage
<1>4. CASE k = AtSession!ResetPasswordPage
  BY <1>4 DEF AtSession!ResetPasswordPage
<1>5. CASE k = AtSession!AcceptInvitePage
  BY <1>5 DEF AtSession!AcceptInvitePage
<1>6. CASE k = AtSession!ForgotPasswordPage
  BY <1>6 DEF AtSession!ForgotPasswordPage
<1> QED
  BY <1>1, <1>2, <1>3, <1>4, <1>5, <1>6 DEF AtSession!Pages

\* Every step keeps the types.
LEMMA SessionTypesStay ==
  ASSUME AtSession!SessionTypeOK, AtSession!SessionNext
  PROVE  AtSession!SessionTypeOK'
<1> USE DEF AtSession!SessionTypeOK, AtSession!pageVars, AtSession!tokenVars, AtSession!meVars, AtSession!wizardVars, AtSession!endVars
<1>0. None \in AtSession!Who /\ Accounts \subseteq AtSession!Who
  BY DEF AtSession!Who
<1>1. ASSUME NEW k \in AtSession!Pages, AtSession!OpenPage(k) PROVE AtSession!SessionTypeOK'
  <2>1. k.start \in {"checking", "form", "sent", "dead"}
    BY PagesAre
  <2> QED
    BY <1>1, <2>1 DEF AtSession!OpenPage
<1>2. CASE AtSession!LinkIsChecked
  <2> DEFINE check(a) == [of |-> a, page |-> s2, auto |-> TRUE]
  <2>0. \A a \in Accounts : check(a) \in [of : Accounts, page : AtSession!Pages, auto : BOOLEAN]
    OBVIOUS
  <2> HIDE DEF check
  <2>1. s4' = None \/ s4' \in [of : Accounts, page : AtSession!Pages, auto : BOOLEAN]
    <3>1. s4' = None \/ \E a \in Accounts : s4' = check(a)
      BY <1>2 DEF AtSession!LinkIsChecked, check
    <3> QED
      BY <2>0, <3>1
  <2>2. s3' \in {"checking", "form", "dead"} /\ UNCHANGED <<s1, s2, AtSession!tokenVars, s10, AtSession!meVars, AtSession!wizardVars, AtSession!endVars>>
    BY <1>2 DEF AtSession!LinkIsChecked
  <2> QED
    BY <2>1, <2>2
<1>3. ASSUME NEW a \in Accounts, AtSession!SignIn(a) PROVE AtSession!SessionTypeOK'
  BY <1>3 DEF AtSession!SignIn
<1>4. CASE AtSession!SignInAnswers
  <2>1. s4 # None /\ s4.of \in Accounts
    BY <1>4 DEF AtSession!SignInAnswers
  <2>2. s3' \in {"checking", "form", "sent", "dead"}
    BY <1>4 DEF AtSession!SignInAnswers, AtSession!Refused
  <2>3. CASE UNCHANGED <<s1, AtSession!tokenVars, AtSession!meVars, s18>>
    <3>1. s10' \in {s4.of, s10}
      BY <1>4 DEF AtSession!SignInAnswers
    <3> QED
      BY <1>0, <1>4, <2>1, <2>2, <2>3, <3>1 DEF AtSession!SignInAnswers
  <2>4. CASE AtSession!TokenSet(s4.of) /\ s8' = s8 /\ s1' = "app" /\ AtSession!Mount("app", s4.of) /\ s18' = FALSE /\ s10' = s4.of
    <3>1. /\ s11' \in [of : AtSession!Who, org : BOOLEAN, error : {"no", "auth", "trial"}, old : BOOLEAN]
          /\ s12' \in AtSession!Who
      BY <1>0, <2>1, <2>4, MountKeeps
    <3>2. s5' \in AtSession!Who /\ s6' = FALSE /\ s7' = TRUE /\ s9' = FALSE
      BY <1>0, <2>1, <2>4 DEF AtSession!TokenSet
    <3> QED
      BY <1>0, <1>4, <2>1, <2>2, <2>4, <3>1, <3>2 DEF AtSession!SignInAnswers
  <2> QED
    BY <1>4, <2>3, <2>4 DEF AtSession!SignInAnswers
<1>5. CASE AtSession!Reload
  BY <1>0, <1>5, LoadedIs DEF AtSession!Reload, AtSession!SessionInv
<1>6. ASSUME NEW a \in Accounts, AtSession!GoogleReturns(a) PROVE AtSession!SessionTypeOK'
  BY <1>0, <1>6, LoadedIs DEF AtSession!GoogleReturns, AtSession!SessionInv
<1>7. CASE AtSession!RefreshAnswers
  <2>1. /\ s11' \in [of : AtSession!Who, org : BOOLEAN, error : {"no", "auth", "trial"}, old : BOOLEAN]
        /\ s12' \in AtSession!Who
    BY <1>7, MountKeeps DEF AtSession!RefreshAnswers
  <2>2. /\ s5' \in AtSession!Who /\ s6' \in BOOLEAN /\ s7' \in BOOLEAN /\ s9' = FALSE /\ s8' = None /\ s10' \in AtSession!Who
        /\ UNCHANGED <<s1, AtSession!pageVars, AtSession!wizardVars, AtSession!endVars>>
    BY <1>0, <1>7 DEF AtSession!RefreshAnswers
  <2> QED
    BY <1>0, <2>1, <2>2
<1>8. CASE AtSession!GateRedirects
  <2>1. /\ s11' \in [of : AtSession!Who, org : BOOLEAN, error : {"no", "auth", "trial"}, old : BOOLEAN]
        /\ s12' \in AtSession!Who
    BY <1>8, MountKeeps DEF AtSession!GateRedirects, AtSession!GoTo
  <2>2. s13' \in 1..3 /\ s14' \in AtSession!Draft
    BY <1>8, NobodyIsTyped DEF AtSession!GateRedirects
  <2>3. s19' \in BOOLEAN /\ s1' \in {"public", "login", "wizard", "app"} /\ s2' \in AtSession!Pages /\ s3' \in {"form", s3}
    BY <1>8 DEF AtSession!GateRedirects, AtSession!GoTo, AtSession!Pages
  <2>4. UNCHANGED <<s4, AtSession!tokenVars, s10, s15, s16, s17, s18>>
    BY <1>8 DEF AtSession!GateRedirects
  <2> QED
    BY <2>1, <2>2, <2>3, <2>4
<1>9. CASE AtSession!MeAnswers
  <2>1. s12 \in AtSession!Who /\ (s12 \in s16) \in BOOLEAN
    OBVIOUS
  <2> DEFINE Profiles == [of : AtSession!Who, org : BOOLEAN, error : {"no", "auth", "trial"}, old : BOOLEAN]
             fresh == [of |-> s12, org |-> s12 \in s16, error |-> "no", old |-> FALSE]
  <2>2. fresh \in Profiles
    BY <2>1
  <2>3. ASSUME NEW e \in {"auth", "trial"} PROVE [s11 EXCEPT !.error = e, !.old = TRUE] \in Profiles
    OBVIOUS
  <2>4. s11' \in Profiles /\ s12' = None
    <3> HIDE DEF fresh
    <3>1. (~s6 /\ s11' = fresh) \/ \E e \in {"auth", "trial"} : s11' = [s11 EXCEPT !.error = e, !.old = TRUE]
      BY <1>9 DEF AtSession!MeAnswers, fresh
    <3>2. s12' = None
      BY <1>9 DEF AtSession!MeAnswers
    <3> QED
      BY <2>2, <2>3, <3>1, <3>2
  <2> QED
    BY <1>0, <1>9, <2>4 DEF AtSession!MeAnswers
<1>10. CASE AtSession!MeTurnsOld
  <2>1. s11' \in [of : AtSession!Who, org : BOOLEAN, error : {"no", "auth", "trial"}, old : BOOLEAN] /\ s12' \in {s12, s5}
    BY <1>10 DEF AtSession!MeTurnsOld
  <2> QED
    BY <1>10, <2>1 DEF AtSession!MeTurnsOld
<1>11. CASE AtSession!TokenExpires
  BY <1>11 DEF AtSession!TokenExpires
<1>12. ASSUME NEW d, AtSession!Edit(d), d \in AtSession!Draft PROVE AtSession!SessionTypeOK'
  BY <1>12 DEF AtSession!Edit
<1>13. ASSUME NEW n \in 0..FirstSeats + 1, AtSession!TypeSeats(n) PROVE AtSession!SessionTypeOK'
  <2>1. FirstSeats \in Nat \ {0}
    BY DeskAssumption DEF AtSession!SessionAssumption
  <2>2. PICK m \in 1..FirstSeats : m = IF n < 1 THEN 1 ELSE IF n > FirstSeats THEN FirstSeats ELSE n
    BY <2>1
  <2>3. [s14 EXCEPT !.seats = m] \in AtSession!Draft
    BY DEF AtSession!Draft
  <2> QED
    BY <1>12, <1>13, <2>2, <2>3 DEF AtSession!TypeSeats
<1>14. ASSUME NEW p \in {"monthly", "annual"}, AtSession!PickPlan(p) PROVE AtSession!SessionTypeOK'
  <2>1. [s14 EXCEPT !.plan = p] \in AtSession!Draft
    BY DEF AtSession!Draft
  <2> QED
    BY <1>12, <1>14, <2>1 DEF AtSession!PickPlan
<1>15. CASE AtSession!TypeName
  <2>1. [s14 EXCEPT !.named = ~s14.named] \in AtSession!Draft
    BY DEF AtSession!Draft
  <2> QED
    BY <1>12, <1>15, <2>1 DEF AtSession!TypeName
<1>16. CASE AtSession!GoNext \/ AtSession!GoBack
  <2>1. s13' \in 1..3
    BY <1>16 DEF AtSession!GoNext, AtSession!GoBack
  <2> QED
    BY <1>16, <2>1 DEF AtSession!GoNext, AtSession!GoBack
<1>17. CASE AtSession!Found
  BY <1>17 DEF AtSession!Found
<1>18. CASE AtSession!FoundAnswers
  <2>1. /\ s11' \in [of : AtSession!Who, org : BOOLEAN, error : {"no", "auth", "trial"}, old : BOOLEAN]
        /\ s12' \in AtSession!Who /\ s1' \in {s1, "app"} /\ s15' = None
    BY <1>18 DEF AtSession!FoundAnswers
  <2>2. s16' \subseteq Accounts
    BY <1>18 DEF AtSession!FoundAnswers, AtSession!Who
  <2> QED
    BY <1>0, <1>18, <2>1, <2>2 DEF AtSession!FoundAnswers
<1>19. CASE AtSession!SignOutOfWizard
  BY <1>0, <1>19 DEF AtSession!SignOutOfWizard, AtSession!Cleared, AtSession!Pages
<1>20. CASE AtSession!SignOut
  BY <1>20 DEF AtSession!SignOut
<1>21. CASE AtSession!SignOutSettles \/ AtSession!Erase
  <2>1. /\ AtSession!Cleared /\ AtSession!ClearedCache /\ s18' = TRUE /\ s19' = FALSE /\ s1' = "public" /\ s10' \in {None, s10}
        /\ UNCHANGED <<AtSession!pageVars, s8, s13, s14, s15>> /\ s17' \in BOOLEAN /\ s16' \subseteq s16
    BY <1>21 DEF AtSession!SignOutSettles, AtSession!Erase
  <2> QED
    BY <1>0, <2>1, NobodyIsTyped DEF AtSession!Cleared, AtSession!ClearedCache
<1>22. ASSUME NEW a \in Accounts, AtSession!Impersonate(a) PROVE AtSession!SessionTypeOK'
  <2>1. /\ s11' \in [of : AtSession!Who, org : BOOLEAN, error : {"no", "auth", "trial"}, old : BOOLEAN]
        /\ s12' \in AtSession!Who
    BY <1>22, MountKeeps DEF AtSession!Impersonate, AtSession!GoTo
  <2> QED
    BY <1>0, <1>22, <2>1 DEF AtSession!Impersonate, AtSession!GoTo, AtSession!TokenSet
<1> QED
  BY <1>1, <1>2, <1>3, <1>4, <1>5, <1>6, <1>7, <1>8, <1>9, <1>10, <1>11, <1>13, <1>14, <1>15, <1>16, <1>17,
     <1>18, <1>19, <1>20, <1>21, <1>22 DEF AtSession!SessionNext

LEMMA SessionStays == AtSession!SessionInv /\ [AtSession!SessionNext]_AtSession!sessionVars => AtSession!SessionInv'
<1> SUFFICES ASSUME AtSession!SessionInv, [AtSession!SessionNext]_AtSession!sessionVars PROVE AtSession!SessionInv'
  OBVIOUS
<1> DEFINE Rest == /\ AtSession!SignInOutrunsRefresh /\ AtSession!ProfileIsOfToken /\ AtSession!NoProfileAtTheDoor
                   /\ AtSession!FoundingIsAlone /\ AtSession!ExchangeIsBeforeTheGate
<1>0. /\ AtSession!SessionTypeOK /\ Rest /\ None \in AtSession!Who /\ Accounts \subseteq AtSession!Who /\ None \notin Accounts
      /\ AtSession!OnPage => s5 # None /\ s11.of # None /\ s11.error = "no" /\ s1 \in {"wizard", "app"} /\ ~s9
  BY DeskAssumption DEF AtSession!SessionInv, AtSession!OnPage, AtSession!Behind, AtSession!Who, AtSession!SessionAssumption, AtSession!SignInOutrunsRefresh
<1> USE DEF AtSession!SignInOutrunsRefresh, AtSession!ProfileIsOfToken, AtSession!NoProfileAtTheDoor, AtSession!FoundingIsAlone,
            AtSession!ExchangeIsBeforeTheGate, AtSession!NoProfile, AtSession!pageVars, AtSession!tokenVars, AtSession!meVars, AtSession!wizardVars, AtSession!endVars
<1>b. SUFFICES Rest'
  <2>1. AtSession!SessionTypeOK'
    <3>1. CASE AtSession!SessionNext
      BY <1>0, <3>1, SessionTypesStay
    <3>2. CASE UNCHANGED AtSession!sessionVars
      BY <1>0, <3>2 DEF AtSession!sessionVars, AtSession!SessionTypeOK
    <3> QED
      BY <3>1, <3>2
  <2> QED
    BY <2>1 DEF AtSession!SessionInv
\* The profile is of nobody else by another word of it, or by none.
<1>a. ASSUME s11'.of = s11.of, UNCHANGED <<s1, s4, s5, s9, s12, s15, s19>> PROVE Rest'
  BY <1>0, <1>a
<1>1. ASSUME NEW k \in AtSession!Pages, AtSession!OpenPage(k) PROVE Rest'
  BY <1>0, <1>1 DEF AtSession!OpenPage
<1>2. CASE AtSession!LinkIsChecked
  BY <1>0, <1>2 DEF AtSession!LinkIsChecked
<1>3. ASSUME NEW a \in Accounts, AtSession!SignIn(a) PROVE Rest'
  BY <1>0, <1>3 DEF AtSession!SignIn
<1>4. CASE AtSession!SignInAnswers
  <2>1. s4 # None /\ s4.of \in Accounts /\ s4' = None /\ UNCHANGED <<s15, s19>>
    BY <1>0, <1>4 DEF AtSession!SignInAnswers, AtSession!SessionTypeOK
  <2>2. CASE UNCHANGED <<s1, AtSession!tokenVars, AtSession!meVars, s18>>
    BY <1>0, <2>1, <2>2
  <2>3. CASE AtSession!TokenSet(s4.of) /\ s1' = "app" /\ AtSession!Mount("app", s4.of)
    <3>1. s11'.of = s11.of /\ s12' \in {s12, s4.of}
      BY <1>0, <2>1, <2>3, MountKeeps
    <3> QED
      BY <1>0, <2>1, <2>3, <3>1 DEF AtSession!TokenSet
  <2> QED
    BY <1>4, <2>2, <2>3 DEF AtSession!SignInAnswers
<1>5. CASE AtSession!Reload
  BY <1>0, <1>5, LoadedIs DEF AtSession!Reload, AtSession!SessionInv, AtSession!SessionTypeOK
<1>6. ASSUME NEW a \in Accounts, AtSession!GoogleReturns(a) PROVE Rest'
  BY <1>0, <1>6, LoadedIs DEF AtSession!GoogleReturns, AtSession!SessionInv, AtSession!SessionTypeOK
<1>7. CASE AtSession!RefreshAnswers
  <2>1. s9' = FALSE /\ UNCHANGED <<s1, s4, s15, s19>>
    BY <1>7 DEF AtSession!RefreshAnswers
  <2>2. CASE UNCHANGED <<s5, AtSession!meVars>>
    BY <1>0, <2>1, <2>2
  <2>3. CASE s9 /\ s5' = s8 /\ AtSession!Mount(s1, s8)
    <3>1. s11'.of = s11.of /\ (s12' = s12 \/ (s12' = s8 /\ s1 \in {"wizard", "app"}))
      BY <1>0, <2>3, MountKeeps DEF AtSession!SessionTypeOK
    <3>2. s5 = None
      BY <1>0, <2>3
    <3> QED
      BY <1>0, <2>1, <2>3, <3>1, <3>2
  <2> QED
    BY <1>7, <2>2, <2>3 DEF AtSession!RefreshAnswers
<1>8. CASE AtSession!GateRedirects
  <2>1. UNCHANGED <<s4, s5, s9, s15>> /\ s1 \in {"wizard", "app"}
    BY <1>8 DEF AtSession!GateRedirects, AtSession!ToLogin, AtSession!ToWizard, AtSession!ToApp, AtSession!Behind
  <2>2. CASE s1' \in {"wizard", "app"} /\ AtSession!Mount(s1', s5) /\ s19' = s19 /\ s11.of # None
    <3>1. PICK p : p = s1'
      OBVIOUS
    <3>2. s11'.of = s11.of /\ s12' \in {s12, s5}
      BY <1>0, <2>2, <3>1, MountKeeps DEF AtSession!SessionTypeOK
    <3> QED
      BY <1>0, <2>1, <2>2, <3>2
  <2>3. CASE AtSession!ToLogin /\ s19' = (s11 # AtSession!Nobody \/ s12 # None) /\ s1' = "login" /\ UNCHANGED <<s11, s12>>
    <3>1. ~s19' => s11.of = None /\ s11.error = "no" /\ s12 = None
      BY <2>3, NobodyIsTyped
    <3>2. ~s19' => s5 = None
      BY <2>3, <3>1 DEF AtSession!ToLogin
    <3> QED
      BY <1>0, <2>1, <2>3, <3>1, <3>2
  <2> QED
    BY <1>8, <2>2, <2>3 DEF AtSession!GateRedirects, AtSession!GoTo, AtSession!ToWizard, AtSession!ToApp
<1>9. CASE AtSession!MeAnswers
  <2>1. s12 # None /\ s12' = None /\ UNCHANGED <<s1, s4, s5, s9, s15, s19>>
    BY <1>9 DEF AtSession!MeAnswers
  <2>2. s11'.of \in {s11.of, s12}
    <3> DEFINE fresh == [of |-> s12, org |-> s12 \in s16, error |-> "no", old |-> FALSE]
               failed(e) == [s11 EXCEPT !.error = e, !.old = TRUE]
    <3>1. fresh.of = s12 /\ \A e : failed(e).of = s11.of
      BY <1>0 DEF AtSession!SessionTypeOK
    <3> HIDE DEF fresh, failed
    <3>2. s11' = fresh \/ \E e : s11' = failed(e)
      BY <1>9 DEF AtSession!MeAnswers, fresh, failed
    <3> QED
      BY <3>1, <3>2
  <2> QED
    BY <1>0, <2>1, <2>2
<1>10. CASE AtSession!MeTurnsOld
  <2>1. s11'.of = s11.of /\ s12' \in {s12, s5} /\ UNCHANGED <<s1, s4, s5, s9, s15, s19>> /\ AtSession!OnPage
    BY <1>0, <1>10 DEF AtSession!MeTurnsOld, AtSession!SessionTypeOK
  <2> QED
    BY <1>0, <2>1
<1>11. CASE AtSession!TokenExpires
  BY <1>a, <1>11 DEF AtSession!TokenExpires
<1>12. ASSUME NEW d, AtSession!Edit(d) PROVE Rest'
  BY <1>a, <1>12 DEF AtSession!Edit
<1>13. CASE AtSession!GoNext \/ AtSession!GoBack \/ AtSession!SignOut
  BY <1>a, <1>13 DEF AtSession!GoNext, AtSession!GoBack, AtSession!SignOut
<1>14. CASE AtSession!Found
  BY <1>0, <1>14 DEF AtSession!Found
<1>15. CASE AtSession!FoundAnswers
  <2>1. s15 # None /\ s15' = None /\ UNCHANGED <<s4, s5, s9, s19>> /\ s1' \in {s1, "app"}
    BY <1>15 DEF AtSession!FoundAnswers
  <2>2. s11'.of = s11.of /\ ((s1' = s1 /\ s12' = s12) \/ s12' = IF s5 = None THEN s12 ELSE s5)
    BY <1>0, <1>15 DEF AtSession!FoundAnswers, AtSession!SessionTypeOK
  <2> QED
    BY <1>0, <2>1, <2>2
<1>16. CASE AtSession!SignOutOfWizard
  BY <1>0, <1>16 DEF AtSession!SignOutOfWizard, AtSession!Cleared
<1>17. CASE AtSession!SignOutSettles \/ AtSession!Erase
  <2>1. AtSession!Cleared /\ AtSession!ClearedCache /\ s1' = "public" /\ UNCHANGED <<s4, s15>>
    BY <1>17 DEF AtSession!SignOutSettles, AtSession!Erase
  <2> QED
    BY <1>0, <2>1, NobodyIsTyped DEF AtSession!Cleared, AtSession!ClearedCache
<1>18. ASSUME NEW a \in Accounts, AtSession!Impersonate(a) PROVE Rest'
  BY <1>0, <1>18 DEF AtSession!Impersonate, AtSession!TokenSet, AtSession!GoTo
<1>19. CASE UNCHANGED AtSession!sessionVars
  BY <1>0, <1>19 DEF AtSession!sessionVars
<1> QED
  BY <1>1, <1>2, <1>3, <1>4, <1>5, <1>6, <1>7, <1>8, <1>9, <1>10, <1>11, <1>12, <1>13, <1>14, <1>15, <1>16, <1>17,
     <1>18, <1>19 DEF AtSession!SessionNext, AtSession!TypeName, AtSession!TypeSeats, AtSession!PickPlan

\* The exchange of the cookie never takes over from a sign-in, and the app shows the
\* profile of the account that is signed in (AuthContext.tsx, RequireAuth.tsx).
THEOREM SessionStaysItsOwn == DeskSpec => []SessionIsItsOwn
<1>1. DeskInit => (screen = "session" => AtSession!SessionInv)
  BY EachBegins, SessionStarts
<1>2. ASSUME screen = "session" => AtSession!SessionInv, [DeskNext]_deskVars
      PROVE  (screen = "session" => AtSession!SessionInv)'
  BY <1>2, EachByItself, SessionStays
<1>3. (screen = "session" => AtSession!SessionInv) => SessionIsItsOwn
  BY DEF SessionIsItsOwn, AtSession!SessionInv, AtSession!ShownIsSignedIn, AtSession!OnPage, AtSession!ProfileIsOfToken, AtSession!SignInOutrunsRefresh
<1> QED
  BY <1>1, <1>2, <1>3, PTL DEF DeskSpec

-----------------------------------------------------------------------------
(***************************************************************************)
(* The settings of the plan.                                               *)
(***************************************************************************)
\* The members can be counted, and there are fewer of them than seats.
LEMMA TeamsAreCounted ==
  ASSUME NEW T \in SUBSET Team
  PROVE  /\ AtPlan!Cardinality(T) \in Nat /\ SeatLimit \in Nat
         /\ T = Team => AtPlan!Cardinality(T) < SeatLimit
<1>1. AtPlan!IsFiniteSet(Team) /\ SeatLimit \in Nat /\ SeatLimit > AtPlan!Cardinality(Team)
  BY DeskAssumption DEF AtPlan!PlanSettingsAssumption
<1>2. IsFiniteSet(T)
  BY <1>1, FS_Subset DEF AtPlan!IsFiniteSet, IsFiniteSet
<1>3. AtPlan!Cardinality(T) = Cardinality(T)
  BY DEF AtPlan!Cardinality, Cardinality
<1>4. AtPlan!Cardinality(T) \in Nat
  BY <1>2, <1>3, FS_CardinalityType
<1> QED
  BY <1>1, <1>4

\* Every reachable state of the cards is well typed: the numbers of seats in the row, the
\* requests and the charges lie between one and MaxSeats.
LEMMA PlanTypesStart == AtPlan!PlanSettingsInit => AtPlan!PlanSettingsTypeOK
<1> SUFFICES ASSUME AtPlan!PlanSettingsInit PROVE AtPlan!PlanSettingsTypeOK
  OBVIOUS
<1>1. s1 \in AtPlan!Subscription /\ s1.plan \in AtPlan!Intervals /\ s1.seats \in 1..SeatLimit
  BY DEF AtPlan!PlanSettingsInit, AtPlan!Subscription
<1>2. {s1, s3} \subseteq AtPlan!Subscription /\ s12 \in AtPlan!Intervals
  BY <1>1 DEF AtPlan!PlanSettingsInit
<1>3. s7 \in 1..SeatLimit /\ s15 \in Nat
  BY <1>1, TeamsAreCounted DEF AtPlan!PlanSettingsInit
<1>4. s2 \subseteq Team /\ s4 \subseteq Team /\ s8 \subseteq Team
  BY DEF AtPlan!PlanSettingsInit
<1>5. {s5, s6, s9, s13} \subseteq BOOLEAN
  BY DEF AtPlan!PlanSettingsInit
<1>6. /\ s10 \in [PutSlots -> AtPlan!SeatPut \cup {None}] /\ s11 \in [PutSlots -> AtPlan!Charge \cup {None}]
      /\ s14 \in AtPlan!Changes \cup {None}
  BY DEF AtPlan!PlanSettingsInit
<1> QED
  BY <1>2, <1>3, <1>4, <1>5, <1>6 DEF AtPlan!PlanSettingsTypeOK

LEMMA PlanTypesStay ==
  ASSUME AtPlan!PlanSettingsTypeOK, [AtPlan!PlanSettingsNext]_AtPlan!settingsVars
  PROVE  AtPlan!PlanSettingsTypeOK'
<1> USE DEF AtPlan!PlanSettingsTypeOK
<1>1. SeatLimit \in Nat /\ AtPlan!Cardinality(s2) \in Nat /\ AtPlan!Effective(s1) \in AtPlan!Intervals
  BY TeamsAreCounted DEF AtPlan!Effective, AtPlan!Subscription, AtPlan!Intervals
<1>2. ASSUME NEW n \in 1..SeatLimit, AtPlan!TypeSeats(n) PROVE AtPlan!PlanSettingsTypeOK'
  BY <1>1, <1>2 DEF AtPlan!TypeSeats, AtPlan!readVars
<1>3. ASSUME NEW u \in Team, AtPlan!TogglePick(u) PROVE AtPlan!PlanSettingsTypeOK'
  BY <1>3 DEF AtPlan!TogglePick, AtPlan!readVars
<1>4. ASSUME NEW i \in PutSlots, AtPlan!SubmitSeats(i) PROVE AtPlan!PlanSettingsTypeOK'
  <2> DEFINE leave == IF AtPlan!Needed > 0 THEN s8 ELSE {}
             p == [seats |-> s7, leave |-> leave, submit |-> TRUE, card |-> s15, shown |-> s7]
  <2>1. p \in AtPlan!SeatPut
    BY DEF AtPlan!SeatPut
  <2>2. s10' = [s10 EXCEPT ![i] = p]
    BY <1>4 DEF AtPlan!SubmitSeats, AtPlan!Send
  <2> HIDE DEF p
  <2>3. s10' \in [PutSlots -> AtPlan!SeatPut \cup {None}]
    BY <2>1, <2>2
  <2> QED
    BY <1>4, <2>3 DEF AtPlan!SubmitSeats, AtPlan!readVars, AtPlan!cardVars
<1>5. ASSUME NEW i \in PutSlots, AtPlan!CancelQueue(i) PROVE AtPlan!PlanSettingsTypeOK'
  <2> DEFINE p == [seats |-> s3.seats, leave |-> {}, submit |-> FALSE, card |-> s15, shown |-> s7]
  <2>1. p \in AtPlan!SeatPut
    BY DEF AtPlan!SeatPut, AtPlan!Subscription
  <2>2. s10' = [s10 EXCEPT ![i] = p]
    BY <1>5 DEF AtPlan!CancelQueue, AtPlan!Send
  <2> HIDE DEF p
  <2>3. s10' \in [PutSlots -> AtPlan!SeatPut \cup {None}]
    BY <2>1, <2>2
  <2> QED
    BY <1>5, <2>3 DEF AtPlan!CancelQueue, AtPlan!readVars, AtPlan!cardVars
<1>6. ASSUME NEW i \in PutSlots, AtPlan!PutAnswers(i) PROVE AtPlan!PlanSettingsTypeOK'
  <2>1. s10[i] \in AtPlan!SeatPut /\ s10' \in [PutSlots -> AtPlan!SeatPut \cup {None}]
    BY <1>6 DEF AtPlan!PutAnswers
  <2>2. s1' \in AtPlan!Subscription
    <3>1. CASE AtPlan!Seated(s10[i])
      BY <2>1, <3>1 DEF AtPlan!Seated, AtPlan!Subscription, AtPlan!SeatPut
    <3> QED
      BY <1>6, <3>1 DEF AtPlan!PutAnswers
  <2>3. s8' \subseteq Team /\ s5' \in BOOLEAN
    BY <1>6 DEF AtPlan!PutAnswers
  <2> QED
    BY <1>6, <2>1, <2>2, <2>3 DEF AtPlan!PutAnswers
<1>7. ASSUME NEW i \in PutSlots, AtPlan!PaymentIsRequired(i) PROVE AtPlan!PlanSettingsTypeOK'
  <2> DEFINE c == [seats |-> IF AtPlan!OnScreen(s10[i].card) THEN s7 ELSE s10[i].shown, card |-> s10[i].card]
  <2>1. s10[i] \in AtPlan!SeatPut /\ s10' \in [PutSlots -> AtPlan!SeatPut \cup {None}]
    BY <1>7 DEF AtPlan!PaymentIsRequired
  <2>2. c \in AtPlan!Charge
    BY <2>1 DEF AtPlan!Charge, AtPlan!SeatPut
  <2>3. s11' = [s11 EXCEPT ![i] = c]
    BY <1>7 DEF AtPlan!PaymentIsRequired
  <2>4. s9' \in BOOLEAN
    BY <1>7, Zenon DEF AtPlan!PaymentIsRequired, AtPlan!OnScreen
  <2> HIDE DEF c
  <2>5. s11' \in [PutSlots -> AtPlan!Charge \cup {None}]
    BY <2>2, <2>3
  <2> QED
    BY <1>7, <2>1, <2>4, <2>5 DEF AtPlan!PaymentIsRequired, AtPlan!readVars
<1>8. ASSUME NEW i \in PutSlots, AtPlan!ChargeAnswers(i) PROVE AtPlan!PlanSettingsTypeOK'
  <2>1. s11[i] \in AtPlan!Charge /\ s11' \in [PutSlots -> AtPlan!Charge \cup {None}]
    BY <1>8 DEF AtPlan!ChargeAnswers
  <2>2. s1' \in AtPlan!Subscription
    BY <1>8, <2>1 DEF AtPlan!ChargeAnswers, AtPlan!Subscription, AtPlan!Charge
  <2>3. s6' \in BOOLEAN /\ s10' \in [PutSlots -> AtPlan!SeatPut \cup {None}]
    <3>1. CASE AtPlan!Unloads
      BY <3>1 DEF AtPlan!Unloads, AtPlan!SeatPut
    <3> QED
      BY <1>8, <3>1 DEF AtPlan!ChargeAnswers
  <2>4. s9' \in BOOLEAN
    BY <1>8, Zenon DEF AtPlan!ChargeAnswers, AtPlan!OnScreen
  <2> QED
    BY <1>8, <2>1, <2>2, <2>3, <2>4 DEF AtPlan!ChargeAnswers, AtPlan!readVars
<1>9. ASSUME NEW i \in AtPlan!Intervals, AtPlan!PickInterval(i) PROVE AtPlan!PlanSettingsTypeOK'
  BY <1>9 DEF AtPlan!PickInterval, AtPlan!readVars
<1>10. CASE AtPlan!SubmitInterval
  BY <1>10 DEF AtPlan!SubmitInterval, AtPlan!readVars, AtPlan!cardVars, AtPlan!Changes
<1>11. CASE AtPlan!ConfirmCancel
  BY <1>11 DEF AtPlan!ConfirmCancel, AtPlan!readVars, AtPlan!Changes
<1>12. CASE AtPlan!Reactivate
  BY <1>12 DEF AtPlan!Reactivate, AtPlan!readVars, AtPlan!cardVars, AtPlan!Changes
<1>13. CASE AtPlan!ChangeAnswers
  <2>1. s1' \in AtPlan!Subscription
    BY <1>13 DEF AtPlan!ChangeAnswers, AtPlan!Subscription
  <2>2. s13' \in BOOLEAN /\ s5' \in BOOLEAN
    BY <1>13 DEF AtPlan!ChangeAnswers
  <2> QED
    BY <1>13, <2>1, <2>2 DEF AtPlan!ChangeAnswers
<1>14. CASE AtPlan!SubscriptionAnswers
  <2>1. s1.seats \in 1..SeatLimit
    BY <1>1 DEF AtPlan!Subscription
  <2>2. s3' \in AtPlan!Subscription /\ s4' \subseteq Team /\ s12' \in AtPlan!Intervals
    BY <1>1, <1>14 DEF AtPlan!SubscriptionAnswers
  <2>3. s7' \in 1..SeatLimit /\ s8' \subseteq Team
    BY <1>14, <2>1 DEF AtPlan!SubscriptionAnswers
  <2> QED
    BY <1>14, <2>2, <2>3 DEF AtPlan!SubscriptionAnswers
<1>15. CASE AtPlan!Leave
  <2>1. s10' \in [PutSlots -> AtPlan!SeatPut \cup {None}]
    BY <1>15 DEF AtPlan!Leave, AtPlan!SeatPut
  <2> QED
    BY <1>15, <2>1 DEF AtPlan!Leave, AtPlan!readVars, AtPlan!cardVars
<1>16. CASE AtPlan!Return
  <2>1. s3.seats \in 1..SeatLimit /\ AtPlan!Effective(s3) \in AtPlan!Intervals
    BY <1>1 DEF AtPlan!Subscription, AtPlan!Effective, AtPlan!Intervals
  <2>2. s7' \in 1..SeatLimit /\ s12' \in AtPlan!Intervals /\ s8' \subseteq Team
    BY <1>16, <2>1 DEF AtPlan!Return
  <2>3. {s5', s6', s9', s13'} \subseteq BOOLEAN
    BY <1>16 DEF AtPlan!Return
  <2>4. s15' \in Nat
    BY <1>16 DEF AtPlan!Return
  <2> QED
    BY <1>16, <2>2, <2>3, <2>4 DEF AtPlan!Return
<1>17. CASE AtPlan!ColleagueChanges
  <2>1. CASE \E u \in s2 : s2' = s2 \ {u} /\ UNCHANGED s1
    BY <1>17, <2>1 DEF AtPlan!ColleagueChanges, AtPlan!readVars, AtPlan!cardVars
  <2>2. CASE /\ \E n \in (AtPlan!Cardinality(s2) + 1)..SeatLimit : s1' = [s1 EXCEPT !.seats = n, !.queued = None]
             /\ UNCHANGED s2
    <3>1. PICK n \in (AtPlan!Cardinality(s2) + 1)..SeatLimit : s1' = [s1 EXCEPT !.seats = n, !.queued = None]
      BY <2>2
    <3>2. n \in 1..SeatLimit
      BY <1>1
    <3>3. s1' \in AtPlan!Subscription
      BY <3>1, <3>2 DEF AtPlan!Subscription
    <3> QED
      BY <1>17, <2>2, <3>3 DEF AtPlan!ColleagueChanges, AtPlan!readVars, AtPlan!cardVars
  <2> QED
    BY <1>17, <2>1, <2>2 DEF AtPlan!ColleagueChanges
<1>18. CASE UNCHANGED AtPlan!settingsVars
  BY <1>18 DEF AtPlan!settingsVars, AtPlan!readVars, AtPlan!cardVars
<1> QED
  BY <1>2, <1>3, <1>4, <1>5, <1>6, <1>7, <1>8, <1>9, <1>10, <1>11, <1>12, <1>13, <1>14,
     <1>15, <1>16, <1>17, <1>18 DEF AtPlan!PlanSettingsNext
-----------------------------------------------------------------------------
\* What is under way was sent by a card that was on the screen; a charge of the card that
\* is there now has locked it; and no card has two.
CardsSoFar == \A i \in PutSlots, card \in Nat : AtPlan!Upgrading(i, card) => card <= s15
ChargeLocksCard == \A i \in PutSlots : s11[i] # None /\ AtPlan!OnScreen(s11[i].card) => s9
OneOfEach == \A card \in Nat : \A i, j \in PutSlots : AtPlan!Upgrading(i, card) /\ AtPlan!Upgrading(j, card) => i = j
CardInv == AtPlan!PlanSettingsTypeOK /\ CardsSoFar /\ ChargeLocksCard /\ OneOfEach

LEMMA CardStarts == AtPlan!PlanSettingsInit => CardInv
  BY PlanTypesStart DEF AtPlan!PlanSettingsInit, CardInv, CardsSoFar, ChargeLocksCard, OneOfEach, AtPlan!Upgrading

\* A card that sends what is under way already, and takes no lock off, breaks nothing.
LEMMA NothingNewIsSent ==
  ASSUME CardsSoFar, OneOfEach, s15' = s15,
         \A i \in PutSlots, card \in Nat : AtPlan!Upgrading(i, card)' => AtPlan!Upgrading(i, card)
  PROVE  CardsSoFar' /\ OneOfEach'
  BY DEF CardsSoFar, OneOfEach

\* The form of the card on the screen is locked while anything of that card is under way.
LEMMA CardIsLocked ==
  ASSUME CardInv, s6, NEW i \in PutSlots, AtPlan!Upgrading(i, s15)
  PROVE  AtPlan!SeatCardIsLocked
  BY DEF CardInv, ChargeLocksCard, AtPlan!Upgrading, AtPlan!SeatCardIsLocked, AtPlan!Submitted, AtPlan!OnScreen

\* Every action of the settings preserves the invariant.
LEMMA CardStays ==
  ASSUME CardInv, [AtPlan!PlanSettingsNext]_AtPlan!settingsVars
  PROVE  CardInv'
<1>1. AtPlan!PlanSettingsTypeOK /\ AtPlan!PlanSettingsTypeOK'
  BY PlanTypesStay DEF CardInv
<1> DEFINE Rest == CardsSoFar /\ ChargeLocksCard /\ OneOfEach
<1> SUFFICES Rest'
  BY <1>1 DEF CardInv
<1>a. /\ s10 \in [PutSlots -> AtPlan!SeatPut \cup {None}] /\ s11 \in [PutSlots -> AtPlan!Charge \cup {None}]
      /\ s15 \in Nat
  BY <1>1 DEF AtPlan!PlanSettingsTypeOK
<1>b. CardsSoFar /\ ChargeLocksCard /\ OneOfEach
  BY DEF CardInv
\* The form sends for a card that has nothing under way.
<1>2. ASSUME NEW k \in PutSlots, AtPlan!SubmitSeats(k) PROVE Rest'
  <2>1. s15' = s15 /\ s11' = s11 /\ s6' = s6 /\ s9' = s9 /\ s11[k] = None /\ ~AtPlan!SeatCardIsLocked /\ s6
    BY <1>2 DEF AtPlan!SubmitSeats, AtPlan!Send, AtPlan!cardVars
  <2>2. /\ \A i \in PutSlots \ {k} : s10'[i] = s10[i]
        /\ s10'[k].card = s15
    BY <1>2, <1>a DEF AtPlan!SubmitSeats, AtPlan!Send
  <2>3. \A i \in PutSlots : ~AtPlan!Upgrading(i, s15)
    BY <2>1, CardIsLocked
  <2>4. \A i \in PutSlots, card \in Nat :
          AtPlan!Upgrading(i, card)' => AtPlan!Upgrading(i, card) \/ (i = k /\ card = s15)
    BY <2>1, <2>2 DEF AtPlan!Upgrading
  <2>5. CardsSoFar'
    BY <1>a, <1>b, <2>1, <2>4 DEF CardsSoFar
  <2>6. OneOfEach'
    BY <1>b, <2>3, <2>4 DEF OneOfEach
  <2>7. ChargeLocksCard'
    BY <1>b, <2>1 DEF ChargeLocksCard, AtPlan!OnScreen
  <2> QED
    BY <2>5, <2>6, <2>7
<1>3. ASSUME NEW k \in PutSlots, AtPlan!CancelQueue(k) PROVE Rest'
  <2>1. s15' = s15 /\ s11' = s11 /\ s6' = s6 /\ s9' = s9
    BY <1>3 DEF AtPlan!CancelQueue, AtPlan!cardVars
  <2>2. (\A i \in PutSlots \ {k} : s10'[i] = s10[i]) /\ ~s10'[k].submit
    BY <1>3, <1>a DEF AtPlan!CancelQueue, AtPlan!Send
  <2>3. \A i \in PutSlots, card \in Nat : AtPlan!Upgrading(i, card)' => AtPlan!Upgrading(i, card)
    BY <2>1, <2>2 DEF AtPlan!Upgrading
  <2>4. ChargeLocksCard'
    BY <1>b, <2>1 DEF ChargeLocksCard, AtPlan!OnScreen
  <2> QED
    BY <1>b, <2>1, <2>3, <2>4, NothingNewIsSent
<1>4. ASSUME NEW k \in PutSlots, AtPlan!PutAnswers(k) PROVE Rest'
  <2>1. s15' = s15 /\ s11' = s11 /\ s6' = s6 /\ s9' = s9
    BY <1>4 DEF AtPlan!PutAnswers
  <2>2. (\A i \in PutSlots \ {k} : s10'[i] = s10[i]) /\ s10'[k] = None
    BY <1>4, <1>a DEF AtPlan!PutAnswers
  <2>3. \A i \in PutSlots, card \in Nat : AtPlan!Upgrading(i, card)' => AtPlan!Upgrading(i, card)
    BY <2>1, <2>2 DEF AtPlan!Upgrading
  <2>4. ChargeLocksCard'
    BY <1>b, <2>1 DEF ChargeLocksCard, AtPlan!OnScreen
  <2> QED
    BY <1>b, <2>1, <2>3, <2>4, NothingNewIsSent
\* The charge takes over from the request it answers, and locks the card if it is there.
<1>5. ASSUME NEW k \in PutSlots, AtPlan!PaymentIsRequired(k) PROVE Rest'
  <2>1. s15' = s15 /\ s6' = s6 /\ s10[k] # None /\ s10[k].submit
    BY <1>5 DEF AtPlan!PaymentIsRequired
  <2>2. (\A i \in PutSlots \ {k} : s10'[i] = s10[i]) /\ s10'[k] = None
    BY <1>5, <1>a DEF AtPlan!PaymentIsRequired
  <2>3. (\A i \in PutSlots \ {k} : s11'[i] = s11[i]) /\ s11'[k].card = s10[k].card
    BY <1>5, <1>a DEF AtPlan!PaymentIsRequired
  <2>4. \A i \in PutSlots, card \in Nat : AtPlan!Upgrading(i, card)' => AtPlan!Upgrading(i, card)
    BY <2>1, <2>2, <2>3 DEF AtPlan!Upgrading
  <2>5. s9' = (s9 \/ AtPlan!OnScreen(s10[k].card))
    BY <1>5 DEF AtPlan!PaymentIsRequired
  <2>6. ASSUME NEW i \in PutSlots, s11'[i] # None, (AtPlan!OnScreen(s11[i].card))' PROVE s9'
    <3>1. CASE i = k
      BY <2>1, <2>3, <2>5, <2>6, <3>1, Zenon DEF AtPlan!OnScreen
    <3>2. CASE i # k
      BY <1>b, <2>1, <2>3, <2>5, <2>6, <3>2, Zenon DEF ChargeLocksCard, AtPlan!OnScreen
    <3> QED
      BY <3>1, <3>2
  <2>7. ChargeLocksCard'
    BY <2>6 DEF ChargeLocksCard
  <2> QED
    BY <1>b, <2>1, <2>4, <2>7, NothingNewIsSent
\* An answered charge of the card on the screen was the only one of that card.
<1>6. ASSUME NEW k \in PutSlots, AtPlan!ChargeAnswers(k) PROVE Rest'
  <2>1. s15' = s15 /\ s11[k] # None /\ s11[k].card \in Nat /\ (s6' => s6)
    BY <1>1, <1>6, <1>a DEF AtPlan!ChargeAnswers, AtPlan!Unloads, AtPlan!Charge, AtPlan!PlanSettingsTypeOK
  <2>2. (\A i \in PutSlots \ {k} : s11'[i] = s11[i]) /\ s11'[k] = None
    BY <1>6, <1>a DEF AtPlan!ChargeAnswers
  <2>3. ASSUME NEW i \in PutSlots, s10'[i] # None, s10'[i].submit
        PROVE  s10[i] # None /\ s10[i].submit /\ s10'[i].card = s10[i].card
    <3>1. CASE AtPlan!Unloads
      BY <1>a, <2>3, <3>1 DEF AtPlan!Unloads, AtPlan!SeatPut
    <3>2. CASE s10' = s10
      BY <2>3, <3>2
    <3> QED
      BY <1>6, <3>1, <3>2 DEF AtPlan!ChargeAnswers
  <2>4. \A i \in PutSlots, card \in Nat : AtPlan!Upgrading(i, card)' => AtPlan!Upgrading(i, card)
    BY <2>2, <2>3 DEF AtPlan!Upgrading
  <2>5. s9' = (s9 /\ ~AtPlan!OnScreen(s11[k].card))
    BY <1>6 DEF AtPlan!ChargeAnswers
  <2>6. ASSUME NEW i \in PutSlots, s11'[i] # None, (AtPlan!OnScreen(s11[i].card))' PROVE s9'
    <3>1. i # k /\ s11[i] # None /\ AtPlan!OnScreen(s11[i].card) /\ s11[i].card = s15
      BY <2>1, <2>2, <2>6, Zenon DEF AtPlan!OnScreen
    <3>2. s11[k].card # s15
      BY <1>a, <1>b, <2>1, <3>1 DEF OneOfEach, AtPlan!Upgrading
    <3>3. s9 /\ ~AtPlan!OnScreen(s11[k].card)
      BY <1>b, <3>1, <3>2 DEF ChargeLocksCard, AtPlan!OnScreen
    <3> QED
      BY <2>5, <3>3, Zenon
  <2>7. ChargeLocksCard'
    BY <2>6 DEF ChargeLocksCard
  <2> QED
    BY <1>b, <2>1, <2>4, <2>7, NothingNewIsSent
<1>7. CASE AtPlan!Leave
  <2>1. s15' = s15 /\ s11' = s11 /\ ~s6'
    BY <1>7 DEF AtPlan!Leave
  <2>2. ASSUME NEW i \in PutSlots, s10'[i] # None, s10'[i].submit
        PROVE  s10[i] # None /\ s10[i].submit /\ s10'[i].card = s10[i].card
    BY <1>7, <1>a, <2>2 DEF AtPlan!Leave, AtPlan!SeatPut
  <2>3. \A i \in PutSlots, card \in Nat : AtPlan!Upgrading(i, card)' => AtPlan!Upgrading(i, card)
    BY <2>1, <2>2 DEF AtPlan!Upgrading
  <2>4. ChargeLocksCard'
    BY <2>1 DEF ChargeLocksCard, AtPlan!OnScreen
  <2> QED
    BY <1>b, <2>1, <2>3, <2>4, NothingNewIsSent
\* A card that comes back has a number of its own, and nothing under way.
<1>8. CASE AtPlan!Return
  <2>1. s15' = s15 + 1 /\ s10' = s10 /\ s11' = s11
    BY <1>8 DEF AtPlan!Return
  <2>2. \A i \in PutSlots, card \in Nat : AtPlan!Upgrading(i, card)' <=> AtPlan!Upgrading(i, card)
    BY <2>1 DEF AtPlan!Upgrading
  <2>3. CardsSoFar' /\ OneOfEach'
    <3>1. CardsSoFar'
      BY <1>a, <1>b, <2>1, <2>2 DEF CardsSoFar
    <3>2. OneOfEach'
      BY <1>b, <2>2 DEF OneOfEach
    <3> QED
      BY <3>1, <3>2
  <2>4. ASSUME NEW i \in PutSlots, s11[i] # None PROVE s11[i].card # s15'
    <3>1. s11[i].card \in Nat
      BY <1>a, <2>4 DEF AtPlan!Charge
    <3>2. s11[i].card <= s15
      BY <1>b, <2>4, <3>1 DEF CardsSoFar, AtPlan!Upgrading
    <3> QED
      BY <1>a, <2>1, <3>1, <3>2
  <2>5. ChargeLocksCard'
    BY <2>1, <2>4 DEF ChargeLocksCard, AtPlan!OnScreen
  <2> QED
    BY <2>3, <2>5
\* What the others leave alone is all the three are about.
<1>9. ASSUME UNCHANGED <<s10, s11, s6, s9, s15>> PROVE Rest'
  BY <1>9, <1>b DEF CardsSoFar, ChargeLocksCard, OneOfEach, AtPlan!Upgrading, AtPlan!OnScreen
<1>10. ASSUME \/ \E n \in 1..SeatLimit : AtPlan!TypeSeats(n)
              \/ \E u \in Team : AtPlan!TogglePick(u)
              \/ \E i \in AtPlan!Intervals : AtPlan!PickInterval(i)
              \/ AtPlan!SubmitInterval \/ AtPlan!ConfirmCancel \/ AtPlan!Reactivate \/ AtPlan!ChangeAnswers
              \/ AtPlan!SubscriptionAnswers \/ AtPlan!ColleagueChanges \/ UNCHANGED AtPlan!settingsVars
       PROVE  UNCHANGED <<s10, s11, s6, s9, s15>>
  BY <1>10 DEF AtPlan!TypeSeats, AtPlan!TogglePick, AtPlan!PickInterval, AtPlan!SubmitInterval, AtPlan!ConfirmCancel, AtPlan!Reactivate,
     AtPlan!ChangeAnswers, AtPlan!SubscriptionAnswers, AtPlan!ColleagueChanges, AtPlan!settingsVars, AtPlan!cardVars
<1> HIDE DEF Rest
<1> QED
  BY <1>2, <1>3, <1>4, <1>5, <1>6, <1>7, <1>8, <1>9, <1>10 DEF AtPlan!PlanSettingsNext

\* The cards there were so far are among all there can be.
LEMMA OneIsEnough == CardInv => AtPlan!OneUpgradePerCard
  BY DEF CardInv, OneOfEach, AtPlan!OneUpgradePerCard

\* A seat change and the charge that follows its refusal (OrganizationSection.tsx) lock
\* the card that sent them until they are settled, also when it was left meanwhile: a
\* customer who presses its button again is not charged twice.
THEOREM CardIsNotChargedTwice == DeskSpec => []OneUpgradePerCard
<1>1. DeskInit => (screen = "plan" => CardInv)
  BY EachBegins, CardStarts
<1>2. ASSUME screen = "plan" => CardInv, [DeskNext]_deskVars PROVE (screen = "plan" => CardInv)'
  BY <1>2, EachByItself, CardStays
<1>3. (screen = "plan" => CardInv) => OneUpgradePerCard
  BY OneIsEnough DEF OneUpgradePerCard
<1> QED
  BY <1>1, <1>2, <1>3, PTL DEF DeskSpec

-----------------------------------------------------------------------------
(***************************************************************************)
(* The checkout.                                                           *)
(***************************************************************************)
\* The two doors that ask for details and consent lock their button and are deaf once
\* they are left.
LEMMA BillingDoorsLock ==
  ASSUME NEW d \in AtCheckout!Doors
  PROVE  d.bills \in BOOLEAN /\ d.bills = d.locks /\ (d.bills => ~d.outlives)
<1>1. CASE d = AtCheckout!ChoosePlanModal
  BY <1>1 DEF AtCheckout!ChoosePlanModal
<1>2. CASE d = AtCheckout!TrialExpiredGate
  BY <1>2 DEF AtCheckout!TrialExpiredGate
<1>3. CASE d = AtCheckout!ObjednavkaPage
  BY <1>3 DEF AtCheckout!ObjednavkaPage
<1> QED
  BY <1>1, <1>2, <1>3 DEF AtCheckout!Doors

-----------------------------------------------------------------------------
\* Every reachable state of the forms and their submissions is well typed.
LEMMA CheckoutTypesStart == AtCheckout!CheckoutInit => AtCheckout!CheckoutTypeOK
  BY DEF AtCheckout!CheckoutInit, AtCheckout!CheckoutTypeOK

LEMMA CheckoutTypesStay == AtCheckout!CheckoutTypeOK /\ [AtCheckout!CheckoutNext]_AtCheckout!checkoutVars => AtCheckout!CheckoutTypeOK'
<1> SUFFICES ASSUME AtCheckout!CheckoutTypeOK, [AtCheckout!CheckoutNext]_AtCheckout!checkoutVars PROVE AtCheckout!CheckoutTypeOK'
  OBVIOUS
<1> USE DEF AtCheckout!CheckoutTypeOK, AtCheckout!formVars, AtCheckout!orgVars, AtCheckout!serverVars
<1>1. ASSUME NEW d \in AtCheckout!Doors, NEW p \in Plans \cup {None}, AtCheckout!OpenDoor(d, p) PROVE AtCheckout!CheckoutTypeOK'
  <2>1. s4' \in Details \cup {None}
    BY <1>1 DEF AtCheckout!OpenDoor, AtCheckout!Prefilled
  <2>2. s6' \in BOOLEAN
    BY <1>1, BillingDoorsLock DEF AtCheckout!OpenDoor
  <2> QED
    BY <1>1, <2>1, <2>2 DEF AtCheckout!OpenDoor
<1>2. CASE AtCheckout!OrganizationAnswers
  BY <1>2 DEF AtCheckout!OrganizationAnswers
<1>3. CASE AtCheckout!RecurringPaymentConsent
  BY <1>3 DEF AtCheckout!RecurringPaymentConsent
<1>4. CASE AtCheckout!handleSubmit
  <2>1. s1 \in AtCheckout!Doors /\ s2 \in Plans
    BY <1>4 DEF AtCheckout!handleSubmit, AtCheckout!Shown
  <2>2. [door |-> s1, stage |-> IF s1.bills THEN "saving" ELSE "charging",
         plan |-> s2, details |-> s4, own |-> TRUE] \in AtCheckout!Run
    BY <2>1 DEF AtCheckout!Run
  <2> QED
    BY <1>4, <2>2 DEF AtCheckout!handleSubmit
<1>5. CASE AtCheckout!Close
  <2>1. s7' \subseteq AtCheckout!Run
    BY <1>5 DEF AtCheckout!Close, AtCheckout!Run
  <2> QED
    BY <1>5, <2>1 DEF AtCheckout!Close
<1>6. CASE AtCheckout!LoadedAnew
  BY <1>6 DEF AtCheckout!LoadedAnew
<1>7. AtCheckout!BillingReturnPage \/ AtCheckout!ObjednavkaNavratPage => AtCheckout!LoadedAnew
  BY DEF AtCheckout!BillingReturnPage, AtCheckout!ObjednavkaNavratPage
<1>8. ASSUME NEW p \in Plans, AtCheckout!SelectPlan(p) PROVE AtCheckout!CheckoutTypeOK'
  BY <1>8 DEF AtCheckout!SelectPlan
<1>9. ASSUME NEW p \in Plans, AtCheckout!PaymentLands(p) PROVE AtCheckout!CheckoutTypeOK'
  BY <1>9 DEF AtCheckout!PaymentLands
<1>10. ASSUME NEW v \in Details \cup {None}, AtCheckout!OrgBillingFields(v) PROVE AtCheckout!CheckoutTypeOK'
  BY <1>10 DEF AtCheckout!OrgBillingFields
<1>11. ASSUME NEW v \in Details, AtCheckout!ColleagueStores(v) PROVE AtCheckout!CheckoutTypeOK'
  BY <1>11 DEF AtCheckout!ColleagueStores
<1>12. ASSUME NEW r \in s7, AtCheckout!SavingAnswers(r) PROVE AtCheckout!CheckoutTypeOK'
  <2>1. r \in AtCheckout!Run /\ r.details \in Details \cup {None}
    BY DEF AtCheckout!Run
  <2>2. [r EXCEPT !.stage = "charging"] \in AtCheckout!Run
    BY <2>1 DEF AtCheckout!Run
  <2>3. s7' \subseteq AtCheckout!Run /\ s8' \in Details \cup {None}
    BY <1>12, <2>1, <2>2 DEF AtCheckout!SavingAnswers
  <2> QED
    BY <1>12, <2>3 DEF AtCheckout!SavingAnswers
<1>13. ASSUME NEW r \in s7, AtCheckout!useInitialPaymentInit(r) PROVE AtCheckout!CheckoutTypeOK'
  <2>1. r \in AtCheckout!Run /\ r.plan \in Plans
    BY DEF AtCheckout!Run
  <2>2. s9' \subseteq Plans /\ s11' \in AtCheckout!Run \cup {None} /\ s7' \subseteq AtCheckout!Run
    BY <1>13, <2>1 DEF AtCheckout!useInitialPaymentInit
  <2> QED
    BY <1>13, <2>2 DEF AtCheckout!useInitialPaymentInit
<1>14. CASE UNCHANGED AtCheckout!checkoutVars
  BY <1>14 DEF AtCheckout!checkoutVars
<1> QED
  BY <1>1, <1>2, <1>3, <1>4, <1>5, <1>6, <1>7, <1>8, <1>9, <1>10, <1>11, <1>12, <1>13, <1>14
     DEF AtCheckout!CheckoutNext

-----------------------------------------------------------------------------
\* A submission that still has its form finds it as it was submitted: the form locks its
\* plan and its consent, and closing it takes the submission from it.
OwnRunIsShown ==
  \A r \in s7 : r.own =>
    s1 # None /\ s1 = r.door /\ (r.door.bills => s2 = r.plan /\ s3)
FormInv == AtCheckout!CheckoutTypeOK /\ OwnRunIsShown

LEMMA FormStarts == AtCheckout!CheckoutInit => FormInv
  BY CheckoutTypesStart DEF AtCheckout!CheckoutInit, FormInv, OwnRunIsShown

\* Every action of the checkout preserves the invariant.
LEMMA FormStays == FormInv /\ [AtCheckout!CheckoutNext]_AtCheckout!checkoutVars => FormInv'
<1> SUFFICES ASSUME FormInv, [AtCheckout!CheckoutNext]_AtCheckout!checkoutVars PROVE OwnRunIsShown'
  BY CheckoutTypesStay DEF FormInv
<1>1. s7 \subseteq AtCheckout!Run /\ s1 \in AtCheckout!Doors \cup {None}
  BY DEF FormInv, AtCheckout!CheckoutTypeOK
<1> USE DEF FormInv, OwnRunIsShown, AtCheckout!formVars, AtCheckout!orgVars, AtCheckout!serverVars
<1>2. ASSUME NEW d \in AtCheckout!Doors, NEW p \in Plans \cup {None}, AtCheckout!OpenDoor(d, p) PROVE OwnRunIsShown'
  BY <1>2 DEF AtCheckout!OpenDoor
\* While a form that bills has a submission, it takes neither another plan nor another
\* answer about the consent.
<1>3. ASSUME AtCheckout!FreeToChange, UNCHANGED <<s1, s7>> PROVE OwnRunIsShown'
  <2>1. ASSUME NEW r \in s7, r.own PROVE ~r.door.bills
    BY <1>1, <1>3, <2>1, BillingDoorsLock DEF AtCheckout!FreeToChange, AtCheckout!submitting, AtCheckout!Run
  <2> QED
    BY <1>3, <2>1
<1>4. ASSUME NEW p \in Plans, AtCheckout!SelectPlan(p) PROVE OwnRunIsShown'
  BY <1>3, <1>4 DEF AtCheckout!SelectPlan
<1>5. CASE AtCheckout!RecurringPaymentConsent
  BY <1>3, <1>5 DEF AtCheckout!RecurringPaymentConsent
<1>6. CASE AtCheckout!handleSubmit
  BY <1>6 DEF AtCheckout!handleSubmit, AtCheckout!Shown
<1>7. CASE AtCheckout!Close
  <2>1. \A r \in s7' : ~r.own
    BY <1>1, <1>7 DEF AtCheckout!Close, AtCheckout!Run
  <2> QED
    BY <2>1
<1>8. ASSUME NEW r \in s7, AtCheckout!SavingAnswers(r) PROVE OwnRunIsShown'
  <2>1. UNCHANGED <<s1, s2, s3>>
    BY <1>8 DEF AtCheckout!SavingAnswers
  <2>2. s7' \subseteq s7 \cup {[r EXCEPT !.stage = "charging"]}
    BY <1>8 DEF AtCheckout!SavingAnswers
  <2>3. LET c == [r EXCEPT !.stage = "charging"] IN c.own = r.own /\ c.door = r.door /\ c.plan = r.plan
    BY <1>1 DEF AtCheckout!Run
  <2> QED
    BY <2>1, <2>2, <2>3
<1>9. ASSUME NEW r \in s7, AtCheckout!useInitialPaymentInit(r) PROVE OwnRunIsShown'
  BY <1>9 DEF AtCheckout!useInitialPaymentInit
<1>10. CASE AtCheckout!BillingReturnPage \/ AtCheckout!ObjednavkaNavratPage
  BY <1>10 DEF AtCheckout!BillingReturnPage, AtCheckout!ObjednavkaNavratPage, AtCheckout!LoadedAnew
\* The others write neither the form's choices nor the submissions.
<1>11. ASSUME UNCHANGED <<s1, s2, s3, s7>> PROVE OwnRunIsShown'
  BY <1>11
<1>12. ASSUME \/ AtCheckout!OrganizationAnswers \/ UNCHANGED AtCheckout!checkoutVars
              \/ \E p \in Plans : AtCheckout!PaymentLands(p)
              \/ \E v \in Details \cup {None} : AtCheckout!OrgBillingFields(v)
              \/ \E v \in Details : AtCheckout!ColleagueStores(v)
       PROVE  UNCHANGED <<s1, s2, s3, s7>>
  BY <1>12 DEF AtCheckout!OrganizationAnswers, AtCheckout!PaymentLands, AtCheckout!OrgBillingFields, AtCheckout!ColleagueStores, AtCheckout!checkoutVars
<1> QED
  BY <1>2, <1>4, <1>5, <1>6, <1>7, <1>8, <1>9, <1>10, <1>11, <1>12 DEF AtCheckout!CheckoutNext

\* Only the answer to a payment takes the browser away, and only to a form that acts on it.
LEMMA LeavesAsConfirmed == FormInv /\ [AtCheckout!CheckoutNext]_AtCheckout!checkoutVars => AtCheckout!GoesAsConfirmed
<1> SUFFICES ASSUME FormInv, AtCheckout!CheckoutNext, s11 = None, s11' # None, s11'.door.bills
             PROVE  s1 = s11'.door /\ s2 = s11'.plan /\ s3 /\ s8 # None
  BY DEF AtCheckout!GoesAsConfirmed, AtCheckout!checkoutVars
<1>1. PICK r \in s7 : AtCheckout!useInitialPaymentInit(r)
  BY DEF AtCheckout!CheckoutNext, AtCheckout!OpenDoor, AtCheckout!OrganizationAnswers, AtCheckout!RecurringPaymentConsent, AtCheckout!handleSubmit, AtCheckout!Close,
     AtCheckout!BillingReturnPage, AtCheckout!ObjednavkaNavratPage, AtCheckout!LoadedAnew, AtCheckout!SelectPlan, AtCheckout!PaymentLands,
     AtCheckout!OrgBillingFields, AtCheckout!ColleagueStores, AtCheckout!SavingAnswers
<1>2. s11' = r /\ AtCheckout!ActsOn(r) /\ r.door.bills /\ s8 # None
  BY <1>1 DEF AtCheckout!useInitialPaymentInit
<1>3. r.own
  BY <1>2, BillingDoorsLock DEF AtCheckout!ActsOn, FormInv, AtCheckout!CheckoutTypeOK, AtCheckout!Run
<1> QED
  BY <1>2, <1>3 DEF FormInv, OwnRunIsShown

-----------------------------------------------------------------------------
(***************************************************************************)
(* The layout of a dashboard, and its order on a phone.                     *)
(***************************************************************************)
\* Of a set of numbers one is the least.
LEMMA LeastOf ==
  ASSUME NEW T, T \subseteq Nat, T # {}
  PROVE  \E n \in T : \A m \in T : n <= m
<1>1. PICK n \in T : \A m \in T : ~(<<m, n>> \in OpToRel(<, Nat))
  BY WFMin, NatLessThanWellFounded
<1>2. \A m \in T : ~(m < n)
  BY <1>1 DEF OpToRel
<1>3. \A m \in T : m \in Nat
  OBVIOUS
<1> QED
  BY <1>2, <1>3

\* The fold takes the last place of what is left, which there is.
Largest(D) == CHOOSE x \in D : \A y \in D : x >= y
Taken(s, S, i, kept) == IF s[i] \in S THEN Append(kept, s[i]) ELSE kept
IsFold(s, S, g) ==
  g = [D \in SUBSET DOMAIN s |-> IF D = {} THEN << >> ELSE Taken(s, S, Largest(D), g[D \ {Largest(D)}])]
Fold(s, S) == CHOOSE g : IsFold(s, S, g)

LEMMA OnlyIsFold == ASSUME NEW s, NEW S PROVE AtWidgets!Only(s, S) = Fold(s, S)[DOMAIN s]
  BY DEF AtWidgets!Only, AtWidgets!FoldLeft, AtWidgets!MapThenFoldSet, AtWidgets!Max, Fold, IsFold, Taken, Largest

LEMMA LargestIsThere ==
  ASSUME NEW n \in Nat, NEW D, D \subseteq 1 .. n, D # {}
  PROVE  Largest(D) \in D /\ \A y \in D : Largest(D) >= y
<1> DEFINE T == {n - x : x \in D}
<1>0. \A x \in D : x \in 1 .. n /\ x \in Nat /\ n - x \in Nat
  OBVIOUS
<1>1. T \subseteq Nat /\ T # {}
  BY <1>0
<1> HIDE DEF T
<1>2. PICK t \in T : \A m \in T : t <= m
  BY <1>1, LeastOf
<1>3. PICK x \in D : t = n - x
  BY DEF T
<1>4. \A y \in D : x >= y
  <2> SUFFICES ASSUME NEW y \in D PROVE x >= y
    OBVIOUS
  <2>1. n - x <= n - y
    BY <1>2, <1>3 DEF T
  <2> QED BY <1>0, <2>1
<1> QED
  BY <1>4 DEF Largest

LEMMA LessOne ==
  ASSUME NEW n \in Nat, NEW D, D \subseteq 1 .. n, D # {}
  PROVE  /\ D \ {Largest(D)} \subseteq 1 .. n
         /\ Cardinality(D) \in Nat /\ Cardinality(D) # 0
         /\ Cardinality(D \ {Largest(D)}) = Cardinality(D) - 1
<1>1. IsFiniteSet(1 .. n)
  BY FS_Interval
<1>2. IsFiniteSet(D)
  BY <1>1, FS_Subset
<1> QED
  BY <1>2, LargestIsThere, FS_RemoveElement, FS_CardinalityType, FS_EmptySet

LEMMA FoldIsDefined ==
  ASSUME NEW s, NEW S, NEW N \in Nat, DOMAIN s = 1 .. N
  PROVE  IsFold(s, S, Fold(s, S))
<1> DEFINE Small(n) == {D \in SUBSET (1 .. N) : Cardinality(D) <= n}
           Fits(n, g) == g = [D \in Small(n) |-> IF D = {} THEN << >> ELSE Taken(s, S, Largest(D), g[D \ {Largest(D)}])]
           Bad == {n \in Nat : ~\E g : Fits(n, g)}
<1>1. Bad = {}
  <2> SUFFICES ASSUME Bad # {} PROVE FALSE
    OBVIOUS
  <2>1. PICK n \in Bad : \A m \in Bad : n <= m
    BY LeastOf
  <2>2. CASE n = 0
    <3>1. \A D \in Small(0) : D = {}
      <4> SUFFICES ASSUME NEW D \in Small(0), D # {} PROVE FALSE
        OBVIOUS
      <4>1. Cardinality(D) <= 0 /\ D \subseteq 1 .. N
        OBVIOUS
      <4> HIDE DEF Small
      <4>2. Cardinality(D) \in Nat /\ Cardinality(D) # 0
        BY <4>1, LessOne
      <4> QED
        BY <4>1, <4>2
    <3>2. Fits(0, [D \in Small(0) |-> << >>])
      BY <3>1
    <3> QED
      BY <2>1, <2>2, <3>2
  <2>3. CASE n # 0
    <3>1. n - 1 \in Nat /\ n - 1 \notin Bad
      <4>1. n \in Nat /\ n - 1 \in Nat /\ ~(n <= n - 1)
        BY <2>3
      <4> HIDE DEF Bad
      <4> QED BY <2>1, <4>1
    <3>2. PICK g : Fits(n - 1, g)
      BY <3>1
    <3> DEFINE h == [D \in Small(n) |-> IF D = {} THEN << >> ELSE Taken(s, S, Largest(D), g[D \ {Largest(D)}])]
    <3>3. \A D \in Small(n) : D # {} => D \ {Largest(D)} \in Small(n - 1) /\ D \ {Largest(D)} \in Small(n)
      <4> SUFFICES ASSUME NEW D \in SUBSET (1 .. N), Cardinality(D) <= n, D # {}
                   PROVE  LET c == Cardinality(D \ {Largest(D)}) IN c <= n - 1 /\ c <= n /\ D \ {Largest(D)} \subseteq 1 .. N
        OBVIOUS
      <4>1. Cardinality(D) \in Nat /\ Cardinality(D \ {Largest(D)}) = Cardinality(D) - 1 /\ D \ {Largest(D)} \subseteq 1 .. N
        BY LessOne
      <4> QED BY <2>1, <4>1
    <3>4. \A D \in Small(n - 1) : D \in Small(n) => g[D] = h[D]
      BY <3>2
    <3>5. \A D \in Small(n) : D # {} => g[D \ {Largest(D)}] = h[D \ {Largest(D)}]
      BY <3>3, <3>4
    <3>6. h = [D \in Small(n) |-> IF D = {} THEN << >> ELSE Taken(s, S, Largest(D), h[D \ {Largest(D)}])]
      <4> HIDE DEF Small, Fits, Bad
      <4> QED BY <3>5
    <3> QED
      BY <2>1, <3>6
  <2> QED
    BY <2>2, <2>3
<1>2. IsFiniteSet(1 .. N) /\ Cardinality(1 .. N) \in Nat
  BY FS_Interval, FS_CardinalityType
<1>3. PICK g : Fits(Cardinality(1 .. N), g)
  BY <1>1, <1>2
<1>4. Small(Cardinality(1 .. N)) = SUBSET (1 .. N)
  BY <1>2, FS_Subset
<1>5. IsFold(s, S, g)
  BY <1>3, <1>4 DEF IsFold
<1> QED
  BY <1>5 DEF Fold

\* Place by place.
LEMMA FoldByPlaces ==
  ASSUME NEW s, NEW S, NEW N \in Nat, DOMAIN s = 1 .. N
  PROVE  /\ Fold(s, S)[1 .. 0] = << >>
         /\ \A n \in 1 .. N : Fold(s, S)[1 .. n] = Taken(s, S, n, Fold(s, S)[1 .. (n - 1)])
<1> DEFINE g == Fold(s, S)
<1>1. \A D \in SUBSET (1 .. N) : g[D] = IF D = {} THEN << >> ELSE Taken(s, S, Largest(D), g[D \ {Largest(D)}])
  <2>1. IsFold(s, S, g)
    BY FoldIsDefined
  <2> HIDE DEF g
  <2> QED BY <2>1 DEF IsFold
<1> HIDE DEF g
<1>2. 1 .. 0 = {}
  OBVIOUS
<1>3. ASSUME NEW n \in 1 .. N PROVE g[1 .. n] = Taken(s, S, n, g[1 .. (n - 1)])
  <2>1. 1 .. n \subseteq 1 .. N /\ 1 .. n # {} /\ n \in 1 .. n /\ n \in Nat
    OBVIOUS
  <2>2. Largest(1 .. n) = n
    <3>1. Largest(1 .. n) \in 1 .. n /\ Largest(1 .. n) >= n
      BY <2>1, LargestIsThere
    <3> QED BY <3>1
  <2>3. (1 .. n) \ {n} = 1 .. (n - 1)
    OBVIOUS
  <2> QED BY <1>1, <2>1, <2>2, <2>3
<1> QED
  BY <1>1, <1>2, <1>3 DEF g

\* A filter keeps the members it should and no other, and all of a sequence that has only such.
LEMMA OnlyKeeps ==
  ASSUME NEW T, NEW s \in Seq(T), NEW S
  PROVE  /\ AtWidgets!Only(s, S) \in Seq(T)
         /\ AtWidgets!ToSet(AtWidgets!Only(s, S)) = AtWidgets!ToSet(s) \cap S
         /\ AtWidgets!ToSet(s) \subseteq S => AtWidgets!Only(s, S) = s
<1> DEFINE N == Len(s)
           p == [n \in 0 .. N |-> Fold(s, S)[1 .. n]]
           Elems(n) == {s[i] : i \in 1 .. n} \cap S
           Good(n) == /\ p[n] \in Seq(T)
                      /\ {p[n][k] : k \in 1 .. Len(p[n])} = Elems(n)
                      /\ AtWidgets!ToSet(s) \subseteq S => Len(p[n]) = n /\ \A k \in 1 .. n : p[n][k] = s[k]
           Bad == {n \in 0 .. N : ~Good(n)}
<1>0. N \in Nat /\ DOMAIN s = 1 .. N /\ \A i \in 1 .. N : s[i] \in T
  OBVIOUS
<1>1. p[0] = << >> /\ \A n \in 1 .. N : p[n] = Taken(s, S, n, p[n - 1])
  <2>1. \A n \in 0 .. N : p[n] = Fold(s, S)[1 .. n]
    OBVIOUS
  <2>2. 0 \in 0 .. N /\ \A n \in 1 .. N : n \in 0 .. N /\ n - 1 \in 0 .. N
    BY <1>0
  <2> HIDE DEF p, N
  <2> QED BY <1>0, <2>1, <2>2, FoldByPlaces
<1>2. AtWidgets!Only(s, S) = p[N]
  BY <1>0, OnlyIsFold
<1> HIDE DEF p, N
<1>3. Good(0)
  BY <1>1
<1>4. ASSUME NEW n \in 1 .. N, Good(n - 1) PROVE Good(n)
  <2>1. CASE s[n] \in S
    <3>1. p[n] = Append(p[n - 1], s[n]) /\ s[n] \in T
      BY <1>0, <1>1, <2>1 DEF Taken
    <3> DEFINE q == p[n - 1]
               l == Len(q)
    <3>2. q \in Seq(T) /\ l \in Nat /\ {q[k] : k \in 1 .. l} = Elems(n - 1)
      <4>1. q \in Seq(T) /\ {q[k] : k \in 1 .. l} = Elems(n - 1)
        BY <1>4, Zenon
      <4> HIDE DEF q, Elems
      <4> QED BY <4>1
    <3>3. p[n] \in Seq(T) /\ Len(p[n]) = l + 1 /\ p[n][l + 1] = s[n] /\ \A k \in 1 .. l : p[n][k] = q[k]
      BY <3>1, <3>2
    <3>4. {p[n][k] : k \in 1 .. Len(p[n])} = {q[k] : k \in 1 .. l} \cup {s[n]}
      <4> HIDE DEF q, l
      <4>1. 1 .. (l + 1) = (1 .. l) \cup {l + 1}
        BY <3>2
      <4> QED BY <3>3, <4>1
    <3>5. Elems(n) = Elems(n - 1) \cup {s[n]}
      <4>1. 1 .. n = (1 .. (n - 1)) \cup {n}
        BY <1>0
      <4> QED BY <2>1, <4>1
    <3>6. ASSUME AtWidgets!ToSet(s) \subseteq S
          PROVE  Len(p[n]) = n /\ \A k \in 1 .. n : p[n][k] = s[k]
      <4>1. l = n - 1 /\ \A k \in 1 .. (n - 1) : q[k] = s[k]
        BY <1>4, <3>6
      <4> HIDE DEF q, l
      <4> QED BY <1>0, <3>3, <4>1
    <3> HIDE DEF q, l
    <3> QED BY <3>2, <3>3, <3>4, <3>5, <3>6
  <2>2. CASE s[n] \notin S
    <3>1. p[n] = p[n - 1]
      BY <1>1, <2>2 DEF Taken
    <3>2. Elems(n) = Elems(n - 1)
      <4>1. 1 .. n = (1 .. (n - 1)) \cup {n}
        BY <1>0
      <4> QED BY <2>2, <4>1
    <3>3. ~(AtWidgets!ToSet(s) \subseteq S)
      BY <1>0, <2>2 DEF AtWidgets!ToSet
    <3> QED BY <1>4, <3>1, <3>2, <3>3
  <2> QED BY <2>1, <2>2
<1>5. Bad = {}
  <2> HIDE DEF Good
  <2> SUFFICES ASSUME Bad # {} PROVE FALSE
    OBVIOUS
  <2>1. Bad \subseteq Nat
    BY <1>0
  <2>2. PICK n \in Bad : \A m \in Bad : n <= m
    BY <2>1, LeastOf
  <2>3. n # 0 /\ n \in 1 .. N /\ n - 1 \in 0 .. N /\ ~(n <= n - 1)
    BY <1>0, <1>3, <2>2
  <2>4. Good(n - 1)
    <3> HIDE DEF Bad
    <3>1. n - 1 \notin Bad
      BY <2>2, <2>3
    <3> QED BY <2>3, <3>1 DEF Bad
  <2> QED BY <1>4, <2>2, <2>3, <2>4
<1>6. Good(N)
  <2> HIDE DEF Good
  <2> QED BY <1>0, <1>5
<1>7. AtWidgets!ToSet(s) = {s[i] : i \in 1 .. N} /\ AtWidgets!ToSet(p[N]) = {p[N][k] : k \in 1 .. Len(p[N])}
  BY <1>0, <1>6 DEF AtWidgets!ToSet
<1>8. AtWidgets!ToSet(s) \subseteq S => p[N] = s
  <2> SUFFICES ASSUME AtWidgets!ToSet(s) \subseteq S PROVE p[N] = s
    OBVIOUS
  <2>1. p[N] \in Seq(T) /\ s \in Seq(T) /\ Len(p[N]) = Len(s) /\ \A k \in 1 .. Len(s) : p[N][k] = s[k]
    BY <1>6 DEF N
  <2> QED BY <2>1, SeqEqual
<1> QED
  BY <1>2, <1>6, <1>7, <1>8

LEMMA TakenOutIsSeq ==
  ASSUME NEW T, NEW s \in Seq(T), NEW i \in 1 .. Len(s)
  PROVE  /\ AtWidgets!RemoveAt(s, i) \in Seq(T)
         /\ Len(AtWidgets!RemoveAt(s, i)) = Len(s) - 1
<1>1. i \in Nat /\ Len(s) \in Nat /\ i - 1 <= Len(s) /\ i >= 1 /\ i <= Len(s)
  OBVIOUS
<1>2. SubSeq(s, 1, i - 1) \in Seq(T) /\ Len(SubSeq(s, 1, i - 1)) = i - 1
  BY <1>1, SubSeqProperties
<1>3. SubSeq(s, i + 1, Len(s)) \in Seq(T) /\ Len(SubSeq(s, i + 1, Len(s))) = Len(s) - i
  BY <1>1, SubSeqProperties
<1>4. PICK a, b : a = SubSeq(s, 1, i - 1) /\ b = SubSeq(s, i + 1, Len(s))
  OBVIOUS
<1>5. a \o b \in Seq(T) /\ Len(a \o b) = Len(a) + Len(b)
  BY <1>2, <1>3, <1>4
<1>6. AtWidgets!RemoveAt(s, i) = a \o b
  BY <1>4 DEF AtWidgets!RemoveAt
<1>7. Len(a) = i - 1 /\ Len(b) = Len(s) - i
  BY <1>2, <1>3, <1>4
<1>8. \A k \in Nat : (i - 1) + (k - i) = k - 1
  BY <1>1
<1> QED
  BY <1>1, <1>5, <1>6, <1>7, <1>8, Zenon

LEMMA MovedIsSeq ==
  ASSUME NEW T, NEW s \in Seq(T), NEW i \in 1 .. Len(s), NEW j \in 1 .. Len(s)
  PROVE  AtWidgets!Moved(s, i, j) \in Seq(T)
<1>0. i \in Nat /\ j \in Nat /\ Len(s) \in Nat /\ i >= 1 /\ i <= Len(s) /\ j >= 1 /\ j <= Len(s) /\ s[i] \in T
  OBVIOUS
<1>1. PICK r : r = AtWidgets!RemoveAt(s, i)
  OBVIOUS
<1>2. r \in Seq(T) /\ Len(r) = Len(s) - 1
  BY <1>1, TakenOutIsSeq
<1>3. SubSeq(r, 1, j - 1) \in Seq(T) /\ SubSeq(r, j, Len(r)) \in Seq(T)
  BY <1>0, <1>2, SubSeqProperties
<1>4. AtWidgets!Moved(s, i, j) = SubSeq(r, 1, j - 1) \o <<s[i]>> \o SubSeq(r, j, Len(r))
  BY <1>1 DEF AtWidgets!Moved, AtWidgets!InsertAt
<1> QED
  BY <1>0, <1>3, <1>4

\* What a dashboard may be: the reports keep no phone order.
Layouts(p) ==
  {c \in AtWidgets!Config : /\ p = "reports" => c.phone = << >> /\ c.pick \in AtWidgets!Filters
                            /\ p = "home" => c.pick \in TodoLists}
Readings(p) == Layouts(p) \cup {None}
Requests ==
  [step : {"sent", "ok", "refused"}, do : {"save", "choice", "reset"}, body : Layouts(s1), prev : Readings(s1)]

LayoutsAreSound ==
  /\ s1 \in {"home", "reports"} /\ s2 \in Layouts(s1)
  /\ s3 \in [data : Readings(s1), invalid : BOOLEAN, fetch : [step : {"idle", "asked", "read"}, got : Readings(s1)]]
  /\ {s4, s6, s7} \subseteq BOOLEAN /\ s5 \in Readings(s1) /\ (~s4 => s5 = None)
  /\ s8 \in [PutSlots -> {AtWidgets!Idle} \cup Requests]
  /\ s9 \in PutSlots \cup {None} /\ taps \in 0 .. TapsOf.widgets

LEMMA PhoneShowsTheGrid ==
  ASSUME NEW c \in AtWidgets!Config
  PROVE  /\ AtWidgets!PhoneOrder(c) \in Seq(WidgetTypes)
         /\ AtWidgets!ToSet(AtWidgets!PhoneOrder(c)) = AtWidgets!ToSet(c.grid)
<1> DEFINE G == AtWidgets!ToSet(c.grid)
           P == AtWidgets!ToSet(c.phone)
           a == AtWidgets!Only(c.phone, G)
           b == AtWidgets!Only(c.grid, WidgetTypes \ P)
<1>1. c.grid \in Seq(WidgetTypes) /\ c.phone \in Seq(WidgetTypes)
  BY DEF AtWidgets!Config
<1>2. G \subseteq WidgetTypes /\ P \subseteq WidgetTypes
  BY <1>1 DEF AtWidgets!ToSet
<1> HIDE DEF G, P
<1>3. a \in Seq(WidgetTypes) /\ AtWidgets!ToSet(a) = P \cap G
  BY <1>1, OnlyKeeps DEF P
<1>4. b \in Seq(WidgetTypes) /\ AtWidgets!ToSet(b) = G \cap (WidgetTypes \ P)
  BY <1>1, OnlyKeeps DEF G
<1>5. AtWidgets!PhoneOrder(c) = a \o b
  BY DEF AtWidgets!PhoneOrder, AtWidgets!InOrder, G, P
<1> HIDE DEF a, b
<1>6. AtWidgets!ToSet(a \o b) = AtWidgets!ToSet(a) \cup AtWidgets!ToSet(b)
  <2>1. Len(a) \in Nat /\ Len(b) \in Nat /\ DOMAIN a = 1 .. Len(a) /\ DOMAIN b = 1 .. Len(b) /\ DOMAIN (a \o b) = 1 .. Len(a) + Len(b)
    BY <1>3, <1>4
  <2>2. \A i \in 1 .. Len(a) + Len(b) : (a \o b)[i] = IF i <= Len(a) THEN a[i] ELSE b[i - Len(a)]
    BY <1>3, <1>4
  <2>3. ASSUME NEW x \in AtWidgets!ToSet(a \o b) PROVE x \in AtWidgets!ToSet(a) \cup AtWidgets!ToSet(b)
    <3>1. PICK i \in 1 .. Len(a) + Len(b) : x = (a \o b)[i]
      BY <2>1 DEF AtWidgets!ToSet
    <3>2. i <= Len(a) => i \in DOMAIN a
      BY <2>1
    <3>3. ~(i <= Len(a)) => i - Len(a) \in DOMAIN b
      BY <2>1
    <3> QED BY <2>2, <3>1, <3>2, <3>3 DEF AtWidgets!ToSet
  <2>4. ASSUME NEW i \in DOMAIN a PROVE a[i] \in AtWidgets!ToSet(a \o b)
    <3>1. i \in 1 .. Len(a) + Len(b) /\ i <= Len(a)
      BY <2>1
    <3> QED BY <2>1, <2>2, <3>1 DEF AtWidgets!ToSet
  <2>5. ASSUME NEW i \in DOMAIN b PROVE b[i] \in AtWidgets!ToSet(a \o b)
    <3>1. i + Len(a) \in 1 .. Len(a) + Len(b) /\ ~(i + Len(a) <= Len(a)) /\ (i + Len(a)) - Len(a) = i
      BY <2>1
    <3> QED BY <2>1, <2>2, <3>1 DEF AtWidgets!ToSet
  <2> QED BY <2>3, <2>4, <2>5 DEF AtWidgets!ToSet
<1> QED
  BY <1>2, <1>3, <1>4, <1>5, <1>6 DEF G

LEMMA SetOfAppend ==
  ASSUME NEW T, NEW s \in Seq(T), NEW x \in T
  PROVE  AtWidgets!ToSet(Append(s, x)) = AtWidgets!ToSet(s) \cup {x}
<1>1. Len(s) \in Nat /\ DOMAIN s = 1 .. Len(s) /\ DOMAIN Append(s, x) = (1 .. Len(s)) \cup {Len(s) + 1}
  OBVIOUS
<1>2. Append(s, x)[Len(s) + 1] = x /\ \A i \in 1 .. Len(s) : Append(s, x)[i] = s[i]
  OBVIOUS
<1> QED
  BY <1>1, <1>2 DEF AtWidgets!ToSet

\* A filter that keeps nothing.
LEMMA OnlyNone ==
  ASSUME NEW T, NEW s \in Seq(T), NEW S, AtWidgets!ToSet(s) \cap S = {}
  PROVE  AtWidgets!Only(s, S) = << >>
<1>1. PICK t : t = AtWidgets!Only(s, S)
  OBVIOUS
<1>2. t \in Seq(T) /\ AtWidgets!ToSet(t) = {}
  BY <1>1, OnlyKeeps
<1>3. DOMAIN t = {}
  BY <1>2 DEF AtWidgets!ToSet
<1>4. Len(t) \in Nat /\ DOMAIN t = 1 .. Len(t)
  BY <1>2
<1> QED
  BY <1>1, <1>2, <1>3, <1>4

\* The new widget is below everything, and last on the phone.
LEMMA AddedIsLast ==
  ASSUME s1 \in {"home", "reports"}, NEW c \in Layouts(s1), NEW w \in WidgetTypes, NEW d, d = AtWidgets!Added(c, w)
  PROVE  /\ d \in Layouts(s1) /\ d.grid = Append(c.grid, w)
         /\ AtWidgets!PhoneOrder(d) = Append(AtWidgets!PhoneOrder(c), w)
<1>1. c \in AtWidgets!Config /\ c.grid \in Seq(WidgetTypes) /\ c.phone \in Seq(WidgetTypes)
  BY DEF Layouts, AtWidgets!Config
<1>2. PICK o \in Seq(WidgetTypes) : o = AtWidgets!PhoneOrder(c) /\ AtWidgets!ToSet(o) = AtWidgets!ToSet(c.grid)
  BY <1>1, PhoneShowsTheGrid
<1>3. PICK g \in Seq(WidgetTypes) : g = Append(c.grid, w) /\ AtWidgets!ToSet(g) = AtWidgets!ToSet(c.grid) \cup {w}
  <2>1. Append(c.grid, w) \in Seq(WidgetTypes)
    BY <1>1
  <2> QED BY <1>1, <2>1, SetOfAppend
<1>4. PICK q \in Seq(WidgetTypes) : q = Append(o, w) /\ AtWidgets!ToSet(q) = AtWidgets!ToSet(o) \cup {w}
  <2>1. Append(o, w) \in Seq(WidgetTypes)
    OBVIOUS
  <2>2. AtWidgets!ToSet(Append(o, w)) = AtWidgets!ToSet(o) \cup {w}
    BY SetOfAppend
  <2> QED BY <2>1, <2>2
<1>5. d = [c EXCEPT !.grid = g, !.phone = IF s1 = "home" THEN q ELSE @]
  BY <1>2, <1>3, <1>4 DEF AtWidgets!Added
<1>6. d.grid = g /\ d.phone = (IF s1 = "home" THEN q ELSE c.phone) /\ d.pick = c.pick /\ d \in AtWidgets!Config
  BY <1>1, <1>5 DEF AtWidgets!Config
<1>7. d \in Layouts(s1)
  BY <1>6 DEF Layouts
<1>8. AtWidgets!PhoneOrder(d) = AtWidgets!Only(d.phone, AtWidgets!ToSet(g)) \o AtWidgets!Only(g, WidgetTypes \ AtWidgets!ToSet(d.phone))
  BY <1>6 DEF AtWidgets!PhoneOrder, AtWidgets!InOrder
<1>9. CASE s1 = "home"
  <2>1. AtWidgets!Only(q, AtWidgets!ToSet(g)) = q
    BY <1>2, <1>3, <1>4, OnlyKeeps
  <2>2. AtWidgets!Only(g, WidgetTypes \ AtWidgets!ToSet(q)) = << >>
    BY <1>2, <1>3, <1>4, OnlyNone
  <2>3. q \o << >> = q
    BY <1>4
  <2> QED BY <1>2, <1>3, <1>4, <1>6, <1>7, <1>8, <1>9, <2>1, <2>2, <2>3
<1>10. CASE s1 = "reports"
  <2>1. c.phone = << >> /\ d.phone = << >>
    BY <1>6, <1>10 DEF Layouts
  <2>2. AtWidgets!ToSet(<< >>) = {} /\ << >> \in Seq(WidgetTypes)
    BY DEF AtWidgets!ToSet
  <2>3. \A S : AtWidgets!Only(<< >>, S) = << >>
    BY <2>2, OnlyKeeps
  <2>4. AtWidgets!ToSet(g) \subseteq WidgetTypes /\ AtWidgets!ToSet(c.grid) \subseteq WidgetTypes
    BY <1>1 DEF AtWidgets!ToSet
  <2>5. AtWidgets!Only(g, WidgetTypes) = g /\ AtWidgets!Only(c.grid, WidgetTypes) = c.grid
    BY <1>1, <2>4, OnlyKeeps
  <2>6. WidgetTypes \ {} = WidgetTypes /\ << >> \o g = g /\ << >> \o c.grid = c.grid
    BY <1>1
  <2>7. o = c.grid
    BY <1>2, <2>1, <2>2, <2>3, <2>5, <2>6 DEF AtWidgets!PhoneOrder, AtWidgets!InOrder
  <2>8. AtWidgets!PhoneOrder(d) = g
    BY <1>8, <2>1, <2>2, <2>3, <2>5, <2>6
  <2> QED BY <1>2, <1>3, <1>6, <1>7, <2>7, <2>8
<1> QED
  BY <1>9, <1>10

\* What may be done to a layout makes a layout.
LEMMA LayoutsOfALayout ==
  ASSUME s1 \in {"home", "reports"}, NEW c \in Layouts(s1)
  PROVE  /\ \A w \in WidgetTypes : AtWidgets!Removed(c, w) \in Layouts(s1)
         /\ \A i, j \in 1 .. Len(c.grid) : [c EXCEPT !.grid = AtWidgets!Moved(@, i, j)] \in Layouts(s1)
         /\ \A p : (s1 = "home" => p \in TodoLists) /\ (s1 = "reports" => p \in AtWidgets!Filters)
                     => [c EXCEPT !.pick = p] \in Layouts(s1)
<1>1. c.grid \in Seq(WidgetTypes) /\ c.phone \in Seq(WidgetTypes) /\ c \in AtWidgets!Config
  BY DEF Layouts, AtWidgets!Config
<1>2. ASSUME NEW w \in WidgetTypes PROVE AtWidgets!Removed(c, w) \in Layouts(s1)
  <2>1. PICK g \in Seq(WidgetTypes) : g = AtWidgets!Only(c.grid, WidgetTypes \ {w})
    BY <1>1, OnlyKeeps
  <2>2. PICK q \in Seq(WidgetTypes) : q = AtWidgets!Only(c.phone, WidgetTypes \ {w})
    BY <1>1, OnlyKeeps
  <2>3. c.phone = << >> => q = << >>
    <3>1. AtWidgets!ToSet(<< >>) = {} /\ << >> \in Seq(WidgetTypes)
      BY DEF AtWidgets!ToSet
    <3> QED BY <2>2, <3>1, OnlyKeeps
  <2>4. AtWidgets!Removed(c, w) = [c EXCEPT !.grid = g, !.phone = q]
    BY <2>1, <2>2 DEF AtWidgets!Removed
  <2> QED BY <1>1, <2>3, <2>4 DEF Layouts, AtWidgets!Config
<1>3. ASSUME NEW g \in Seq(WidgetTypes) PROVE [c EXCEPT !.grid = g] \in Layouts(s1)
  BY <1>1 DEF Layouts, AtWidgets!Config
<1>4. ASSUME NEW i \in 1 .. Len(c.grid), NEW j \in 1 .. Len(c.grid)
      PROVE  [c EXCEPT !.grid = AtWidgets!Moved(@, i, j)] \in Layouts(s1)
  <2>1. AtWidgets!Moved(c.grid, i, j) \in Seq(WidgetTypes)
    BY <1>1, MovedIsSeq
  <2> QED BY <1>3, <2>1
<1>5. ASSUME NEW p, s1 = "home" => p \in TodoLists, s1 = "reports" => p \in AtWidgets!Filters
      PROVE  [c EXCEPT !.pick = p] \in Layouts(s1)
  BY <1>1, <1>5 DEF Layouts, AtWidgets!Config
<1> QED
  BY <1>2, <1>4, <1>5

\* The order of a phone, which only Home keeps.
LEMMA PhoneOrdersStay ==
  ASSUME s1 = "home", NEW c \in Layouts(s1),
         NEW i \in 1 .. Len(AtWidgets!PhoneOrder(c)), NEW j \in 1 .. Len(AtWidgets!PhoneOrder(c))
  PROVE  [c EXCEPT !.phone = AtWidgets!Moved(AtWidgets!PhoneOrder(c), i, j)] \in Layouts(s1)
<1>1. c \in AtWidgets!Config
  BY DEF Layouts
<1>2. PICK o \in Seq(WidgetTypes) : o = AtWidgets!PhoneOrder(c)
  BY <1>1, PhoneShowsTheGrid
<1>3. PICK q \in Seq(WidgetTypes) : q = AtWidgets!Moved(o, i, j)
  BY <1>2, MovedIsSeq
<1>4. [c EXCEPT !.phone = q] \in Layouts(s1)
  BY <1>1 DEF Layouts, AtWidgets!Config
<1> QED
  BY <1>2, <1>3, <1>4

LEMMA DefaultIsALayout == s1 \in {"home", "reports"} => AtWidgets!Default \in Layouts(s1)
<1> SUFFICES ASSUME s1 \in {"home", "reports"} PROVE AtWidgets!Default \in Layouts(s1)
  OBVIOUS
<1>1. DefaultGrid \in Seq(WidgetTypes) /\ FirstList \in TodoLists
  BY DeskAssumption DEF AtWidgets!WidgetsAssumption
<1>2. [team |-> None, owner |-> None] \in AtWidgets!Filters
  BY DEF AtWidgets!Filters
<1>3. PICK g \in Seq(WidgetTypes) : g = DefaultGrid
  BY <1>1
<1>4. PICK f \in AtWidgets!Filters : f = [team |-> None, owner |-> None]
  BY <1>2
<1>5. AtWidgets!Default = [grid |-> g, phone |-> << >>, pick |-> IF s1 = "home" THEN FirstList ELSE f]
  BY <1>3, <1>4 DEF AtWidgets!Default
<1>6. << >> \in Seq(WidgetTypes)
  OBVIOUS
<1> QED
  BY <1>1, <1>5, <1>6 DEF Layouts, AtWidgets!Config

LEMMA LayoutsStart == AtWidgets!WidgetsInit => LayoutsAreSound
<1> SUFFICES ASSUME AtWidgets!WidgetsInit PROVE LayoutsAreSound
  OBVIOUS
<1> USE DEF AtWidgets!WidgetsInit
<1>1. s1 \in {"home", "reports"} /\ AtWidgets!Default \in Layouts(s1)
  BY DefaultIsALayout
<1>2. s2 \in Layouts(s1)
  <2>1. DefaultGrid \in Seq(WidgetTypes)
    BY DeskAssumption DEF AtWidgets!WidgetsAssumption
  <2>2. AtWidgets!Reverse(DefaultGrid) \in Seq(WidgetTypes)
    <3>1. \A i \in 1 .. Len(DefaultGrid) : DefaultGrid[(Len(DefaultGrid) - i) + 1] \in WidgetTypes
      BY <2>1
    <3> QED BY <2>1, <3>1, IsASeq DEF AtWidgets!Reverse
  <2>3. PICK o \in Seq(WidgetTypes) : s2 = [AtWidgets!Default EXCEPT !.phone = o] /\ (s1 = "reports" => o = << >>)
    <3>1. << >> \in Seq(WidgetTypes)
      OBVIOUS
    <3> QED BY <2>2, <3>1
  <2> QED BY <1>1, <2>3 DEF Layouts, AtWidgets!Config
<1>3. 0 \in 0 .. TapsOf.widgets
  BY DeskAssumption DEF AtWidgets!WidgetsAssumption
<1> QED
  BY <1>1, <1>2, <1>3 DEF LayoutsAreSound, Readings

\* Answers, drafts and requests.
LEMMA LayoutsStay ==
  ASSUME LayoutsAreSound, [AtWidgets!WidgetsNext]_AtWidgets!widgetsVars
  PROVE  LayoutsAreSound'
<1> DEFINE Steps == {"idle", "asked", "read"}
           Queries == [data : Readings(s1), invalid : BOOLEAN, fetch : [step : Steps, got : Readings(s1)]]
<1>0. /\ s1 \in {"home", "reports"} /\ s2 \in Layouts(s1) /\ s3 \in Queries /\ s5 \in Readings(s1) /\ (~s4 => s5 = None)
      /\ None \in Readings(s1) /\ Layouts(s1) \subseteq Readings(s1) /\ AtWidgets!Default \in Layouts(s1)
      /\ s8 \in [PutSlots -> {AtWidgets!Idle} \cup Requests] /\ taps \in 0 .. TapsOf.widgets
  BY DefaultIsALayout DEF LayoutsAreSound, Readings
<1>t. ASSUME taps < TapsOf.widgets, taps' = taps + 1 PROVE taps' \in 0 .. TapsOf.widgets
  <2>1. TapsOf.widgets \in Nat
    BY DeskAssumption DEF AtWidgets!WidgetsAssumption
  <2> QED BY <1>0, <1>t, <2>1
<1> DEFINE Puts == [PutSlots -> {AtWidgets!Idle} \cup Requests]
<1>s. ASSUME s1' = s1, s2' \in Layouts(s1), s3' \in Queries, {s4', s6', s7'} \subseteq BOOLEAN, s5' \in Readings(s1),
             ~s4' => s5' = None, s8' \in Puts, s9' \in PutSlots \cup {None}, taps' \in 0 .. TapsOf.widgets
      PROVE  LayoutsAreSound'
  BY <1>0, <1>s DEF LayoutsAreSound, Requests
<1> DEFINE Flags == {s4, s6, s7} \subseteq BOOLEAN /\ s9 \in PutSlots \cup {None}
<1>f. Flags
  BY DEF LayoutsAreSound
<1>p. s3 = [data |-> s3.data, invalid |-> s3.invalid, fetch |-> s3.fetch] /\ s3.data \in Readings(s1) /\ s3.invalid \in BOOLEAN
      /\ s3.fetch \in [step : Steps, got : Readings(s1)] /\ s3.fetch.got \in Readings(s1)
  BY <1>0
<1>1. CASE AtWidgets!ServerReads
  <2> DEFINE r == [step |-> "read", got |-> s2]
  <2>1. r \in [step : Steps, got : Readings(s1)]
    BY <1>0
  <2>2. s3' = [s3 EXCEPT !.fetch = r] /\ UNCHANGED <<s1, s2, s4, s5, s6, s7, s8, s9, taps>>
    BY <1>1 DEF AtWidgets!ServerReads
  <2> HIDE DEF r
  <2>3. s3' \in Queries
    BY <1>0, <2>1, <2>2
  <2> HIDE DEF Queries, Puts
  <2> QED BY <1>0, <1>f, <1>s, <2>2, <2>3 DEF Puts
<1>2. CASE AtWidgets!ConfigArrives
  <2>1. PICK data : AtWidgets!Holds(data) /\ data \in Queries
    <3>1. AtWidgets!NoFetch \in [step : Steps, got : Readings(s1)]
      BY <1>0 DEF AtWidgets!NoFetch
    <3>2. PICK n \in [step : Steps, got : Readings(s1)] : n = AtWidgets!NoFetch
      BY <3>1
    <3>3. [data |-> s3.fetch.got, invalid |-> FALSE, fetch |-> n] \in Queries
      BY <1>p
    <3>4. [data |-> None, invalid |-> FALSE, fetch |-> n] \in Queries
      BY <1>0
    <3>5. [s3 EXCEPT !.invalid = TRUE, !.fetch = n] \in Queries
      BY <1>0
    <3> HIDE DEF Queries
    <3> QED BY <1>2, <3>2, <3>3, <3>4, <3>5 DEF AtWidgets!ConfigArrives
  <2>2. data.data \in Readings(s1)
    BY <2>1
  <2>3. UNCHANGED <<s1, s2, s4, s6, s7, s8, s9, taps>>
    BY <1>2 DEF AtWidgets!ConfigArrives
  <2> HIDE DEF Queries, Puts
  <2>4. s3' \in Queries /\ s5' \in Readings(s1) /\ (~s4' => s5' = None)
    BY <1>0, <2>1, <2>2, <2>3 DEF AtWidgets!Holds, AtWidgets!Seeded
  <2> QED BY <1>0, <1>f, <1>s, <2>3, <2>4 DEF Puts
<1>3. CASE AtWidgets!EnterEdit
  <2>1. /\ s4' = TRUE /\ s5' = s3.data /\ UNCHANGED <<s1, s2, s3, s6, s7, s8, s9>>
        /\ taps < TapsOf.widgets /\ taps' = taps + 1
    BY <1>3 DEF AtWidgets!EnterEdit, AtWidgets!Taps
  <2>2. taps' \in 0 .. TapsOf.widgets
    BY <1>t, <2>1
  <2> HIDE DEF Queries, Puts
  <2> QED BY <1>0, <1>f, <1>p, <1>s, <2>1, <2>2 DEF Puts
<1>4. CASE AtWidgets!CancelEdit \/ AtWidgets!TogglePicker \/ AtWidgets!AskReset \/ AtWidgets!CancelReset
  <2>1. /\ s6' \in BOOLEAN /\ s7' \in BOOLEAN /\ UNCHANGED <<s1, s2, s3, s8, s9>>
        /\ (UNCHANGED <<s4, s5>> \/ (s4' = FALSE /\ s5' = None))
    BY <1>4, <1>f DEF AtWidgets!CancelEdit, AtWidgets!TogglePicker, AtWidgets!AskReset, AtWidgets!CancelReset
  <2>2. taps' \in 0 .. TapsOf.widgets
    BY <1>4, <1>t DEF AtWidgets!CancelEdit, AtWidgets!TogglePicker, AtWidgets!AskReset, AtWidgets!CancelReset, AtWidgets!Taps
  <2>3. s4' \in BOOLEAN
    BY <2>1, <1>f
  <2>4. s5' \in Readings(s1) /\ (~s4' => s5' = None)
    BY <2>1, <1>0
  <2> HIDE DEF Queries, Puts
  <2> QED BY <1>0, <1>f, <1>s, <2>1, <2>2, <2>3, <2>4 DEF Puts
\* A draft, and a save.
<1>d. ASSUME NEW c \in Layouts(s1), AtWidgets!Drafts(c), AtWidgets!Taps PROVE LayoutsAreSound'
  <2>1. UNCHANGED <<s1, s2, s3, s4, s6, s7, s8, s9>> /\ s5' = IF s4 THEN c ELSE None
    BY <1>d DEF AtWidgets!Drafts
  <2>2. taps' \in 0 .. TapsOf.widgets
    BY <1>d, <1>t DEF AtWidgets!Taps
  <2> HIDE DEF Queries, Puts
  <2> QED BY <1>0, <1>f, <1>s, <2>1, <2>2 DEF Puts
<1>v. ASSUME NEW i \in PutSlots, NEW do \in {"save", "choice"}, NEW c \in Layouts(s1), AtWidgets!Saves(i, do, c), AtWidgets!Taps,
             UNCHANGED <<s1, s2, s4, s5, s6, s7>>
      PROVE  LayoutsAreSound'
  <2> DEFINE put == [step |-> "sent", do |-> do, body |-> c, prev |-> s3.data]
             n == AtWidgets!NoFetch
  <2>1. put \in Requests
    BY <1>p DEF Requests
  <2>2. n \in [step : Steps, got : Readings(s1)]
    BY <1>0 DEF AtWidgets!NoFetch
  <2>3. s8' = [s8 EXCEPT ![i] = put] /\ s3' = [s3 EXCEPT !.data = c, !.fetch = n] /\ s9' = i
    BY <1>v DEF AtWidgets!Saves
  <2> HIDE DEF put, n
  <2>4. s8' \in Puts
    BY <1>0, <2>1, <2>3
  <2>5. s3' \in Queries
    BY <1>0, <2>2, <2>3
  <2>6. taps' \in 0 .. TapsOf.widgets
    BY <1>t, <1>v DEF AtWidgets!Taps
  <2> HIDE DEF Queries, Puts
  <2> QED BY <1>0, <1>f, <1>s, <1>v, <2>3, <2>4, <2>5, <2>6
<1>5. CASE AtWidgets!SaveEdit
  <2>1. s5 \in Layouts(s1) /\ AtWidgets!Taps /\ UNCHANGED <<s1, s2, s4, s5, s6, s7>>
    BY <1>5, <1>0 DEF AtWidgets!SaveEdit, Readings
  <2>2. PICK i \in PutSlots : AtWidgets!Saves(i, "save", s5)
    BY <1>5 DEF AtWidgets!SaveEdit
  <2> QED BY <1>v, <2>1, <2>2
<1>w. AtWidgets!Working # None => AtWidgets!Working \in Layouts(s1)
  BY <1>0, <1>p DEF AtWidgets!Working, Readings
<1>6. ASSUME NEW w \in WidgetTypes, AtWidgets!AddWidget(w) PROVE LayoutsAreSound'
  <2>1. PICK c \in Layouts(s1) : c = AtWidgets!Working
    BY <1>6, <1>w DEF AtWidgets!AddWidget
  <2>2. AtWidgets!Added(c, w) \in Layouts(s1)
    BY <1>0, AddedIsLast
  <2> QED BY <1>6, <1>d, <2>1, <2>2 DEF AtWidgets!AddWidget
<1>7. ASSUME NEW w \in WidgetTypes, AtWidgets!RemoveWidget(w) PROVE LayoutsAreSound'
  <2>1. s5 \in Layouts(s1)
    BY <1>0, <1>7 DEF AtWidgets!RemoveWidget, Readings
  <2>2. AtWidgets!Removed(s5, w) \in Layouts(s1)
    BY <1>0, <2>1, LayoutsOfALayout
  <2> QED BY <1>7, <1>d, <2>2 DEF AtWidgets!RemoveWidget
<1>8. ASSUME NEW i, NEW j, AtWidgets!DragOnGrid(i, j) PROVE LayoutsAreSound'
  <2>1. s5 \in Layouts(s1) /\ i \in 1 .. Len(s5.grid) /\ j \in 1 .. Len(s5.grid)
    BY <1>0, <1>8 DEF AtWidgets!DragOnGrid, Readings
  <2>2. [s5 EXCEPT !.grid = AtWidgets!Moved(@, i, j)] \in Layouts(s1)
    BY <1>0, <2>1, LayoutsOfALayout
  <2> QED BY <1>8, <1>d, <2>2 DEF AtWidgets!DragOnGrid
<1>9. ASSUME NEW i, NEW j, AtWidgets!MoveOnPhone(i, j) PROVE LayoutsAreSound'
  <2>1. /\ s5 \in Layouts(s1) /\ s1 = "home"
        /\ i \in 1 .. Len(AtWidgets!PhoneOrder(s5)) /\ j \in 1 .. Len(AtWidgets!PhoneOrder(s5))
    BY <1>0, <1>9 DEF AtWidgets!MoveOnPhone, Readings
  <2>2. [s5 EXCEPT !.phone = AtWidgets!Moved(AtWidgets!PhoneOrder(s5), i, j)] \in Layouts(s1)
    BY <2>1, PhoneOrdersStay
  <2> QED BY <1>9, <1>d, <2>2 DEF AtWidgets!MoveOnPhone
<1>10. ASSUME NEW p, AtWidgets!Chosen(p), s1 = "home" => p \in TodoLists, s1 = "reports" => p \in AtWidgets!Filters
       PROVE  LayoutsAreSound'
  <2>1. PICK c \in Layouts(s1) : c = AtWidgets!Working
    BY <1>10, <1>w DEF AtWidgets!Chosen
  <2>2. [c EXCEPT !.pick = p] \in Layouts(s1)
    BY <1>0, <1>10, LayoutsOfALayout
  <2>3. CASE s4
    BY <1>10, <1>d, <2>1, <2>2, <2>3 DEF AtWidgets!Chosen
  <2>4. CASE ~s4
    <3>1. c = s3.data
      BY <2>1, <2>4 DEF AtWidgets!Working
    <3>2. PICK i \in PutSlots : AtWidgets!Saves(i, "choice", [c EXCEPT !.pick = p])
      BY <1>10, <2>4, <3>1 DEF AtWidgets!Chosen
    <3>3. AtWidgets!Taps /\ UNCHANGED <<s1, s2, s4, s5, s6, s7>>
      BY <1>10, <2>4 DEF AtWidgets!Chosen
    <3> QED BY <1>v, <2>2, <3>2, <3>3
  <2> QED BY <2>3, <2>4
<1>11. ASSUME NEW l \in TodoLists, AtWidgets!ChooseList(l) PROVE LayoutsAreSound'
  BY <1>10, <1>11 DEF AtWidgets!ChooseList
<1>12. CASE AtWidgets!ChooseFilters
  <2>1. s1 = "reports" /\ AtWidgets!Working \in Layouts(s1)
    BY <1>12, <1>w DEF AtWidgets!ChooseFilters
  <2>2. PICK f \in AtWidgets!Filters : f = AtWidgets!Working.pick
    BY <2>1 DEF Layouts
  <2>3. \A t \in Teams \cup {None} : AtWidgets!Members(t) \subseteq Colleagues \cup {None}
    BY DEF AtWidgets!Members
  <2>4. \/ \E t \in Teams \cup {None} :
             AtWidgets!Chosen([team |-> t, owner |-> IF f.owner \in AtWidgets!Members(t) THEN f.owner ELSE None])
        \/ \E u \in AtWidgets!Members(f.team) : AtWidgets!Chosen([f EXCEPT !.owner = u])
    BY <1>12, <2>2 DEF AtWidgets!ChooseFilters
  <2>5. ASSUME NEW t \in Teams \cup {None}
        PROVE  [team |-> t, owner |-> IF f.owner \in AtWidgets!Members(t) THEN f.owner ELSE None] \in AtWidgets!Filters
    BY DEF AtWidgets!Filters
  <2>6. ASSUME NEW u \in AtWidgets!Members(f.team) PROVE [f EXCEPT !.owner = u] \in AtWidgets!Filters
    <3>1. f.team \in Teams \cup {None} /\ u \in Colleagues \cup {None}
      BY <2>3 DEF AtWidgets!Filters
    <3> QED BY <3>1 DEF AtWidgets!Filters
  <2> QED BY <1>10, <2>1, <2>4, <2>5, <2>6
<1>13. CASE AtWidgets!ConfirmReset
  <2> DEFINE put(d) == [step |-> "sent", do |-> "reset", body |-> d, prev |-> None]
  <2>1. PICK d \in Layouts(s1) : d = AtWidgets!Default
    BY <1>0
  <2>2. put(d) \in Requests
    BY <1>0 DEF Requests
  <2>3. PICK i \in PutSlots : s8' = [s8 EXCEPT ![i] = put(d)]
    BY <1>13, <2>1 DEF AtWidgets!ConfirmReset
  <2>4. UNCHANGED <<s1, s2, s3, s4, s5, s6, s7, s9>>
    BY <1>13 DEF AtWidgets!ConfirmReset
  <2>5. taps' \in 0 .. TapsOf.widgets
    BY <1>13, <1>t DEF AtWidgets!ConfirmReset, AtWidgets!Taps
  <2> HIDE DEF put
  <2>6. s8' \in Puts
    BY <1>0, <2>2, <2>3
  <2> HIDE DEF Queries, Puts
  <2> QED BY <1>0, <1>f, <1>s, <2>4, <2>5, <2>6
<1>14. CASE AtWidgets!Revisit
  <2>1. /\ s4' = FALSE /\ s5' = None /\ s6' = FALSE /\ s7' = FALSE /\ s9' = None /\ UNCHANGED <<s1, s2>>
    BY <1>14 DEF AtWidgets!Revisit
  <2>2. s8' \in Puts
    <3>1. ASSUME NEW i \in PutSlots PROVE s8'[i] \in {AtWidgets!Idle} \cup Requests
      <4>1. s8'[i] = IF s8[i] # AtWidgets!Idle /\ s8[i].do = "save" THEN [s8[i] EXCEPT !.do = "choice"] ELSE s8[i]
        BY <1>14 DEF AtWidgets!Revisit
      <4>2. s8[i] \in Requests => [s8[i] EXCEPT !.do = "choice"] \in Requests
        BY DEF Requests
      <4> QED BY <1>0, <4>1, <4>2
    <3>2. s8' = [i \in PutSlots |-> s8'[i]]
      BY <1>14 DEF AtWidgets!Revisit
    <3> QED BY <3>1, <3>2
  <2>3. s3' \in Queries
    <3> DEFINE r == [step |-> "asked", got |-> None]
    <3>1. r \in [step : Steps, got : Readings(s1)]
      BY <1>0
    <3>2. s3' = s3 \/ s3' = [s3 EXCEPT !.fetch = r]
      BY <1>14 DEF AtWidgets!Revisit
    <3> HIDE DEF r
    <3> QED BY <1>0, <3>1, <3>2
  <2>4. taps' \in 0 .. TapsOf.widgets
    BY <1>14, <1>t DEF AtWidgets!Revisit, AtWidgets!Taps
  <2> HIDE DEF Queries, Puts
  <2> QED BY <1>0, <1>s, <2>1, <2>2, <2>3, <2>4
<1>15. ASSUME NEW i \in PutSlots, AtWidgets!ServerSaves(i) PROVE LayoutsAreSound'
  <2>1. s8[i] \in Requests
    BY <1>0, <1>15 DEF AtWidgets!ServerSaves, AtWidgets!Idle
  <2>2. s2' \in Layouts(s1)
    BY <1>0, <1>15, <2>1 DEF AtWidgets!ServerSaves, Requests
  <2>3. PICK a \in {"ok", "refused"} : s8' = [s8 EXCEPT ![i].step = a]
    BY <1>15 DEF AtWidgets!ServerSaves
  <2>4. s8' \in Puts
    <3>1. [s8[i] EXCEPT !.step = a] \in Requests
      BY <2>1 DEF Requests
    <3> QED BY <1>0, <2>3, <3>1
  <2>5. UNCHANGED <<s1, s3, s4, s5, s6, s7, s9, taps>>
    BY <1>15 DEF AtWidgets!ServerSaves
  <2> HIDE DEF Queries, Puts
  <2> QED BY <1>0, <1>f, <1>s, <2>2, <2>4, <2>5
<1>16. ASSUME NEW i \in PutSlots, AtWidgets!Settle(i) PROVE LayoutsAreSound'
  <2>1. s8[i] \in Requests
    BY <1>0, <1>16 DEF AtWidgets!Settle, AtWidgets!Idle
  <2>2. PICK d \in Readings(s1) : d = AtWidgets!RolledBack(i)
    BY <1>p, <2>1 DEF AtWidgets!RolledBack, Requests
  <2>3. s3' = [data |-> d, invalid |-> TRUE, fetch |-> [step |-> "asked", got |-> None]]
    BY <1>16, <2>2 DEF AtWidgets!Settle, AtWidgets!Settled
  <2>4. s3' \in Queries
    BY <1>0, <2>3
  <2>5. s4' \in BOOLEAN /\ (s5' = IF s4' THEN AtWidgets!Seeded(s5, d) ELSE None)
    <3>1. s4' = (s4 /\ ~AtWidgets!Closes(i))
      BY <1>16 DEF AtWidgets!Settle
    <3>2. s5' = IF s4' THEN AtWidgets!Seeded(s5, AtWidgets!Settled(AtWidgets!RolledBack(i)).data) ELSE None
      BY <1>16 DEF AtWidgets!Settle
    <3> QED BY <2>2, <3>1, <3>2 DEF AtWidgets!Settled
  <2>6. s8' = [s8 EXCEPT ![i] = AtWidgets!Idle]
    BY <1>16 DEF AtWidgets!Settle
  <2>7. s8' \in Puts
    BY <1>0, <2>6
  <2>8. s7' \in BOOLEAN /\ s9' \in PutSlots \cup {None} /\ UNCHANGED <<s1, s2, s6, taps>>
    BY <1>16, <1>f DEF AtWidgets!Settle
  <2>9. s5' \in Readings(s1) /\ (~s4' => s5' = None)
    BY <1>0, <2>2, <2>5 DEF AtWidgets!Seeded
  <2> HIDE DEF Queries, Puts
  <2> QED BY <1>0, <1>f, <1>s, <2>4, <2>5, <2>7, <2>8, <2>9
<1>17. CASE UNCHANGED AtWidgets!widgetsVars
  BY <1>17 DEF AtWidgets!widgetsVars, LayoutsAreSound, Requests
<1> QED
  BY <1>1, <1>2, <1>3, <1>4, <1>5, <1>6, <1>7, <1>8, <1>9, <1>11, <1>12, <1>13, <1>14, <1>15, <1>16, <1>17
     DEF AtWidgets!WidgetsNext

LEMMA FrontOfAppend ==
  ASSUME NEW T, NEW s \in Seq(T), NEW x \in T
  PROVE  AtWidgets!Front(Append(s, x)) = s
<1>1. PICK t \in Seq(T) : t = Append(s, x) /\ Len(t) = Len(s) + 1
  <2>1. Append(s, x) \in Seq(T) /\ Len(Append(s, x)) = Len(s) + 1
    OBVIOUS
  <2> QED BY <2>1
<1>2. Len(s) \in Nat /\ Len(s) <= Len(t) /\ Len(t) - 1 = Len(s)
  BY <1>1
<1>3. PICK f : f = SubSeq(t, 1, Len(s))
  OBVIOUS
<1>4. f \in Seq(T) /\ Len(f) = Len(s)
  BY <1>1, <1>2, <1>3, SubSeqProperties
<1>5. ASSUME NEW i \in 1 .. Len(s) PROVE f[i] = s[i]
  BY <1>1, <1>2, <1>3
<1>6. f = s
  BY <1>4, <1>5
<1> QED
  BY <1>1, <1>2, <1>3, <1>6 DEF AtWidgets!Front

LEMMA MovedKeepsItsSet ==
  ASSUME NEW T, NEW s \in Seq(T), NEW i \in 1 .. Len(s), NEW j \in 1 .. Len(s)
  PROVE  AtWidgets!ToSet(AtWidgets!Moved(s, i, j)) \subseteq AtWidgets!ToSet(s)
<1>1. PICK S : S = AtWidgets!ToSet(s)
  OBVIOUS
<1>2. s \in Seq(S)
  BY <1>1 DEF AtWidgets!ToSet
<1>3. PICK m \in Seq(S) : m = AtWidgets!Moved(s, i, j)
  BY <1>2, MovedIsSeq
<1>4. AtWidgets!ToSet(m) \subseteq S
  BY DEF AtWidgets!ToSet
<1> QED
  BY <1>1, <1>3, <1>4

\* A draft gets a widget only from the picker.
LEMMA NewestIsLast ==
  ASSUME LayoutsAreSound, [AtWidgets!WidgetsNext]_AtWidgets!widgetsVars
  PROVE  AtWidgets!NewWidgetIsLast
<1>0. /\ s1 \in {"home", "reports"} /\ s5 \in Readings(s1) /\ (~s4 => s5 = None) /\ s4 \in BOOLEAN
  BY DEF LayoutsAreSound
<1>f. ASSUME s5 = None \/ s5' = None \/ AtWidgets!ToSet(s5'.grid) \subseteq AtWidgets!ToSet(s5.grid)
      PROVE  AtWidgets!NewWidgetIsLast
  BY <1>f DEF AtWidgets!NewWidgetIsLast
<1>k. s5 \in Layouts(s1) => s5.grid \in Seq(WidgetTypes) /\ s5.phone \in Seq(WidgetTypes) /\ s5 \in AtWidgets!Config
  BY DEF Layouts, AtWidgets!Config
<1>1. CASE \/ AtWidgets!ServerReads \/ AtWidgets!SaveEdit \/ AtWidgets!TogglePicker \/ AtWidgets!AskReset
           \/ AtWidgets!CancelReset \/ AtWidgets!ConfirmReset \/ UNCHANGED AtWidgets!widgetsVars
           \/ \E i \in PutSlots : AtWidgets!ServerSaves(i)
  <2>1. s5' = s5
    BY <1>1 DEF AtWidgets!ServerReads, AtWidgets!SaveEdit, AtWidgets!TogglePicker, AtWidgets!AskReset, AtWidgets!CancelReset,
                AtWidgets!ConfirmReset, AtWidgets!widgetsVars, AtWidgets!ServerSaves
  <2> QED BY <1>f, <2>1
<1>2. CASE AtWidgets!ConfigArrives \/ \E i \in PutSlots : AtWidgets!Settle(i)
  <2>1. s5 = None \/ s5' = None \/ s5' = s5
    BY <1>2 DEF AtWidgets!ConfigArrives, AtWidgets!Settle, AtWidgets!Holds, AtWidgets!Seeded
  <2> QED BY <1>f, <2>1
<1>3. CASE AtWidgets!EnterEdit \/ AtWidgets!CancelEdit \/ AtWidgets!Revisit
  <2>1. s5 = None \/ s5' = None
    BY <1>0, <1>3 DEF AtWidgets!EnterEdit, AtWidgets!CancelEdit, AtWidgets!Revisit
  <2> QED BY <1>f, <2>1
<1>4. ASSUME NEW w \in WidgetTypes, AtWidgets!AddWidget(w) PROVE AtWidgets!NewWidgetIsLast
  <2> SUFFICES ASSUME s5 # None, s5' # None, NEW x \in WidgetTypes,
                      x \notin AtWidgets!ToSet(s5.grid), x \in AtWidgets!ToSet(s5'.grid)
               PROVE  /\ AtWidgets!Last(AtWidgets!PhoneOrder(s5')) = x
                      /\ AtWidgets!Front(AtWidgets!PhoneOrder(s5')) = AtWidgets!PhoneOrder(s5)
    BY DEF AtWidgets!NewWidgetIsLast
  <2>1. s4 /\ s5 \in Layouts(s1)
    BY <1>0 DEF Readings
  <2>2. PICK d : d = AtWidgets!Added(s5, w)
    OBVIOUS
  <2>3. s5' = d
    BY <1>4, <2>1, <2>2 DEF AtWidgets!AddWidget, AtWidgets!Drafts, AtWidgets!Working
  <2>4. d.grid = Append(s5.grid, w) /\ AtWidgets!PhoneOrder(d) = Append(AtWidgets!PhoneOrder(s5), w)
    BY <1>0, <2>1, <2>2, AddedIsLast
  <2>5. AtWidgets!ToSet(d.grid) = AtWidgets!ToSet(s5.grid) \cup {w}
    BY <1>k, <2>1, <2>4, SetOfAppend
  <2>6. x = w
    BY <2>3, <2>5
  <2>7. PICK o \in Seq(WidgetTypes) : o = AtWidgets!PhoneOrder(s5)
    BY <1>k, <2>1, PhoneShowsTheGrid
  <2>8. AtWidgets!PhoneOrder(s5') = Append(o, w)
    BY <2>3, <2>4, <2>7
  <2>9. AtWidgets!Last(Append(o, w)) = w
    BY DEF AtWidgets!Last
  <2>10. AtWidgets!Front(Append(o, w)) = o
    BY FrontOfAppend
  <2> QED BY <2>6, <2>7, <2>8, <2>9, <2>10
<1>5. ASSUME NEW w \in WidgetTypes, AtWidgets!RemoveWidget(w) PROVE AtWidgets!NewWidgetIsLast
  <2>1. s5 \in Layouts(s1)
    BY <1>0, <1>5 DEF AtWidgets!RemoveWidget, Readings
  <2>2. AtWidgets!ToSet(AtWidgets!Only(s5.grid, WidgetTypes \ {w})) \subseteq AtWidgets!ToSet(s5.grid)
    BY <1>k, <2>1, OnlyKeeps
  <2>3. AtWidgets!Removed(s5, w).grid = AtWidgets!Only(s5.grid, WidgetTypes \ {w})
    BY <1>k, <2>1 DEF AtWidgets!Removed, AtWidgets!Config
  <2>4. s5' = None \/ s5' = AtWidgets!Removed(s5, w)
    BY <1>5 DEF AtWidgets!RemoveWidget, AtWidgets!Drafts
  <2> QED BY <1>f, <2>2, <2>3, <2>4
<1>6. ASSUME NEW i, NEW j, AtWidgets!DragOnGrid(i, j) PROVE AtWidgets!NewWidgetIsLast
  <2>1. s5 \in Layouts(s1) /\ i \in 1 .. Len(s5.grid) /\ j \in 1 .. Len(s5.grid)
    BY <1>0, <1>6 DEF AtWidgets!DragOnGrid, Readings
  <2>2. AtWidgets!ToSet(AtWidgets!Moved(s5.grid, i, j)) \subseteq AtWidgets!ToSet(s5.grid)
    BY <1>k, <2>1, MovedKeepsItsSet
  <2>3. [s5 EXCEPT !.grid = AtWidgets!Moved(@, i, j)].grid = AtWidgets!Moved(s5.grid, i, j)
    BY <1>k, <2>1 DEF AtWidgets!Config
  <2>4. s5' = None \/ s5' = [s5 EXCEPT !.grid = AtWidgets!Moved(@, i, j)]
    BY <1>6 DEF AtWidgets!DragOnGrid, AtWidgets!Drafts
  <2> QED BY <1>f, <2>2, <2>3, <2>4
<1>s. ASSUME s5 = None \/ s5' = None \/ s5'.grid = s5.grid PROVE AtWidgets!NewWidgetIsLast
  BY <1>f, <1>s
<1>7. ASSUME NEW i, NEW j, AtWidgets!MoveOnPhone(i, j) PROVE AtWidgets!NewWidgetIsLast
  <2>1. s5 \in Layouts(s1)
    BY <1>0, <1>7 DEF AtWidgets!MoveOnPhone, Readings
  <2>2. \A q : [s5 EXCEPT !.phone = q].grid = s5.grid
    BY <1>k, <2>1 DEF AtWidgets!Config
  <2>3. s5' = None \/ \E q : s5' = [s5 EXCEPT !.phone = q]
    BY <1>7 DEF AtWidgets!MoveOnPhone, AtWidgets!Drafts
  <2> QED BY <1>s, <2>2, <2>3
<1>8. ASSUME NEW p, AtWidgets!Chosen(p) PROVE AtWidgets!NewWidgetIsLast
  <2>1. CASE s5 = None
    BY <1>s, <2>1
  <2>2. CASE s5 # None
    <3>1. s5 \in Layouts(s1) /\ s4
      BY <1>0, <2>2 DEF Readings
    <3>2. [s5 EXCEPT !.pick = p].grid = s5.grid
      BY <1>k, <3>1 DEF AtWidgets!Config
    <3>3. s5' = [s5 EXCEPT !.pick = p]
      BY <1>8, <3>1 DEF AtWidgets!Chosen, AtWidgets!Drafts, AtWidgets!Working
    <3> QED BY <1>s, <3>2, <3>3
  <2> QED BY <2>1, <2>2
<1>9. CASE AtWidgets!ChooseFilters \/ \E l \in TodoLists : AtWidgets!ChooseList(l)
  <2>1. \E p : AtWidgets!Chosen(p)
    BY <1>9 DEF AtWidgets!ChooseFilters, AtWidgets!ChooseList
  <2> QED BY <1>8, <2>1
<1> QED
  BY <1>1, <1>2, <1>3, <1>4, <1>5, <1>6, <1>7, <1>9 DEF AtWidgets!WidgetsNext

-----------------------------------------------------------------------------
(***************************************************************************)
(* Payments leave as confirmed, campaigns as shown.                        *)
(***************************************************************************)
\* What is ticked is of the filter on screen and not unticked since, and so is everything
\* that can be ticked; an answer is awaited only with nothing to tick.
TickedAreListed == \A a \in s7 : a \in Addresses /\ OfFirm[a] \in AtBulk!Listed(s4)
TickedAreWanted == s7 \cap s13 = {}
CandidatesAreListed == s6 # None => s6 = AtBulk!Listed(s4)
AwaitedIsShown == s9 # None => s9 = s4 /\ s6 = None /\ s13 = {}
BulkInv ==
  /\ s8 \subseteq AtBulk!Filter /\ s4 \in AtBulk!Filter /\ s5 \in Industries \cup {None}
  /\ TickedAreListed /\ TickedAreWanted /\ CandidatesAreListed /\ AwaitedIsShown

LEMMA BulkStarts == AtBulk!BulkInit => BulkInv
  BY DEF AtBulk!BulkInit, BulkInv, TickedAreListed, TickedAreWanted, CandidatesAreListed, AwaitedIsShown,
     AtBulk!NoFilter, AtBulk!Filter

\* A filter starts the ticking over.
LEMMA ResolvingStartsOver ==
  ASSUME BulkInv, NEW f \in AtBulk!Filter, AtBulk!resolveWith(f), s5' \in Industries \cup {None}
  PROVE  BulkInv'
  BY DEF AtBulk!resolveWith, BulkInv, TickedAreListed, TickedAreWanted, CandidatesAreListed, AwaitedIsShown

\* Only what is listed is ticked by hand.
LEMMA TickingKeeps ==
  ASSUME BulkInv, NEW new, AtBulk!Ticks(new),
         \A a \in new : a \in Addresses /\ (a \in s7 \/ (s6 # None /\ OfFirm[a] \in s6))
  PROVE  BulkInv'
<1>1. /\ s7' = new /\ s13' = (s13 \cup (s7 \ new)) \ new /\ s6 # None
      /\ UNCHANGED <<s4, s5, s6, s8, s9>>
  BY DEF AtBulk!Ticks, AtBulk!filterVars
<1> QED
  BY <1>1 DEF BulkInv, TickedAreListed, TickedAreWanted, CandidatesAreListed, AwaitedIsShown

LEMMA BulkStays == BulkInv /\ [AtBulk!BulkNext]_AtBulk!bulkVars => BulkInv'
<1> SUFFICES ASSUME BulkInv, [AtBulk!BulkNext]_AtBulk!bulkVars PROVE BulkInv'
  OBVIOUS
<1>0. UNCHANGED <<s4, s5, s6, s7, s8, s9, s13>> => BulkInv'
  BY DEF BulkInv, TickedAreListed, TickedAreWanted, CandidatesAreListed, AwaitedIsShown
<1>1. ASSUME NEW picked \in BOOLEAN, AtBulk!OpenWizard(picked) PROVE BulkInv'
  <2>1. AtBulk!NoFilter \in AtBulk!Filter
    BY DEF AtBulk!NoFilter, AtBulk!Filter
  <2> QED
    BY <1>1, <2>1, ResolvingStartsOver DEF AtBulk!OpenWizard
<1>2. CASE AtBulk!CloseWizard \/ AtBulk!Write \/ AtBulk!Step \/ AtBulk!doSend \/ AtBulk!SendResult
  BY <1>0, <1>2 DEF AtBulk!CloseWizard, AtBulk!Write, AtBulk!Step, AtBulk!doSend, AtBulk!SendResult, AtBulk!filterVars
<1>3. CASE AtBulk!TypingPauses
  <2>1. [s4 EXCEPT !.industry = s5] \in AtBulk!Filter
    BY DEF BulkInv, AtBulk!Filter
  <2> QED
    BY <1>3, <2>1, ResolvingStartsOver DEF AtBulk!TypingPauses, BulkInv
<1>4. ASSUME NEW v \in Cities \cup {None}, AtBulk!PickCity(v) PROVE BulkInv'
  <2>1. [s4 EXCEPT !.city = v] \in AtBulk!Filter
    BY DEF BulkInv, AtBulk!Filter
  <2> QED
    BY <1>4, <2>1, ResolvingStartsOver DEF AtBulk!PickCity, BulkInv
<1>5. ASSUME NEW v \in Industries \cup {None}, AtBulk!TypeIndustry(v) PROVE BulkInv'
  BY <1>5 DEF AtBulk!TypeIndustry, BulkInv, TickedAreListed, TickedAreWanted, CandidatesAreListed, AwaitedIsShown
<1>6. ASSUME NEW f \in s8, AtBulk!useResolveRecipients(f) PROVE BulkInv'
  <2>1. s8' = s8 \ {f} /\ UNCHANGED <<s4, s5, s13>>
    BY <1>6 DEF AtBulk!useResolveRecipients
  <2>2. f # None
    BY DeskAssumption DEF BulkInv, AtBulk!BulkEmailAssumption, AtBulk!Filter
  <2>3. CASE f = s9
    <3>1. f = s4 /\ s13 = {} /\ s9' = None
      BY <1>6, <2>2, <2>3 DEF AtBulk!useResolveRecipients, AtBulk!Heeded, BulkInv, AwaitedIsShown
    <3>2. CASE s6' = AtBulk!Listed(f) /\ s7' = UNION {AtBulk!defaultEmails(c) : c \in AtBulk!Listed(f)}
      <4>1. \A c \in AtBulk!Listed(f) : \A a \in AtBulk!defaultEmails(c) : a \in Addresses /\ OfFirm[a] = c
        BY DEF AtBulk!defaultEmails, AtBulk!emailOptions
      <4>2. \A a \in s7' : a \in Addresses /\ OfFirm[a] \in AtBulk!Listed(f)
        BY <3>2, <4>1
      <4> QED
        BY <2>1, <3>1, <3>2, <4>2
           DEF BulkInv, TickedAreListed, TickedAreWanted, CandidatesAreListed, AwaitedIsShown
    <3>3. CASE UNCHANGED <<s6, s7>>
      BY <2>1, <3>1, <3>3 DEF BulkInv, TickedAreListed, TickedAreWanted, CandidatesAreListed, AwaitedIsShown
    <3> QED
      BY <1>6, <2>3, <3>2, <3>3 DEF AtBulk!useResolveRecipients, AtBulk!Heeded
  <2>4. CASE f # s9
    <3>1. UNCHANGED <<s9, s6, s7>>
      BY <1>6, <2>4 DEF AtBulk!useResolveRecipients, AtBulk!Heeded
    <3> QED
      BY <2>1, <3>1 DEF BulkInv, TickedAreListed, TickedAreWanted, CandidatesAreListed, AwaitedIsShown
  <2> QED
    BY <2>3, <2>4
<1>7. ASSUME NEW a \in Addresses, AtBulk!toggleEmail(a) PROVE BulkInv'
  <2>1. PICK new : new = (IF a \in s7 THEN s7 \ {a} ELSE s7 \cup {a})
    OBVIOUS
  <2>2. AtBulk!Ticks(new) /\ s6 # None /\ OfFirm[a] \in s6
    BY <1>7, <2>1 DEF AtBulk!toggleEmail
  <2>3. \A b \in new : b \in Addresses /\ (b \in s7 \/ (s6 # None /\ OfFirm[b] \in s6))
    BY <2>1, <2>2 DEF BulkInv, TickedAreListed
  <2> QED
    BY <2>2, <2>3, TickingKeeps
<1>8. ASSUME NEW c \in Firms, AtBulk!setCompanySelected(c) PROVE BulkInv'
  <2>1. PICK new : /\ new \in {s7 \cup AtBulk!emailOptions(c), s7 \ AtBulk!emailOptions(c)}
                   /\ AtBulk!Ticks(new)
    BY <1>8 DEF AtBulk!setCompanySelected
  <2>2. \A b \in new : b \in Addresses /\ (b \in s7 \/ (s6 # None /\ OfFirm[b] \in s6))
    BY <1>8, <2>1 DEF BulkInv, TickedAreListed, AtBulk!emailOptions, AtBulk!setCompanySelected
  <2> QED
    BY <2>1, <2>2, TickingKeeps
<1>9. CASE AtBulk!setAllSelected
  <2>1. PICK new : new \in {UNION {AtBulk!emailOptions(c) : c \in s6}, {}} /\ AtBulk!Ticks(new) /\ s6 # None
    BY <1>9 DEF AtBulk!setAllSelected
  <2>2. \A b \in new : b \in Addresses /\ (b \in s7 \/ (s6 # None /\ OfFirm[b] \in s6))
    BY <2>1 DEF AtBulk!emailOptions
  <2> QED
    BY <2>1, <2>2, TickingKeeps
<1>10. CASE UNCHANGED AtBulk!bulkVars
  BY <1>0, <1>10 DEF AtBulk!bulkVars, AtBulk!filterVars
<1> QED
  BY <1>1, <1>2, <1>3, <1>4, <1>5, <1>6, <1>7, <1>8, <1>9, <1>10 DEF AtBulk!BulkNext

\* Only what is ticked is mailed.
LEMMA MailsWhatIsTicked == BulkInv /\ [AtBulk!BulkNext]_AtBulk!bulkVars => AtBulk!MailedAsShown
<1> SUFFICES ASSUME BulkInv, AtBulk!BulkNext, s11' # s11, s11' # None PROVE s11' = s7
  BY DEF AtBulk!MailedAsShown, AtBulk!bulkVars, BulkInv, TickedAreListed, TickedAreWanted
<1> QED
  BY DEF AtBulk!BulkNext, AtBulk!OpenWizard, AtBulk!CloseWizard, AtBulk!TypingPauses, AtBulk!setAllSelected, AtBulk!Write, AtBulk!Step, AtBulk!doSend,
     AtBulk!SendResult, AtBulk!useResolveRecipients, AtBulk!PickCity, AtBulk!TypeIndustry, AtBulk!toggleEmail, AtBulk!setCompanySelected, AtBulk!Ticks

\* Each instance keeps which tour it closed.
ClosedByInstance == DOMAIN s6 = AtTour!Instances

LEMMA TourStarts == AtTour!TourInit => ClosedByInstance
  BY DEF AtTour!TourInit, ClosedByInstance

LEMMA TourStays == ClosedByInstance /\ [AtTour!TourNext]_AtTour!tourVars => ClosedByInstance'
  BY DEF AtTour!TourNext, AtTour!NextStep, AtTour!PrevStep, AtTour!TargetAppears, AtTour!Dismiss, AtTour!EscapeKey, AtTour!Replay,
     AtTour!Visit, AtTour!Elsewhere, AtTour!ServerPatches, AtTour!PatchAnswers, AtTour!ServerReads, AtTour!MeArrives, AtTour!Advances,
     AtTour!Closes, AtTour!Moves, AtTour!tourVars, ClosedByInstance

\* A tour comes on screen with its page or with what /auth/me says of it, and either sets
\* the cursor.
LEMMA ComesWithItsFirstStep ==
  ASSUME ClosedByInstance, [AtTour!TourNext]_AtTour!tourVars
  PROVE  AtTour!TourStartsOver
<1> SUFFICES ASSUME ~AtTour!Shown("overlay"), AtTour!Shown("overlay")' PROVE s5' = 0
  BY DEF AtTour!TourStartsOver
<1> USE DEF AtTour!Shown
<1>1. ASSUME UNCHANGED <<s2, s4, s6>> PROVE FALSE
  BY <1>1 DEF AtTour!Outcome
<1>2. CASE AtTour!NextStep \/ AtTour!PrevStep \/ AtTour!TargetAppears \/ AtTour!Dismiss \/ AtTour!EscapeKey
  BY <1>1, <1>2 DEF AtTour!NextStep, AtTour!PrevStep, AtTour!TargetAppears, AtTour!Dismiss, AtTour!EscapeKey
<1>3. CASE AtTour!Replay
  <2>1. s6'["overlay"] = s6["overlay"] /\ UNCHANGED <<s2, s4>>
    BY <1>3 DEF AtTour!Replay, ClosedByInstance, AtTour!Instances
  <2> QED
    BY <2>1 DEF AtTour!Outcome
<1>4. ASSUME NEW p \in Tours \cup {None}, AtTour!Visit(p) PROVE s5' = 0
  BY <1>4 DEF AtTour!Visit
<1>5. CASE AtTour!MeArrives
  <2>1. s2' = s3.got /\ s5' = AtTour!Cursor(s5, s4, s2, s3.got) /\ UNCHANGED <<s4, s6>>
    BY <1>5 DEF AtTour!MeArrives
  <2>2. s4 # None /\ s3.got # None /\ AtTour!Outcome(s3.got, s4) = None
    BY <2>1 DEF AtTour!Outcome
  <2>3. s2 = None \/ AtTour!Outcome(s2, s4) # None
    BY <2>1, <2>2
  <2> QED
    BY <2>1, <2>2, <2>3 DEF AtTour!Cursor
<1>6. ASSUME \/ \E t \in Tours, o \in AtTour!Outcomes : AtTour!Elsewhere(t, o)
             \/ \E p \in s8 : AtTour!ServerPatches(p) \/ AtTour!PatchAnswers(p)
             \/ AtTour!ServerReads \/ UNCHANGED AtTour!tourVars
      PROVE  UNCHANGED <<s2, s4, s6>>
  BY <1>6 DEF AtTour!Elsewhere, AtTour!ServerPatches, AtTour!PatchAnswers, AtTour!ServerReads, AtTour!tourVars
<1> QED
  BY <1>1, <1>2, <1>3, <1>4, <1>5, <1>6 DEF AtTour!TourNext

\* A payment of the subscription leaves with the plan and the consent of its form
\* (BillingSection.tsx, TrialExpiredGate.tsx), a campaign goes to addresses that are listed
\* and ticked under the filter on screen (BulkEmailWizard.tsx), a new widget takes the last
\* place on the phone and the others stay in their order (useDashboardEditor.ts,
\* homeLayout.ts), and a tour that comes on screen begins with its first step
\* (TourOverlay.tsx), whatever was closed, opened or answered late in between.
THEOREM LeavesAsShown == DeskSpec => ScreenKeepsItsWord
<1> DEFINE Inv == /\ (screen = "checkout" => FormInv)
                  /\ (screen = "bulk" => BulkInv)
                  /\ (screen = "widgets" => LayoutsAreSound)
                  /\ (screen = "tour" => ClosedByInstance)
           Word == /\ (screen = "checkout" => AtCheckout!GoesAsConfirmed)
                   /\ (screen = "bulk" => AtBulk!MailedAsShown)
                   /\ (screen = "widgets" => AtWidgets!NewWidgetIsLast)
                   /\ (screen = "tour" => AtTour!TourStartsOver)
<1>1. DeskInit => Inv
  BY EachBegins, FormStarts, BulkStarts, LayoutsStart, TourStarts
<1>2. ASSUME Inv, [DeskNext]_deskVars PROVE Inv' /\ Word
  BY <1>2, EachByItself, FormStays, BulkStays, LayoutsStay, TourStays, LeavesAsConfirmed, MailsWhatIsTicked, NewestIsLast,
     ComesWithItsFirstStep
<1> HIDE DEF Inv
<1> QED
  BY <1>1, <1>2, PTL DEF DeskSpec, ScreenKeepsItsWord

-----------------------------------------------------------------------------
(***************************************************************************)
(* The dashboards.                                                         *)
(***************************************************************************)
\* With nothing on its way, what was read is what the server has, and so is what a query
\* shows that waits for nothing.
Answers == "step" \in DOMAIN AtWidgets!Idle /\ \A i \in PutSlots : "step" \in DOMAIN s8[i] /\ (s8[i] # AtWidgets!Idle => s8[i].step # "idle")
CacheIsAQuery == s3 = [data |-> s3.data, invalid |-> s3.invalid, fetch |-> s3.fetch]
ReadIsStored ==
  AtWidgets!InFlight = {} =>
    /\ s3.fetch.step = "read" => s3.fetch.got = s2
    /\ s3.fetch.step = "idle" /\ ~s3.invalid /\ s3.data # None => s3.data = s2
WidgetsInv == DOMAIN s8 = PutSlots /\ Answers /\ CacheIsAQuery /\ ReadIsStored

LEMMA WidgetsStart == AtWidgets!WidgetsInit => WidgetsInv
  BY DEF AtWidgets!WidgetsInit, WidgetsInv, Answers, CacheIsAQuery, ReadIsStored, AtWidgets!Idle, AtWidgets!InFlight

\* A request that was sent is on its way.
LEMMA SentIsInFlight ==
  ASSUME WidgetsInv, NEW i \in PutSlots, NEW do, NEW body, NEW prev,
         s8' = [s8 EXCEPT ![i] = [step |-> "sent", do |-> do, body |-> body, prev |-> prev]], CacheIsAQuery'
  PROVE  WidgetsInv'
<1> DEFINE put == [step |-> "sent", do |-> do, body |-> body, prev |-> prev]
<1>1. "step" \in DOMAIN put /\ put.step = "sent" /\ put # AtWidgets!Idle
  BY DEF AtWidgets!Idle
<1> HIDE DEF put
<1>2. DOMAIN s8' = PutSlots /\ s8'[i] = put /\ \A j \in PutSlots : j # i => s8'[j] = s8[j]
  BY DEF WidgetsInv, put
<1> QED
  BY <1>1, <1>2 DEF WidgetsInv, Answers, ReadIsStored, AtWidgets!InFlight

LEMMA WidgetsStay == WidgetsInv /\ [AtWidgets!WidgetsNext]_AtWidgets!widgetsVars => WidgetsInv'
<1> SUFFICES ASSUME WidgetsInv, [AtWidgets!WidgetsNext]_AtWidgets!widgetsVars PROVE WidgetsInv'
  OBVIOUS
<1>0. ASSUME UNCHANGED <<s2, s3, s8>> PROVE WidgetsInv'
  BY <1>0 DEF WidgetsInv, Answers, CacheIsAQuery, ReadIsStored, AtWidgets!InFlight
<1>1. CASE AtWidgets!ServerReads
  <2> DEFINE read == [step |-> "read", got |-> s2]
  <2>1. read.step = "read" /\ read.got = s2
    OBVIOUS
  <2> HIDE DEF read
  <2>2. s3' = [s3 EXCEPT !.fetch = read] /\ UNCHANGED <<s2, s8>>
    BY <1>1 DEF AtWidgets!ServerReads, read
  <2>3. s3' = [data |-> s3.data, invalid |-> s3.invalid, fetch |-> read]
    BY <2>2 DEF WidgetsInv, CacheIsAQuery
  <2> QED
    BY <2>1, <2>2, <2>3 DEF WidgetsInv, Answers, CacheIsAQuery, ReadIsStored, AtWidgets!InFlight
<1>2. CASE AtWidgets!ConfigArrives
  <2>1. UNCHANGED <<s2, s8>>
    BY <1>2 DEF AtWidgets!ConfigArrives
  <2>2. \/ s3.fetch.step = "read" /\ s3' = [data |-> s3.fetch.got, invalid |-> FALSE, fetch |-> AtWidgets!NoFetch]
        \/ s3' = [data |-> None, invalid |-> FALSE, fetch |-> AtWidgets!NoFetch]
        \/ s3' = [s3 EXCEPT !.invalid = TRUE, !.fetch = AtWidgets!NoFetch]
    BY <1>2 DEF AtWidgets!ConfigArrives, AtWidgets!Holds
  <2>3. s3' = [s3 EXCEPT !.invalid = TRUE, !.fetch = AtWidgets!NoFetch]
          => s3' = [data |-> s3.data, invalid |-> TRUE, fetch |-> AtWidgets!NoFetch]
    BY DEF WidgetsInv, CacheIsAQuery
  <2> QED
    BY <2>1, <2>2, <2>3 DEF WidgetsInv, Answers, CacheIsAQuery, ReadIsStored, AtWidgets!InFlight, AtWidgets!NoFetch
<1>3. ASSUME NEW i \in PutSlots, NEW do, NEW body, AtWidgets!Saves(i, do, body) PROVE WidgetsInv'
  <2>1. CacheIsAQuery'
    BY <1>3 DEF AtWidgets!Saves, WidgetsInv, CacheIsAQuery
  <2> QED
    BY <1>3, <2>1, SentIsInFlight DEF AtWidgets!Saves
<1>4. CASE AtWidgets!ConfirmReset
  <2>1. PICK i \in PutSlots : s8' = [s8 EXCEPT ![i] = [step |-> "sent", do |-> "reset", body |-> AtWidgets!Default, prev |-> None]]
    BY <1>4 DEF AtWidgets!ConfirmReset
  <2>2. PICK default : default = AtWidgets!Default
    OBVIOUS
  <2>3. CacheIsAQuery'
    BY <1>4 DEF AtWidgets!ConfirmReset, WidgetsInv, CacheIsAQuery
  <2> QED
    BY <2>1, <2>2, <2>3, SentIsInFlight
<1>5. ASSUME NEW i \in PutSlots, AtWidgets!ServerSaves(i) PROVE WidgetsInv'
  <2>1. PICK answer \in {"ok", "refused"} : s8' = [s8 EXCEPT ![i].step = answer]
    BY <1>5 DEF AtWidgets!ServerSaves
  <2>2. "step" \in DOMAIN s8[i] /\ s3' = s3
    BY <1>5 DEF WidgetsInv, Answers, AtWidgets!ServerSaves
  <2>3. "step" \in DOMAIN s8'[i] /\ s8'[i].step = answer
    BY <2>1, <2>2 DEF WidgetsInv
  <2>4. DOMAIN s8' = PutSlots /\ \A j \in PutSlots : j # i => s8'[j] = s8[j]
    BY <2>1 DEF WidgetsInv
  <2>5. s8'[i] # AtWidgets!Idle
    BY <2>3 DEF AtWidgets!Idle
  <2> QED
    BY <2>2, <2>3, <2>4, <2>5 DEF WidgetsInv, Answers, CacheIsAQuery, ReadIsStored, AtWidgets!InFlight
\* Whatever is put back, it is read again.
<1>6. ASSUME NEW i \in PutSlots, AtWidgets!Settle(i) PROVE WidgetsInv'
  <2>1. \E d : s3' = [data |-> d, invalid |-> TRUE, fetch |-> [step |-> "asked", got |-> None]]
    BY <1>6 DEF AtWidgets!Settle, AtWidgets!Settled
  <2>2. s8' = [s8 EXCEPT ![i] = AtWidgets!Idle]
    BY <1>6 DEF AtWidgets!Settle
  <2> QED
    BY <2>1, <2>2 DEF WidgetsInv, Answers, CacheIsAQuery, ReadIsStored
<1>7. CASE AtWidgets!Revisit
  <2>1. s3' \in {s3, [s3 EXCEPT !.fetch = [step |-> "asked", got |-> None]]} /\ s2' = s2
    BY <1>7 DEF AtWidgets!Revisit
  <2>2. \A i \in PutSlots : "step" \in DOMAIN s8'[i] /\ (s8[i] # AtWidgets!Idle => s8'[i].step = s8[i].step /\ s8'[i] # AtWidgets!Idle)
                         /\ (s8[i] = AtWidgets!Idle => s8'[i] = AtWidgets!Idle)
    <3> SUFFICES ASSUME NEW i \in PutSlots
                 PROVE  /\ "step" \in DOMAIN s8'[i]
                        /\ s8[i] # AtWidgets!Idle => s8'[i].step = s8[i].step /\ s8'[i] # AtWidgets!Idle
                        /\ s8[i] = AtWidgets!Idle => s8'[i] = AtWidgets!Idle
      OBVIOUS
    <3>1. s8'[i] = IF s8[i] # AtWidgets!Idle /\ s8[i].do = "save" THEN [s8[i] EXCEPT !.do = "choice"] ELSE s8[i]
      BY <1>7 DEF AtWidgets!Revisit
    <3>2. "step" \in DOMAIN s8[i] /\ (s8[i] # AtWidgets!Idle => s8[i].step # "idle")
      BY DEF WidgetsInv, Answers
    <3>3. "step" \in DOMAIN s8'[i] /\ s8'[i].step = s8[i].step
      BY <3>1, <3>2
    <3>4. s8[i] # AtWidgets!Idle => s8'[i] # AtWidgets!Idle
      BY <3>2, <3>3 DEF AtWidgets!Idle
    <3> QED
      BY <3>1, <3>3, <3>4
  <2>3. DOMAIN s8' = PutSlots
    BY <1>7 DEF AtWidgets!Revisit
  <2>4. CASE s3' = s3
    BY <2>1, <2>2, <2>3, <2>4 DEF WidgetsInv, Answers, CacheIsAQuery, ReadIsStored, AtWidgets!InFlight
  <2>5. CASE s3' = [s3 EXCEPT !.fetch = [step |-> "asked", got |-> None]]
    <3>1. s3' = [data |-> s3.data, invalid |-> s3.invalid, fetch |-> [step |-> "asked", got |-> None]]
      BY <2>5 DEF WidgetsInv, CacheIsAQuery
    <3>2. CacheIsAQuery' /\ ReadIsStored'
      BY <3>1 DEF CacheIsAQuery, ReadIsStored
    <3> QED
      BY <2>2, <2>3, <3>2 DEF WidgetsInv, Answers
  <2> QED
    BY <2>1, <2>4, <2>5
<1>8. ASSUME NEW p, AtWidgets!Chosen(p) PROVE WidgetsInv'
  BY <1>0, <1>3, <1>8 DEF AtWidgets!Chosen, AtWidgets!Drafts
<1>9. CASE AtWidgets!SaveEdit
  BY <1>3, <1>9 DEF AtWidgets!SaveEdit
<1>10. CASE AtWidgets!ChooseFilters \/ \E l \in TodoLists : AtWidgets!ChooseList(l)
  BY <1>8, <1>10 DEF AtWidgets!ChooseFilters, AtWidgets!ChooseList
<1>11. ASSUME \/ AtWidgets!EnterEdit \/ AtWidgets!CancelEdit \/ AtWidgets!TogglePicker \/ AtWidgets!AskReset \/ AtWidgets!CancelReset
              \/ \E w \in WidgetTypes : AtWidgets!AddWidget(w) \/ AtWidgets!RemoveWidget(w)
              \/ \E i, j \in 1 .. Len(DefaultGrid) + TapsOf.widgets : AtWidgets!DragOnGrid(i, j) \/ AtWidgets!MoveOnPhone(i, j)
              \/ UNCHANGED AtWidgets!widgetsVars
       PROVE  UNCHANGED <<s2, s3, s8>>
  BY <1>11 DEF AtWidgets!EnterEdit, AtWidgets!CancelEdit, AtWidgets!TogglePicker, AtWidgets!AskReset, AtWidgets!CancelReset, AtWidgets!AddWidget, AtWidgets!RemoveWidget,
     AtWidgets!DragOnGrid, AtWidgets!MoveOnPhone, AtWidgets!Drafts, AtWidgets!widgetsVars
<1> QED
  BY <1>0, <1>1, <1>2, <1>4, <1>5, <1>6, <1>7, <1>9, <1>10, <1>11 DEF AtWidgets!WidgetsNext

\* What the server has of the to-dos: lists in an order, and a row for each to-do.
Kept(d) ==
  /\ d = [order |-> d.order, link |-> d.link, todo |-> d.todo]
  /\ d.order \in Seq(AtTodos!AllLists) /\ DOMAIN d.todo = AtTodos!Todos

LEMMA TodosBounds ==
  /\ Given \in Seq(AtTodos!AllLists) /\ Given # << >> /\ Made \subseteq AtTodos!AllLists
  /\ None \notin AtTodos!AllLists /\ None \notin Deals
<1>1. Given \in Seq(AtTodos!Range(Given)) /\ Given # << >> /\ None \notin AtTodos!Range(Given) \cup Made \cup Deals
  BY DeskAssumption DEF AtTodos!TodosAssumption
<1> QED
  BY <1>1, SeqMonotonic DEF AtTodos!AllLists

\* One element less, and the others are there.
LEMMA OneLess ==
  ASSUME NEW S, NEW s \in Seq(S), NEW i \in 1 .. Len(s)
  PROVE  /\ AtTodos!RemoveAt(s, i) \in Seq(S) /\ Len(AtTodos!RemoveAt(s, i)) = Len(s) - 1
         /\ \A j \in 1 .. Len(s) - 1 : AtTodos!RemoveAt(s, i)[j] = IF j < i THEN s[j] ELSE s[j + 1]
<1> DEFINE a == SubSeq(s, 1, i - 1)
           b == SubSeq(s, i + 1, Len(s))
<1>1. Len(s) \in Nat /\ i - 1 \in Int /\ i + 1 \in Int /\ \A j \in 1 .. Len(s) : s[j] \in S
  OBVIOUS
<1>2. a \in Seq(S) /\ Len(a) = i - 1 /\ \A j \in 1 .. i - 1 : a[j] = s[j]
  BY <1>1, SubSeqProperties
<1>3. b \in Seq(S) /\ Len(b) = Len(s) - i /\ \A j \in 1 .. Len(s) - i : b[j] = s[i + j]
  <2>1. \A j \in i + 1 .. Len(s) : s[j] \in S
    BY <1>1
  <2>2. /\ b \in Seq(S) /\ Len(b) = IF i + 1 <= Len(s) THEN Len(s) - (i + 1) + 1 ELSE 0
        /\ \A j \in 1 .. Len(s) - (i + 1) + 1 : b[j] = s[i + 1 + j - 1]
    BY <1>1, <2>1, SubSeqProperties
  <2> QED
    BY <1>1, <2>2
<1> HIDE DEF a, b
<1>4. /\ a \o b \in Seq(S) /\ Len(a \o b) = Len(a) + Len(b)
      /\ \A j \in 1 .. Len(a) + Len(b) : (a \o b)[j] = IF j <= Len(a) THEN a[j] ELSE b[j - Len(a)]
  BY <1>2, <1>3, ConcatProperties
<1>5. AtTodos!RemoveAt(s, i) = a \o b
  BY DEF AtTodos!RemoveAt, a, b
<1>6. ASSUME NEW j \in 1 .. Len(s) - 1 PROVE (a \o b)[j] = IF j < i THEN s[j] ELSE s[j + 1]
  <2>1. CASE j < i
    <3>1. j \in 1 .. i - 1 /\ j <= Len(a) /\ j \in 1 .. Len(a) + Len(b)
      BY <1>1, <1>2, <1>3, <2>1
    <3>2. (a \o b)[j] = a[j]
      BY <1>4, <3>1
    <3>3. a[j] = s[j]
      BY <1>2, <3>1
    <3> QED
      BY <2>1, <3>2, <3>3
  <2>2. CASE j >= i
    <3>1. (a \o b)[j] = b[j - (i - 1)] /\ j - (i - 1) \in 1 .. Len(s) - i
      BY <1>1, <1>2, <1>3, <1>4, <2>2
    <3>2. i + (j - (i - 1)) = j + 1
      BY <1>1
    <3> QED
      BY <1>3, <2>2, <3>1, <3>2
  <2>3. j < i \/ j >= i
    BY <1>1
  <2> QED
    BY <2>1, <2>2, <2>3
<1> QED
  BY <1>1, <1>2, <1>3, <1>4, <1>5, <1>6

\* A write leaves the own link of a to-do alone whose list was linked and still is.
Sleeping(data) == \A t \in AtTodos!Todos : AtTodos!Linked(data, t) /\ AtTodos!Linked(s1, t) => data.todo[t].own = s1.todo[t].own

LEMMA MakingKeeps ==
  ASSUME Kept(s1), NEW l \in AtTodos!AllLists
  PROVE  /\ Kept(AtTodos!WithList(l)) /\ AtTodos!WithList(l).todo = s1.todo /\ AtTodos!WithList(l).link = s1.link
         /\ \A d : Kept(AtTodos!WithLink(l, d)) /\ Sleeping(AtTodos!WithLink(l, d))
<1> DEFINE o == Append(s1.order, l)
<1>1. o \in Seq(AtTodos!AllLists)
  BY AppendProperties DEF Kept
<1>2. AtTodos!WithList(l) = [order |-> o, link |-> s1.link, todo |-> s1.todo]
  <2>1. AtTodos!WithList(l) = [s1 EXCEPT !.order = o]
    BY DEF AtTodos!WithList
  <2> HIDE DEF o
  <2> QED
    BY <2>1 DEF Kept
<1> HIDE DEF o
<1>3. \A d : AtTodos!WithLink(l, d) = [order |-> s1.order, link |-> [s1.link EXCEPT ![l] = d], todo |-> s1.todo]
  BY DEF Kept, AtTodos!WithLink
<1> QED
  BY <1>1, <1>2, <1>3 DEF Kept, Sleeping

LEMMA DroppingKeeps ==
  ASSUME Kept(s1), NEW l \in AtTodos!Range(s1.order)
  PROVE  Kept(AtTodos!Without(l)) /\ Sleeping(AtTodos!Without(l))
<1> DEFINE o == AtTodos!RemoveAt(s1.order, CHOOSE i \in DOMAIN s1.order : s1.order[i] = l)
           k == [s1.link EXCEPT ![l] = None]
           r == [t \in AtTodos!Todos |-> IF s1.todo[t].list = l THEN [list |-> None, own |-> None] ELSE s1.todo[t]]
<1>1. o \in Seq(AtTodos!AllLists)
  <2>1. \E i \in DOMAIN s1.order : s1.order[i] = l
    BY DEF AtTodos!Range
  <2>2. PICK i \in 1 .. Len(s1.order) : i = CHOOSE j \in DOMAIN s1.order : s1.order[j] = l
    BY <2>1 DEF Kept
  <2> QED
    BY <2>2, OneLess DEF Kept
<1>2. AtTodos!Without(l) = [order |-> o, link |-> k, todo |-> r]
  <2>1. AtTodos!Without(l) = [s1 EXCEPT !.order = o, !.link[l] = None, !.todo = r]
    BY DEF AtTodos!Without
  <2>2. s1.link = s1.link /\ [s1 EXCEPT !.order = o, !.link[l] = None, !.todo = r] = [s1 EXCEPT !.order = o, !.link = k, !.todo = r]
    OBVIOUS
  <2> HIDE DEF o, k, r
  <2> QED
    BY <2>1, <2>2 DEF Kept
<1>3. \A t \in AtTodos!Todos : r[t].list = None \/ r[t] = s1.todo[t]
  OBVIOUS
<1>4. DOMAIN r = AtTodos!Todos
  OBVIOUS
<1> HIDE DEF o, k, r
<1> QED
  BY <1>1, <1>2, <1>3, <1>4 DEF Kept, Sleeping, AtTodos!Linked

\* The new row is a to-do that was not there.
LEMMA AddingKeeps ==
  ASSUME Kept(s1), NEW base, Kept(base), base.todo = s1.todo, NEW l, NEW d, NEW data \in AtTodos!NewTodo(base, l, d)
  PROVE  Kept(data) /\ Sleeping(data)
<1> DEFINE row == [list |-> l, own |-> d]
           r == [base.todo EXCEPT !["new"] = row]
<1>1. s1.todo["new"].list = None
  BY DEF AtTodos!NewTodo
<1>2. data = [order |-> base.order, link |-> base.link, todo |-> r]
  BY DEF AtTodos!NewTodo, Kept
<1>3. DOMAIN r = AtTodos!Todos /\ r["old"] = s1.todo["old"]
  BY DEF Kept, AtTodos!Todos
<1> HIDE DEF r
<1> QED
  BY <1>1, <1>2, <1>3 DEF Kept, Sleeping, AtTodos!Linked, AtTodos!Todos

LEMMA WritesKeep ==
  ASSUME Kept(s1), NEW f, NEW data \in AtTodos!Effect(f)
  PROVE  Kept(data) /\ Sleeping(data)
<1>0. /\ \A l \in AtTodos!Unmade : l \in AtTodos!AllLists
      /\ \A l \in AtTodos!Range(s1.order) : l \in AtTodos!AllLists
  BY TodosBounds, ElementOfSeq DEF AtTodos!Unmade, AtTodos!Range, Kept
<1>1. Sleeping(s1)
  BY DEF Sleeping
<1>2. CASE f.kind \in {"create", "first"}
  <2>1. PICK l \in AtTodos!Unmade : data = AtTodos!WithList(l)
    BY <1>2 DEF AtTodos!Effect
  <2> QED
    BY <1>0, <2>1, MakingKeeps DEF Sleeping
<1>3. CASE f.kind = "deal"
  <2>1. data \in AtTodos!OnDeal(f.deal)
    BY <1>3 DEF AtTodos!Effect
  <2>2. CASE s1.order = << >>
    <3>1. PICK l \in AtTodos!Unmade : data \in AtTodos!NewTodo(AtTodos!WithList(l), l, f.deal)
      BY <2>1, <2>2 DEF AtTodos!OnDeal
    <3>2. PICK base : base = AtTodos!WithList(l)
      OBVIOUS
    <3>3. Kept(base) /\ base.todo = s1.todo
      BY <1>0, <3>1, <3>2, MakingKeeps
    <3> QED
      BY <3>1, <3>2, <3>3, AddingKeeps
  <2>3. CASE s1.order # << >>
    <3>1. \E l, d : data \in AtTodos!NewTodo(s1, l, d)
      BY <2>1, <2>3 DEF AtTodos!OnDeal
    <3> QED
      BY <3>1, AddingKeeps
  <2> QED
    BY <2>2, <2>3
<1>4. CASE f.kind = "own"
  <2>1. AtTodos!TakesLink("old") /\ data = [s1 EXCEPT !.todo["old"].own = f.deal]
    BY <1>4 DEF AtTodos!Effect
  <2> DEFINE r == [s1.todo EXCEPT !["old"].own = f.deal]
  <2>2. data = [order |-> s1.order, link |-> s1.link, todo |-> r]
    BY <2>1 DEF Kept
  <2>3. DOMAIN r = AtTodos!Todos /\ r["new"] = s1.todo["new"]
    BY DEF Kept, AtTodos!Todos
  <2> HIDE DEF r
  <2>4. ~AtTodos!Linked(s1, "old")
    BY <2>1 DEF AtTodos!TakesLink
  <2> QED
    BY <2>2, <2>3, <2>4 DEF Kept, Sleeping, AtTodos!Todos
<1>5. CASE f.kind = "remove"
  <2>1. data = [s1 EXCEPT !.todo["old"] = [list |-> None, own |-> None]]
    BY <1>5 DEF AtTodos!Effect
  <2> DEFINE r == [s1.todo EXCEPT !["old"] = [list |-> None, own |-> None]]
  <2>2. data = [order |-> s1.order, link |-> s1.link, todo |-> r]
    BY <2>1 DEF Kept
  <2>3. DOMAIN r = AtTodos!Todos /\ r["new"] = s1.todo["new"] /\ r["old"].list = None
    BY DEF Kept, AtTodos!Todos
  <2> HIDE DEF r
  <2> QED
    BY <2>2, <2>3 DEF Kept, Sleeping, AtTodos!Todos, AtTodos!Linked
<1>6. CASE f.kind \notin {"create", "first", "deal", "own", "remove"}
  <2>1. f.list \in AtTodos!Range(s1.order) /\ data \in AtTodos!OnList(f)
    BY <1>6 DEF AtTodos!Effect
  <2>2. CASE f.kind = "rename"
    BY <1>1, <2>1, <2>2 DEF AtTodos!OnList
  <2>3. CASE f.kind = "delete"
    BY <2>1, <2>3, DroppingKeeps DEF AtTodos!OnList
  <2>4. CASE f.kind = "link"
    <3>1. data = AtTodos!WithLink(f.list, f.deal)
      BY <2>1, <2>4 DEF AtTodos!OnList
    <3> QED
      BY <1>0, <2>1, <3>1, MakingKeeps
  <2>5. CASE f.kind \notin {"rename", "delete", "link"}
    <3>1. data \in AtTodos!NewTodo(s1, f.list, None)
      BY <2>1, <2>5 DEF AtTodos!OnList
    <3> QED
      BY <3>1, AddingKeeps
  <2> QED
    BY <2>2, <2>3, <2>4, <2>5
<1> QED
  BY <1>2, <1>3, <1>4, <1>5, <1>6

\* Once nothing more is to be heard of that changed something, what is on screen, or was
\* read for it, is what the server has.
Heard == ~s12 /\ \A i \in DOMAIN s10 : s10[i].step # "done"
OnScreenIsStored ==
  Heard => (s3 = AtTodos!NoFetch => s2 = s1) /\ (s3.step = "read" => s3.data = s1)
FlightsAreQueued == \E F : s10 \in Seq(F) /\ \A f \in F : "step" \in DOMAIN f
TodosInv == Kept(s1) /\ FlightsAreQueued /\ AtTodos!OwnLinkSleeps /\ OnScreenIsStored

LEMMA TodosStart == AtTodos!TodosInit => TodosInv
<1> SUFFICES ASSUME AtTodos!TodosInit PROVE TodosInv
  OBVIOUS
<1>1. PICK lists \in {Given, << >>} :
        s1 = [order |-> lists, link |-> [l \in AtTodos!AllLists |-> None],
              todo |-> [t \in AtTodos!Todos |-> [list |-> IF t = "old" /\ lists # << >> THEN Head(lists) ELSE None,
                                           own |-> None]]]
  BY DEF AtTodos!TodosInit
<1>2. lists \in Seq(AtTodos!AllLists)
  BY TodosBounds, EmptySeq
<1>3. Kept(s1)
  BY <1>1, <1>2 DEF Kept
<1>4. FlightsAreQueued
  <2>1. s10 = << >> /\ << >> \in Seq({})
    BY EmptySeq DEF AtTodos!TodosInit
  <2> QED
    BY <2>1 DEF FlightsAreQueued
<1>5. s2 = s1 /\ s3 = AtTodos!NoFetch /\ s3.step # "read"
  BY DEF AtTodos!TodosInit, AtTodos!NoFetch
<1>6. \A t \in AtTodos!Todos : s1.todo[t].own = None /\ s11[t] = None
  BY <1>1 DEF AtTodos!TodosInit
<1> QED
  BY <1>3, <1>4, <1>5, <1>6 DEF TodosInv, OnScreenIsStored, AtTodos!OwnLinkSleeps

\* A write of whichever tab puts the own links of its rows to sleep, or wakes them.
LEMMA SleepStays ==
  ASSUME TodosInv, NEW data, Kept(data), Sleeping(data), s1' = data, AtTodos!Sleeps(data)
  PROVE  Kept(s1)' /\ AtTodos!OwnLinkSleeps'
<1>1. \A t \in AtTodos!Todos : s11'[t] = IF AtTodos!Linked(data, t) /\ AtTodos!Linked(s1, t) THEN s11[t] ELSE data.todo[t].own
  BY DEF AtTodos!Sleeps
<1>2. \A t \in AtTodos!Todos : AtTodos!Linked(data, t) => data.todo[t].own = s11'[t]
  BY <1>1 DEF TodosInv, Sleeping, AtTodos!OwnLinkSleeps
<1> QED
  BY <1>2 DEF AtTodos!OwnLinkSleeps, AtTodos!Linked, Kept

LEMMA TodosStay == TodosInv /\ [AtTodos!TodosNext]_AtTodos!todosVars => TodosInv'
<1> SUFFICES ASSUME TodosInv, [AtTodos!TodosNext]_AtTodos!todosVars PROVE TodosInv'
  OBVIOUS
<1> USE DEF TodosInv, AtTodos!switcherVars
<1>f. PICK F : s10 \in Seq(F) /\ \A f \in F : "step" \in DOMAIN f
  BY DEF FlightsAreQueued
<1>l. Len(s10) \in Nat /\ DOMAIN s10 = 1 .. Len(s10) /\ \A i \in 1 .. Len(s10) : s10[i] \in F
  BY <1>f, ElementOfSeq
\* What the server has stays as it is, and so do the own links.
<1>k. ASSUME UNCHANGED <<s1, s11>> PROVE Kept(s1)' /\ AtTodos!OwnLinkSleeps'
  BY <1>k DEF Kept, AtTodos!OwnLinkSleeps, AtTodos!Linked
<1>0. ASSUME UNCHANGED <<s1, s2, s3, s10, s11, s12>> PROVE TodosInv'
  BY <1>0, <1>k DEF FlightsAreQueued, OnScreenIsStored, Heard
<1>1. CASE AtTodos!ServerReads
  <2>1. s3' = [step |-> "read", data |-> s1] /\ UNCHANGED <<s1, s10, s11>>
    BY <1>1 DEF AtTodos!ServerReads
  <2>2. OnScreenIsStored'
    BY <2>1 DEF OnScreenIsStored, AtTodos!NoFetch
  <2> QED
    BY <1>k, <2>1, <2>2 DEF FlightsAreQueued
<1>2. CASE AtTodos!TodosArrive
  <2>1. s2' = s3.data /\ s3' = AtTodos!NoFetch /\ s3.step = "read" /\ UNCHANGED <<s1, s10, s11, s12>>
    BY <1>2 DEF AtTodos!TodosArrive
  <2>2. OnScreenIsStored'
    BY <2>1 DEF OnScreenIsStored, Heard, AtTodos!NoFetch
  <2> QED
    BY <1>k, <2>1, <2>2 DEF FlightsAreQueued
<1>3. ASSUME NEW kind, NEW list, NEW deal, AtTodos!Sends(kind, list, deal) PROVE TodosInv'
  <2> DEFINE f == [kind |-> kind, list |-> list, deal |-> deal, next |-> AtTodos!Other(list), step |-> "sent"]
  <2>1. "step" \in DOMAIN f /\ f.step = "sent"
    OBVIOUS
  <2>2. s10' = Append(s10, f) /\ UNCHANGED <<s1, s2, s3, s11, s12>>
    BY <1>3 DEF AtTodos!Sends
  <2> HIDE DEF f
  <2>3. s10 \in Seq(F \cup {f}) /\ f \in F \cup {f}
    BY <1>f, SeqMonotonic
  <2>4. s10' \in Seq(F \cup {f}) /\ Len(s10') = Len(s10) + 1 /\ \A i \in 1 .. Len(s10) : s10'[i] = s10[i]
    BY <2>2, <2>3, AppendProperties
  <2>5. FlightsAreQueued'
    BY <1>f, <2>1, <2>4 DEF FlightsAreQueued
  <2>6. DOMAIN s10' = 1 .. Len(s10) + 1
    BY <2>4
  <2>7. Heard' => Heard
    BY <1>l, <2>2, <2>4, <2>6 DEF Heard
  <2> QED
    BY <1>k, <2>2, <2>5, <2>7 DEF OnScreenIsStored
<1>4. ASSUME NEW i \in DOMAIN s10, AtTodos!ServerWrites(i) PROVE TodosInv'
  <2>0. i \in 1 .. Len(s10) /\ "step" \in DOMAIN s10[i] /\ UNCHANGED <<s2, s3>>
    BY <1>4, <1>f, <1>l DEF AtTodos!ServerWrites
  <2>1. PICK step, list : s10' = [s10 EXCEPT ![i].step = step, ![i].list = list] \/ s10' = [s10 EXCEPT ![i].step = step]
    BY <1>4 DEF AtTodos!ServerWrites
  <2>2. /\ Len(s10') = Len(s10) /\ DOMAIN s10' = DOMAIN s10 /\ \A j \in DOMAIN s10 : j # i => s10'[j] = s10[j]
        /\ "step" \in DOMAIN s10'[i] /\ s10' \in Seq(F \cup {s10'[i]})
    <3> DEFINE e == [s10[i] EXCEPT !.step = step, !.list = list]
               g == [s10[i] EXCEPT !.step = step]
    <3>1. "step" \in DOMAIN e /\ "step" \in DOMAIN g
      BY <2>0
    <3>2. s10' = [s10 EXCEPT ![i] = e] \/ s10' = [s10 EXCEPT ![i] = g]
      BY <2>0, <2>1
    <3> HIDE DEF e, g
    <3>3. PICK h \in {e, g} : s10' = [s10 EXCEPT ![i] = h]
      BY <3>2
    <3>4. s10 \in Seq(F \cup {h})
      BY <1>f, SeqMonotonic
    <3>5. s10' \in Seq(F \cup {h}) /\ Len(s10') = Len(s10) /\ s10'[i] = h
      BY <2>0, <3>3, <3>4, ExceptSeq
    <3>6. \A j \in 1 .. Len(s10) : j # i => s10'[j] = s10[j]
      BY <2>0, <3>3, <3>4, ExceptSeq
    <3> QED
      BY <1>l, <3>1, <3>3, <3>5, <3>6
  <2>3. FlightsAreQueued'
    BY <1>f, <2>2 DEF FlightsAreQueued
  <2>4. CASE /\ \E data \in AtTodos!Effect(s10[i]), st \in {"done", "refused"} :
                  /\ s1' = data /\ AtTodos!Sleeps(data) /\ s10'[i].step = st /\ s12' = (s12 \/ st = "refused")
    <3>1. PICK data \in AtTodos!Effect(s10[i]) : s1' = data /\ AtTodos!Sleeps(data)
      BY <2>4
    <3>2. Kept(s1)' /\ AtTodos!OwnLinkSleeps'
      BY <3>1, WritesKeep, SleepStays
    <3>3. ~Heard'
      BY <2>2, <2>4 DEF Heard
    <3> QED
      BY <2>3, <3>2, <3>3 DEF OnScreenIsStored
  <2>5. CASE s10'[i].step = "refused" /\ UNCHANGED <<s1, s11, s12>> /\ s10[i].step = "sent"
    <3>1. Heard' => Heard
      BY <2>2, <2>5 DEF Heard
    <3> QED
      BY <1>k, <2>0, <2>3, <2>5, <3>1 DEF OnScreenIsStored
  <2>6. ASSUME NEW data \in AtTodos!Effect(s10[i]), NEW st \in {"done", "refused"}, NEW x,
               s10' = [s10 EXCEPT ![i].step = st, ![i].list = x]
        PROVE  s10'[i].step = st
    BY <2>0, <2>6, <1>l
  <2>7. s10' = [s10 EXCEPT ![i].step = "refused"] => s10'[i].step = "refused"
    BY <2>0, <1>l
  <2> QED
    BY <1>4, <2>4, <2>5, <2>6, <2>7 DEF AtTodos!ServerWrites
\* An answer that changed something makes the client read; the others changed nothing.
<1>5. ASSUME NEW i \in DOMAIN s10, AtTodos!Answered(i) PROVE TodosInv'
  <2>1. i \in 1 .. Len(s10) /\ s10' = AtTodos!RemoveAt(s10, i) /\ UNCHANGED <<s1, s2, s11, s12>>
    BY <1>5, <1>l DEF AtTodos!Answered
  <2>2. /\ s10' \in Seq(F) /\ Len(s10') = Len(s10) - 1
        /\ \A j \in 1 .. Len(s10) - 1 : s10'[j] = IF j < i THEN s10[j] ELSE s10[j + 1]
    BY <1>f, <2>1, OneLess
  <2>3. FlightsAreQueued'
    BY <1>f, <2>2 DEF FlightsAreQueued
  <2>4. CASE s10[i].step = "done"
    <3>1. s3' = [step |-> "asked"]
      BY <1>5, <2>4 DEF AtTodos!Answered, AtTodos!Invalidates
    <3>2. s3' # AtTodos!NoFetch /\ s3'.step # "read"
      BY <3>1 DEF AtTodos!NoFetch
    <3> QED
      BY <1>k, <2>1, <2>3, <3>2 DEF OnScreenIsStored, AtTodos!NoFetch
  <2>5. CASE s10[i].step # "done"
    <3>1. s3' = s3
      BY <1>5, <2>5 DEF AtTodos!Answered
    <3>2. DOMAIN s10' = 1 .. Len(s10) - 1
      BY <2>2
    <3>3. ASSUME Heard', NEW j \in 1 .. Len(s10) PROVE s10[j].step # "done"
      <4>1. CASE j < i
        <5>1. j \in 1 .. Len(s10) - 1 /\ s10'[j] = s10[j]
          BY <1>l, <2>1, <2>2, <4>1
        <5> QED
          BY <3>2, <3>3, <5>1 DEF Heard
      <4>2. CASE j > i
        <5>1. j - 1 \in 1 .. Len(s10) - 1 /\ ~(j - 1 < i) /\ (j - 1) + 1 = j
          BY <1>l, <2>1, <4>2
        <5>2. s10'[j - 1] = s10[j]
          BY <2>2, <5>1
        <5> QED
          BY <3>2, <3>3, <5>1, <5>2 DEF Heard
      <4> QED
        BY <1>l, <2>1, <2>5, <4>1, <4>2
    <3>4. Heard' => Heard
      BY <1>l, <2>1, <3>3 DEF Heard
    <3> QED
      BY <1>k, <2>1, <2>3, <3>1, <3>4 DEF OnScreenIsStored
  <2> QED
    BY <2>4, <2>5
<1>6. CASE AtTodos!OtherTab
  <2>1. PICK l \in AtTodos!Range(s1.order) : \E data \in {AtTodos!Without(l)} \cup {AtTodos!WithLink(l, d) : d \in AtTodos!Links} :
          s1' = data /\ AtTodos!Sleeps(data)
    BY <1>6 DEF AtTodos!OtherTab
  <2>2. l \in AtTodos!AllLists
    BY ElementOfSeq DEF AtTodos!Range, Kept
  <2>3. PICK data : data \in {AtTodos!Without(l)} \cup {AtTodos!WithLink(l, d) : d \in AtTodos!Links} /\ s1' = data /\ AtTodos!Sleeps(data)
    BY <2>1
  <2>4. Kept(data) /\ Sleeping(data)
    BY <2>2, <2>3, MakingKeeps, DroppingKeeps
  <2>5. s12' = TRUE /\ s10' = s10
    BY <1>6 DEF AtTodos!OtherTab
  <2> QED
    BY <2>3, <2>4, <2>5, SleepStays DEF OnScreenIsStored, Heard, FlightsAreQueued
<1>7. ASSUME \/ AtTodos!CreateFirstList \/ AtTodos!SubmitName \/ AtTodos!SubmitRename \/ AtTodos!ConfirmDelete \/ AtTodos!UnlinkList
             \/ \E d \in AtTodos!Links : AtTodos!PickForList(d) \/ AtTodos!PickForTodo(d)
             \/ AtTodos!AddTodo \/ AtTodos!RemoveTodo \/ \E d \in Deals : AtTodos!AddDealTodo(d)
      PROVE  \E kind, list, deal : AtTodos!Sends(kind, list, deal)
  BY <1>7 DEF AtTodos!CreateFirstList, AtTodos!SubmitName, AtTodos!SubmitRename, AtTodos!ConfirmDelete, AtTodos!UnlinkList, AtTodos!PickForList,
     AtTodos!PickForTodo, AtTodos!AddTodo, AtTodos!RemoveTodo, AtTodos!AddDealTodo
<1>8. ASSUME \/ AtTodos!OpenSwitcher \/ AtTodos!CloseSwitcher \/ AtTodos!StartNaming \/ AtTodos!StartRenaming \/ AtTodos!AskDelete \/ AtTodos!CancelDelete
             \/ AtTodos!OpenListPicker \/ AtTodos!OpenRowPicker \/ AtTodos!ClosePicker
             \/ \E l \in AtTodos!AllLists : AtTodos!SelectList(l)
             \/ UNCHANGED AtTodos!todosVars
      PROVE  UNCHANGED <<s1, s2, s3, s10, s11, s12>>
  BY <1>8 DEF AtTodos!OpenSwitcher, AtTodos!CloseSwitcher, AtTodos!StartNaming, AtTodos!StartRenaming, AtTodos!AskDelete, AtTodos!CancelDelete,
     AtTodos!OpenListPicker, AtTodos!OpenRowPicker, AtTodos!ClosePicker, AtTodos!SelectList, AtTodos!todosVars
<1> QED
  BY <1>0, <1>1, <1>2, <1>3, <1>4, <1>5, <1>6, <1>7, <1>8 DEF AtTodos!TodosNext

LEMMA TodosAreKept == TodosInv => AtTodos!TodosSettle /\ AtTodos!PagesFollowRule /\ AtTodos!OwnLinkSleeps
<1> SUFFICES ASSUME TodosInv PROVE AtTodos!TodosSettle /\ AtTodos!PagesFollowRule
  BY DEF TodosInv
<1>1. AtTodos!PagesFollowRule
  <2>1. ASSUME NEW d \in Deals, NEW t \in AtTodos!Todos
        PROVE  t \in AtTodos!OnDealPage(d) <=> s1.todo[t].list # None /\ AtTodos!EffectiveDeal(s1, t) = d
    BY TodosBounds DEF AtTodos!OnDealPage, AtTodos!EffectiveDeal, AtTodos!Linked
  <2>2. \A d \in Deals : AtTodos!OnDealPage(d) \subseteq AtTodos!Todos
    BY DEF AtTodos!OnDealPage
  <2> QED
    BY <2>1, <2>2 DEF AtTodos!PagesFollowRule
<1>2. ASSUME s10 = << >>, s3 = AtTodos!NoFetch, ~s12
      PROVE  s2 = s1 /\ (AtTodos!Current = None <=> s1.order = << >>)
  <2>1. DOMAIN s10 = {}
    BY <1>2
  <2>2. s2 = s1
    BY <1>2, <2>1 DEF TodosInv, OnScreenIsStored, Heard
  <2>3. s2.order \in Seq(AtTodos!AllLists) /\ AtTodos!Range(s2.order) \subseteq AtTodos!AllLists
    BY <2>2, ElementOfSeq DEF TodosInv, Kept, AtTodos!Range
  <2>4. CASE s2.order = << >>
    <3>1. AtTodos!Range(s2.order) = {}
      BY <2>4 DEF AtTodos!Range
    <3> QED
      BY <2>2, <2>4, <3>1 DEF AtTodos!Current
  <2>5. CASE s2.order # << >>
    <3>1. Head(s2.order) \in AtTodos!AllLists
      BY <2>3, <2>5, HeadTailProperties
    <3> QED
      BY <2>2, <2>3, <2>5, <3>1, TodosBounds DEF AtTodos!Current
  <2> QED
    BY <2>2, <2>4, <2>5
<1> QED
  BY <1>1, <1>2 DEF AtTodos!TodosSettle

\* Once its answers are in, a dashboard shows the configuration that is stored
\* (useDashboardEditor.ts, DashboardPage.tsx, ReportsPage.tsx), and the to-do widget the
\* lists; to-dos are on the pages of the deals their rows name, and links of their own
\* sleep while their list is linked (todos.py), whatever was saved, rolled back, deleted
\* and linked in between, in whatever order it was answered.
THEOREM DashboardsSettle == DeskSpec => []DashboardSettles
<1> DEFINE Inv == (screen = "widgets" => WidgetsInv) /\ (screen = "todos" => TodosInv)
<1>1. DeskInit => Inv
  BY EachBegins, WidgetsStart, TodosStart
<1>2. ASSUME Inv, [DeskNext]_deskVars PROVE Inv'
  BY <1>2, EachByItself, WidgetsStay, TodosStay
<1>3. Inv => DashboardSettles
  BY TodosAreKept DEF DashboardSettles, AtWidgets!DashboardSettles, WidgetsInv, ReadIsStored
<1> QED
  BY <1>1, <1>2, <1>3, PTL DEF DeskSpec

-----------------------------------------------------------------------------
(***************************************************************************)
(* The types of the remaining parts, and of the desk as a whole.            *)
(***************************************************************************)
LEMMA ConsoleTypesStart == ConsoleInit \/ NoConsole => ConsoleTypeOK
  BY DEF ConsoleInit, NoConsole, ConsoleTypeOK, Status

\* What a tab that is left makes of the requests of its dialogs.
LEMMA DisownedAreOfTheirKind ==
  /\ \A a \in Act : [a EXCEPT !.own = FALSE] \in Act
  /\ \A n \in CreditNote : [n EXCEPT !.own = FALSE] \in CreditNote
  BY DEF Act, CreditNote

LEMMA ConsoleTypesStay == ConsoleInv /\ ConsoleTypeOK /\ [ConsoleNext]_consoleOwnVars => ConsoleTypeOK'
<1> SUFFICES ASSUME ConsoleInv, ConsoleTypeOK, [ConsoleNext]_consoleOwnVars PROVE ConsoleTypeOK'
  OBVIOUS
<1> USE DEF ConsoleTypeOK, orgVars, dialogVars, detailVars
<1>1. ASSUME NEW t \in {"organizations", "invoices", "settings"}, PickTab(t) PROVE ConsoleTypeOK'
  <2>1. crediting' \in CreditNote \cup {None} /\ acts' \subseteq Act
    BY <1>1, DisownedAreOfTheirKind DEF PickTab
  <2>2. issuing' \in {"no", "own", "stray"} /\ manual' \in BOOLEAN
    BY <1>1 DEF PickTab
  <2> QED
    BY <1>1, <2>1, <2>2 DEF PickTab
<1>2. ASSUME NEW o \in Orgs, SelectOrg(o) PROVE ConsoleTypeOK'
  BY <1>2 DEF SelectOrg
<1>3. CASE OpenModal \/ CloseModal
  BY <1>3 DEF OpenModal, CloseModal
<1>4. CASE SubmitModal \/ ModalAnswers
  <2>1. SubmitModal => modal \in Orgs /\ org \in Orgs
    BY DEF SubmitModal, ConsoleInv, ModalIsOfTheRow
  <2>2. ModalAnswers => ConsoleTypeOK'
    BY DEF ModalAnswers
  <2>3. SubmitModal => ConsoleTypeOK'
    BY <2>1 DEF SubmitModal
  <2> QED
    BY <1>4, <2>2, <2>3
<1>5. ASSUME NEW i \in Invoices, SelectInvoice(i) PROVE ConsoleTypeOK'
  BY <1>5 DEF SelectInvoice, Reading
<1>6. ASSUME NEW r \in reads, useAdminInvoiceDetail(r) PROVE ConsoleTypeOK'
  <2>1. r \in [of : Invoices, found : Status \cup {None}] /\ status[r.of] \in Status
    OBVIOUS
  <2>2. [r EXCEPT !.found = status[r.of]] \in [of : Invoices, found : Status \cup {None}]
    BY <2>1
  <2>3. reads' \subseteq [of : Invoices, found : Status \cup {None}] /\ shown' \in [Invoices -> Status \cup {None}]
    BY <1>6, <2>1, <2>2 DEF useAdminInvoiceDetail
  <2> QED
    BY <1>6, <2>3 DEF useAdminInvoiceDetail
<1>7. CASE TypeReason \/ CreditNoteModal \/ IssueCreditNote
  <2>1. invoice \in Invoices
    BY <1>7 DEF TypeReason, CreditNoteModal, IssueCreditNote, Drawer
  <2>2. TypeReason => ConsoleTypeOK'
    BY <2>1 DEF TypeReason
  <2>3. CreditNoteModal => ConsoleTypeOK'
    <3>1. CreditNoteModal => crediting' \in CreditNote \cup {None}
      BY DisownedAreOfTheirKind DEF CreditNoteModal
    <3> QED
      BY <2>1, <3>1 DEF CreditNoteModal
  <2>4. IssueCreditNote => ConsoleTypeOK'
    <3>1. IssueCreditNote => crediting' \in CreditNote
      BY <2>1 DEF IssueCreditNote, CreditNote
    <3> QED
      BY <3>1 DEF IssueCreditNote
  <2> QED
    BY <1>7, <2>2, <2>3, <2>4
<1>8. ASSUME NEW k \in Kinds, Press(k) PROVE ConsoleTypeOK'
  <2> DEFINE a == [kind |-> k, of |-> invoice, reason |-> IF k = "void" THEN reason ELSE None, own |-> TRUE]
  <2>1. a \in Act
    BY <1>8 DEF Act, Press, Drawer
  <2>2. acts' = acts \cup {a}
    BY <1>8 DEF Press
  <2> HIDE DEF a
  <2>3. acts' \subseteq Act
    BY <2>1, <2>2
  <2> QED
    BY <1>8, <2>3 DEF Press
<1>9. ASSUME NEW a \in acts, useInvoiceAction(a) PROVE ConsoleTypeOK'
  <2>1. PICK s : s = Becomes(a.kind, status[a.of])
    OBVIOUS
  <2>2. a.of \in Invoices /\ s \in Status \cup {None}
    BY <2>1 DEF Act, Becomes, Status
  <2>3. \/ /\ s # None /\ status' = [status EXCEPT ![a.of] = s] /\ shown' = [shown EXCEPT ![a.of] = s]
           /\ reason' \in {reason, None}
        \/ UNCHANGED <<status, shown, reason>>
    BY <1>9, <2>1 DEF useInvoiceAction
  <2>4. status' \in [Invoices -> Status] /\ shown' \in [Invoices -> Status \cup {None}] /\ reason' \in Invoices \cup {None}
    BY <2>2, <2>3
  <2> QED
    BY <1>9, <2>4 DEF useInvoiceAction
<1>b. ASSUME NEW i \in Invoices, NEW selects, Born(i, selects)
      PROVE  status' \in [Invoices -> Status] /\ shown' \in [Invoices -> Status \cup {None}] /\ invoice' \in Invoices \cup {None}
  BY <1>b DEF Born, Status
<1>10. CASE CreditNoteAnswers
  <2>1. /\ status' \in [Invoices -> Status] /\ shown' \in [Invoices -> Status \cup {None}]
        /\ invoice' \in Invoices \cup {None} /\ credit' \in {credit, None}
    BY <1>b, <1>10 DEF CreditNoteAnswers
  <2> QED
    BY <1>10, <2>1 DEF CreditNoteAnswers
<1>11. CASE ManualInvoiceAnswers
  <2>1. /\ status' \in [Invoices -> Status] /\ shown' \in [Invoices -> Status \cup {None}]
        /\ invoice' \in Invoices \cup {None}
    BY <1>b, <1>11 DEF ManualInvoiceAnswers
  <2>2. manual' \in BOOLEAN
    BY <1>11 DEF ManualInvoiceAnswers
  <2> QED
    BY <1>11, <2>1, <2>2 DEF ManualInvoiceAnswers
<1>12. CASE ManualInvoiceModal \/ IssueManualInvoice
  <2>1. manual' \in BOOLEAN /\ issuing' \in {"no", "own", "stray"}
    BY <1>12 DEF ManualInvoiceModal, IssueManualInvoice
  <2> QED
    BY <1>12, <2>1 DEF ManualInvoiceModal, IssueManualInvoice
<1>13. CASE UNCHANGED consoleOwnVars
  BY <1>13 DEF consoleOwnVars
<1> QED
  BY <1>1, <1>2, <1>3, <1>4, <1>5, <1>6, <1>7, <1>8, <1>9, <1>10, <1>11, <1>12, <1>13 DEF ConsoleNext

LEMMA BulkTypesStart == AtBulk!BulkInit => AtBulk!BulkTypeOK
<1>1. AtBulk!NoFilter \in AtBulk!Filter
  BY DEF AtBulk!NoFilter, AtBulk!Filter
<1>2. 1 \in 1 .. 3
  OBVIOUS
<1> QED
  BY <1>1, <1>2 DEF AtBulk!BulkInit, AtBulk!BulkTypeOK

LEMMA BulkTypesStay == AtBulk!BulkTypeOK /\ [AtBulk!BulkNext]_AtBulk!bulkVars => AtBulk!BulkTypeOK'
<1> SUFFICES ASSUME AtBulk!BulkTypeOK, [AtBulk!BulkNext]_AtBulk!bulkVars PROVE AtBulk!BulkTypeOK'
  OBVIOUS
<1> USE DEF AtBulk!BulkTypeOK, AtBulk!filterVars
<1>r. ASSUME NEW f \in AtBulk!Filter, AtBulk!resolveWith(f)
      PROVE  /\ s4' \in AtBulk!Filter /\ s6' = None /\ s7' = {} /\ s13' = {}
             /\ s8' \subseteq AtBulk!Filter /\ s9' \in AtBulk!Filter
  BY <1>r DEF AtBulk!resolveWith
<1>1. ASSUME NEW picked \in BOOLEAN, AtBulk!OpenWizard(picked) PROVE AtBulk!BulkTypeOK'
  <2>1. AtBulk!NoFilter \in AtBulk!Filter
    BY DEF AtBulk!NoFilter, AtBulk!Filter
  <2>2. 1 \in 1 .. 3
    OBVIOUS
  <2> QED
    BY <1>1, <1>r, <2>1, <2>2 DEF AtBulk!OpenWizard
<1>2. CASE AtBulk!CloseWizard \/ AtBulk!Write \/ AtBulk!doSend \/ AtBulk!SendResult
  BY <1>2 DEF AtBulk!CloseWizard, AtBulk!Write, AtBulk!doSend, AtBulk!SendResult
<1>3. CASE AtBulk!Step
  <2>1. s2' \in 1 .. 3
    BY <1>3 DEF AtBulk!Step, AtBulk!MayGoOn
  <2> QED
    BY <1>3, <2>1 DEF AtBulk!Step
<1>4. CASE AtBulk!TypingPauses
  <2>1. [s4 EXCEPT !.industry = s5] \in AtBulk!Filter
    BY DEF AtBulk!Filter
  <2> QED
    BY <1>4, <1>r, <2>1 DEF AtBulk!TypingPauses
<1>5. ASSUME NEW v \in Cities \cup {None}, AtBulk!PickCity(v) PROVE AtBulk!BulkTypeOK'
  <2>1. [s4 EXCEPT !.city = v] \in AtBulk!Filter
    BY DEF AtBulk!Filter
  <2> QED
    BY <1>5, <1>r, <2>1 DEF AtBulk!PickCity
<1>6. ASSUME NEW v \in Industries \cup {None}, AtBulk!TypeIndustry(v) PROVE AtBulk!BulkTypeOK'
  BY <1>6 DEF AtBulk!TypeIndustry
<1>7. ASSUME NEW f \in s8, AtBulk!useResolveRecipients(f) PROVE AtBulk!BulkTypeOK'
  <2>1. AtBulk!Listed(f) \subseteq Firms /\ UNION {AtBulk!defaultEmails(c) : c \in AtBulk!Listed(f)} \subseteq Addresses
    BY DEF AtBulk!Listed, AtBulk!defaultEmails, AtBulk!emailOptions
  <2>2. s6' \in (SUBSET Firms) \cup {None} /\ s7' \subseteq Addresses /\ s9' \in {s9, None}
    BY <1>7, <2>1 DEF AtBulk!useResolveRecipients, AtBulk!Heeded
  <2> QED
    BY <1>7, <2>2 DEF AtBulk!useResolveRecipients
<1>t. ASSUME NEW new, new \subseteq Addresses, AtBulk!Ticks(new) PROVE AtBulk!BulkTypeOK'
  BY <1>t DEF AtBulk!Ticks
<1>8. ASSUME NEW a \in Addresses, AtBulk!toggleEmail(a) PROVE AtBulk!BulkTypeOK'
  BY <1>8, <1>t DEF AtBulk!toggleEmail
<1>9. ASSUME NEW c \in Firms, AtBulk!setCompanySelected(c) PROVE AtBulk!BulkTypeOK'
  BY <1>9, <1>t DEF AtBulk!setCompanySelected, AtBulk!emailOptions
<1>10. CASE AtBulk!setAllSelected
  BY <1>10, <1>t DEF AtBulk!setAllSelected, AtBulk!emailOptions
<1>11. CASE UNCHANGED AtBulk!bulkVars
  BY <1>11 DEF AtBulk!bulkVars
<1> QED
  BY <1>1, <1>2, <1>3, <1>4, <1>5, <1>6, <1>7, <1>8, <1>9, <1>10, <1>11 DEF AtBulk!BulkNext

LEMMA LayoutsAreTyped == LayoutsAreSound => AtWidgets!WidgetsTypeOK
<1> SUFFICES ASSUME LayoutsAreSound PROVE AtWidgets!WidgetsTypeOK
  OBVIOUS
<1> USE DEF LayoutsAreSound
<1>1. \A p : Layouts(p) \subseteq AtWidgets!Config /\ Readings(p) \subseteq AtWidgets!Config \cup {None}
  BY DEF Layouts, Readings
<1>2. /\ s3.data \in AtWidgets!Config \cup {None} /\ s3.invalid \in BOOLEAN
      /\ s3.fetch.step \in {"idle", "asked", "read"} /\ s3.fetch.got \in AtWidgets!Config \cup {None}
  BY <1>1
<1>3. ASSUME NEW i \in PutSlots
      PROVE  s8[i] = AtWidgets!Idle \/ /\ s8[i].step \in {"sent", "ok", "refused"}
                                       /\ s8[i].do \in {"save", "choice", "reset"}
                                       /\ s8[i].body \in AtWidgets!Config /\ s8[i].prev \in AtWidgets!Config \cup {None}
  BY <1>1 DEF Requests
<1> QED
  BY <1>1, <1>2, <1>3 DEF AtWidgets!WidgetsTypeOK

\* The request for the profile is a record throughout.
FetchOfMe == [step : {"idle", "asked", "read"}, got : AtTour!Prefs \cup {None}]
TourTyped == AtTour!TourTypeOK /\ s3 \in FetchOfMe

LEMMA TourTypesStart == AtTour!TourInit => TourTyped
<1> SUFFICES ASSUME AtTour!TourInit PROVE TourTyped
  OBVIOUS
<1>1. s3 \in FetchOfMe
  BY DEF AtTour!TourInit, AtTour!NoFetch, FetchOfMe
<1>2. s1 \in AtTour!Prefs
  BY DEF AtTour!TourInit, AtTour!Prefs
<1>3. 0 \in 0 .. TapsOf.tour /\ 0 \in Nat
  BY DeskAssumption DEF AtTour!TourAssumption
<1> QED
  BY <1>1, <1>2, <1>3 DEF AtTour!TourInit, AtTour!TourTypeOK, TourTyped, FetchOfMe

LEMMA TourTypesStay == TourTyped /\ [AtTour!TourNext]_AtTour!tourVars => TourTyped'
<1> SUFFICES ASSUME TourTyped, [AtTour!TourNext]_AtTour!tourVars PROVE TourTyped'
  OBVIOUS
<1> USE DEF TourTyped
<1>0. /\ s1 \in AtTour!Prefs /\ s2 \in AtTour!Prefs \cup {None} /\ s3 \in FetchOfMe /\ s4 \in Tours \cup {None} /\ s5 \in Nat
      /\ s6 \in [AtTour!Instances -> Tours \cup {None}] /\ s7 \in BOOLEAN /\ s8 \subseteq AtTour!Patch /\ s9 \in BOOLEAN
      /\ taps \in 0 .. TapsOf.tour
  BY DEF AtTour!TourTypeOK
<1>s. ASSUME s1' \in AtTour!Prefs, s2' \in AtTour!Prefs \cup {None}, s3' \in FetchOfMe, s4' \in Tours \cup {None}, s5' \in Nat,
             s6' \in [AtTour!Instances -> Tours \cup {None}], s7' \in BOOLEAN, s8' \subseteq AtTour!Patch, s9' \in BOOLEAN,
             taps' \in 0 .. TapsOf.tour
      PROVE  TourTyped'
  BY <1>s DEF AtTour!TourTypeOK, FetchOfMe
<1>b. TapsOf.tour \in Nat /\ Length \in [Tours -> Nat \ {0}]
  BY DeskAssumption DEF AtTour!TourAssumption
<1>t. AtTour!Taps => taps' \in 0 .. TapsOf.tour
  BY <1>0, <1>b DEF AtTour!Taps
<1>n. AtTour!NoFetch \in FetchOfMe /\ [AtTour!NoFetch EXCEPT !.step = "asked"] \in FetchOfMe
  BY DEF FetchOfMe, AtTour!NoFetch
<1>p. ASSUME NEW i \in AtTour!Instances, NEW o \in AtTour!Outcomes \cup {None}, NEW l \in {"keep", "clear"}, s2 # None, s4 # None,
             AtTour!Sends(i, [s2.tours EXCEPT ![s4] = o], l)
      PROVE  s8' \subseteq AtTour!Patch
  <2>1. PICK m \in [Tours -> AtTour!Outcomes \cup {None}] : m = [s2.tours EXCEPT ![s4] = o]
    <3>1. s2.tours \in [Tours -> AtTour!Outcomes \cup {None}] /\ s4 \in Tours
      BY <1>0, <1>p DEF AtTour!Prefs
    <3>2. [s2.tours EXCEPT ![s4] = o] \in [Tours -> AtTour!Outcomes \cup {None}]
      BY <3>1
    <3> QED
      BY <3>2
  <2>2. [of |-> i, tours |-> m, legacy |-> l, step |-> "sent"] \in AtTour!Patch
    BY DEF AtTour!Patch
  <2> QED
    BY <1>0, <1>p, <2>1, <2>2 DEF AtTour!Sends
<1>c. ASSUME NEW o \in AtTour!Outcomes, AtTour!Shown("overlay"), AtTour!Closes(o)
      PROVE  /\ s6' \in [AtTour!Instances -> Tours \cup {None}] /\ s8' \subseteq AtTour!Patch /\ s9' \in BOOLEAN
             /\ UNCHANGED <<s1, s2, s3, s4, s5>>
  <2>1. s2 # None /\ s4 # None /\ "overlay" \in AtTour!Instances
    BY <1>c DEF AtTour!Shown, AtTour!Instances
  <2>2. s8' \subseteq AtTour!Patch
    BY <1>c, <1>p, <2>1 DEF AtTour!Closes
  <2> QED
    BY <1>0, <1>c, <2>1, <2>2 DEF AtTour!Closes
<1>a. ASSUME AtTour!Shown("overlay"), AtTour!Advances
      PROVE  /\ s5' \in Nat /\ s6' \in [AtTour!Instances -> Tours \cup {None}] /\ s8' \subseteq AtTour!Patch /\ s9' \in BOOLEAN
             /\ UNCHANGED <<s1, s2, s3, s4>>
  <2>1. AtTour!Closes("done") \/ AtTour!Moves(s5 + 1)
    BY <1>a DEF AtTour!Advances
  <2>2. "done" \in AtTour!Outcomes /\ s5 + 1 \in Nat
    BY <1>0 DEF AtTour!Outcomes
  <2> QED
    BY <1>0, <1>a, <1>c, <2>1, <2>2 DEF AtTour!Moves
<1>1. CASE AtTour!NextStep \/ AtTour!TargetAppears
  <2>1. AtTour!Shown("overlay") /\ AtTour!Advances /\ AtTour!Taps /\ s7' \in BOOLEAN
    BY <1>0, <1>1 DEF AtTour!NextStep, AtTour!TargetAppears
  <2> QED
    BY <1>0, <1>a, <1>s, <1>t, <2>1
<1>2. CASE AtTour!PrevStep
  <2>1. s4 \in Tours /\ Length[s4] \in Nat
    BY <1>0, <1>2, <1>b DEF AtTour!PrevStep, AtTour!Shown
  <2>2. AtTour!Step > 1
    BY <1>2 DEF AtTour!PrevStep
  <2>3. s5 - 1 \in Nat
    BY <1>0, <2>1, <2>2 DEF AtTour!Step
  <2>4. s5' = s5 - 1 /\ UNCHANGED <<s1, s2, s3, s4, s6, s7, s8, s9>> /\ AtTour!Taps
    BY <1>2 DEF AtTour!PrevStep, AtTour!Moves
  <2> QED
    BY <1>0, <1>s, <1>t, <2>3, <2>4
<1>3. CASE AtTour!Dismiss \/ AtTour!EscapeKey
  <2>1. \/ AtTour!Shown("overlay") /\ AtTour!Closes("dismissed") /\ s7' = s7
        \/ s7' = FALSE /\ UNCHANGED <<s1, s2, s3, s4, s5, s6, s8, s9>>
    BY <1>3 DEF AtTour!Dismiss, AtTour!EscapeKey
  <2>2. "dismissed" \in AtTour!Outcomes /\ taps' \in 0 .. TapsOf.tour
    BY <1>3, <1>t DEF AtTour!Outcomes, AtTour!Dismiss, AtTour!EscapeKey
  <2> QED
    BY <1>0, <1>c, <1>s, <2>1, <2>2
<1>4. CASE AtTour!Replay
  <2>1. /\ s2 # None /\ s4 # None /\ UNCHANGED <<s1, s2, s3, s4, s5, s7>> /\ AtTour!Taps
        /\ s6' = [s6 EXCEPT !["button"] = None] /\ s9' \in BOOLEAN
        /\ AtTour!Sends("button", [s2.tours EXCEPT ![s4] = None], IF s4 = Overview THEN "clear" ELSE "keep")
    BY <1>4 DEF AtTour!Replay
  <2>2. s8' \subseteq AtTour!Patch
    BY <1>p, <2>1 DEF AtTour!Instances
  <2>3. s6' \in [AtTour!Instances -> Tours \cup {None}]
    BY <1>0, <2>1
  <2> QED
    BY <1>0, <1>s, <1>t, <2>1, <2>2, <2>3
<1>5. ASSUME NEW p \in Tours \cup {None}, AtTour!Visit(p) PROVE TourTyped'
  <2>1. /\ s4' = p /\ s5' = 0 /\ s7' = FALSE /\ s9' = FALSE /\ s6' = [i \in AtTour!Instances |-> None] /\ AtTour!Taps
        /\ UNCHANGED <<s1, s2, s3, s8>>
    BY <1>5 DEF AtTour!Visit
  <2>2. s6' \in [AtTour!Instances -> Tours \cup {None}] /\ s5' \in Nat
    BY <2>1
  <2> QED
    BY <1>0, <1>s, <1>t, <2>1, <2>2
<1>6. ASSUME NEW t \in Tours, NEW o \in AtTour!Outcomes, AtTour!Elsewhere(t, o) PROVE TourTyped'
  <2>1. /\ s1' = [s1 EXCEPT !.tours[t] = o] /\ s9' = FALSE /\ s3' \in {s3, [AtTour!NoFetch EXCEPT !.step = "asked"]}
        /\ UNCHANGED <<s2, s4, s5, s6, s7, s8>> /\ AtTour!Taps
    BY <1>6 DEF AtTour!Elsewhere
  <2>2. s1' \in AtTour!Prefs
    <3>1. PICK m \in [Tours -> AtTour!Outcomes \cup {None}] : m = [s1.tours EXCEPT ![t] = o]
      <4>1. [s1.tours EXCEPT ![t] = o] \in [Tours -> AtTour!Outcomes \cup {None}]
        BY <1>0 DEF AtTour!Prefs
      <4> QED
        BY <4>1
    <3>2. s1' = [s1 EXCEPT !.tours = m]
      BY <2>1, <3>1
    <3> QED
      BY <1>0, <3>2 DEF AtTour!Prefs
  <2> QED
    BY <1>0, <1>n, <1>s, <1>t, <2>1, <2>2
<1>7. ASSUME NEW p \in s8, AtTour!ServerPatches(p) PROVE TourTyped'
  <2>0. p \in AtTour!Patch
    BY <1>0
  <2>1. UNCHANGED <<s2, s3, s4, s5, s6, s7, s9, taps>>
    BY <1>7 DEF AtTour!ServerPatches
  <2>2. s8' \subseteq AtTour!Patch
    <3>1. \A a \in {"ok", "refused"} : [p EXCEPT !.step = a] \in AtTour!Patch
      BY <2>0 DEF AtTour!Patch
    <3> QED
      BY <1>0, <1>7, <3>1 DEF AtTour!ServerPatches
  <2>3. s1' \in AtTour!Prefs
    <3>1. p.tours \in [Tours -> AtTour!Outcomes \cup {None}] /\ s1.legacy \in BOOLEAN
      BY <1>0, <2>0 DEF AtTour!Patch, AtTour!Prefs
    <3>2. PICK l \in BOOLEAN : l = (s1.legacy /\ p.legacy = "keep")
      OBVIOUS
    <3>3. s1' = s1 \/ s1' = [tours |-> p.tours, legacy |-> l]
      BY <1>7, <3>2 DEF AtTour!ServerPatches
    <3> QED
      BY <1>0, <3>1, <3>3 DEF AtTour!Prefs
  <2> QED
    BY <1>0, <1>s, <2>1, <2>2, <2>3
<1>8. ASSUME NEW p \in s8, AtTour!PatchAnswers(p) PROVE TourTyped'
  <2>1. /\ s8' = s8 \ {p} /\ s3' \in {s3, [AtTour!NoFetch EXCEPT !.step = "asked"]} /\ s9' \in BOOLEAN
        /\ UNCHANGED <<s1, s2, s4, s5, s6, s7, taps>>
    BY <1>8 DEF AtTour!PatchAnswers
  <2> QED
    BY <1>0, <1>n, <1>s, <2>1
<1>9. CASE AtTour!ServerReads
  <2>1. s3' = [step |-> "read", got |-> s1] /\ UNCHANGED <<s1, s2, s4, s5, s6, s7, s8, s9, taps>>
    BY <1>9 DEF AtTour!ServerReads
  <2>2. s3' \in FetchOfMe
    BY <1>0, <2>1 DEF FetchOfMe
  <2> QED
    BY <1>0, <1>s, <2>1, <2>2
<1>10. CASE AtTour!MeArrives
  <2>1. /\ s2' = s3.got /\ s3' = AtTour!NoFetch /\ s5' \in {s5, 0} /\ UNCHANGED <<s1, s4, s6, s7, s8, s9, taps>>
    BY <1>10 DEF AtTour!MeArrives, AtTour!Cursor
  <2>2. s2' \in AtTour!Prefs \cup {None}
    BY <1>0, <2>1 DEF FetchOfMe
  <2> QED
    BY <1>0, <1>n, <1>s, <2>1, <2>2
<1>11. CASE UNCHANGED AtTour!tourVars
  BY <1>0, <1>11, <1>s DEF AtTour!tourVars
<1> QED
  BY <1>1, <1>2, <1>3, <1>4, <1>5, <1>6, <1>7, <1>8, <1>9, <1>10, <1>11 DEF AtTour!TourNext

-----------------------------------------------------------------------------
\* The data of the to-dos, what is on its way, and the switcher.
Reads == {AtTodos!NoFetch, [step |-> "asked"]} \cup [step : {"read"}, data : AtTodos!Data]
Rows == [AtTodos!Todos -> [list : AtTodos!AllLists \cup {None}, own : AtTodos!Links]]
TodosTyped ==
  /\ s1 \in AtTodos!Data /\ s2 \in AtTodos!Data /\ s3 \in Reads /\ s4 \in AtTodos!AllLists \cup {None}
  /\ {s5, s6, s12} \subseteq BOOLEAN /\ {s7, s8} \subseteq AtTodos!AllLists \cup {None}
  /\ s9 \in SUBSET {"list", "todo"} /\ s10 \in Seq(AtTodos!Flight)
  /\ s11 \in [AtTodos!Todos -> AtTodos!Links] /\ taps \in Nat

LEMMA TodosTypedIsTyped == TodosTyped => AtTodos!TodosTypeOK
<1> SUFFICES ASSUME TodosTyped PROVE AtTodos!TodosTypeOK
  OBVIOUS
<1>1. AtTodos!Range(s10) \subseteq AtTodos!Flight
  BY ElementOfSeq DEF TodosTyped, AtTodos!Range
<1>2. s3 = AtTodos!NoFetch \/ s3.step = "asked" \/ s3.data \in AtTodos!Data
  BY DEF TodosTyped, Reads
<1> QED
  BY <1>1, <1>2 DEF TodosTyped, AtTodos!TodosTypeOK

\* An order of the lists, each of them once.
LEMMA DataIs ==
  /\ \A d \in AtTodos!Data : /\ d.order \in Seq(AtTodos!AllLists) /\ AtTodos!IsInjective(d.order)
                             /\ d.link \in [AtTodos!AllLists -> AtTodos!Links] /\ d.todo \in Rows
                             /\ d = [order |-> d.order, link |-> d.link, todo |-> d.todo]
  /\ \A o \in Seq(AtTodos!AllLists), k \in [AtTodos!AllLists -> AtTodos!Links], r \in Rows :
       AtTodos!IsInjective(o) => [order |-> o, link |-> k, todo |-> r] \in AtTodos!Data
  BY DEF AtTodos!Data, Rows

LEMMA InOrderOnce ==
  ASSUME NEW o \in Seq(AtTodos!AllLists), AtTodos!IsInjective(o)
  PROVE  /\ \A l \in AtTodos!AllLists \ AtTodos!Range(o) :
              Append(o, l) \in Seq(AtTodos!AllLists) /\ AtTodos!IsInjective(Append(o, l))
         /\ \A i \in DOMAIN o : AtTodos!RemoveAt(o, i) \in Seq(AtTodos!AllLists) /\ AtTodos!IsInjective(AtTodos!RemoveAt(o, i))
<1>0. Len(o) \in Nat /\ DOMAIN o = 1 .. Len(o) /\ \A a, b \in 1 .. Len(o) : o[a] = o[b] => a = b
  BY DEF AtTodos!IsInjective
<1>1. ASSUME NEW l \in AtTodos!AllLists, l \notin AtTodos!Range(o)
      PROVE  Append(o, l) \in Seq(AtTodos!AllLists) /\ AtTodos!IsInjective(Append(o, l))
  <2>1. PICK p : p = Append(o, l)
    OBVIOUS
  <2>2. p \in Seq(AtTodos!AllLists) /\ Len(p) = Len(o) + 1 /\ p[Len(o) + 1] = l /\ \A i \in 1 .. Len(o) : p[i] = o[i]
    BY <2>1, AppendProperties
  <2>3. \A i \in 1 .. Len(o) : p[i] # l
    BY <1>0, <1>1, <2>2 DEF AtTodos!Range
  <2>4. DOMAIN p = (1 .. Len(o)) \cup {Len(o) + 1}
    BY <1>0, <2>2
  <2>5. ASSUME NEW a \in DOMAIN p, NEW b \in DOMAIN p, p[a] = p[b] PROVE a = b
    <3>1. CASE a \in 1 .. Len(o) /\ b \in 1 .. Len(o)
      BY <1>0, <2>2, <2>5, <3>1
    <3>2. CASE a = Len(o) + 1 \/ b = Len(o) + 1
      BY <2>2, <2>3, <2>4, <2>5, <3>2
    <3> QED
      BY <2>4, <3>1, <3>2
  <2> QED
    BY <2>1, <2>2, <2>5 DEF AtTodos!IsInjective
<1>2. ASSUME NEW i \in DOMAIN o
      PROVE  AtTodos!RemoveAt(o, i) \in Seq(AtTodos!AllLists) /\ AtTodos!IsInjective(AtTodos!RemoveAt(o, i))
  <2>1. PICK p : p = AtTodos!RemoveAt(o, i)
    OBVIOUS
  <2>0. i \in 1 .. Len(o)
    BY <1>0
  <2>2. /\ p \in Seq(AtTodos!AllLists) /\ Len(p) = Len(o) - 1
        /\ \A j \in 1 .. Len(o) - 1 : p[j] = IF j < i THEN o[j] ELSE o[j + 1]
    BY <2>0, <2>1, OneLess
  <2>3. DOMAIN p = 1 .. Len(o) - 1
    BY <2>2
  <2>4. ASSUME NEW a \in 1 .. Len(o) - 1, NEW b \in 1 .. Len(o) - 1, p[a] = p[b] PROVE a = b
    <3>1. a \in 1 .. Len(o) /\ b \in 1 .. Len(o) /\ a + 1 \in 1 .. Len(o) /\ b + 1 \in 1 .. Len(o) /\ a \in Nat /\ b \in Nat /\ i \in Nat
      BY <1>0, <2>0
    <3>2. (IF a < i THEN o[a] ELSE o[a + 1]) = (IF b < i THEN o[b] ELSE o[b + 1])
      BY <2>2, <2>4
    <3>3. (IF a < i THEN a ELSE a + 1) = (IF b < i THEN b ELSE b + 1)
      BY <1>0, <3>1, <3>2
    <3> QED
      BY <3>1, <3>3
  <2> QED
    BY <2>1, <2>2, <2>3, <2>4 DEF AtTodos!IsInjective
<1> QED
  BY <1>1, <1>2

\* The list to fall back on.
LEMMA OtherIsAList ==
  ASSUME s2 \in AtTodos!Data, NEW l
  PROVE  AtTodos!Other(l) \in AtTodos!AllLists \cup {None}
<1> DEFINE I == {i \in 1 .. Len(s2.order) : s2.order[i] # l}
<1>1. PICK o \in Seq(AtTodos!AllLists) : o = s2.order
  BY DataIs
<1>2. AtTodos!SelectInSeq(s2.order, LAMBDA x : x # l) = IF I # {} THEN AtTodos!Min(I) ELSE 0
  BY DEF AtTodos!SelectInSeq
<1>3. I # {} => AtTodos!Min(I) \in I
  <2>1. I \subseteq Nat
    BY <1>1
  <2> HIDE DEF I
  <2>2. I # {} => \E n \in I : \A m \in I : n <= m
    BY <2>1, LeastOf
  <2> QED
    BY <2>2 DEF AtTodos!Min
<1>4. PICK n : n = AtTodos!SelectInSeq(s2.order, LAMBDA x : x # l)
  OBVIOUS
<1>5. n = 0 \/ n \in 1 .. Len(o)
  BY <1>1, <1>2, <1>3, <1>4
<1>6. AtTodos!Other(l) = IF n = 0 THEN None ELSE o[n]
  BY <1>1, <1>4 DEF AtTodos!Other
<1> QED
  BY <1>1, <1>5, <1>6

LEMMA CurrentIsAList ==
  ASSUME TodosTyped PROVE AtTodos!Current \in AtTodos!AllLists \cup {None}
<1>1. PICK o \in Seq(AtTodos!AllLists) : o = s2.order
  BY DataIs DEF TodosTyped
<1>2. AtTodos!Range(o) \subseteq AtTodos!AllLists /\ (o # << >> => Head(o) \in AtTodos!AllLists)
  BY <1>1, ElementOfSeq, HeadTailProperties DEF AtTodos!Range
<1> QED
  BY <1>1, <1>2 DEF AtTodos!Current, TodosTyped

-----------------------------------------------------------------------------
\* What a write makes of the data.
LEMMA NewTodoIsData ==
  ASSUME s1 \in AtTodos!Data, NEW base \in AtTodos!Data, NEW l \in AtTodos!AllLists \cup {None}, NEW d \in AtTodos!Links,
         NEW data \in AtTodos!NewTodo(base, l, d)
  PROVE  data \in AtTodos!Data
<1> DEFINE row == [list |-> l, own |-> d]
<1>1. row \in [list : AtTodos!AllLists \cup {None}, own : AtTodos!Links]
  OBVIOUS
<1>2. data = [base EXCEPT !.todo["new"] = row]
  BY DEF AtTodos!NewTodo
<1> HIDE DEF row
<1>3. PICK r \in Rows : r = [base.todo EXCEPT !["new"] = row]
  <2>1. [base.todo EXCEPT !["new"] = row] \in Rows
    BY <1>1, DataIs DEF Rows
  <2> QED
    BY <2>1
<1>e. base = [order |-> base.order, link |-> base.link, todo |-> base.todo]
  BY DataIs
<1>4. data = [order |-> base.order, link |-> base.link, todo |-> r]
  BY <1>e, <1>2, <1>3
<1> QED
  BY <1>4, DataIs

LEMMA MadeIsData ==
  ASSUME s1 \in AtTodos!Data, NEW l \in AtTodos!AllLists
  PROVE  /\ l \notin AtTodos!Range(s1.order) => AtTodos!WithList(l) \in AtTodos!Data
         /\ \A d \in AtTodos!Links : AtTodos!WithLink(l, d) \in AtTodos!Data
         /\ l \in AtTodos!Range(s1.order) => AtTodos!Without(l) \in AtTodos!Data
<1> DEFINE S == AtTodos!Data
<1>0. /\ s1.order \in Seq(AtTodos!AllLists) /\ AtTodos!IsInjective(s1.order)
      /\ s1.link \in [AtTodos!AllLists -> AtTodos!Links] /\ s1.todo \in Rows
  BY DataIs
<1>e. s1 = [order |-> s1.order, link |-> s1.link, todo |-> s1.todo]
  BY DataIs
<1> HIDE DEF S
<1>1. ASSUME l \notin AtTodos!Range(s1.order) PROVE AtTodos!WithList(l) \in S
  <2>1. PICK o \in Seq(AtTodos!AllLists) : o = Append(s1.order, l) /\ AtTodos!IsInjective(o)
    BY <1>0, <1>1, InOrderOnce
  <2>2. AtTodos!WithList(l) = [s1 EXCEPT !.order = o]
    BY <2>1 DEF AtTodos!WithList
  <2>3. AtTodos!WithList(l) = [order |-> o, link |-> s1.link, todo |-> s1.todo]
    BY <1>e, <2>2
  <2>4. [order |-> o, link |-> s1.link, todo |-> s1.todo] \in AtTodos!Data
    BY <1>0, <2>1, DataIs
  <2> QED
    BY <2>3, <2>4 DEF S
<1>2. ASSUME NEW d \in AtTodos!Links PROVE AtTodos!WithLink(l, d) \in S
  <2>1. PICK k \in [AtTodos!AllLists -> AtTodos!Links] : k = [s1.link EXCEPT ![l] = d]
    BY <1>0
  <2>2. AtTodos!WithLink(l, d) = [s1 EXCEPT !.link = k]
    BY <1>e, <2>1 DEF AtTodos!WithLink
  <2>3. AtTodos!WithLink(l, d) = [order |-> s1.order, link |-> k, todo |-> s1.todo]
    BY <1>e, <2>2
  <2> QED
    BY <1>0, <2>1, <2>3, DataIs DEF S
<1>3. ASSUME l \in AtTodos!Range(s1.order) PROVE AtTodos!Without(l) \in S
  <2>1. PICK i \in DOMAIN s1.order : i = CHOOSE j \in DOMAIN s1.order : s1.order[j] = l
    <3>1. \E j \in DOMAIN s1.order : s1.order[j] = l
      BY <1>3 DEF AtTodos!Range
    <3> QED
      BY <3>1
  <2>2. PICK o \in Seq(AtTodos!AllLists) : o = AtTodos!RemoveAt(s1.order, i) /\ AtTodos!IsInjective(o)
    BY <1>0, InOrderOnce
  <2>3. PICK k \in [AtTodos!AllLists -> AtTodos!Links] : k = [s1.link EXCEPT ![l] = None]
    BY <1>0 DEF AtTodos!Links
  <2>4. PICK r \in Rows : r = [t \in AtTodos!Todos |-> IF s1.todo[t].list = l THEN [list |-> None, own |-> None] ELSE s1.todo[t]]
    <3>1. [list |-> None, own |-> None] \in [list : AtTodos!AllLists \cup {None}, own : AtTodos!Links]
      BY DEF AtTodos!Links
    <3>2. \A t \in AtTodos!Todos : s1.todo[t] \in [list : AtTodos!AllLists \cup {None}, own : AtTodos!Links]
      BY <1>0 DEF Rows
    <3> QED
      BY <3>1, <3>2 DEF Rows
  <2>5. AtTodos!Without(l) = [s1 EXCEPT !.order = o, !.link[l] = None, !.todo = r]
    BY <2>1, <2>2, <2>4 DEF AtTodos!Without
  <2>6. [s1 EXCEPT !.order = o, !.link[l] = None, !.todo = r] = [s1 EXCEPT !.order = o, !.link = k, !.todo = r]
    BY <1>e, <2>3
  <2>7. AtTodos!Without(l) = [order |-> o, link |-> k, todo |-> r]
    BY <1>e, <2>5, <2>6
  <2> QED
    BY <2>2, <2>7, DataIs DEF S
<1> QED
  BY <1>1, <1>2, <1>3 DEF S

LEMMA EffectIsData ==
  ASSUME s1 \in AtTodos!Data, s2 \in AtTodos!Data, NEW f \in AtTodos!Flight, NEW data \in AtTodos!Effect(f)
  PROVE  data \in AtTodos!Data
<1>0. /\ f.list \in AtTodos!AllLists \cup {None} /\ f.deal \in AtTodos!Links /\ None \in AtTodos!Links
      /\ s1.order \in Seq(AtTodos!AllLists) /\ AtTodos!Range(s1.order) \subseteq AtTodos!AllLists
      /\ s1.todo \in Rows /\ s1 = [order |-> s1.order, link |-> s1.link, todo |-> s1.todo]
  <2>1. s1.order \in Seq(AtTodos!AllLists) /\ s1.todo \in Rows /\ s1 = [order |-> s1.order, link |-> s1.link, todo |-> s1.todo]
    BY DataIs
  <2>2. AtTodos!Range(s1.order) \subseteq AtTodos!AllLists
    BY <2>1, ElementOfSeq DEF AtTodos!Range
  <2>3. f.list \in AtTodos!AllLists \cup {None} /\ f.deal \in AtTodos!Links /\ None \in AtTodos!Links
    BY DEF AtTodos!Flight, AtTodos!Links
  <2> QED
    BY <2>1, <2>2, <2>3
<1>1. ASSUME NEW l \in AtTodos!Unmade PROVE l \in AtTodos!AllLists /\ AtTodos!WithList(l) \in AtTodos!Data
  <2>1. l \in Made /\ l \notin AtTodos!Range(s1.order) /\ l \in AtTodos!AllLists
    BY DEF AtTodos!Unmade, AtTodos!AllLists
  <2> QED
    BY <2>1, MadeIsData
<1>2. CASE f.kind \in {"create", "first"}
  BY <1>1, <1>2 DEF AtTodos!Effect
<1>3. CASE f.kind = "deal"
  <2>1. data \in AtTodos!OnDeal(f.deal)
    BY <1>3 DEF AtTodos!Effect
  <2>2. CASE s1.order = << >>
    <3>1. PICK l \in AtTodos!Unmade : data \in AtTodos!NewTodo(AtTodos!WithList(l), l, f.deal)
      BY <2>1, <2>2 DEF AtTodos!OnDeal
    <3>2. PICK base \in AtTodos!Data : base = AtTodos!WithList(l)
      BY <1>1
    <3>3. l \in AtTodos!AllLists \cup {None} /\ data \in AtTodos!NewTodo(base, l, f.deal)
      BY <1>1, <3>1, <3>2
    <3> QED
      BY <1>0, <3>3, NewTodoIsData
  <2>3. CASE s1.order # << >>
    <3>1. Head(s1.order) \in AtTodos!AllLists
      BY <1>0, <2>3, HeadTailProperties
    <3>2. \E l \in AtTodos!AllLists \cup {None}, d \in AtTodos!Links : data \in AtTodos!NewTodo(s1, l, d)
      BY <1>0, <2>1, <2>3, <3>1 DEF AtTodos!OnDeal
    <3> QED
      BY <3>2, NewTodoIsData
  <2> QED
    BY <2>2, <2>3
<1>r. ASSUME NEW row \in [list : AtTodos!AllLists \cup {None}, own : AtTodos!Links],
             NEW r, r = [s1.todo EXCEPT !["old"] = row], data = [s1 EXCEPT !.todo = r]
      PROVE  data \in AtTodos!Data
  <2>1. r \in Rows
    BY <1>0, <1>r DEF Rows
  <2>2. data = [order |-> s1.order, link |-> s1.link, todo |-> r]
    BY <1>0, <1>r
  <2>3. s1.order \in Seq(AtTodos!AllLists) /\ AtTodos!IsInjective(s1.order) /\ s1.link \in [AtTodos!AllLists -> AtTodos!Links]
    BY DataIs
  <2>4. [order |-> s1.order, link |-> s1.link, todo |-> r] \in AtTodos!Data
    BY <2>1, <2>3, DataIs
  <2> QED
    BY <2>2, <2>4
<1>o. s1.todo["old"] \in [list : AtTodos!AllLists \cup {None}, own : AtTodos!Links]
  BY <1>0 DEF Rows, AtTodos!Todos
<1>4. CASE f.kind = "own"
  <2>1. data = [s1 EXCEPT !.todo["old"].own = f.deal]
    BY <1>4 DEF AtTodos!Effect
  <2>2. PICK row \in [list : AtTodos!AllLists \cup {None}, own : AtTodos!Links] : row = [s1.todo["old"] EXCEPT !.own = f.deal]
    BY <1>0, <1>o
  <2>3. PICK r : r = [s1.todo EXCEPT !["old"] = row]
    OBVIOUS
  <2>4. r = [s1.todo EXCEPT !["old"].own = f.deal]
    BY <1>0, <2>2, <2>3 DEF Rows, AtTodos!Todos
  <2>5. data = [s1 EXCEPT !.todo = r]
    BY <2>1, <2>4
  <2> QED
    BY <1>r, <2>3, <2>5
<1>5. CASE f.kind = "remove"
  <2>1. data = [s1 EXCEPT !.todo["old"] = [list |-> None, own |-> None]]
    BY <1>5 DEF AtTodos!Effect
  <2>2. PICK row \in [list : AtTodos!AllLists \cup {None}, own : AtTodos!Links] : row = [list |-> None, own |-> None]
    BY <1>0
  <2>3. PICK r : r = [s1.todo EXCEPT !["old"] = row]
    OBVIOUS
  <2>4. data = [s1 EXCEPT !.todo = r]
    BY <2>1, <2>2, <2>3
  <2> QED
    BY <1>r, <2>3, <2>4
<1>6. CASE f.kind \notin {"create", "first", "deal", "own", "remove"}
  <2>1. f.list \in AtTodos!Range(s1.order) /\ f.list \in AtTodos!AllLists /\ data \in AtTodos!OnList(f)
    BY <1>0, <1>6 DEF AtTodos!Effect
  <2>2. AtTodos!Without(f.list) \in AtTodos!Data /\ AtTodos!WithLink(f.list, f.deal) \in AtTodos!Data
    BY <1>0, <2>1, MadeIsData
  <2>3. data \in AtTodos!NewTodo(s1, f.list, None) => data \in AtTodos!Data
    BY <1>0, <2>1, NewTodoIsData
  <2> QED
    BY <2>1, <2>2, <2>3 DEF AtTodos!OnList
<1> QED
  BY <1>2, <1>3, <1>4, <1>5, <1>6

LEMMA SleepsAreLinks ==
  ASSUME s11 \in [AtTodos!Todos -> AtTodos!Links], NEW data \in AtTodos!Data, AtTodos!Sleeps(data)
  PROVE  s11' \in [AtTodos!Todos -> AtTodos!Links]
<1>1. \A t \in AtTodos!Todos : data.todo[t].own \in AtTodos!Links
  BY DataIs DEF Rows
<1> QED
  BY <1>1 DEF AtTodos!Sleeps

LEMMA TodosTypesStart == AtTodos!TodosInit => TodosTyped
<1> SUFFICES ASSUME AtTodos!TodosInit PROVE TodosTyped
  OBVIOUS
<1>1. PICK lists \in {Given, << >>} :
        s1 = [order |-> lists, link |-> [l \in AtTodos!AllLists |-> None],
              todo |-> [t \in AtTodos!Todos |-> [list |-> IF t = "old" /\ lists # << >> THEN Head(lists) ELSE None,
                                           own |-> None]]]
  BY DEF AtTodos!TodosInit
<1>2. lists \in Seq(AtTodos!AllLists) /\ AtTodos!IsInjective(lists)
  <2>1. CASE lists = << >>
    BY <2>1, EmptySeq DEF AtTodos!IsInjective
  <2>2. CASE lists = Given
    <3>1. AtTodos!IsInjective(Given)
      BY DeskAssumption DEF AtTodos!TodosAssumption
    <3> QED
      BY <2>2, <3>1, TodosBounds
  <2> QED
    BY <1>1, <2>1, <2>2
<1>3. lists # << >> => Head(lists) \in AtTodos!AllLists
  BY <1>2, HeadTailProperties
<1>4. None \in AtTodos!Links
  BY DEF AtTodos!Links
<1>5. PICK k \in [AtTodos!AllLists -> AtTodos!Links] : k = [l \in AtTodos!AllLists |-> None]
  BY <1>4
<1>6. PICK r \in Rows : r = [t \in AtTodos!Todos |-> [list |-> IF t = "old" /\ lists # << >> THEN Head(lists) ELSE None, own |-> None]]
  BY <1>3, <1>4 DEF Rows
<1>7. s1 \in AtTodos!Data
  BY <1>1, <1>2, <1>5, <1>6, DataIs
<1>8. s10 \in Seq(AtTodos!Flight)
  BY EmptySeq DEF AtTodos!TodosInit
<1>9. s11 \in [AtTodos!Todos -> AtTodos!Links]
  BY <1>4 DEF AtTodos!TodosInit
<1>10. s2 = s1 /\ s3 \in Reads
  BY DEF AtTodos!TodosInit, Reads
<1> QED
  BY <1>7, <1>8, <1>9, <1>10 DEF AtTodos!TodosInit, TodosTyped

LEMMA TodosTypesStay == TodosTyped /\ [AtTodos!TodosNext]_AtTodos!todosVars => TodosTyped'
<1> SUFFICES ASSUME TodosTyped, [AtTodos!TodosNext]_AtTodos!todosVars PROVE TodosTyped'
  OBVIOUS
<1> USE DEF AtTodos!switcherVars
<1>0. /\ s1 \in AtTodos!Data /\ s2 \in AtTodos!Data /\ s3 \in Reads /\ s4 \in AtTodos!AllLists \cup {None}
      /\ s5 \in BOOLEAN /\ s6 \in BOOLEAN /\ s12 \in BOOLEAN
      /\ s7 \in AtTodos!AllLists \cup {None} /\ s8 \in AtTodos!AllLists \cup {None}
      /\ s9 \in SUBSET {"list", "todo"} /\ s10 \in Seq(AtTodos!Flight)
      /\ s11 \in [AtTodos!Todos -> AtTodos!Links] /\ taps \in Nat
  BY DEF TodosTyped
<1>s. ASSUME s1' \in AtTodos!Data, s2' \in AtTodos!Data, s3' \in Reads, s4' \in AtTodos!AllLists \cup {None},
             s5' \in BOOLEAN, s6' \in BOOLEAN, s12' \in BOOLEAN,
             s7' \in AtTodos!AllLists \cup {None}, s8' \in AtTodos!AllLists \cup {None},
             s9' \in SUBSET {"list", "todo"}, s10' \in Seq(AtTodos!Flight),
             s11' \in [AtTodos!Todos -> AtTodos!Links], taps' \in Nat
      PROVE  TodosTyped'
  BY <1>s DEF TodosTyped, AtTodos!Data, AtTodos!Links, AtTodos!AllLists, AtTodos!Flight, Reads
<1>c. AtTodos!Current \in AtTodos!AllLists \cup {None} /\ (AtTodos!Current # None => AtTodos!Current \in AtTodos!AllLists)
  BY CurrentIsAList
<1>1. CASE AtTodos!ServerReads
  <2>1. s3' = [step |-> "read", data |-> s1] /\ s12' = FALSE /\ UNCHANGED <<s1, s2, s4, s5, s6, s7, s8, s9, s10, s11, taps>>
    BY <1>1 DEF AtTodos!ServerReads
  <2>2. s3' \in Reads
    BY <1>0, <2>1 DEF Reads
  <2> QED
    BY <1>0, <1>s, <2>1, <2>2
<1>2. CASE AtTodos!TodosArrive
  <2>1. s3.step = "read" /\ s2' = s3.data /\ s3' = AtTodos!NoFetch /\ UNCHANGED <<s1, s4, s5, s6, s7, s8, s9, s10, s11, s12, taps>>
    BY <1>2 DEF AtTodos!TodosArrive
  <2>2. s2' \in AtTodos!Data /\ s3' \in Reads
    BY <1>0, <2>1 DEF Reads, AtTodos!NoFetch
  <2> QED
    BY <1>0, <1>s, <2>1, <2>2
<1>3. CASE \/ AtTodos!OpenSwitcher \/ AtTodos!CloseSwitcher \/ AtTodos!StartNaming \/ AtTodos!StartRenaming \/ AtTodos!AskDelete
           \/ AtTodos!CancelDelete \/ AtTodos!OpenListPicker \/ AtTodos!OpenRowPicker \/ AtTodos!ClosePicker
           \/ \E l \in AtTodos!AllLists : AtTodos!SelectList(l)
  <2>1. /\ s4' \in AtTodos!AllLists \cup {None} /\ s7' \in {s7, AtTodos!Current} /\ s8' \in {s8, AtTodos!Current, None}
        /\ UNCHANGED <<s1, s2, s3, s10, s11, s12>>
    BY <1>0, <1>3 DEF AtTodos!OpenSwitcher, AtTodos!CloseSwitcher, AtTodos!StartNaming, AtTodos!StartRenaming, AtTodos!AskDelete,
       AtTodos!CancelDelete, AtTodos!OpenListPicker, AtTodos!OpenRowPicker, AtTodos!ClosePicker, AtTodos!SelectList
  <2>2. s5' \in BOOLEAN /\ s6' \in BOOLEAN
    BY <1>0, <1>3 DEF AtTodos!OpenSwitcher, AtTodos!CloseSwitcher, AtTodos!StartNaming, AtTodos!StartRenaming, AtTodos!AskDelete,
       AtTodos!CancelDelete, AtTodos!OpenListPicker, AtTodos!OpenRowPicker, AtTodos!ClosePicker, AtTodos!SelectList
  <2>3. s9' \in SUBSET {"list", "todo"}
    BY <1>0, <1>3 DEF AtTodos!OpenSwitcher, AtTodos!CloseSwitcher, AtTodos!StartNaming, AtTodos!StartRenaming, AtTodos!AskDelete,
       AtTodos!CancelDelete, AtTodos!OpenListPicker, AtTodos!OpenRowPicker, AtTodos!ClosePicker, AtTodos!SelectList
  <2>4. taps' \in Nat
    BY <1>0, <1>3 DEF AtTodos!OpenSwitcher, AtTodos!CloseSwitcher, AtTodos!StartNaming, AtTodos!StartRenaming, AtTodos!AskDelete,
       AtTodos!CancelDelete, AtTodos!OpenListPicker, AtTodos!OpenRowPicker, AtTodos!ClosePicker, AtTodos!SelectList, AtTodos!Tap
  <2> QED
    BY <1>0, <1>c, <1>s, <2>1, <2>2, <2>3, <2>4
<1>4. ASSUME NEW kind \in AtTodos!Kinds, NEW list \in AtTodos!AllLists \cup {None}, NEW deal \in AtTodos!Links,
             AtTodos!Sends(kind, list, deal), s8' = s8, s9' \subseteq s9
      PROVE  TodosTyped'
  <2> DEFINE f == [kind |-> kind, list |-> list, deal |-> deal, next |-> AtTodos!Other(list), step |-> "sent"]
  <2>1. f \in AtTodos!Flight
    <3>1. PICK o \in AtTodos!AllLists \cup {None} : o = AtTodos!Other(list)
      BY <1>0, OtherIsAList
    <3> QED
      BY <3>1 DEF AtTodos!Flight
  <2>2. s10' = Append(s10, f) /\ AtTodos!Tap /\ UNCHANGED <<s1, s2, s3, s4, s5, s6, s7, s11, s12>>
    BY <1>4 DEF AtTodos!Sends
  <2> HIDE DEF f
  <2>3. s10' \in Seq(AtTodos!Flight)
    BY <1>0, <2>1, <2>2, AppendProperties
  <2>4. taps' \in Nat
    BY <1>0, <2>2 DEF AtTodos!Tap
  <2>5. s9' \in SUBSET {"list", "todo"}
    BY <1>0, <1>4
  <2> QED
    BY <1>0, <1>4, <1>s, <2>2, <2>3, <2>4, <2>5
<1>5. CASE \/ AtTodos!CreateFirstList \/ AtTodos!SubmitName \/ AtTodos!SubmitRename \/ AtTodos!ConfirmDelete \/ AtTodos!UnlinkList
           \/ \E d \in AtTodos!Links : AtTodos!PickForList(d) \/ AtTodos!PickForTodo(d)
           \/ AtTodos!AddTodo \/ AtTodos!RemoveTodo \/ \E d \in Deals : AtTodos!AddDealTodo(d)
  <2>1. /\ {"create", "first", "rename", "delete", "link", "own", "add", "deal", "remove"} \subseteq AtTodos!Kinds
        /\ None \in AtTodos!Links /\ Deals \subseteq AtTodos!Links /\ None \in AtTodos!AllLists \cup {None}
    BY DEF AtTodos!Kinds, AtTodos!Links
  <2>2. \E kind \in AtTodos!Kinds, list \in AtTodos!AllLists \cup {None}, deal \in AtTodos!Links :
          AtTodos!Sends(kind, list, deal) /\ s8' = s8 /\ s9' \subseteq s9
    BY <1>c, <1>5, <2>1
       DEF AtTodos!CreateFirstList, AtTodos!SubmitName, AtTodos!SubmitRename, AtTodos!ConfirmDelete, AtTodos!UnlinkList, AtTodos!PickForList,
           AtTodos!PickForTodo, AtTodos!AddTodo, AtTodos!RemoveTodo, AtTodos!AddDealTodo
  <2> QED
    BY <1>4, <2>2
<1>6. ASSUME NEW i \in DOMAIN s10, AtTodos!ServerWrites(i) PROVE TodosTyped'
  <2>0. i \in 1 .. Len(s10) /\ s10[i] \in AtTodos!Flight
    BY <1>0, ElementOfSeq
  <2>1. UNCHANGED <<s2, s3, s4, s5, s6, s7, s8, s9, taps>>
    BY <1>6 DEF AtTodos!ServerWrites
  <2>q. ASSUME NEW e \in AtTodos!Flight, s10' = [s10 EXCEPT ![i] = e] PROVE s10' \in Seq(AtTodos!Flight)
    BY <1>0, <2>0, <2>q, ExceptSeq
  <2>2. CASE /\ s10' = [s10 EXCEPT ![i].step = "refused"] /\ UNCHANGED <<s1, s11, s12>>
    <3>1. [s10[i] EXCEPT !.step = "refused"] \in AtTodos!Flight
      BY <2>0 DEF AtTodos!Flight
    <3>2. s10' \in Seq(AtTodos!Flight)
      BY <2>2, <2>q, <3>1
    <3> QED
      BY <1>0, <1>s, <2>1, <2>2, <3>2
  <2>3. ASSUME NEW data \in AtTodos!Effect(s10[i]), NEW step \in {"done", "refused"},
               s1' = data, AtTodos!Sleeps(data), s12' = (s12 \/ step = "refused"),
               s10' = [s10 EXCEPT ![i].step = step,
                         ![i].list = IF AtTodos!Created(data) = {} THEN @ ELSE CHOOSE l \in AtTodos!Created(data) : TRUE]
        PROVE  TodosTyped'
    <3>1. data \in AtTodos!Data
      BY <1>0, <2>0, <2>3, EffectIsData
    <3>2. s11' \in [AtTodos!Todos -> AtTodos!Links]
      BY <1>0, <2>3, <3>1, SleepsAreLinks
    <3>3. PICK l \in AtTodos!AllLists \cup {None} : l = IF AtTodos!Created(data) = {} THEN s10[i].list ELSE CHOOSE m \in AtTodos!Created(data) : TRUE
      <4>1. data.order \in Seq(AtTodos!AllLists)
        BY <3>1, DataIs
      <4>2. AtTodos!Created(data) \subseteq AtTodos!AllLists
        BY <4>1, ElementOfSeq DEF AtTodos!Created, AtTodos!Range
      <4>3. s10[i].list \in AtTodos!AllLists \cup {None}
        BY <2>0 DEF AtTodos!Flight
      <4> QED
        BY <4>2, <4>3
    <3>4. [s10[i] EXCEPT !.step = step, !.list = l] \in AtTodos!Flight
      BY <2>0, <3>3 DEF AtTodos!Flight
    <3>5. s10' = [s10 EXCEPT ![i] = [s10[i] EXCEPT !.step = step, !.list = l]]
      BY <2>3, <3>3, <2>0
    <3>6. s10' \in Seq(AtTodos!Flight)
      BY <2>q, <3>4, <3>5
    <3>7. s12' \in BOOLEAN
      BY <2>3
    <3> QED
      BY <1>0, <1>s, <2>1, <2>3, <3>1, <3>2, <3>6, <3>7
  <2> QED
    BY <1>6, <2>2, <2>3 DEF AtTodos!ServerWrites
<1>7. ASSUME NEW i \in DOMAIN s10, AtTodos!Answered(i) PROVE TodosTyped'
  <2>0. i \in 1 .. Len(s10) /\ s10[i] \in AtTodos!Flight
    BY <1>0, ElementOfSeq
  <2>1. s10[i].list \in AtTodos!AllLists \cup {None} /\ s10[i].next \in AtTodos!AllLists \cup {None}
    BY <2>0 DEF AtTodos!Flight
  <2>2. s10' = AtTodos!RemoveAt(s10, i) /\ UNCHANGED <<s1, s2, s9, s11, s12, taps>>
    BY <1>7 DEF AtTodos!Answered
  <2>3. s10' \in Seq(AtTodos!Flight)
    BY <1>0, <2>0, <2>2, OneLess
  <2>4. s3' \in {s3, [step |-> "asked"]} /\ s4' \in {s4, s10[i].list, s10[i].next} /\ s7' \in {s7, None} /\ s8' \in {s8, None}
    BY <1>7 DEF AtTodos!Answered, AtTodos!Follows, AtTodos!Invalidates
  <2>5. s5' \in BOOLEAN /\ s6' \in BOOLEAN
    BY <1>0, <1>7 DEF AtTodos!Answered, AtTodos!Follows
  <2>6. s3' \in Reads
    BY <1>0, <2>4 DEF Reads
  <2> QED
    BY <1>0, <1>s, <2>1, <2>2, <2>3, <2>4, <2>5, <2>6
<1>8. CASE AtTodos!OtherTab
  <2>1. PICK l \in AtTodos!Range(s1.order) : \E data \in {AtTodos!Without(l)} \cup {AtTodos!WithLink(l, d) : d \in AtTodos!Links} :
          s1' = data /\ AtTodos!Sleeps(data)
    BY <1>8 DEF AtTodos!OtherTab
  <2>2. l \in AtTodos!AllLists
    <3>1. s1.order \in Seq(AtTodos!AllLists)
      BY <1>0, DataIs
    <3> QED
      BY <3>1, ElementOfSeq DEF AtTodos!Range
  <2>3. \A data \in {AtTodos!Without(l)} \cup {AtTodos!WithLink(l, d) : d \in AtTodos!Links} : data \in AtTodos!Data
    BY <1>0, <2>2, MadeIsData
  <2>4. PICK data \in AtTodos!Data : s1' = data /\ AtTodos!Sleeps(data)
    BY <2>1, <2>3
  <2>5. s11' \in [AtTodos!Todos -> AtTodos!Links]
    BY <1>0, <2>4, SleepsAreLinks
  <2>6. s12' = TRUE /\ UNCHANGED <<s2, s3, s4, s5, s6, s7, s8, s9, s10>> /\ AtTodos!Tap
    BY <1>8 DEF AtTodos!OtherTab
  <2>7. taps' \in Nat
    BY <1>0, <2>6 DEF AtTodos!Tap
  <2> QED
    BY <1>0, <1>s, <2>4, <2>5, <2>6, <2>7
<1>9. CASE UNCHANGED AtTodos!todosVars
  BY <1>0, <1>9, <1>s DEF AtTodos!todosVars
<1> QED
  BY <1>1, <1>2, <1>3, <1>5, <1>6, <1>7, <1>8, <1>9 DEF AtTodos!TodosNext

-----------------------------------------------------------------------------
\* The state of each part of the desk is of the form its module gives it, whatever people,
\* firms, plans, lists and tours there are, and whatever is done, answered or lost.
THEOREM DeskIsTyped == DeskSpec => []DeskTypeOK
<1> DEFINE Inv == /\ ConsoleInv /\ ConsoleTypeOK
                  /\ (screen = "session" => AtSession!SessionInv)
                  /\ (screen = "checkout" => FormInv)
                  /\ (screen = "plan" => CardInv)
                  /\ (screen = "bulk" => AtBulk!BulkTypeOK)
                  /\ (screen = "widgets" => LayoutsAreSound)
                  /\ (screen = "tour" => TourTyped)
                  /\ (screen = "todos" => TodosTyped)
           Roster == /\ (screen = "members" => AtMembers!MembersInv)
                     /\ (screen = "tokens" => AtTokens!TokensInv)
                     /\ (screen = "owners" => AtOwnership!OwnershipInv)
<1>1. DeskInit => Inv
  BY EachBegins, ConsoleStarts, ConsoleTypesStart, SessionStarts, FormStarts, CardStarts, BulkTypesStart, LayoutsStart,
     TourTypesStart, TodosTypesStart
<1>2. ASSUME Inv, [DeskNext]_deskVars PROVE Inv'
  BY <1>2, EachByItself, ConsoleStays, ConsoleTypesStay, SessionStays, FormStays, CardStays, BulkTypesStay, LayoutsStay,
     TourTypesStay, TodosTypesStay
<1>3. Inv /\ Roster => DeskTypeOK
  BY LayoutsAreTyped, TodosTypedIsTyped
     DEF DeskTypeOK, AtSession!SessionInv, FormInv, CardInv, TourTyped, AtMembers!MembersInv, AtTokens!TokensInv, AtOwnership!OwnershipInv
<1>4. DeskSpec => []Roster
  BY MembersInductive, TokensInductive, OwnersInductive, PTL
<1> QED
  BY <1>1, <1>2, <1>3, <1>4, PTL DEF DeskSpec

=============================================================================
