------------------------------- MODULE Console -------------------------------
(***************************************************************************)
(* The super-admin's console: a list beside a drawer, for organizations and    *)
(* for invoices.  The drawer stays mounted while the selection moves, so what  *)
(* was opened or typed for one row meets the next; answers come back to        *)
(* whatever is shown by then, and reads and actions race for the cached        *)
(* invoice.                                                                *)
(***************************************************************************)
EXTENDS Naturals, FiniteSets

CONSTANTS
  Orgs, Invoices,
  None,
  MaxFlights,  \* bound: invoices being read at once
  MaxTaps      \* bound: what the admin does

ASSUME ConsoleAssumption == None \notin Orgs \cup Invoices /\ MaxFlights \in Nat /\ MaxTaps \in Nat

VARIABLES
  tab,
  org,        \* the organization selected, or None
  modal,      \* the dialog of the drawer, or None: of whom the fields were filled in
  acting,     \* its request on the way, or None: to whom, and filled in for whom
  invoice,    \* the invoice selected, or None
  status,     \* of every invoice, at the server
  shown,      \* the same, as cached
  reads,      \* invoices being read, and what was found
  reason,     \* the invoice the reason of a void was typed for, or None
  acts,       \* requests of the invoice drawer on their way
  credit,     \* the invoice whose lines the credit note shows, or None
  crediting,  \* the credit note on its way, or None
  manual,     \* the dialog of a manual invoice
  issuing,    \* a manual invoice on its way: "no", "own" or "stray"
  taps

orgVars == <<org, modal, acting>>
dialogVars == <<credit, crediting, manual, issuing>>
detailVars == <<shown, reads, reason, acts>>
consoleVars == <<tab, orgVars, invoice, status, detailVars, dialogVars, taps>>

Status == {"unborn", "draft", "issued", "paid", "voided"}
Kinds == {"confirm", "paid", "unmark", "void", "send"}
Act == [kind : Kinds, of : Invoices, reason : Invoices \cup {None}, own : BOOLEAN]
CreditNote == [of : Invoices, lines : Invoices, own : BOOLEAN]

ConsoleTypeOK ==
  /\ tab \in {"organizations", "invoices", "settings"}
  /\ org \in Orgs \cup {None} /\ modal \in Orgs \cup {None}
  /\ acting \in [of : Orgs, filled : Orgs] \cup {None}
  /\ {invoice, reason, credit} \subseteq Invoices \cup {None}
  /\ status \in [Invoices -> Status] /\ shown \in [Invoices -> Status \cup {None}]
  /\ reads \subseteq [of : Invoices, found : Status \cup {None}] /\ acts \subseteq Act
  /\ crediting \in CreditNote \cup {None} /\ manual \in BOOLEAN /\ issuing \in {"no", "own", "stray"}

Tap == taps < MaxTaps /\ taps' = taps + 1
Drawer == tab = "invoices" /\ invoice # None /\ shown[invoice] # None

-----------------------------------------------------------------------------
\* Leaving a tab unmounts it: its dialogs go, and their answers find nobody.
PickTab(t) ==
  /\ t # tab /\ Tap /\ tab' = t
  /\ modal' = None /\ reason' = None /\ credit' = None /\ manual' = FALSE
  /\ acts' = {[a EXCEPT !.own = FALSE] : a \in acts}
  /\ crediting' = IF crediting = None THEN None ELSE [crediting EXCEPT !.own = FALSE]
  /\ issuing' = IF issuing = "own" THEN "stray" ELSE issuing
  /\ UNCHANGED <<org, acting, invoice, status, shown, reads>>

\* A mutant of the next: the dialog stays open over another row.
SelectAnyway(o) ==
  /\ tab = "organizations" /\ o # org /\ Tap /\ org' = o
  /\ UNCHANGED <<tab, modal, acting, invoice, status, detailVars, dialogVars>>

\* Another row, by the keyboard even from under a dialog: the dialog of the former closes.
SelectOrg(o) ==
  /\ tab = "organizations" /\ o # org /\ Tap /\ org' = o /\ modal' = None
  /\ UNCHANGED <<tab, acting, invoice, status, detailVars, dialogVars>>

OpenModal ==
  /\ tab = "organizations" /\ org # None /\ modal = None /\ Tap /\ modal' = org
  /\ UNCHANGED <<tab, org, acting, invoice, status, detailVars, dialogVars>>

SubmitModal ==
  /\ modal # None /\ acting = None /\ Tap /\ acting' = [of |-> org, filled |-> modal]
  /\ UNCHANGED <<tab, org, modal, invoice, status, detailVars, dialogVars>>

\* A success closes the dialog that is open by then, whosever it is.
ModalAnswers ==
  /\ acting # None /\ acting' = None /\ modal' \in {modal, None}
  /\ UNCHANGED <<tab, org, invoice, status, detailVars, dialogVars, taps>>

CloseModal ==
  /\ modal # None /\ Tap /\ modal' = None
  /\ UNCHANGED <<tab, org, acting, invoice, status, detailVars, dialogVars>>

-----------------------------------------------------------------------------
Reading(i) ==
  IF Cardinality(reads) < MaxFlights THEN reads \cup {[of |-> i, found |-> None]} ELSE reads

\* The drawer keeps the typed reason and an open credit note when the selection moves.
SelectInvoice(i) ==
  /\ tab = "invoices" /\ i # invoice /\ status[i] # "unborn" /\ Tap
  /\ invoice' = i /\ reads' = Reading(i)
  /\ UNCHANGED <<tab, orgVars, status, shown, reason, acts, dialogVars>>

useAdminInvoiceDetail(r) ==
  /\ r \in reads
  /\ IF r.found = None
     THEN reads' = (reads \ {r}) \cup {[r EXCEPT !.found = status[r.of]]} /\ UNCHANGED shown
     ELSE reads' = reads \ {r} /\ shown' = [shown EXCEPT ![r.of] = r.found]
  /\ UNCHANGED <<tab, orgVars, invoice, status, reason, acts, dialogVars, taps>>

TypeReason ==
  /\ Drawer /\ shown[invoice] \notin {"voided", "paid"} /\ Tap /\ reason' = invoice
  /\ UNCHANGED <<tab, orgVars, invoice, status, shown, reads, acts, dialogVars>>

Offered(k, s) ==
  CASE k = "confirm" -> s = "draft"
    [] k = "paid"    -> s = "issued"
    [] k = "unmark"  -> s = "paid"
    [] k = "send"    -> s # "draft"
    [] OTHER         -> s \notin {"voided", "paid"} /\ reason # None

\* One request of a kind at a time, from one drawer.
Press(k) ==
  /\ Drawer /\ Offered(k, shown[invoice]) /\ ~\E a \in acts : a.kind = k /\ a.own
  /\ Cardinality(acts) < MaxFlights /\ Tap
  /\ acts' = acts \cup {[kind |-> k, of |-> invoice, reason |-> IF k = "void" THEN reason ELSE None, own |-> TRUE]}
  /\ UNCHANGED <<tab, orgVars, invoice, status, shown, reads, reason, dialogVars>>

Becomes(k, s) ==
  CASE k = "confirm" /\ s = "draft" -> "issued"
    [] k = "paid" /\ s = "issued" -> "paid"
    [] k = "unmark" /\ s = "paid" -> "issued"
    [] k = "void" /\ s \in {"draft", "issued"} -> "voided"
    [] k = "send" /\ s # "draft" -> s
    [] OTHER -> None

\* The answer of an action is cached, an older read may still come after it.
useInvoiceAction(a) ==
  /\ a \in acts /\ acts' = acts \ {a}
  /\ LET s == Becomes(a.kind, status[a.of])
     IN  \/ /\ s # None
            /\ status' = [status EXCEPT ![a.of] = s] /\ shown' = [shown EXCEPT ![a.of] = s]
            /\ reason' = IF a.kind = "void" /\ a.own THEN None ELSE reason
         \/ UNCHANGED <<status, shown, reason>>
  /\ UNCHANGED <<tab, orgVars, invoice, reads, dialogVars, taps>>

CreditNoteModal ==
  /\ Drawer /\ Tap
  /\ \/ credit = None /\ shown[invoice] # "voided" /\ credit' = invoice /\ UNCHANGED crediting
     \/ credit # None /\ credit' = None
        /\ crediting' = IF crediting = None THEN None ELSE [crediting EXCEPT !.own = FALSE]
  /\ UNCHANGED <<tab, orgVars, invoice, status, detailVars, manual, issuing>>

\* The note goes to the invoice shown, with the lines the dialog opened with.
IssueCreditNote ==
  /\ Drawer /\ credit # None /\ crediting = None /\ Tap
  /\ crediting' = [of |-> invoice, lines |-> credit, own |-> TRUE]
  /\ UNCHANGED <<tab, orgVars, invoice, status, detailVars, credit, manual, issuing>>

ManualInvoiceModal ==
  /\ tab = "invoices" /\ Tap /\ manual' = ~manual
  /\ issuing' = IF manual /\ issuing = "own" THEN "stray" ELSE issuing
  /\ UNCHANGED <<tab, orgVars, invoice, status, detailVars, credit, crediting>>

IssueManualInvoice ==
  /\ manual /\ issuing = "no" /\ Tap /\ issuing' = "own"
  /\ UNCHANGED <<tab, orgVars, invoice, status, detailVars, credit, crediting, manual>>

\* A new document is cached, and selected by the dialog that asked for it.
Born(i, selects) ==
  /\ status[i] = "unborn" /\ status' = [status EXCEPT ![i] = "issued"]
  /\ shown' = [shown EXCEPT ![i] = "issued"]
  /\ invoice' = IF selects THEN i ELSE invoice

CreditNoteAnswers ==
  /\ crediting # None /\ crediting' = None
  /\ \/ \E i \in Invoices : Born(i, crediting.own) /\ credit' = IF crediting.own THEN None ELSE credit
     \/ UNCHANGED <<status, shown, invoice, credit>>
  /\ UNCHANGED <<tab, orgVars, reads, reason, acts, manual, issuing, taps>>

ManualInvoiceAnswers ==
  /\ issuing # "no" /\ issuing' = "no"
  /\ \/ \E i \in Invoices : Born(i, issuing = "own") /\ manual' = (manual /\ issuing # "own")
     \/ UNCHANGED <<status, shown, invoice, manual>>
  /\ UNCHANGED <<tab, orgVars, reads, reason, acts, credit, crediting, taps>>

ConsoleInit ==
  /\ tab = "organizations" /\ org = None /\ modal = None /\ acting = None
  /\ invoice = None /\ status \in [Invoices -> {"unborn", "draft", "issued"}]
  /\ \E i \in Invoices : status[i] = "unborn"
  /\ shown = [i \in Invoices |-> None] /\ reads = {} /\ reason = None /\ acts = {}
  /\ credit = None /\ crediting = None /\ manual = FALSE /\ issuing = "no" /\ taps = 0

ConsoleNext ==
  \/ \E t \in {"organizations", "invoices", "settings"} : PickTab(t)
  \/ \E o \in Orgs : SelectOrg(o)
  \/ OpenModal \/ SubmitModal \/ ModalAnswers \/ CloseModal
  \/ \E i \in Invoices : SelectInvoice(i)
  \/ \E r \in reads : useAdminInvoiceDetail(r)
  \/ TypeReason \/ \E k \in Kinds : Press(k)
  \/ \E a \in acts : useInvoiceAction(a)
  \/ CreditNoteModal \/ IssueCreditNote \/ CreditNoteAnswers
  \/ ManualInvoiceModal \/ IssueManualInvoice \/ ManualInvoiceAnswers

ConsoleSpec == ConsoleInit /\ [][ConsoleNext]_consoleVars

-----------------------------------------------------------------------------
\* A plan is activated, granted or cancelled for the organization the dialog was filled
\* in for, however the selection moved behind it.
ActedForItsOrg == acting # None => acting.of = acting.filled

\* A credit note takes back the lines of the invoice it is issued for.
NoteFitsItsInvoice == crediting # None => crediting.of = crediting.lines

\* An invoice is voided for the reason typed under it.
VoidReasonIsItsOwn == \A a \in acts : a.kind = "void" => a.reason = a.of

=============================================================================
