------------------------------ MODULE Invoicing ------------------------------
(***************************************************************************)
(* The tax documents of one organization within one yearly series:          *)
(* InvoiceService, the super-admin's invoice API, the daily renewal-draft    *)
(* sweep, and the renewals of the card rail that issue documents too.       *)
(*                                                                         *)
(* A request is split where another transaction can get in.  mark-paid and  *)
(* void load the invoice twice: the router reads it without a lock, and the *)
(* service selects it FOR UPDATE, which waits for the row but leaves the    *)
(* object the session already holds as it was.  Issuing takes a number      *)
(* under an advisory lock that lasts until the transaction ends.            *)
(*                                                                         *)
(* The card rail is reduced to renewals that succeed; Payments models what   *)
(* else can become of them.                                                 *)
(***************************************************************************)
EXTENDS Billing, FiniteSetsExt

CONSTANTS
  Admins,         \* super-admin requests that can be in flight
  Sweeper,        \* run_renewal_draft_sweep, single-flight
  NoProc,         \* nobody holds the numbering lock
  LeadLen,        \* RENEWAL_DRAFT_LEAD_DAYS
  FullTotal,      \* amount of an invoice
  Amounts,        \* amounts credit notes are written for
  Linking,        \* which of link_subscription = TRUE, FALSE the admin uses
  Decisions,      \* what else moves the subscription
  MaxInvoices,    \* bound: numbers of the series
  MaxRenewals,    \* bound: renewals paid
  MaxKept,        \* bound: extensions an unmark leaves in place
  MaxTime         \* bound: last day of a behaviour

ASSUME ProcsAssumption == Sweeper \notin Admins /\ NoProc \notin Admins \cup {Sweeper}
ASSUME SeriesAssumption ==
  /\ LeadLen \in Nat /\ MaxTime \in Nat /\ MaxInvoices \in Nat
  /\ MaxRenewals \in Nat /\ MaxKept \in Nat
  /\ FullTotal \in Nat \ {0} /\ Amounts \subseteq 1 .. FullTotal
  /\ Linking \subseteq BOOLEAN

VARIABLES
  now,         \* the clock, in days
  sub,         \* the subscription row
  active,      \* users with is_active = TRUE
  inFlight,    \* period_ends_at of the renewal charge that waits for its webhook
  renewed,     \* period_ends_at of the renewal charges that were paid
  counter,     \* invoice_counters.last_sequence
  lock,        \* holder of the numbering lock
  inv,         \* the invoices table, by number
  ext,         \* the latest subscription_extended row of each invoice
  kept,        \* unmarked_paid rows that left an extension in place
  op           \* transactions in flight

vars == <<now, sub, active, inFlight, renewed, counter, lock, inv, ext, kept, op>>

Procs == Admins \cup {Sweeper}
Numbers == 1 .. MaxInvoices

(***************************************************************************)
(* `linked': has a subscription_id.  `charged': has a charge_id.  `period'   *)
(* is the taxable supply date, kept for renewals only: nothing reads it      *)
(* elsewhere.  A credit note keeps the amount it takes off.                 *)
(***************************************************************************)
InvoiceStatuses == {"none", "draft", "issued", "paid", "voided"}
Invoice == [status : InvoiceStatuses, kind : {"invoice", "credit_note"}, linked : BOOLEAN,
            charged : BOOLEAN, period : Timestamp, total : Nat, original : 0 .. MaxInvoices]
NoInvoice == [status |-> "none", kind |-> "invoice", linked |-> FALSE, charged |-> FALSE,
              period |-> NoTime, total |-> 0, original |-> 0]

\* What the audit row remembers of the subscription.
Snapshot == [status : Statuses, starts : Timestamp, ends : Timestamp,
             renewAt : Timestamp, canceledAt : BOOLEAN, dunning : Nat]
Snap(s) == [status |-> s.status, starts |-> s.starts, ends |-> s.ends,
            renewAt |-> s.renewAt, canceledAt |-> s.canceledAt, dunning |-> s.dunning]
Restore(s, snap) ==
  [s EXCEPT !.status = snap.status, !.starts = snap.starts, !.ends = snap.ends,
            !.renewAt = snap.renewAt, !.canceledAt = snap.canceledAt,
            !.dunning = snap.dunning]

\* `live' while the extension belongs to the payment flag now in force.
Extension == [recorded : BOOLEAN, live : BOOLEAN, before : Snapshot, after : Snapshot]

Operation == [pc : {"idle", "loaded", "checked", "numbered"}, act : {"none", "mark", "void", "issue"},
              target : 0 .. MaxInvoices, status : InvoiceStatuses, new : Invoice,
              number : 0 .. MaxInvoices]
Idle == [pc |-> "idle", act |-> "none", target |-> 0, status |-> "none",
         new |-> NoInvoice, number |-> 0]

TypeOK ==
  /\ now \in Nat
  /\ sub \in Subscription
  /\ active \in SUBSET Users
  /\ inFlight \in Timestamp
  /\ renewed \in SUBSET Timestamp
  /\ counter \in 0 .. MaxInvoices
  /\ lock \in Procs \cup {NoProc}
  /\ inv \in [Numbers -> Invoice]
  /\ ext \in [Numbers -> Extension]
  /\ kept \in Nat
  /\ op \in [Procs -> Operation]

(***************************************************************************)
(* The year begins on a subscriber in the middle of the first period.       *)
(***************************************************************************)
FirstPeriod == [
  status |-> "active", plan |-> "monthly", pendingPlan |-> NoPlan, comp |-> FALSE,
  seats |-> Cardinality(Users), contracted |-> Cardinality(Users),
  pendingSeats |-> NoSeats, victims |-> {}, starts |-> 0, ends |-> MonthLen,
  renewAt |-> MonthLen, canceledAt |-> FALSE, dunning |-> 0]

Init ==
  /\ now = 0
  /\ sub = FirstPeriod
  /\ active = Users
  /\ inFlight = NoTime
  /\ renewed = {}
  /\ counter = 0
  /\ lock = NoProc
  /\ inv = [i \in Numbers |-> NoInvoice]
  /\ ext = [i \in Numbers |-> [recorded |-> FALSE, live |-> FALSE,
                               before |-> Snap(FirstPeriod), after |-> Snap(FirstPeriod)]]
  /\ kept = 0
  /\ op = [p \in Procs |-> Idle]

Tick ==
  /\ now < MaxTime
  /\ now' = now + 1
  /\ UNCHANGED <<sub, active, inFlight, renewed, counter, lock, inv, ext, kept, op>>

(***************************************************************************)
(* mark_paid and void.                                                     *)
(***************************************************************************)

\* Mutant: what the document says about refunds is not enforced.
VoidableEvenPaid(status) == status # "voided"

Voidable(status) == status \notin {"paid", "voided"}
Payable(status)  == status = "issued"

\* The router's read, and its early answers.
AdminLoads(a, act, i) ==
  /\ op[a].pc = "idle"
  /\ \/ act = "mark" /\ Payable(inv[i].status)
     \/ act = "void" /\ inv[i].status # "none" /\ Voidable(inv[i].status)
  /\ op' = [op EXCEPT ![a] = [Idle EXCEPT
              !.pc = "loaded", !.act = act, !.target = i, !.status = inv[i].status]]
  /\ UNCHANGED <<now, sub, active, inFlight, renewed, counter, lock, inv, ext, kept>>

\* A linked invoice extends the subscription, unless it is comp or cancelled.
\* Two extensions never carry the same instant.
AdminMarks(a) ==
  LET i       == op[a].target
      extends == inv[i].kind = "invoice" /\ inv[i].linked /\ ManualPaymentExtends(sub)
      paidSub == ApplyManualPayment(sub, now)
  IN
  /\ op[a].pc = "loaded" /\ op[a].act = "mark"
  /\ Payable(op[a].status)
  /\ extends => sub.starts < now
  /\ inv' = [inv EXCEPT ![i].status = "paid"]
  /\ IF extends
       THEN /\ sub' = paidSub
            /\ active' = active \ sub.victims
            /\ ext' = [ext EXCEPT ![i] = [recorded |-> TRUE, live |-> TRUE,
                                          before |-> Snap(sub), after |-> Snap(paidSub)]]
       ELSE UNCHANGED <<sub, active, ext>>
  /\ op' = [op EXCEPT ![a] = Idle]
  /\ UNCHANGED <<now, inFlight, renewed, counter, lock, kept>>

AdminVoids(a) ==
  /\ op[a].pc = "loaded" /\ op[a].act = "void"
  /\ Voidable(op[a].status)
  /\ inv' = [inv EXCEPT ![op[a].target].status = "voided"]
  /\ op' = [op EXCEPT ![a] = Idle]
  /\ UNCHANGED <<now, sub, active, inFlight, renewed, counter, lock, ext, kept>>

(***************************************************************************)
(* unmark_paid and confirm_draft: their routers load nothing first, so the  *)
(* locked read is fresh and each is one step.                               *)
(***************************************************************************)

\* Mutant: a later decision that leaves the status alone goes unnoticed.
StatusUntouched(s, snap) == s.status = snap.status

Untouched(s, snap) == Snap(s) = snap

\* The extension is taken back only if nothing has moved since; otherwise it
\* stays and the audit row says so.
AdminUnmarks(i) ==
  LET extended == inv[i].kind = "invoice" /\ inv[i].linked /\ ext[i].recorded
      reverts  == extended /\ Untouched(sub, ext[i].after)
      keeps    == ext[i].live /\ ~reverts
  IN
  /\ inv[i].status = "paid"
  /\ keeps => kept < MaxKept
  /\ inv' = [inv EXCEPT ![i].status = "issued"]
  /\ sub' = IF reverts THEN Restore(sub, ext[i].before) ELSE sub
  /\ kept' = IF keeps THEN kept + 1 ELSE kept
  /\ ext' = [ext EXCEPT ![i].live = FALSE]
  /\ UNCHANGED <<now, active, inFlight, renewed, counter, lock, op>>

AdminConfirms(i) ==
  /\ inv[i].status = "draft"
  /\ inv' = [inv EXCEPT ![i].status = "issued"]
  /\ UNCHANGED <<now, sub, active, inFlight, renewed, counter, lock, ext, kept, op>>

(***************************************************************************)
(* Issuing: the checks, the number, the commit.                             *)
(***************************************************************************)
Issues(p, document) ==
  /\ op[p].pc = "idle"
  /\ op' = [op EXCEPT ![p] = [Idle EXCEPT !.pc = "checked", !.act = "issue", !.new = document]]
  /\ UNCHANGED <<now, sub, active, inFlight, renewed, counter, lock, inv, ext, kept>>

AdminInvoices(a, linked) ==
  Issues(a, [NoInvoice EXCEPT !.status = "issued", !.linked = linked,
                              !.total = FullTotal])

CreditNotes(i) ==
  {n \in Numbers : inv[n].kind = "credit_note" /\ inv[n].original = i
                     /\ inv[n].status \notin {"none", "voided"}}
Credited(i) == MapThenSumSet(LAMBDA n : inv[n].total, CreditNotes(i))

\* Whatever the state of the document it credits.
AdminCredits(a, i, amount) ==
  /\ inv[i].status # "none"
  /\ Credited(i) + amount <= inv[i].total
  /\ Issues(a, [NoInvoice EXCEPT !.status = "issued", !.kind = "credit_note",
                                 !.total = amount, !.original = i])

\* Mutant: a draft that was not confirmed yet is not looked for.
NotYetConfirmed ==
  ~\E i \in Numbers : inv[i].linked /\ inv[i].status = "issued" /\ inv[i].period = sub.ends

NotYetDrafted ==
  ~\E i \in Numbers : inv[i].linked /\ inv[i].status = "draft" /\ inv[i].period = sub.ends

DraftSweep ==
  /\ sub.status = "active" /\ ~sub.comp
  /\ sub.ends # NoTime /\ sub.ends <= now + LeadLen
  /\ sub.plan \in Renewable /\ NextPlan(sub) \in Renewable
  /\ NotYetDrafted
  /\ Issues(Sweeper, [NoInvoice EXCEPT !.status = "draft", !.linked = TRUE,
                                       !.period = sub.ends, !.total = FullTotal])

\* Mutant: every number is counted twice.
NumberAfterNext == counter + 2

NextNumber == counter + 1

TakesNumber(p) ==
  /\ op[p].pc = "checked"
  /\ lock = NoProc
  /\ counter < MaxInvoices
  /\ lock' = p
  /\ op' = [op EXCEPT ![p].pc = "numbered", ![p].number = NextNumber]
  /\ UNCHANGED <<now, sub, active, inFlight, renewed, counter, inv, ext, kept>>

CommitsIssue(p) ==
  /\ op[p].pc = "numbered"
  /\ counter' = op[p].number
  /\ inv' = [inv EXCEPT ![op[p].number] = op[p].new]
  /\ lock' = NoProc
  /\ op' = [op EXCEPT ![p] = Idle]
  /\ UNCHANGED <<now, sub, active, inFlight, renewed, ext, kept>>

Released(p) == IF lock = p THEN NoProc ELSE lock

\* Mutant: the number does not roll back with the transaction.
LosesNumber(p) ==
  /\ op[p].pc # "idle"
  /\ counter' = IF op[p].pc = "numbered" THEN op[p].number ELSE counter
  /\ lock' = Released(p)
  /\ op' = [op EXCEPT ![p] = Idle]
  /\ UNCHANGED <<now, sub, active, inFlight, renewed, inv, ext, kept>>

\* A failed rendering, a refused insert, a dead worker: all rolled back.
RollsBack(p) ==
  /\ op[p].pc # "idle"
  /\ lock' = Released(p)
  /\ op' = [op EXCEPT ![p] = Idle]
  /\ UNCHANGED <<now, sub, active, inFlight, renewed, counter, inv, ext, kept>>

(***************************************************************************)
(* A renewal: the sweep charges the card, the webhook extends the period,    *)
(* retires the drafts and issues the document.  A failure to render it is   *)
(* swallowed and leaves the document a draft; without an issuer there is no *)
(* document and the drafts stay.                                            *)
(***************************************************************************)
RenewalStarts ==
  /\ inFlight = NoTime /\ Cardinality(renewed) < MaxRenewals
  /\ sub.status = "active" /\ ~sub.comp /\ sub.plan \in Renewable
  /\ sub.renewAt # NoTime /\ sub.renewAt <= now
  /\ sub.ends \notin renewed
  /\ inFlight' = sub.ends
  /\ UNCHANGED <<now, sub, active, renewed, counter, lock, inv, ext, kept, op>>

RenewalExtends ==
  /\ inFlight # NoTime
  /\ RenewalAllowed(sub)
  /\ sub.starts < now
  /\ sub' = ApplyRenewal(sub, now)
  /\ active' = active \ sub.victims
  /\ inFlight' = NoTime
  /\ renewed' = renewed \cup {inFlight}

WithDraftsVoided ==
  [i \in Numbers |-> IF inv[i].linked /\ inv[i].status = "draft"
                       THEN [inv[i] EXCEPT !.status = "voided"] ELSE inv[i]]

RenewalIssues(status) ==
  /\ lock = NoProc
  /\ counter < MaxInvoices
  /\ RenewalExtends
  /\ counter' = NextNumber
  /\ inv' = [WithDraftsVoided EXCEPT ![NextNumber] =
               [NoInvoice EXCEPT !.status = status, !.linked = TRUE, !.charged = TRUE,
                                 !.period = now, !.total = FullTotal]]
  /\ UNCHANGED <<now, lock, ext, kept, op>>

RenewalWithoutInvoice ==
  /\ RenewalExtends
  /\ UNCHANGED <<now, counter, lock, inv, ext, kept, op>>

(***************************************************************************)
(* What else moves the subscription between a mark and its unmark.          *)
(***************************************************************************)
Decides(decision, newSub) ==
  /\ decision \in Decisions
  /\ sub' = newSub
  /\ UNCHANGED <<now, active, inFlight, renewed, counter, lock, inv, ext, kept, op>>

CustomerCancels == CancelSelfServeAllowed(sub) /\ Decides("cancel", CancelSelfServe(sub))

CustomerReactivates == ReactivateAllowed(sub, now) /\ Decides("reactivate", Reactivate(sub))

CustomerQueuesDownsize(victims) ==
  LET n == Cardinality(active \ victims)
  IN  /\ victims # {} /\ n # sub.seats
      /\ Decides("downsize", [sub EXCEPT !.pendingSeats = n, !.victims = victims])

AdminCancels == Decides("hard_cancel", HardCancel(sub))

-----------------------------------------------------------------------------
AdminStep ==
  \/ \E a \in Admins, act \in {"mark", "void"}, i \in Numbers : AdminLoads(a, act, i)
  \/ \E a \in Admins : AdminMarks(a) \/ AdminVoids(a)
  \/ \E a \in Admins, linked \in Linking : AdminInvoices(a, linked)
  \/ \E a \in Admins, i \in Numbers, k \in Amounts : AdminCredits(a, i, k)
  \/ \E i \in Numbers : AdminUnmarks(i) \/ AdminConfirms(i)
  \/ AdminCancels

IssueStep ==
  \/ DraftSweep
  \/ \E p \in Procs : TakesNumber(p) \/ CommitsIssue(p) \/ RollsBack(p)

RenewalStep ==
  \/ RenewalStarts
  \/ \E status \in {"issued", "draft"} : RenewalIssues(status)
  \/ RenewalWithoutInvoice

CustomerStep ==
  \/ CustomerCancels
  \/ CustomerReactivates
  \/ \E victims \in SUBSET (active \ {Owner}) : CustomerQueuesDownsize(victims)

Next == Tick \/ AdminStep \/ IssueStep \/ RenewalStep \/ CustomerStep

Spec == Init /\ [][Next]_vars

-----------------------------------------------------------------------------
(* Properties.                                                             *)

\* The series has no gap: every number up to the counter is a document, and
\* nothing has a number beyond it, whichever requests fail after taking one.
NumbersAreGapless == \A i \in Numbers : inv[i].status # "none" <=> i <= counter

\* However often the sweep runs, and whatever is issued or voided between its
\* check and its commit, there is one projection per period to confirm.
OneProjectionPerPeriod ==
  \A i, j \in Numbers :
    /\ inv[i].status = "draft" /\ ~inv[i].charged
    /\ inv[j].status = "draft" /\ ~inv[j].charged
    /\ inv[i].period = inv[j].period
    => i = j

\* The period never reaches further than what was paid: a renewal, an invoice
\* flagged paid, or an extension that an unmark had to leave in place and said so.
Extended == {i \in Numbers : ext[i].live}
PeriodIsPaidFor ==
  sub.ends <= Max({MonthLen, now})
              + MonthLen * (Cardinality(Extended) + kept + Cardinality(renewed))

\* And as long as the card rail is silent it reaches at least as far: unmarking
\* one invoice never takes away the days of another.
PaidDaysAreKept ==
  renewed = {} => sub.ends >= MonthLen + MonthLen * Cardinality(Extended)

\* With one admin request at a time the table is a book an accountant accepts.
asBook == [i \in 1 .. counter |-> [kind     |-> inv[i].kind,
                                   status   |-> inv[i].status,
                                   total    |-> inv[i].total,
                                   original |-> inv[i].original]]
Book == INSTANCE InvoiceBook WITH book <- asBook
ImplementsBook == Book!Spec

=============================================================================
