------------------------------- MODULE Payments -------------------------------
(***************************************************************************)
(* The card rail of one organization: the checkout and seat-upgrade        *)
(* requests, the hourly renewal sweep, ComGate, its webhook, the overdue    *)
(* sweep, and the customer's and super-admin's operations on the            *)
(* subscription they race with.                                             *)
(*                                                                         *)
(* The three handlers that hold state across a call to ComGate               *)
(* (initial_payment_init, seat_change_init, run_recurring_charges) are split *)
(* where other transactions can get in: after the reads, after each commit,  *)
(* and while the HTTP call is out.  The three that compute the row from the  *)
(* row (the webhook, the seat PUT, mark_paid) are split between the read and *)
(* the commit: the read takes no lock.  The others set columns to values of  *)
(* their own, and are one action each.                                      *)
(***************************************************************************)
EXTENDS Billing

CONSTANTS
  ChargeIds,      \* rows of `charges' (and payments at ComGate) of one behaviour
  NoCharge,       \* SQL NULL for a charge id
  Requests,       \* requests a customer's browser tabs can have in flight
  Handlers,       \* transactions that can be between their read and their commit
  TermLen,        \* default_payment_term_days of an invoice
  TrialLen,       \* days of the free trial
  MaxTime,        \* bound: last day of a behaviour
  MaxSeats,       \* bound: largest seat count a customer asks for
  MaxDunning,     \* bound: failed renewals counted
  Offered,        \* bound: plans customers and admins choose from
  Origins,        \* bound: starting points, see Init
  CustomerActions, \* bound: the customer's operations in play
  AdminActions,   \* bound: the super-admin operations in play
  Faults          \* environment: what may go wrong, see below

(***************************************************************************)
(* "crash":   a worker dies between two steps of a request or of the sweep  *)
(* "timeout": ComGate carries a call out but its answer is lost             *)
(* "early":   a webhook arrives before the sweep that caused it commits     *)
(***************************************************************************)
AllFaults == {"crash", "timeout", "early"}
AllCustomerActions == {"plan", "seats", "cancel"}
AllAdminActions ==
  {"activate", "comp", "enterprise", "cancel", "extend_trial", "mark_paid"}

ASSUME ChargeIdsAssumption == NoCharge \notin ChargeIds
ASSUME BoundsAssumption ==
  /\ TermLen \in Nat /\ TrialLen \in Nat /\ MaxTime \in Nat
  /\ MaxSeats \in Nat \ {0} /\ MaxDunning \in Nat
  /\ Offered \subseteq Renewable
  /\ Origins \subseteq {"trial", "subscriber"}
  /\ CustomerActions \subseteq AllCustomerActions
  /\ AdminActions \subseteq AllAdminActions
  /\ Faults \subseteq AllFaults

VARIABLES
  now,       \* the clock, in days
  sub,       \* the subscription row
  active,    \* users with is_active = TRUE
  charge,    \* the charges table
  gate,      \* ComGate's view of the payment of each charge
  seen,      \* charges whose transaction id has a webhook_events row
  card,      \* payment_methods: the charge whose transaction registered the card
  req,       \* the customer requests in flight
  sweep,     \* the renewal sweep, at most one under its advisory lock
  tx,        \* the transactions between their read of the row and their commit
  overtaken  \* history: the seats were written over a commit the writer missed

vars == <<now, sub, active, charge, gate, seen, card, req, sweep, tx, overtaken>>

(***************************************************************************)
(* A charge row.  `plan' and `seats' are what the amount was computed from;  *)
(* `fresh' holds while the row is younger than the in-progress window;      *)
(* `dueAt' is the due date of the issued, unpaid invoice of the charge.      *)
(* "flushed" is a row only the sweep's open transaction sees, "lost" one     *)
(* whose transaction was rolled back.                                       *)
(***************************************************************************)
ChargeKinds    == {"initial", "seat_upgrade", "renewal"}
ChargeStatuses == {"unused", "flushed", "lost", "pending", "paid", "failed"}
Charge == [kind : ChargeKinds, status : ChargeStatuses, plan : Plans, seats : Nat,
           periodEnd : Timestamp, fresh : BOOLEAN, dueAt : Timestamp]
UnusedCharge == [kind |-> "initial", status |-> "unused", plan |-> "trial", seats |-> 0,
                 periodEnd |-> NoTime, fresh |-> FALSE, dueAt |-> NoTime]

\* "hidden": a hosted page whose address has not reached the customer yet.
GateStates == {"none", "hidden", "open", "PAID", "FAILED"}

Request == [pc : {"idle", "checked", "calling", "called"}, kind : ChargeKinds,
            plan : Plans, seats : Nat, periodEnd : Timestamp,
            charge : ChargeIds \cup {NoCharge}]
IdleRequest == [pc |-> "idle", kind |-> "initial", plan |-> "trial", seats |-> 0,
                periodEnd |-> NoTime, charge |-> NoCharge]

Sweep == [pc : {"idle", "calling", "called"}, charge : ChargeIds \cup {NoCharge},
          dunning : Nat]
IdleSweep == [pc |-> "idle", charge |-> NoCharge, dunning |-> 0]

\* The row of a new organization.
NewSubscription == [
  status |-> "trialing", plan |-> "trial", pendingPlan |-> NoPlan, comp |-> FALSE,
  seats |-> 1, contracted |-> 1, pendingSeats |-> NoSeats, victims |-> {},
  starts |-> 0, ends |-> TrialLen, renewAt |-> NoTime, canceledAt |-> FALSE, dunning |-> 0]

(***************************************************************************)
(* A transaction that has read the row and not committed: a webhook, by the  *)
(* outcome ComGate confirmed; a seat PUT; a mark_paid.                      *)
(***************************************************************************)
TxSteps == {"idle", "PAID", "FAILED", "sets_seats"}
             \cup (IF "mark_paid" \in AdminActions THEN {"marks_paid"} ELSE {})
Tx == [pc : TxSteps, charge : ChargeIds \cup {NoCharge}, seats : Nat, read : Subscription]
IdleTx == [pc |-> "idle", charge |-> NoCharge, seats |-> 0, read |-> NewSubscription]

TypeOK ==
  /\ now \in Nat
  /\ sub \in Subscription
  /\ active \in SUBSET Users
  /\ charge \in [ChargeIds -> Charge]
  /\ gate \in [ChargeIds -> GateStates]
  /\ seen \in SUBSET ChargeIds
  /\ card \in ChargeIds \cup {NoCharge}
  /\ req \in [Requests -> Request]
  /\ sweep \in Sweep
  /\ tx \in [Handlers -> Tx]
  /\ overtaken \in BOOLEAN

Rows == {c \in ChargeIds : charge[c].status \in {"pending", "paid", "failed"}}
Charges(kind, statuses) ==
  {c \in Rows : charge[c].kind = kind /\ charge[c].status \in statuses}
InProgress(kind) == {c \in Charges(kind, {"pending"}) : charge[c].fresh}
Unused == {c \in ChargeIds : charge[c].status = "unused"}

(***************************************************************************)
(* Initial states: a new organization on its trial, or one whose first      *)
(* checkout is paid and whose period has just begun.                        *)
(***************************************************************************)
InitTrial ==
  /\ \E n \in 1 .. MaxSeats, p \in Offered \cup {NoPlan} :
       sub = [NewSubscription EXCEPT !.seats = n, !.pendingPlan = p]
  /\ active = {Owner}
  /\ charge = [c \in ChargeIds |-> UnusedCharge]
  /\ gate = [c \in ChargeIds |-> "none"]
  /\ seen = {}
  /\ card = NoCharge

Subscribed(first, n, p) ==
  /\ sub = ApplyInitialPayment(
             [NewSubscription EXCEPT !.seats = n, !.plan = p, !.ends = 0,
                                     !.status = "pending_activation"], 0)
  /\ \E others \in SUBSET (Users \ {Owner}) :
       Cardinality(others) < n /\ active = others \cup {Owner}
  /\ charge = [c \in ChargeIds |->
       IF c = first THEN [UnusedCharge EXCEPT !.status = "paid", !.plan = p, !.seats = n]
                    ELSE UnusedCharge]
  /\ gate = [c \in ChargeIds |-> IF c = first THEN "PAID" ELSE "none"]
  /\ seen = {first}
  /\ card = first

InitSubscriber ==
  \E first \in ChargeIds, n \in 1 .. MaxSeats, p \in Offered : Subscribed(first, n, p)

Init ==
  /\ now = 0
  /\ req = [r \in Requests |-> IdleRequest]
  /\ sweep = IdleSweep
  /\ tx = [h \in Handlers |-> IdleTx]
  /\ overtaken = FALSE
  /\ \/ "trial" \in Origins /\ InitTrial
     \/ "subscriber" \in Origins /\ InitSubscriber

(***************************************************************************)
(* Time.  The in-progress windows (15 and 10 minutes) end long before a     *)
(* day does, and so does a transaction.                                     *)
(***************************************************************************)
Stale(ch) == [c \in ChargeIds |-> [ch[c] EXCEPT !.fresh = FALSE]]

Tick ==
  /\ now < MaxTime
  /\ \A h \in Handlers : tx[h].pc = "idle"
  /\ now' = now + 1
  /\ charge' = Stale(charge)
  /\ UNCHANGED <<sub, active, gate, seen, card, req, sweep, tx, overtaken>>

WindowEnds ==
  /\ \E c \in ChargeIds : charge[c].fresh
  /\ charge' = Stale(charge)
  /\ UNCHANGED <<now, sub, active, gate, seen, card, req, sweep, tx, overtaken>>

(***************************************************************************)
(* initial_payment_init and seat_change_init.  The reads and the insert are *)
(* different statements of one transaction that takes no lock, so two       *)
(* requests may both pass the checks before either commits.                 *)
(***************************************************************************)
CheckoutAllowed ==
  /\ ~sub.comp
  /\ sub.status # "active"
  /\ sub.status \in {"canceled", "past_due"} \/ Charges("initial", {"paid"}) = {}
  /\ InProgress("initial") = {}

CheckInitial(r, plan) ==
  /\ req[r].pc = "idle"
  /\ CheckoutAllowed
  /\ req' = [req EXCEPT ![r] = [IdleRequest EXCEPT
                !.pc = "checked", !.kind = "initial", !.plan = plan, !.seats = sub.seats]]
  /\ UNCHANGED <<now, sub, active, charge, gate, seen, card, sweep, tx, overtaken>>

CheckSeatChange(r, n) ==
  /\ req[r].pc = "idle"
  /\ card # NoCharge
  /\ InProgress("seat_upgrade") = {}
  /\ ProrationPositive(sub, n, now)
  /\ req' = [req EXCEPT ![r] = [IdleRequest EXCEPT
                !.pc = "checked", !.kind = "seat_upgrade", !.plan = sub.plan, !.seats = n,
                !.periodEnd = sub.ends]]
  /\ UNCHANGED <<now, sub, active, charge, gate, seen, card, sweep, tx, overtaken>>

Row(q, status) == [UnusedCharge EXCEPT
  !.kind = q.kind, !.status = status, !.plan = q.plan, !.seats = q.seats,
  !.periodEnd = q.periodEnd, !.fresh = TRUE]

\* Mutant: the row is flushed and not committed.
FlushedCharge(q) == Row(q, "flushed")

NewCharge(q) == Row(q, "pending")

\* The pending row is committed before ComGate hears of it.
CommitCharge(r, c) ==
  /\ req[r].pc = "checked"
  /\ c \in Unused
  /\ charge' = [charge EXCEPT ![c] = NewCharge(req[r])]
  /\ req' = [req EXCEPT ![r].pc = "calling", ![r].charge = c]
  /\ UNCHANGED <<now, sub, active, gate, seen, card, sweep, tx, overtaken>>

\* ComGate creates the hosted page, or takes the recurring payment on.
GatewayAccepts(r) ==
  /\ req[r].pc = "calling"
  /\ gate' = [gate EXCEPT ![req[r].charge] =
                IF req[r].kind = "initial" THEN "hidden" ELSE "open"]
  /\ req' = [req EXCEPT ![r].pc = "called"]
  /\ UNCHANGED <<now, sub, active, charge, seen, card, sweep, tx, overtaken>>

\* The answer arrives: the customer is redirected to the hosted page.
RequestReturns(r) ==
  /\ req[r].pc = "called"
  /\ gate' = [gate EXCEPT ![req[r].charge] = IF @ = "hidden" THEN "open" ELSE @]
  /\ req' = [req EXCEPT ![r] = IdleRequest]
  /\ UNCHANGED <<now, sub, active, charge, seen, card, sweep, tx, overtaken>>

\* ComGateError: ComGate refused, or its answer was lost on the way back.  The
\* session still holds the row it inserted, and overwrites its status.
RequestFails(r) ==
  /\ \/ req[r].pc = "calling"
     \/ req[r].pc = "called" /\ "timeout" \in Faults
  /\ charge' = [charge EXCEPT ![req[r].charge].status = "failed"]
  /\ req' = [req EXCEPT ![r] = IdleRequest]
  /\ UNCHANGED <<now, sub, active, gate, seen, card, sweep, tx, overtaken>>

RequestCrashes(r) ==
  /\ "crash" \in Faults
  /\ req[r].pc # "idle"
  /\ req' = [req EXCEPT ![r] = IdleRequest]
  /\ UNCHANGED <<now, sub, active, charge, gate, seen, card, sweep, tx, overtaken>>

(***************************************************************************)
(* run_recurring_charges, for this organization.  The row is flushed and     *)
(* the card charged inside one transaction that commits when every          *)
(* organization is done.                                                    *)
(***************************************************************************)
ChargedThisPeriod(statuses) ==
  \E c \in Charges("renewal", statuses) : charge[c].periodEnd = sub.ends

\* Mutants: a renewal in flight does not count; a failed one does.
AlreadyPaidThisPeriod == ChargedThisPeriod({"paid"})
AlreadyTriedThisPeriod == ChargedThisPeriod({"pending", "paid", "failed"})

AlreadyChargedThisPeriod == ChargedThisPeriod({"pending", "paid"})

RenewalDue ==
  /\ sub.status = "active"
  /\ ~sub.comp
  /\ sub.renewAt # NoTime /\ sub.renewAt <= now
  /\ card # NoCharge
  /\ ~AlreadyChargedThisPeriod
  /\ sub.plan \in Renewable

\* A period that starts at an instant is not swept at that very instant: the
\* clock is coarser than the timestamps.
SweepBegins(c) ==
  /\ sweep.pc = "idle"
  /\ RenewalDue
  /\ sub.starts < now
  /\ c \in Unused
  /\ charge' = [charge EXCEPT ![c] = [UnusedCharge EXCEPT
                  !.kind = "renewal", !.status = "flushed", !.plan = NextPlan(sub),
                  !.seats = NextSeats(sub), !.periodEnd = sub.ends]]
  /\ sweep' = [pc |-> "calling", charge |-> c, dunning |-> sub.dunning]
  /\ UNCHANGED <<now, sub, active, gate, seen, card, req, tx, overtaken>>

SweepCalls ==
  /\ sweep.pc = "calling"
  /\ gate' = [gate EXCEPT ![sweep.charge] = "open"]
  /\ sweep' = [sweep EXCEPT !.pc = "called"]
  /\ UNCHANGED <<now, sub, active, charge, seen, card, req, tx, overtaken>>

\* Mutant: the new status of the row misses the commit.
SweepForgets ==
  /\ sweep.pc = "called"
  /\ sweep' = IdleSweep
  /\ UNCHANGED <<now, sub, active, charge, gate, seen, card, req, tx, overtaken>>

SweepCommits ==
  /\ sweep.pc = "called"
  /\ charge' = [charge EXCEPT ![sweep.charge].status = "pending"]
  /\ sweep' = IdleSweep
  /\ UNCHANGED <<now, sub, active, gate, seen, card, req, tx, overtaken>>

\* ComGateError: the charge fails inline.  The subscription row is written from
\* the counter loaded at the start, and stays locked until the commit.
SweepFails ==
  /\ \/ sweep.pc = "calling"
     \/ sweep.pc = "called" /\ "timeout" \in Faults
  /\ sweep.dunning < MaxDunning
  /\ charge' = [charge EXCEPT ![sweep.charge].status = "failed"]
  /\ sub' = MarkRenewalFailed(sub, sweep.dunning, now)
  /\ sweep' = IdleSweep
  /\ UNCHANGED <<now, active, gate, seen, card, req, tx, overtaken>>

SweepCrashes ==
  /\ "crash" \in Faults
  /\ sweep.pc # "idle"
  /\ charge' = [charge EXCEPT ![sweep.charge].status = "lost"]
  /\ sweep' = IdleSweep
  /\ UNCHANGED <<now, sub, active, gate, seen, card, req, tx, overtaken>>

(***************************************************************************)
(* ComGate settles a payment once, then notifies and re-notifies for as long *)
(* as it is not answered 2xx: a settled payment can always be delivered.     *)
(***************************************************************************)
GatewaySettles(c, outcome) ==
  /\ \/ gate[c] = "open"
     \/ gate[c] = "hidden" /\ outcome = "FAILED"
  /\ gate' = [gate EXCEPT ![c] = outcome]
  /\ UNCHANGED <<now, sub, active, charge, seen, card, req, sweep, tx, overtaken>>

(***************************************************************************)
(* A transaction that computes the row from the row: get_current_subscription *)
(* and the SELECT of update_seat_count take no lock, so other transactions   *)
(* commit between a handler's read and its commit.                          *)
(***************************************************************************)
Reads(h, step, c, n) ==
  /\ tx[h].pc = "idle"
  /\ tx' = [tx EXCEPT ![h] = [pc |-> step, charge |-> c, seats |-> n, read |-> sub]]
  /\ UNCHANGED <<now, sub, active, charge, gate, seen, card, req, sweep, overtaken>>

\* A commit that moves the status or the seats, over seats it never saw.
MissedSeats(read, wanted) ==
  /\ read.seats # sub.seats \/ read.contracted # sub.contracted
  /\ \/ wanted.status # read.status
     \/ wanted.seats # read.seats
     \/ wanted.contracted # read.contracted

Commits(h, wanted) ==
  /\ sub' = Overwrite(sub, tx[h].read, wanted)
  /\ overtaken' = (overtaken \/ MissedSeats(tx[h].read, wanted))
  /\ tx' = [tx EXCEPT ![h] = IdleTx]

\* Rolled back; ComGate delivers its notification again.
HandlerCrashes(h) ==
  /\ "crash" \in Faults
  /\ tx[h].pc # "idle"
  /\ tx' = [tx EXCEPT ![h] = IdleTx]
  /\ UNCHANGED <<now, sub, active, charge, gate, seen, card, req, sweep, overtaken>>

(***************************************************************************)
(* comgate_webhook.  The webhook_events row, the charge and the funnel's     *)
(* writes commit together; a BillingError is not caught, so it rolls all of  *)
(* them back and the read it would follow is simply not enabled.  The unique *)
(* key of webhook_events makes a second delivery of a payment wait for the   *)
(* first: webhooks of different payments overlap, those of one do not.       *)
(***************************************************************************)
InHand(c, steps) == \E h \in Handlers : tx[h].pc \in steps /\ tx[h].charge = c

Delivered(c) ==
  gate[c] \in {"PAID", "FAILED"} /\ c \notin seen /\ ~InHand(c, {"PAID", "FAILED"})

\* Mutant: the notification itself is believed.
Notified(c, outcome) == Delivered(c)

\* The outcome is not taken from the notification: ComGate is asked for it.
Confirmed(c, outcome) == Delivered(c) /\ gate[c] = outcome

\* Mutant: a checkout the billing service refuses is acknowledged all the same.
NothingOrRefused(c) ==
  \/ charge[c].status \in {"paid", "failed", "lost"}
  \/ charge[c].kind = "initial" /\ ~InitialPaymentAllowed(sub)

\* Terminal already, or no such row.
NothingToApply(c) ==
  \/ charge[c].status \in {"paid", "failed", "lost"}
  \/ charge[c].status = "flushed" /\ "early" \in Faults

\* Acknowledged, nothing applied.
WebhookIgnored(c) ==
  /\ Delivered(c)
  /\ NothingToApply(c)
  /\ seen' = seen \cup {c}
  /\ UNCHANGED <<now, sub, active, charge, gate, card, req, sweep, tx, overtaken>>

\* The charge is paid, with or without an invoice.  Issuing one is attempted
\* unless the org is comp, and a failure to issue it is swallowed.
Settled(c, invoiced) ==
  [charge EXCEPT ![c].status = "paid",
                 ![c].dueAt = IF invoiced THEN now + TermLen ELSE NoTime]

\* Mutants: the checkout retires itself; it retires paid ones too.
SiblingsAndSelf(c) == Charges("initial", {"pending"})
SiblingsEvenPaid(c) == Charges("initial", {"pending", "paid"}) \ {c}

Siblings(c) == Charges("initial", {"pending"}) \ {c}

\* The funnel takes the charge as the row is.
Accepted(c) ==
  \/ charge[c].kind = "initial" /\ InitialPaymentAllowed(sub)
  \/ charge[c].kind = "seat_upgrade" /\ SeatChargeAllowed(sub, charge[c].seats)
  \/ charge[c].kind = "renewal" /\ RenewalAllowed(sub)

WebhookReads(h, c, outcome) ==
  /\ Confirmed(c, outcome)
  /\ charge[c].status = "pending"
  /\ IF outcome = "PAID" THEN Accepted(c) ELSE sub.dunning < MaxDunning
  /\ Reads(h, outcome, c, 0)

Acknowledges(h, outcome, kinds) ==
  /\ tx[h].pc = outcome
  /\ charge[tx[h].charge].kind \in kinds
  /\ seen' = seen \cup {tx[h].charge}

\* An active subscription makes the payment a duplicate: no second period, no
\* invoice.  Sibling checkouts still pending are retired either way: those the commit
\* finds, where the code retires those it selected, without a lock, a moment before.
WebhookInitialPaid(h, issued) ==
  LET c         == tx[h].charge
      duplicate == tx[h].read.status = "active"
      settled   == Settled(c, issued /\ ~duplicate)
  IN
  /\ Acknowledges(h, "PAID", {"initial"})
  /\ Commits(h, ApplyInitialPayment(tx[h].read, now))
  /\ charge' = [d \in ChargeIds |->
       IF d \in Siblings(c) THEN [settled[d] EXCEPT !.status = "failed"] ELSE settled[d]]
  /\ card' = c
  /\ UNCHANGED <<now, active, gate, req, sweep>>

WebhookSeatsPaid(h, issued) ==
  /\ Acknowledges(h, "PAID", {"seat_upgrade"})
  /\ Commits(h, ApplySeatCharge(tx[h].read, charge[tx[h].charge].seats))
  /\ charge' = Settled(tx[h].charge, issued /\ ~tx[h].read.comp)
  /\ UNCHANGED <<now, active, gate, card, req, sweep>>

WebhookRenewalPaid(h, issued) ==
  /\ Acknowledges(h, "PAID", {"renewal"})
  /\ Commits(h, ApplyRenewal(tx[h].read, now))
  /\ active' = active \ tx[h].read.victims
  /\ charge' = Settled(tx[h].charge, issued /\ ~tx[h].read.comp)
  /\ UNCHANGED <<now, gate, card, req, sweep>>

\* A renewal counts for dunning; any other charge just fails.
AfterFailure(read, kind) ==
  IF kind = "renewal" THEN MarkRenewalFailed(read, read.dunning, now) ELSE read

WebhookFailed(h) ==
  LET c == tx[h].charge
  IN
  /\ Acknowledges(h, "FAILED", ChargeKinds)
  /\ Commits(h, AfterFailure(tx[h].read, charge[c].kind))
  /\ charge' = [charge EXCEPT ![c].status = "failed"]
  /\ UNCHANGED <<now, active, gate, card, req, sweep>>

WebhookCommits(h) ==
  \/ WebhookFailed(h)
  \/ \E issued \in BOOLEAN :
       WebhookInitialPaid(h, issued) \/ WebhookSeatsPaid(h, issued) \/ WebhookRenewalPaid(h, issued)

Webhook(c) ==
  \/ WebhookIgnored(c)
  \/ \E h \in Handlers :
       \/ \E outcome \in {"PAID", "FAILED"} : WebhookReads(h, c, outcome)
       \/ tx[h].charge = c /\ WebhookCommits(h)

(***************************************************************************)
(* run_overdue_invoice_sweep.                                              *)
(***************************************************************************)
OverdueInvoices ==
  {c \in ChargeIds : charge[c].dueAt # NoTime /\ charge[c].dueAt < now}

OverdueSweep ==
  /\ OverdueInvoices # {}
  /\ sub.status \notin {"past_due", "canceled"}
  /\ ~sub.comp
  /\ sub' = [sub EXCEPT !.status = "past_due"]
  /\ UNCHANGED <<now, active, charge, gate, seen, card, req, sweep, tx, overtaken>>

(***************************************************************************)
(* The customer's other operations.                                        *)
(***************************************************************************)
Writes(newSub, newActive) ==
  /\ sub' = newSub
  /\ active' = newActive
  /\ UNCHANGED <<now, charge, gate, seen, card, req, sweep, tx, overtaken>>

CustomerChoosesPlan(plan) == Writes(ChoosePlan(sub, plan), active)

CustomerChangesInterval(plan) == Writes([sub EXCEPT !.pendingPlan = plan], active)

\* Target equal to the current cap: drop whatever is queued.
CustomerKeepsSeats ==
  Writes([sub EXCEPT !.pendingSeats = NoSeats, !.victims = {}], active)

\* Mutant: an active subscription sets its contract as freely as a trial does.
SeatsAreFreeOnceActive(s) == s.status \in {"trialing", "active"} \/ s.comp

SeatsAreFree(s) == s.status = "trialing" \/ s.comp

WithSeats(s, n) ==
  [s EXCEPT !.seats = n,
            !.contracted = IF SeatsAreFree(s) /\ n > s.contracted THEN n ELSE @,
            !.pendingSeats = NoSeats, !.victims = {}]

\* At least the users in place, and either on trial, comp, or within contract.
CustomerReadsSeats(h, n) ==
  /\ n # sub.seats
  /\ n >= Cardinality(active)
  /\ SeatsAreFree(sub) \/ n <= sub.contracted
  /\ Reads(h, "sets_seats", NoCharge, n)

CustomerSetsSeats(h) ==
  /\ tx[h].pc = "sets_seats"
  /\ Commits(h, WithSeats(tx[h].read, tx[h].seats))
  /\ UNCHANGED <<now, active, charge, gate, seen, card, req, sweep>>

\* Mutant: nobody protects the admin.
LosableEvenOwner(n, victims) ==
  /\ victims \subseteq active /\ victims # {}
  /\ Cardinality(victims) <= Cardinality(active) - n

\* The list is as long as the number of users to lose, and may name one twice.
Losable(n, victims) ==
  /\ victims \subseteq active \ {Owner} /\ victims # {}
  /\ Cardinality(victims) <= Cardinality(active) - n

\* Fewer than the users in place: queued, with the users to lose.
CustomerQueuesDownsize(n, victims) ==
  /\ n # sub.seats
  /\ n < Cardinality(active)
  /\ Losable(n, victims)
  /\ Writes([sub EXCEPT !.pendingSeats = n, !.victims = victims], active)

CustomerCancels ==
  /\ CancelSelfServeAllowed(sub)
  /\ Writes(CancelSelfServe(sub), active)

CustomerReactivates ==
  /\ ReactivateAllowed(sub, now)
  /\ Writes(Reactivate(sub), active)

(***************************************************************************)
(* The super-admin's operations.                                           *)
(***************************************************************************)
AdminActivates(plan) ==
  /\ "activate" \in AdminActions
  /\ Writes(Activate(sub, plan, PeriodLen(plan), now), active \ sub.victims)

AdminSetsComp(until) ==
  /\ "comp" \in AdminActions
  /\ Writes(SetComp(sub, until, now), active)

AdminSetsEnterprise ==
  /\ "enterprise" \in AdminActions
  /\ Writes(SetEnterprise(sub, AnnualLen, now), active)

AdminCancels ==
  /\ "cancel" \in AdminActions
  /\ Writes(HardCancel(sub), active)

AdminExtendsTrial ==
  /\ "extend_trial" \in AdminActions
  /\ ExtendTrialAllowed(sub)
  /\ sub.ends <= MaxTime
  /\ Writes(ExtendTrial(sub, 1), active)

\* The invoice ComGate's payment produced is flagged paid by hand.  It is locked
\* before the subscription is read.
AdminReadsInvoice(h, c) ==
  /\ "mark_paid" \in AdminActions
  /\ charge[c].dueAt # NoTime
  /\ ~InHand(c, {"marks_paid"})
  /\ Reads(h, "marks_paid", c, 0)

AdminMarksPaid(h) ==
  LET read == tx[h].read
  IN
  /\ tx[h].pc = "marks_paid"
  /\ charge' = [charge EXCEPT ![tx[h].charge].dueAt = NoTime]
  /\ IF ManualPaymentExtends(read)
       THEN Commits(h, ApplyManualPayment(read, now)) /\ active' = active \ read.victims
       ELSE Commits(h, read) /\ active' = active
  /\ UNCHANGED <<now, gate, seen, card, req, sweep>>

-----------------------------------------------------------------------------
RequestStep(r) ==
  \/ \E p \in Offered : CheckInitial(r, p)
  \/ \E n \in 1 .. MaxSeats : CheckSeatChange(r, n)
  \/ \E c \in ChargeIds : CommitCharge(r, c)
  \/ GatewayAccepts(r)
  \/ RequestReturns(r)
  \/ RequestFails(r)
  \/ RequestCrashes(r)

SweepStep ==
  \/ \E c \in ChargeIds : SweepBegins(c)
  \/ SweepCalls
  \/ SweepCommits
  \/ SweepFails
  \/ SweepCrashes

CustomerStep ==
  \/ /\ "plan" \in CustomerActions
     /\ \E p \in Offered : CustomerChoosesPlan(p) \/ CustomerChangesInterval(p)
  \/ /\ "seats" \in CustomerActions
     /\ \/ CustomerKeepsSeats
        \/ \E h \in Handlers :
             CustomerSetsSeats(h) \/ \E n \in 1 .. MaxSeats : CustomerReadsSeats(h, n)
        \/ \E n \in 1 .. MaxSeats, v \in SUBSET Users : CustomerQueuesDownsize(n, v)
  \/ "cancel" \in CustomerActions /\ (CustomerCancels \/ CustomerReactivates)

AdminStep ==
  \/ \E p \in Offered \cup (AdminActions \cap {"enterprise"}) : AdminActivates(p)
  \/ \E until \in {NoTime, now + MonthLen} : AdminSetsComp(until)
  \/ AdminSetsEnterprise
  \/ AdminCancels
  \/ AdminExtendsTrial
  \/ \E h \in Handlers :
       AdminMarksPaid(h) \/ \E c \in ChargeIds : AdminReadsInvoice(h, c)

Next ==
  \/ Tick
  \/ WindowEnds
  \/ \E r \in Requests : RequestStep(r)
  \/ SweepStep
  \/ \E c \in ChargeIds, o \in {"PAID", "FAILED"} : GatewaySettles(c, o)
  \/ \E c \in ChargeIds : Webhook(c)
  \/ \E h \in Handlers : HandlerCrashes(h)
  \/ OverdueSweep
  \/ CustomerStep
  \/ AdminStep

Spec == Init /\ [][Next]_vars

(***************************************************************************)
(* Fairness.  The sweep runs every hour, ComGate settles or expires every    *)
(* payment, and repeats a notification until it is acknowledged.  Nothing    *)
(* is assumed of the customer, of an admin, or of a request in flight.       *)
(***************************************************************************)
Fairness ==
  /\ WF_vars(Tick)
  /\ WF_vars(SweepStep)
  /\ \A c \in ChargeIds :
       /\ WF_vars(\E o \in {"PAID", "FAILED"} : GatewaySettles(c, o))
       /\ WF_vars(Webhook(c))

FairSpec == Spec /\ Fairness

-----------------------------------------------------------------------------
(* Safety.                                                                 *)

BecomesPaid(c) == charge[c].status # "paid" /\ charge'[c].status = "paid"
FailedRenewals == {c \in ChargeIds : charge[c].kind = "renewal" /\ charge[c].status = "failed"}

\* A period has at most one renewal charge that is pending or paid, whatever
\* crashes, times out or arrives early: the sweep's per-period guard.
OneRenewalPerPeriod ==
  \A c, d \in Charges("renewal", {"pending", "paid"}) :
    charge[c].periodEnd = charge[d].periodEnd => c = d

\* The card is captured at most once for a renewal of one period.
RenewalCapturedOnce ==
  \A c, d \in ChargeIds :
    /\ charge[c].kind = "renewal" /\ charge[d].kind = "renewal"
    /\ gate[c] = "PAID" /\ gate[d] = "PAID"
    /\ charge[c].periodEnd = charge[d].periodEnd
    => c = d

\* Whatever ComGate knows of a checkout or an upgrade has a committed row the
\* webhook can find by refId, at every step and after every crash.
ReconcilableByRefId ==
  \A c \in ChargeIds :
    gate[c] # "none" /\ charge[c].kind # "renewal" => c \in Rows

\* An acknowledged outcome (a webhook_events row) leaves no charge pending: the
\* two are written together, and a redelivery would be swallowed.
AcknowledgedIsSettled == \A c \in seen \cap Rows : charge[c].status # "pending"

\* The saved card is the one of a checkout that was really paid.
CardComesFromPaidCheckout ==
  card # NoCharge =>
    charge[card].kind = "initial" /\ charge[card].status = "paid" /\ gate[card] = "PAID"

\* A paying organization never has a higher cap than its contract covers, as long
\* as no handler wrote its seats over a commit it had not seen (update_seat_count
\* overtaken by a renewal that lands a downsize would leave the cap above).
SeatsWithinContract ==
  sub.status \in {"active", "past_due"} /\ ~sub.comp /\ ~overtaken =>
    sub.seats <= sub.contracted

\* And never a contract larger than some payment was computed for, whichever
\* handlers overtake each other: a contract is written by a paid charge or lowered.
ContractIsPaidFor ==
  sub.status \in {"active", "past_due"} /\ ~sub.comp =>
    \E c \in ChargeIds : charge[c].status = "paid" /\ charge[c].seats >= sub.contracted

\* No chain of queued downsizes deactivates the admin who queued them.
OwnerStaysActive == Owner \in active

\* A captured checkout finds a plan on the subscription to activate.
PlanChosenBeforeWebhook ==
  \A c \in Charges("initial", {"pending"}) :
    gate[c] = "PAID" /\ c \notin seen => InitialPaymentAllowed(sub)

-----------------------------------------------------------------------------
(* Action properties.                                                      *)

\* A paid checkout or renewal stays paid: no sibling, late answer, sweep or webhook
\* rewrites it.  An upgrade is different: the card is charged in the same call, so
\* the webhook may come first, and the request whose answer was lost then
\* overwrites `paid' with the `failed' of the row it holds.
PaidIsFinal ==
  [][\A c \in ChargeIds :
       charge[c].status = "paid" /\ charge[c].kind # "seat_upgrade" =>
         charge'[c].status = "paid"]_vars

\* The end of the period only moves out in a step that turns a captured charge
\* paid (in the absence of super-admin operations).
ExtensionIsPaid ==
  [][sub'.ends > sub.ends => \E c \in ChargeIds : BecomesPaid(c) /\ gate[c] = "PAID"]_vars

\* Paying never takes back days the customer already had, as long as no invoice
\* falls due: a checkout of an organization the overdue sweep has locked starts
\* its period at once, whatever was left of the old one.  Nor can a webhook know of
\* a period that another commit gave since it read the row.
PaymentNeverShortens ==
  [][\A h \in Handlers :
       WebhookCommits(h) /\ BecomesPaid(tx[h].charge) =>
         \/ sub'.ends >= sub.ends
         \/ tx[h].read.ends # sub.ends]_vars

\* An invoice flagged paid by hand rolls the unused tail of the period forward: the
\* new end is later than the one apply_manual_payment_success read, and takes no
\* day back unless the end has moved between that read and the commit.
ManualPaymentKeepsTail ==
  [][\A h \in Handlers :
       AdminMarksPaid(h) =>
         /\ ManualPaymentExtends(tx[h].read) => sub'.ends > tx[h].read.ends
         /\ tx[h].read.ends = sub.ends => sub'.ends >= sub.ends]_vars

\* When a renewal is paid, the period delivered is the one the card was charged
\* for.
ChargedIsDelivered ==
  [][\A c \in ChargeIds :
       BecomesPaid(c) /\ charge[c].kind = "renewal" =>
         charge[c].plan = sub'.plan /\ charge[c].seats = sub'.seats]_vars

\* A paid upgrade lowers the contract only where another commit moved the contract
\* after apply_seat_charge_success had compared with it, and leaves the customer with
\* fewer seats only where seats were written over an unseen commit, then or before.
UpgradeNeverLowers ==
  [][\A h \in Handlers, issued \in BOOLEAN :
       WebhookSeatsPaid(h, issued) =>
         /\ sub'.contracted >= sub.contracted \/ tx[h].read.contracted # sub.contracted
         /\ sub'.seats >= sub.seats \/ overtaken']_vars

\* Dunning gives up on a subscription only after three renewal charges have failed.
\* They need not all be of the period it is in: one for an older period that fails
\* after a checkout, or a sweep that began before it, counts like any other.
ThreeStrikes ==
  [][sub.status # "past_due" /\ sub'.status = "past_due" /\ sub'.dunning > sub.dunning =>
       Cardinality(FailedRenewals') >= DunningThreshold]_vars

\* A failed renewal never changes the access of a subscriber by itself: the grace
\* that follows the period is the same before and after dunning gives up.
DunningKeepsAccess ==
  [][sub.status = "active" /\ sub'.dunning > sub.dunning =>
       AccessAllowed(sub', now) = AccessAllowed(sub, now)]_vars

\* Dunning (mark_renewal_failed) gives up at the third failure and not before, and
\* takes nobody's access away by itself.
DunningIsFair == ThreeStrikes /\ DunningKeepsAccess

\* The overdue sweep locks out only organizations that owe money.
OverdueMeansUnpaid ==
  [][OverdueSweep => \E c \in OverdueInvoices : charge[c].status # "paid"]_vars

-----------------------------------------------------------------------------
(* Liveness.                                                               *)

\* Every renewal the sweep starts ends paid or failed.
RenewalIsDecided ==
  \A c \in ChargeIds :
    charge[c].status \in {"flushed", "pending"} /\ charge[c].kind = "renewal"
      ~> charge[c].status \in {"paid", "failed"}

\* An organization with a card and a renewal ahead does not stay past the end
\* of its period undecided: it is renewed, cancelled or leaves `active', unless
\* its next attempt is beyond the bounds of the run.
Undecided ==
  /\ sub.status = "active" /\ ~sub.comp /\ card # NoCharge
  /\ sub.renewAt # NoTime /\ sub.ends < now
LapseIsDecided == Undecided ~> ~Undecided \/ sub.renewAt > MaxTime \/ Unused = {}

=============================================================================
