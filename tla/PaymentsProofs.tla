---------------------------- MODULE PaymentsProofs ----------------------------
(***************************************************************************)
(* Theorems about the card rail, for every set of users, charges and        *)
(* requests, every period length, every bound, and, unless a theorem says   *)
(* otherwise, every fault and every super-admin operation: type correctness, *)
(* then the inductive invariants of the rail and the safety theorems that    *)
(* rest on them; then money and what it buys: captures, the saved card,      *)
(* seats and days.  These rest on three invariants more: how a charge, its   *)
(* payment at ComGate and the call that is out for it move together; which   *)
(* side of its first payment a subscription is on; and what the largest      *)
(* paid charge covers.                                                     *)
(***************************************************************************)
EXTENDS Payments, BillingProofs, FiniteSetTheorems

(***************************************************************************)
(* Updates of a charge row keep the table well typed.                      *)
(***************************************************************************)
LEMMA StatusType ==
  ASSUME NEW ch \in [ChargeIds -> Charge], NEW c, NEW st \in ChargeStatuses
  PROVE  [ch EXCEPT ![c].status = st] \in [ChargeIds -> Charge]
  BY Zenon DEF Charge

LEMMA StaleType ==
  ASSUME NEW ch \in [ChargeIds -> Charge]
  PROVE  Stale(ch) \in [ChargeIds -> Charge]
<1>1. ASSUME NEW c \in ChargeIds
      PROVE  [ch[c] EXCEPT !.fresh = FALSE] \in Charge
  <2>1. ch[c] \in Charge
    OBVIOUS
  <2> QED BY <2>1, Zenon DEF Charge
<1> QED
  BY <1>1 DEF Stale

LEMMA UnusedChargeType == UnusedCharge \in Charge
<1>1. NoTime \in Timestamp
  BY DEF NoTime, Timestamp
<1> QED
  BY <1>1 DEF UnusedCharge, Charge, ChargeKinds, ChargeStatuses, Plans

LEMMA NewChargeType ==
  ASSUME NEW q \in Request
  PROVE  NewCharge(q) \in Charge
<1>1. /\ q.kind \in ChargeKinds /\ q.plan \in Plans /\ q.seats \in Nat
      /\ q.periodEnd \in Timestamp /\ "pending" \in ChargeStatuses
  BY DEF Request, ChargeStatuses
<1> QED
  BY <1>1, UnusedChargeType, Zenon DEF NewCharge, Row, Charge

LEMMA SettledType ==
  ASSUME charge \in [ChargeIds -> Charge], now \in Nat, NEW c, NEW invoiced \in BOOLEAN
  PROVE  Settled(c, invoiced) \in [ChargeIds -> Charge]
<1> DEFINE due == IF invoiced THEN now + TermLen ELSE NoTime
<1>1. due \in Timestamp /\ "paid" \in ChargeStatuses
  BY BoundsAssumption DEF NoTime, Timestamp, ChargeStatuses
<1>2. [charge EXCEPT ![c].status = "paid", ![c].dueAt = due] \in [ChargeIds -> Charge]
  <2> HIDE DEF due
  <2> QED BY <1>1, Zenon DEF Charge
<1> QED
  BY <1>2 DEF Settled

(***************************************************************************)
(* Type correctness.                                                       *)
(***************************************************************************)
LEMMA NewSubscriptionType ==
  /\ NewSubscription \in Subscription
  /\ \A n \in Nat, p \in Renewable \cup {NoPlan} :
       [NewSubscription EXCEPT !.seats = n, !.pendingPlan = p] \in Subscription
  /\ \A n \in Nat, p \in Renewable :
       [NewSubscription EXCEPT !.seats = n, !.plan = p, !.ends = 0,
                               !.status = "pending_activation"] \in Subscription
<1>1. /\ NoTime \in Timestamp /\ TrialLen \in Timestamp /\ 0 \in Timestamp
      /\ 0 \in Nat /\ 1 \in Nat /\ NoSeats \in Nat /\ {} \in SUBSET Users
  BY BoundsAssumption DEF NoTime, Timestamp, NoSeats
<1>2. /\ "trialing" \in Statuses /\ "pending_activation" \in Statuses
      /\ "trial" \in Plans /\ Renewable \subseteq Plans
      /\ NoPlan \in Renewable \cup {NoPlan} /\ FALSE \in BOOLEAN
  BY DEF Statuses, Plans, Renewable
<1>3. NewSubscription \in Subscription
  BY <1>1, <1>2, Zenon DEF NewSubscription, Subscription
<1> QED
  BY <1>1, <1>2, <1>3, Zenon DEF Subscription

LEMMA TxStepsAre ==
  /\ {"idle", "PAID", "FAILED", "sets_seats"} \subseteq TxSteps
  /\ "mark_paid" \in AdminActions => "marks_paid" \in TxSteps
  BY DEF TxSteps

LEMMA IdleTxType == IdleTx \in Tx
  BY NewSubscriptionType, TxStepsAre DEF IdleTx, Tx

LEMMA InitType == Init => TypeOK
<1> SUFFICES ASSUME Init PROVE TypeOK
  OBVIOUS
<1>0. tx \in [Handlers -> Tx] /\ overtaken \in BOOLEAN
  BY IdleTxType DEF Init
<1>1. now \in Nat /\ req \in [Requests -> Request] /\ sweep \in Sweep
  <2>1. NoTime \in Timestamp
    BY DEF NoTime, Timestamp
  <2>2. IdleRequest \in Request
    BY <2>1 DEF IdleRequest, Request, ChargeKinds, Plans
  <2> QED
    BY <2>2 DEF Init, IdleSweep, Sweep
<1>2. CASE InitTrial
  <2>1. sub \in Subscription
    <3>1. PICK n \in 1 .. MaxSeats, p \in Offered \cup {NoPlan} :
            sub = [NewSubscription EXCEPT !.seats = n, !.pendingPlan = p]
      BY <1>2 DEF InitTrial
    <3>2. n \in Nat /\ p \in Renewable \cup {NoPlan}
      BY BoundsAssumption
    <3> QED
      BY <3>1, <3>2, NewSubscriptionType, Zenon
  <2>2. charge \in [ChargeIds -> Charge]
    BY <1>2, UnusedChargeType DEF InitTrial
  <2>3. active \in SUBSET Users /\ gate \in [ChargeIds -> GateStates]
    BY <1>2, UsersAssumption DEF InitTrial, GateStates
  <2> QED
    BY <1>0, <1>1, <1>2, <2>1, <2>2, <2>3 DEF TypeOK, InitTrial
<1>3. CASE InitSubscriber
  <2>1. PICK first \in ChargeIds, n \in 1 .. MaxSeats, p \in Offered :
          Subscribed(first, n, p)
    BY <1>3 DEF InitSubscriber
  <2>2. n \in Nat /\ p \in Renewable /\ p \in Plans
    BY BoundsAssumption DEF Renewable, Plans
  <2>3. sub \in Subscription
    <3> DEFINE chosen == [NewSubscription EXCEPT !.seats = n, !.plan = p, !.ends = 0,
                                                 !.status = "pending_activation"]
    <3>1. chosen \in Subscription
      BY <2>2, NewSubscriptionType, Zenon
    <3>2. 0 \in Int
      OBVIOUS
    <3>3. sub = ApplyInitialPayment(chosen, 0)
      BY <2>1 DEF Subscribed
    <3> HIDE DEF chosen
    <3> QED BY <3>1, <3>2, <3>3, InitialPaymentType
  <2>4. [UnusedCharge EXCEPT !.status = "paid", !.plan = p, !.seats = n] \in Charge
    <3>1. "paid" \in ChargeStatuses
      BY DEF ChargeStatuses
    <3> QED BY <3>1, <2>2, UnusedChargeType, Zenon DEF Charge
  <2>5. charge \in [ChargeIds -> Charge]
    BY <2>1, <2>4, UnusedChargeType DEF Subscribed
  <2>6. active \in SUBSET Users /\ gate \in [ChargeIds -> GateStates]
    BY <2>1, UsersAssumption DEF Subscribed, GateStates
  <2> QED
    BY <1>0, <1>1, <2>1, <2>3, <2>5, <2>6 DEF Subscribed, TypeOK
<1> QED
  BY <1>2, <1>3 DEF Init

LEMMA RequestStepType ==
  ASSUME TypeOK, NEW r \in Requests, RequestStep(r)
  PROVE  TypeOK'
<1> USE DEF TypeOK
<1>1. /\ NoTime \in Timestamp /\ "trial" \in Plans /\ Renewable \subseteq Plans
      /\ sub.plan \in Plans /\ sub.seats \in Nat /\ sub.ends \in Timestamp
  BY DEF NoTime, Timestamp, Plans, Renewable, Subscription
<1>2. IdleRequest \in Request
  BY <1>1 DEF IdleRequest, Request, ChargeKinds
<1>3. ASSUME NEW p \in Offered, CheckInitial(r, p) PROVE TypeOK'
  <2>1. p \in Plans
    BY <1>1, BoundsAssumption
  <2>2. [IdleRequest EXCEPT !.pc = "checked", !.kind = "initial", !.plan = p,
                            !.seats = sub.seats] \in Request
    <3>1. "initial" \in ChargeKinds
      BY DEF ChargeKinds
    <3> QED BY <1>1, <1>2, <2>1, <3>1, Zenon DEF Request
  <2> QED
    BY <1>3, <2>2 DEF CheckInitial
<1>4. ASSUME NEW n \in 1 .. MaxSeats, CheckSeatChange(r, n) PROVE TypeOK'
  <2>1. [IdleRequest EXCEPT !.pc = "checked", !.kind = "seat_upgrade", !.plan = sub.plan,
                            !.seats = n, !.periodEnd = sub.ends] \in Request
    <3>1. "seat_upgrade" \in ChargeKinds /\ n \in Nat
      BY BoundsAssumption DEF ChargeKinds
    <3> QED BY <1>1, <1>2, <3>1, Zenon DEF Request
  <2> QED
    BY <1>4, <2>1 DEF CheckSeatChange
<1>5. ASSUME NEW c \in ChargeIds, CommitCharge(r, c) PROVE TypeOK'
  <2>1. req[r] \in Request
    OBVIOUS
  <2>2. NewCharge(req[r]) \in Charge
    BY <2>1, NewChargeType
  <2>3. charge' \in [ChargeIds -> Charge]
    BY <1>5, <2>2 DEF CommitCharge
  <2>4. req' \in [Requests -> Request]
    BY <1>5, <2>1, Zenon DEF CommitCharge, Request
  <2> QED
    BY <1>5, <2>3, <2>4 DEF CommitCharge
<1>6. CASE GatewayAccepts(r)
  <2>1. gate' \in [ChargeIds -> GateStates]
    BY <1>6 DEF GatewayAccepts, GateStates
  <2>2. req' \in [Requests -> Request]
    BY <1>6, Zenon DEF GatewayAccepts, Request
  <2> QED
    BY <1>6, <2>1, <2>2 DEF GatewayAccepts
<1>7. CASE RequestReturns(r)
  <2>1. gate' \in [ChargeIds -> GateStates]
    BY <1>7 DEF RequestReturns, GateStates
  <2> QED
    BY <1>2, <1>7, <2>1 DEF RequestReturns
<1>8. CASE RequestFails(r)
  <2>1. "failed" \in ChargeStatuses
    BY DEF ChargeStatuses
  <2>2. charge' \in [ChargeIds -> Charge]
    BY <1>8, <2>1, StatusType DEF RequestFails
  <2> QED
    BY <1>2, <1>8, <2>2 DEF RequestFails
<1>9. CASE RequestCrashes(r)
  BY <1>2, <1>9 DEF RequestCrashes
<1> QED
  BY <1>3, <1>4, <1>5, <1>6, <1>7, <1>8, <1>9 DEF RequestStep

LEMMA SweepStepType ==
  ASSUME TypeOK, SweepStep
  PROVE  TypeOK'
<1> USE DEF TypeOK
<1>1. "lost" \in ChargeStatuses /\ "failed" \in ChargeStatuses /\ "pending" \in ChargeStatuses
  BY DEF ChargeStatuses
<1>2. IdleSweep \in Sweep
  BY DEF IdleSweep, Sweep
<1>3. ASSUME NEW c \in ChargeIds, SweepBegins(c) PROVE TypeOK'
  <2>1. /\ NextPlan(sub) \in Plans /\ NextSeats(sub) \in Nat /\ sub.ends \in Timestamp
        /\ sub.dunning \in Nat
    BY NextPlanType, NextSeatsType DEF Subscription
  <2>2. [UnusedCharge EXCEPT !.kind = "renewal", !.status = "flushed", !.plan = NextPlan(sub),
                             !.seats = NextSeats(sub), !.periodEnd = sub.ends] \in Charge
    <3>1. "renewal" \in ChargeKinds /\ "flushed" \in ChargeStatuses
      BY DEF ChargeKinds, ChargeStatuses
    <3> QED BY <2>1, <3>1, UnusedChargeType, Zenon DEF Charge
  <2>3. charge' \in [ChargeIds -> Charge]
    BY <1>3, <2>2 DEF SweepBegins
  <2>4. sweep' \in Sweep
    BY <1>3, <2>1 DEF SweepBegins, Sweep
  <2> QED
    BY <1>3, <2>3, <2>4 DEF SweepBegins
<1>4. CASE SweepCalls
  <2>1. gate' \in [ChargeIds -> GateStates]
    BY <1>4 DEF SweepCalls, GateStates
  <2>2. sweep' \in Sweep
    BY <1>4, Zenon DEF SweepCalls, Sweep
  <2> QED
    BY <1>4, <2>1, <2>2 DEF SweepCalls
<1>5. CASE SweepCommits
  <2>1. charge' \in [ChargeIds -> Charge]
    BY <1>1, <1>5, StatusType DEF SweepCommits
  <2> QED
    BY <1>2, <1>5, <2>1 DEF SweepCommits
<1>6. CASE SweepFails
  <2>1. charge' \in [ChargeIds -> Charge]
    BY <1>1, <1>6, StatusType DEF SweepFails
  <2>2. sub' \in Subscription
    <3>1. sweep.dunning \in Nat /\ now \in Int
      BY DEF Sweep
    <3> QED BY <1>6, <3>1, RenewalFailedType DEF SweepFails
  <2> QED
    BY <1>2, <1>6, <2>1, <2>2 DEF SweepFails
<1>7. CASE SweepCrashes
  <2>1. charge' \in [ChargeIds -> Charge]
    BY <1>1, <1>7, StatusType DEF SweepCrashes
  <2> QED
    BY <1>2, <1>7, <2>1 DEF SweepCrashes
<1> QED
  BY <1>3, <1>4, <1>5, <1>6, <1>7 DEF SweepStep

(***************************************************************************)
(* The transactions between their read and their commit.                   *)
(***************************************************************************)
LEMMA WithSeatsType ==
  ASSUME NEW s \in Subscription, NEW n \in Nat
  PROVE  WithSeats(s, n) \in Subscription
<1> DEFINE contract == IF SeatsAreFree(s) /\ n > s.contracted THEN n ELSE s.contracted
<1>1. contract \in Nat /\ NoSeats \in Nat /\ {} \in SUBSET Users
  BY DEF Subscription, NoSeats
<1>2. [s EXCEPT !.seats = n, !.contracted = contract, !.pendingSeats = NoSeats, !.victims = {}]
        \in Subscription
  <2> HIDE DEF contract
  <2> QED BY <1>1, Zenon DEF Subscription
<1> QED
  BY <1>2 DEF WithSeats

LEMMA AfterFailureType ==
  ASSUME TypeOK, NEW s \in Subscription, NEW kind
  PROVE  AfterFailure(s, kind) \in Subscription
<1>1. s.dunning \in Nat /\ now \in Int
  BY DEF TypeOK, Subscription
<1> QED
  BY <1>1, RenewalFailedType DEF AfterFailure

LEMMA ReadsType ==
  ASSUME TypeOK, NEW h \in Handlers, NEW step \in TxSteps, NEW c \in ChargeIds \cup {NoCharge},
         NEW n \in Nat, Reads(h, step, c, n)
  PROVE  TypeOK'
<1>1. [pc |-> step, charge |-> c, seats |-> n, read |-> sub] \in Tx
  BY DEF Tx, TypeOK
<1>2. tx' \in [Handlers -> Tx]
  BY <1>1 DEF Reads, TypeOK
<1> QED
  BY <1>2 DEF Reads, TypeOK

LEMMA CommitsType ==
  ASSUME TypeOK, NEW h \in Handlers, NEW wanted \in Subscription, Commits(h, wanted)
  PROVE  sub' \in Subscription /\ tx' \in [Handlers -> Tx] /\ overtaken' \in BOOLEAN
<1>1. tx[h].read \in Subscription
  BY DEF TypeOK, Tx
<1>2. sub' \in Subscription
  BY <1>1, OverwriteType DEF Commits, TypeOK
<1>3. tx' \in [Handlers -> Tx]
  BY IdleTxType DEF Commits, TypeOK
<1>4. overtaken' = (overtaken \/ MissedSeats(tx[h].read, wanted))
  BY DEF Commits
<1>5. overtaken' \in BOOLEAN
  BY <1>4
<1> QED
  BY <1>2, <1>3, <1>5

LEMMA WebhookCommitsType ==
  ASSUME TypeOK, NEW h \in Handlers, WebhookCommits(h), tx[h].charge \in ChargeIds
  PROVE  TypeOK'
<1> USE DEF TypeOK
<1> DEFINE c == tx[h].charge
<1>1. /\ now \in Int /\ "failed" \in ChargeStatuses
      /\ tx[h] \in Tx /\ tx[h].read \in Subscription
      /\ tx[h].read.victims \in SUBSET Users
      /\ seen \cup {c} \in SUBSET ChargeIds
  BY DEF Tx, Subscription, ChargeStatuses
<1>2. CASE WebhookFailed(h)
  <2>1. charge' \in [ChargeIds -> Charge]
    BY <1>1, <1>2, StatusType DEF WebhookFailed
  <2>2. AfterFailure(tx[h].read, charge[c].kind) \in Subscription
    BY <1>1, AfterFailureType
  <2>3. Commits(h, AfterFailure(tx[h].read, charge[c].kind))
    BY <1>2 DEF WebhookFailed
  <2>4. sub' \in Subscription /\ tx' \in [Handlers -> Tx] /\ overtaken' \in BOOLEAN
    BY <2>2, <2>3, CommitsType
  <2> QED
    BY <1>1, <1>2, <2>1, <2>4 DEF WebhookFailed, Acknowledges
<1>3. ASSUME NEW issued \in BOOLEAN, WebhookInitialPaid(h, issued) PROVE TypeOK'
  <2>1. PICK settled \in [ChargeIds -> Charge] :
          charge' = [d \in ChargeIds |->
            IF d \in Siblings(c) THEN [settled[d] EXCEPT !.status = "failed"] ELSE settled[d]]
    <3> DEFINE settled == Settled(c, issued /\ ~(tx[h].read.status = "active"))
    <3>1. settled \in [ChargeIds -> Charge]
      BY SettledType
    <3>2. charge' = [d \in ChargeIds |->
            IF d \in Siblings(c) THEN [settled[d] EXCEPT !.status = "failed"] ELSE settled[d]]
      BY <1>3 DEF WebhookInitialPaid
    <3> HIDE DEF settled
    <3> QED BY <3>1, <3>2
  <2>2. \A d \in ChargeIds : [settled[d] EXCEPT !.status = "failed"] \in Charge
    <3>1. SUFFICES ASSUME NEW d \in ChargeIds
                   PROVE  [settled[d] EXCEPT !.status = "failed"] \in Charge
      OBVIOUS
    <3>2. settled[d] \in Charge
      BY <2>1
    <3> QED BY <1>1, <3>2, Zenon DEF Charge
  <2>3. charge' \in [ChargeIds -> Charge]
    BY <2>1, <2>2
  <2>4. ApplyInitialPayment(tx[h].read, now) \in Subscription
    BY <1>1, InitialPaymentType
  <2>5. Commits(h, ApplyInitialPayment(tx[h].read, now))
    BY <1>3 DEF WebhookInitialPaid
  <2>6. sub' \in Subscription /\ tx' \in [Handlers -> Tx] /\ overtaken' \in BOOLEAN
    BY <2>4, <2>5, CommitsType
  <2> QED
    BY <1>1, <1>3, <2>3, <2>6 DEF WebhookInitialPaid, Acknowledges
<1>4. ASSUME NEW issued \in BOOLEAN, WebhookSeatsPaid(h, issued) PROVE TypeOK'
  <2>1. charge' \in [ChargeIds -> Charge]
    BY <1>4, SettledType DEF WebhookSeatsPaid
  <2>2. ApplySeatCharge(tx[h].read, charge[c].seats) \in Subscription
    <3>1. charge[c].seats \in Nat
      BY DEF Charge
    <3> QED BY <1>1, <3>1, SeatChargeType
  <2>3. Commits(h, ApplySeatCharge(tx[h].read, charge[c].seats))
    BY <1>4 DEF WebhookSeatsPaid
  <2>4. sub' \in Subscription /\ tx' \in [Handlers -> Tx] /\ overtaken' \in BOOLEAN
    BY <2>2, <2>3, CommitsType
  <2> QED
    BY <1>1, <1>4, <2>1, <2>4 DEF WebhookSeatsPaid, Acknowledges
<1>5. ASSUME NEW issued \in BOOLEAN, WebhookRenewalPaid(h, issued) PROVE TypeOK'
  <2>1. charge' \in [ChargeIds -> Charge]
    BY <1>5, SettledType DEF WebhookRenewalPaid
  <2>2. ApplyRenewal(tx[h].read, now) \in Subscription
    BY <1>1, RenewalType
  <2>3. Commits(h, ApplyRenewal(tx[h].read, now))
    BY <1>5 DEF WebhookRenewalPaid
  <2>4. sub' \in Subscription /\ tx' \in [Handlers -> Tx] /\ overtaken' \in BOOLEAN
    BY <2>2, <2>3, CommitsType
  <2> QED
    BY <1>1, <1>5, <2>1, <2>4 DEF WebhookRenewalPaid, Acknowledges
<1> QED
  BY <1>2, <1>3, <1>4, <1>5 DEF WebhookCommits

LEMMA WebhookType ==
  ASSUME TypeOK, NEW c \in ChargeIds, Webhook(c)
  PROVE  TypeOK'
<1>1. CASE WebhookIgnored(c)
  BY <1>1 DEF WebhookIgnored, TypeOK
<1>2. ASSUME NEW h \in Handlers, NEW outcome \in {"PAID", "FAILED"}, WebhookReads(h, c, outcome)
      PROVE  TypeOK'
  <2>1. outcome \in TxSteps /\ Reads(h, outcome, c, 0)
    BY <1>2, TxStepsAre DEF WebhookReads
  <2> QED
    BY <2>1, ReadsType
<1>3. ASSUME NEW h \in Handlers, tx[h].charge = c, WebhookCommits(h) PROVE TypeOK'
  BY <1>3, WebhookCommitsType
<1> QED
  BY <1>1, <1>2, <1>3 DEF Webhook

LEMMA CustomerStepType ==
  ASSUME TypeOK, CustomerStep
  PROVE  TypeOK'
<1> USE DEF TypeOK, Writes
<1>1. /\ now \in Int /\ NoSeats \in Nat /\ {} \in SUBSET Users
      /\ sub.contracted \in Nat /\ Offered \subseteq Renewable
  BY BoundsAssumption DEF NoSeats, Subscription
<1>2. ASSUME NEW p \in Offered, CustomerChoosesPlan(p) PROVE TypeOK'
  BY <1>1, <1>2, ChoosePlanType DEF CustomerChoosesPlan
<1>3. ASSUME NEW p \in Offered, CustomerChangesInterval(p) PROVE TypeOK'
  <2>1. [sub EXCEPT !.pendingPlan = p] \in Subscription
    <3>1. p \in Renewable \cup {NoPlan}
      BY <1>1
    <3> QED BY <3>1, Zenon DEF Subscription
  <2> QED
    BY <1>3, <2>1 DEF CustomerChangesInterval
<1>4. CASE CustomerKeepsSeats
  <2>1. [sub EXCEPT !.pendingSeats = NoSeats, !.victims = {}] \in Subscription
    BY <1>1, Zenon DEF Subscription
  <2> QED
    BY <1>4, <2>1 DEF CustomerKeepsSeats
<1>5. ASSUME NEW h \in Handlers, NEW n \in 1 .. MaxSeats, CustomerReadsSeats(h, n)
      PROVE  TypeOK'
  <2>1. n \in Nat /\ "sets_seats" \in TxSteps /\ Reads(h, "sets_seats", NoCharge, n)
    BY <1>5, BoundsAssumption, TxStepsAre DEF CustomerReadsSeats
  <2> QED
    BY <2>1, ReadsType
<1>9. ASSUME NEW h \in Handlers, CustomerSetsSeats(h) PROVE TypeOK'
  <2>1. tx[h].seats \in Nat /\ tx[h].read \in Subscription
    BY DEF Tx
  <2>2. WithSeats(tx[h].read, tx[h].seats) \in Subscription
    BY <2>1, WithSeatsType
  <2>3. Commits(h, WithSeats(tx[h].read, tx[h].seats))
    BY <1>9 DEF CustomerSetsSeats
  <2>4. sub' \in Subscription /\ tx' \in [Handlers -> Tx] /\ overtaken' \in BOOLEAN
    BY <2>2, <2>3, CommitsType
  <2> QED
    BY <1>9, <2>4 DEF CustomerSetsSeats
<1>6. ASSUME NEW n \in 1 .. MaxSeats, NEW v \in SUBSET Users, CustomerQueuesDownsize(n, v)
      PROVE  TypeOK'
  <2>1. [sub EXCEPT !.pendingSeats = n, !.victims = v] \in Subscription
    <3>1. n \in Nat
      BY BoundsAssumption
    <3> QED BY <3>1, Zenon DEF Subscription
  <2> QED
    BY <1>6, <2>1 DEF CustomerQueuesDownsize
<1>7. CASE CustomerCancels
  BY <1>7, CancelSelfServeType DEF CustomerCancels
<1>8. CASE CustomerReactivates
  BY <1>8, ReactivateType DEF CustomerReactivates
<1> QED
  BY <1>2, <1>3, <1>4, <1>5, <1>6, <1>7, <1>8, <1>9 DEF CustomerStep

LEMMA AdminStepType ==
  ASSUME TypeOK, AdminStep
  PROVE  TypeOK'
<1> USE DEF TypeOK, Writes
<1>1. /\ now \in Int /\ sub.victims \in SUBSET Users
      /\ AnnualLen \in Int /\ MonthLen \in Int /\ NoTime \in Timestamp
  BY PeriodAssumption DEF Subscription, NoTime, Timestamp
<1>2. ASSUME NEW p \in Offered \cup (AdminActions \cap {"enterprise"}), AdminActivates(p)
      PROVE  TypeOK'
  <2>1. p \in Plans /\ PeriodLen(p) \in Int
    BY BoundsAssumption, PeriodLenType DEF Plans, Renewable
  <2> QED
    BY <1>1, <1>2, <2>1, ActivateType DEF AdminActivates
<1>3. ASSUME NEW until \in {NoTime, now + MonthLen}, AdminSetsComp(until) PROVE TypeOK'
  <2>1. until \in Timestamp
    BY <1>1 DEF Timestamp
  <2> QED
    BY <1>1, <1>3, <2>1, SetCompType DEF AdminSetsComp
<1>4. CASE AdminSetsEnterprise
  BY <1>1, <1>4, SetEnterpriseType DEF AdminSetsEnterprise
<1>5. CASE AdminCancels
  BY <1>5, HardCancelType DEF AdminCancels
<1>6. CASE AdminExtendsTrial
  BY <1>6, ExtendTrialType DEF AdminExtendsTrial
<1>7. ASSUME NEW h \in Handlers, NEW c \in ChargeIds, AdminReadsInvoice(h, c) PROVE TypeOK'
  <2>1. "marks_paid" \in TxSteps /\ Reads(h, "marks_paid", c, 0)
    BY <1>7, TxStepsAre DEF AdminReadsInvoice
  <2> QED
    BY <2>1, ReadsType
<1>8. ASSUME NEW h \in Handlers, AdminMarksPaid(h) PROVE TypeOK'
  <2> DEFINE read == tx[h].read
  <2>1. charge' \in [ChargeIds -> Charge]
    <3>1. charge' = [charge EXCEPT ![tx[h].charge].dueAt = NoTime]
      BY <1>8 DEF AdminMarksPaid
    <3> QED BY <1>1, <3>1, Zenon DEF Charge
  <2>2. read \in Subscription
    BY DEF Tx
  <2>3. PICK wanted \in Subscription : Commits(h, wanted)
    <3>1. ApplyManualPayment(read, now) \in Subscription
      BY <1>1, <2>2, ManualPaymentType
    <3> QED BY <1>8, <2>2, <3>1 DEF AdminMarksPaid
  <2>4. sub' \in Subscription /\ tx' \in [Handlers -> Tx] /\ overtaken' \in BOOLEAN
    BY <2>3, CommitsType
  <2>5. active' \in SUBSET Users
    BY <1>8 DEF AdminMarksPaid
  <2> QED
    BY <1>8, <2>1, <2>4, <2>5 DEF AdminMarksPaid
<1> QED
  BY <1>2, <1>3, <1>4, <1>5, <1>6, <1>7, <1>8 DEF AdminStep

LEMMA NextType == TypeOK /\ [Next]_vars => TypeOK'
<1> SUFFICES ASSUME TypeOK, [Next]_vars PROVE TypeOK'
  OBVIOUS
<1>1. CASE Tick
  BY <1>1, StaleType DEF Tick, TypeOK
<1>2. CASE WindowEnds
  BY <1>2, StaleType DEF WindowEnds, TypeOK
<1>3. ASSUME NEW c \in ChargeIds, NEW o \in {"PAID", "FAILED"}, GatewaySettles(c, o)
      PROVE  TypeOK'
  BY <1>3 DEF GatewaySettles, TypeOK, GateStates
<1>4. CASE OverdueSweep
  <2>1. [sub EXCEPT !.status = "past_due"] \in Subscription
    <3>1. "past_due" \in Statuses /\ sub \in Subscription
      BY DEF Statuses, TypeOK
    <3> QED BY <3>1, Zenon DEF Subscription
  <2> QED
    BY <1>4, <2>1 DEF OverdueSweep, TypeOK
<1>5. CASE UNCHANGED vars
  BY <1>5 DEF vars, TypeOK
<1>6. ASSUME NEW h \in Handlers, HandlerCrashes(h) PROVE TypeOK'
  BY <1>6, IdleTxType DEF HandlerCrashes, TypeOK
<1> QED
  BY <1>1, <1>2, <1>3, <1>4, <1>5, <1>6, RequestStepType, SweepStepType, WebhookType,
     CustomerStepType, AdminStepType
  DEF Next

\* Every variable keeps its type: in particular the period dates, the dunning
\* counter and the seat counts that five code paths write without coordination.
THEOREM TypeCorrect == Spec => []TypeOK
  BY InitType, NextType, PTL DEF Spec

-----------------------------------------------------------------------------

(***************************************************************************)
(* What makes the per-period guard of the sweep work although its row is    *)
(* invisible to everyone until the commit: while a sweep is running, its    *)
(* row is the only one that can still join the live renewals, and none of   *)
(* them is for the same period.                                             *)
(***************************************************************************)
Live(c) == charge[c].kind = "renewal" /\ charge[c].status \in {"pending", "paid"}

SweepHolds ==
  sweep.pc # "idle" =>
    /\ sweep.charge \in ChargeIds
    /\ charge[sweep.charge].kind = "renewal"
    /\ charge[sweep.charge].status = "flushed"
    /\ \A c \in ChargeIds : Live(c) => charge[c].periodEnd # charge[sweep.charge].periodEnd

\* A request never holds a renewal, and from the call on its row is committed.
RequestHolds(r) ==
  /\ req[r].pc # "idle" => req[r].kind # "renewal"
  /\ req[r].pc \in {"calling", "called"} =>
       req[r].charge \in Rows /\ charge[req[r].charge].kind # "renewal"

RequestsHold == \A r \in Requests : RequestHolds(r)

OneLivePerPeriod ==
  \A c, d \in ChargeIds :
    Live(c) /\ Live(d) /\ charge[c].periodEnd = charge[d].periodEnd => c = d

\* What a webhook holds is a committed row it has not acknowledged, in nobody else's
\* hands, and still pending, unless its request or another checkout has failed it.
Settling(h) == tx[h].pc \in {"PAID", "FAILED"}

HandlerHolds(h) ==
  Settling(h) =>
    /\ tx[h].charge \in ChargeIds \ seen
    /\ \/ charge[tx[h].charge].status = "pending"
       \/ charge[tx[h].charge].status = "failed" /\ charge[tx[h].charge].kind # "renewal"

HandlersHold ==
  /\ \A h \in Handlers : HandlerHolds(h)
  /\ \A g, h \in Handlers :
       Settling(g) /\ Settling(h) /\ tx[g].charge = tx[h].charge => g = h

IInv ==
  /\ TypeOK
  /\ SweepHolds
  /\ RequestsHold
  /\ HandlersHold
  /\ OneLivePerPeriod
  /\ ReconcilableByRefId

\* The admin who queues a downsize is not among its victims.
OwnerIsSafe ==
  /\ Owner \in active /\ Owner \notin sub.victims
  /\ \A h \in Handlers : Owner \notin tx[h].read.victims

\* Without an early webhook, what was acknowledged is settled for good.
AcknowledgedForGood == \A c \in seen : charge[c].status \in {"paid", "failed", "lost"}

(***************************************************************************)
(* Captures.  A charge is paid only when ComGate captured it.  A call that   *)
(* is out has a charge of its own, which ComGate does not know before the    *)
(* call and cannot capture before the answer: the page of a checkout is      *)
(* hidden from the customer until then.                                     *)
(***************************************************************************)
Holding(r) == req[r].pc \in {"calling", "called"}

UnusedIsUnknown == \A c \in ChargeIds : charge[c].status = "unused" => gate[c] = "none"
PaidIsCaptured  == \A c \in ChargeIds : charge[c].status = "paid" => gate[c] = "PAID"

HoldsApart ==
  \A r, q \in Requests :
    Holding(r) /\ Holding(q) /\ req[r].charge = req[q].charge => r = q

HoldsUncaptured(r) ==
  /\ Holding(r) => charge[req[r].charge].kind = req[r].kind
  /\ req[r].pc = "calling" => gate[req[r].charge] = "none"
  /\ req[r].pc = "called" /\ req[r].kind = "initial" =>
       gate[req[r].charge] \in {"hidden", "FAILED"}

\* What a webhook was told still holds: ComGate settles a payment once.
HandlersConfirmed == \A h \in Handlers : Settling(h) => gate[tx[h].charge] = tx[h].pc

SweepUncaptured == sweep.pc = "calling" => gate[sweep.charge] = "none"

CaptureInv ==
  /\ UnusedIsUnknown
  /\ PaidIsCaptured
  /\ HoldsApart
  /\ \A r \in Requests : HoldsUncaptured(r)
  /\ SweepUncaptured
  /\ HandlersConfirmed

(***************************************************************************)
(* Outside the sweep, a charge row only moves forward: to paid when ComGate *)
(* captured it and a webhook says so; to failed when a webhook says so, when  *)
(* another checkout is paid first, or while a request still holds it.        *)
(***************************************************************************)
CommitsFor(c, outcome) ==
  \E h \in Handlers :
    tx[h].pc = outcome /\ tx[h].charge = c /\ gate[c] = outcome /\ tx'[h].pc = "idle"

HeldBy(c) ==
  \E r \in Requests :
    /\ req[r].charge = c
    /\ \/ req[r].pc = "calling"
       \/ req[r].pc = "called" /\ "timeout" \in Faults

MayFail(c) ==
  /\ c \in Rows
  /\ \/ charge[c].status = "pending" /\ (CommitsFor(c, "FAILED") \/ charge[c].kind = "initial")
     \/ HeldBy(c)

MayBePaid(c) ==
  /\ CommitsFor(c, "PAID")
  /\ \/ charge[c].status = "pending"
     \/ charge[c].status = "failed" /\ charge[c].kind # "renewal"

Kept(c) ==
  /\ charge'[c].kind = charge[c].kind
  /\ charge'[c].seats = charge[c].seats
  /\ charge'[c].periodEnd = charge[c].periodEnd
  /\ \/ charge'[c].status = charge[c].status
     \/ charge'[c].status = "failed" /\ MayFail(c)
     \/ charge'[c].status = "paid" /\ MayBePaid(c)

Inserted(c) ==
  /\ charge[c].status = "unused"
  /\ charge'[c].kind # "renewal" /\ charge'[c].status = "pending"

Evolves == \A c \in ChargeIds : Kept(c) \/ Inserted(c)

LEMMA SameChargesEvolve == charge' = charge => Evolves
  BY DEF Evolves, Kept

LEMMA StaleEvolves ==
  ASSUME TypeOK, charge' = Stale(charge)
  PROVE  Evolves
<1> SUFFICES ASSUME NEW c \in ChargeIds PROVE Kept(c)
  BY DEF Evolves
<1>1. charge'[c] = [charge[c] EXCEPT !.fresh = FALSE] /\ charge[c] \in Charge
  BY DEF Stale, TypeOK
<1> QED
  BY <1>1 DEF Kept, Charge

LEMMA FailingEvolves ==
  ASSUME TypeOK, NEW c \in ChargeIds, MayFail(c) \/ charge[c].status = "failed",
         charge' = [charge EXCEPT ![c].status = "failed"]
  PROVE  Evolves
<1> SUFFICES ASSUME NEW d \in ChargeIds PROVE Kept(d)
  BY DEF Evolves
<1>1. charge[d] \in Charge
  BY DEF TypeOK
<1>2. charge'[d] = IF d = c THEN [charge[d] EXCEPT !.status = "failed"] ELSE charge[d]
  BY DEF TypeOK
<1> QED
  BY <1>1, <1>2 DEF Kept, Charge

LEMMA SettledFields ==
  ASSUME TypeOK, NEW c \in ChargeIds, NEW invoiced \in BOOLEAN, NEW d \in ChargeIds
  PROVE  /\ Settled(c, invoiced)[d] \in Charge
         /\ Settled(c, invoiced)[d].kind = charge[d].kind
         /\ Settled(c, invoiced)[d].seats = charge[d].seats
         /\ Settled(c, invoiced)[d].periodEnd = charge[d].periodEnd
         /\ Settled(c, invoiced)[d].status = IF d = c THEN "paid" ELSE charge[d].status
<1> DEFINE due == IF invoiced THEN now + TermLen ELSE NoTime
<1>1. charge[d] \in Charge
  BY DEF TypeOK
<1>2. Settled(c, invoiced)[d] =
        IF d = c THEN [charge[d] EXCEPT !.status = "paid", !.dueAt = due] ELSE charge[d]
  BY DEF Settled, TypeOK
<1>3. Settled(c, invoiced)[d] \in Charge
  BY SettledType DEF TypeOK
<1> HIDE DEF due
<1> QED
  BY <1>1, <1>2, <1>3 DEF Charge

LEMMA SettledEvolves ==
  ASSUME TypeOK, NEW c \in ChargeIds, MayBePaid(c),
         NEW invoiced \in BOOLEAN, charge' = Settled(c, invoiced)
  PROVE  Evolves
  BY SettledFields DEF Evolves, Kept

LEMMA RequestEvolves ==
  ASSUME IInv, NEW r \in Requests, RequestStep(r)
  PROVE  Evolves
<1> USE DEF IInv
<1>1. ASSUME NEW c \in ChargeIds, CommitCharge(r, c) PROVE Evolves
  <2> SUFFICES ASSUME NEW d \in ChargeIds PROVE Kept(d) \/ Inserted(d)
    BY DEF Evolves
  <2>1. CASE d = c
    <3>1. charge[c].status = "unused" /\ charge'[c] = NewCharge(req[r])
      BY <1>1 DEF CommitCharge, Unused, TypeOK
    <3>2. req[r].kind # "renewal" /\ req[r] \in Request
      BY <1>1 DEF CommitCharge, RequestsHold, RequestHolds, TypeOK
    <3>3. NewCharge(req[r]).kind = req[r].kind /\ NewCharge(req[r]).status = "pending"
      BY DEF NewCharge, Row, UnusedCharge
    <3> QED BY <2>1, <3>1, <3>2, <3>3 DEF Inserted
  <2>2. CASE d # c
    BY <1>1, <2>2 DEF CommitCharge, Kept, TypeOK
  <2> QED BY <2>1, <2>2
<1>2. CASE RequestFails(r)
  <2>1. req[r].charge \in Rows /\ MayFail(req[r].charge)
    BY <1>2 DEF RequestFails, RequestsHold, RequestHolds, MayFail, HeldBy
  <2> QED BY <1>2, <2>1, FailingEvolves DEF RequestFails, Rows
<1>3. CASE \/ \E p \in Offered : CheckInitial(r, p)
           \/ \E n \in 1 .. MaxSeats : CheckSeatChange(r, n)
           \/ GatewayAccepts(r) \/ RequestReturns(r) \/ RequestCrashes(r)
  <2>1. charge' = charge
    BY <1>3 DEF CheckInitial, CheckSeatChange, GatewayAccepts, RequestReturns, RequestCrashes
  <2> QED BY <2>1, SameChargesEvolve
<1> QED
  BY <1>1, <1>2, <1>3 DEF RequestStep

\* What each commit of a webhook does to the charges.
LEMMA CommitsSettle ==
  ASSUME IInv, CaptureInv, NEW h \in Handlers, WebhookCommits(h)
  PROVE  /\ Settling(h) /\ tx[h].charge \in ChargeIds \ seen
         /\ CommitsFor(tx[h].charge, tx[h].pc)
         /\ seen' = seen \cup {tx[h].charge}
         /\ tx' = [tx EXCEPT ![h] = IdleTx]
         /\ now' = now /\ gate' = gate /\ req' = req /\ sweep' = sweep
<1>1. /\ Settling(h) /\ seen' = seen \cup {tx[h].charge} /\ tx' = [tx EXCEPT ![h] = IdleTx]
      /\ now' = now /\ gate' = gate /\ req' = req /\ sweep' = sweep
  BY DEF WebhookCommits, WebhookFailed, WebhookInitialPaid, WebhookSeatsPaid,
         WebhookRenewalPaid, Acknowledges, Commits, Settling
<1>2. tx[h].charge \in ChargeIds \ seen
  BY <1>1 DEF IInv, HandlersHold, HandlerHolds
<1>3. tx'[h].pc = "idle" /\ gate[tx[h].charge] = tx[h].pc
  BY <1>1 DEF IInv, TypeOK, IdleTx, CaptureInv, HandlersConfirmed
<1> QED
  BY <1>1, <1>2, <1>3 DEF CommitsFor

LEMMA WebhookCommitsEvolves ==
  ASSUME IInv, CaptureInv, NEW h \in Handlers, WebhookCommits(h)
  PROVE  Evolves
<1> DEFINE c == tx[h].charge
<1>1. /\ TypeOK /\ c \in ChargeIds
      /\ CommitsFor(c, tx[h].pc)
      /\ \/ charge[c].status = "pending"
         \/ charge[c].status = "failed" /\ charge[c].kind # "renewal"
  BY CommitsSettle DEF IInv, HandlersHold, HandlerHolds
<1>2. tx[h].pc = "PAID" => MayBePaid(c)
  BY <1>1 DEF MayBePaid
<1>3. CASE WebhookFailed(h)
  <2>1. tx[h].pc = "FAILED" /\ charge' = [charge EXCEPT ![c].status = "failed"]
    BY <1>3 DEF WebhookFailed, Acknowledges
  <2>2. MayFail(c) \/ charge[c].status = "failed"
    BY <1>1, <2>1 DEF MayFail, Rows
  <2> HIDE DEF c
  <2> QED BY <1>1, <2>1, <2>2, FailingEvolves
<1>4. ASSUME NEW issued \in BOOLEAN, WebhookInitialPaid(h, issued) PROVE Evolves
  <2> SUFFICES ASSUME NEW d \in ChargeIds PROVE Kept(d)
    BY DEF Evolves
  <2> DEFINE invoiced == issued /\ ~(tx[h].read.status = "active")
             settled  == Settled(c, invoiced)
  <2>1. /\ MayBePaid(c)
        /\ charge'[d] = IF d \in Siblings(c) THEN [settled[d] EXCEPT !.status = "failed"]
                                             ELSE settled[d]
    BY <1>2, <1>4 DEF WebhookInitialPaid, Acknowledges
  <2>2. /\ settled[d] \in Charge /\ settled[d].seats = charge[d].seats
        /\ settled[d].kind = charge[d].kind /\ settled[d].periodEnd = charge[d].periodEnd
        /\ settled[d].status = IF d = c THEN "paid" ELSE charge[d].status
    <3>1. invoiced \in BOOLEAN
      OBVIOUS
    <3> HIDE DEF invoiced, c
    <3> QED BY <1>1, <3>1, SettledFields
  <2>3. d \in Siblings(c) => MayFail(d)
    BY DEF Siblings, Charges, MayFail
  <2> HIDE DEF settled, c
  <2> QED BY <2>1, <2>2, <2>3 DEF Kept, Charge
<1>5. ASSUME NEW issued \in BOOLEAN,
             WebhookSeatsPaid(h, issued) \/ WebhookRenewalPaid(h, issued)
      PROVE  Evolves
  <2> DEFINE invoiced == issued /\ ~tx[h].read.comp
  <2>1. MayBePaid(c) /\ charge' = Settled(c, invoiced)
    BY <1>2, <1>5 DEF WebhookSeatsPaid, WebhookRenewalPaid, Acknowledges
  <2>2. invoiced \in BOOLEAN
    OBVIOUS
  <2> HIDE DEF invoiced, c
  <2> QED BY <1>1, <2>1, <2>2, SettledEvolves
<1> QED
  BY <1>3, <1>4, <1>5 DEF WebhookCommits

LEMMA WebhookEvolves ==
  ASSUME IInv, CaptureInv, NEW c \in ChargeIds, Webhook(c)
  PROVE  Evolves
<1>1. CASE WebhookIgnored(c)
  BY <1>1, SameChargesEvolve DEF WebhookIgnored
<1>2. ASSUME NEW h \in Handlers, NEW o \in {"PAID", "FAILED"}, WebhookReads(h, c, o)
      PROVE  Evolves
  BY <1>2, SameChargesEvolve DEF WebhookReads, Reads
<1>3. ASSUME NEW h \in Handlers, WebhookCommits(h) PROVE Evolves
  BY <1>3, WebhookCommitsEvolves
<1> QED
  BY <1>1, <1>2, <1>3 DEF Webhook

LEMMA AdminEvolves ==
  ASSUME TypeOK, AdminStep
  PROVE  Evolves
<1>1. ASSUME NEW h \in Handlers, AdminMarksPaid(h) PROVE Evolves
  <2> SUFFICES ASSUME NEW d \in ChargeIds PROVE Kept(d)
    BY DEF Evolves
  <2>1. charge[d] \in Charge
    BY DEF TypeOK
  <2>2. charge'[d] = IF d = tx[h].charge THEN [charge[d] EXCEPT !.dueAt = NoTime] ELSE charge[d]
    BY <1>1 DEF AdminMarksPaid, TypeOK
  <2> QED BY <2>1, <2>2 DEF Kept, Charge
<1>2. CASE ~ \E h \in Handlers : AdminMarksPaid(h)
  BY <1>2, SameChargesEvolve
  DEF AdminStep, AdminActivates, AdminSetsComp, AdminSetsEnterprise, AdminCancels,
      AdminExtendsTrial, AdminReadsInvoice, Reads, Writes
<1> QED
  BY <1>1, <1>2

(***************************************************************************)
(* What forward movement preserves.                                        *)
(***************************************************************************)
LEMMA EvolvesKeepsRenewals ==
  ASSUME SweepHolds, OneLivePerPeriod, Evolves, sweep' = sweep
  PROVE  SweepHolds' /\ OneLivePerPeriod'
<1>1. \A c \in ChargeIds : Live(c)' => Live(c) /\ charge'[c].periodEnd = charge[c].periodEnd
  BY DEF Evolves, Kept, Inserted, Live, Rows, MayFail, MayBePaid
<1>2. OneLivePerPeriod'
  BY <1>1 DEF OneLivePerPeriod
<1>3. ASSUME sweep.pc # "idle"
      PROVE  /\ charge'[sweep.charge].kind = "renewal"
             /\ charge'[sweep.charge].status = "flushed"
             /\ charge'[sweep.charge].periodEnd = charge[sweep.charge].periodEnd
  BY <1>3 DEF SweepHolds, Evolves, Kept, Inserted, Rows, MayFail, MayBePaid
<1>4. SweepHolds'
  BY <1>1, <1>3 DEF SweepHolds
<1> QED
  BY <1>2, <1>4

LEMMA EvolvesKeepsRows ==
  ASSUME Evolves, NEW c \in Rows
  PROVE  c \in Rows' /\ charge'[c].kind = charge[c].kind
  BY DEF Evolves, Kept, Inserted, Rows, MayFail

LEMMA EvolvesKeepsRequests ==
  ASSUME RequestsHold, Evolves, req' = req
  PROVE  RequestsHold'
  BY EvolvesKeepsRows DEF RequestsHold, RequestHolds

LEMMA EvolvesKeepsGateway ==
  ASSUME ReconcilableByRefId, Evolves,
         \A c \in ChargeIds : gate'[c] # "none" => gate[c] # "none"
  PROVE  ReconcilableByRefId'
<1> SUFFICES ASSUME NEW c \in ChargeIds, gate'[c] # "none", charge'[c].kind # "renewal"
             PROVE  c \in Rows'
  BY DEF ReconcilableByRefId
<1>1. CASE Kept(c)
  <2>1. c \in Rows
    BY <1>1 DEF Kept, ReconcilableByRefId
  <2> QED BY <2>1, EvolvesKeepsRows
<1>2. CASE Inserted(c)
  BY <1>2 DEF Inserted, Rows
<1> QED
  BY <1>1, <1>2 DEF Evolves

\* Handlers keep what they hold when others move, and when they are done.
LEMMA EvolvesKeepsHandlers ==
  ASSUME RequestsHold, HandlersHold, Evolves,
         \A h \in Handlers : Settling(h)' => tx'[h] = tx[h] /\ tx[h].charge \notin seen'
  PROVE  HandlersHold'
<1>1. ASSUME NEW h \in Handlers, Settling(h)' PROVE HandlerHolds(h)'
  <2> DEFINE c == tx[h].charge
  <2>1. /\ tx'[h] = tx[h] /\ Settling(h) /\ c \in ChargeIds /\ c \notin seen'
        /\ \/ charge[c].status = "pending"
           \/ charge[c].status = "failed" /\ charge[c].kind # "renewal"
    BY <1>1 DEF HandlersHold, HandlerHolds, Settling
  <2>2. \A o \in {"PAID", "FAILED"} : ~ CommitsFor(c, o)
    BY <1>1, <2>1 DEF CommitsFor, HandlersHold, Settling
  <2>3. HeldBy(c) => charge[c].kind # "renewal"
    BY DEF HeldBy, RequestsHold, RequestHolds
  <2>4. Kept(c)
    BY <2>1 DEF Evolves, Inserted
  <2>5. /\ charge'[c].kind = charge[c].kind
        /\ \/ charge'[c].status = charge[c].status
           \/ charge'[c].status = "failed" /\ charge[c].kind # "renewal"
    BY <2>2, <2>3, <2>4 DEF Kept, MayFail, MayBePaid
  <2> QED BY <2>1, <2>5 DEF HandlerHolds
<1>2. \A h \in Handlers : HandlerHolds(h)'
  BY <1>1 DEF HandlerHolds
<1>3. \A g, h \in Handlers :
        Settling(g)' /\ Settling(h)' /\ tx'[g].charge = tx'[h].charge => g = h
  BY DEF HandlersHold, Settling
<1> QED
  BY <1>2, <1>3 DEF HandlersHold

LEMMA SameHandlersKeep ==
  ASSUME RequestsHold, HandlersHold, Evolves, tx' = tx, seen' = seen
  PROVE  HandlersHold'
  BY EvolvesKeepsHandlers DEF HandlersHold, HandlerHolds, Settling

\* A handler that has read, or is done.
LEMMA ReadsKeepHandlers ==
  ASSUME TypeOK, HandlersHold, NEW h \in Handlers, NEW step, NEW c, NEW n, Reads(h, step, c, n),
         step \in {"PAID", "FAILED"} =>
           /\ c \in ChargeIds \ seen /\ ~ InHand(c, {"PAID", "FAILED"})
           /\ charge[c].status = "pending"
  PROVE  HandlersHold'
<1>1. /\ tx'[h].pc = step /\ tx'[h].charge = c
      /\ \A g \in Handlers \ {h} : tx'[g] = tx[g]
      /\ charge' = charge /\ seen' = seen
  BY DEF Reads, TypeOK
<1>2. ASSUME NEW g \in Handlers PROVE HandlerHolds(g)'
  <2>1. CASE g = h
    BY <1>1, <2>1 DEF HandlerHolds, Settling
  <2>2. CASE g # h
    BY <1>1, <2>2 DEF HandlerHolds, HandlersHold, Settling
  <2> QED BY <2>1, <2>2
<1>3. \A f, g \in Handlers :
        Settling(f)' /\ Settling(g)' /\ tx'[f].charge = tx'[g].charge => f = g
  BY <1>1 DEF HandlersHold, Settling, InHand
<1> QED
  BY <1>2, <1>3 DEF HandlersHold

LEMMA DoneKeepsHandlers ==
  ASSUME TypeOK, RequestsHold, HandlersHold, Evolves, NEW h \in Handlers,
         tx' = [tx EXCEPT ![h] = IdleTx],
         seen' = seen \/ (Settling(h) /\ seen' = seen \cup {tx[h].charge})
  PROVE  HandlersHold'
<1>1. tx'[h].pc = "idle" /\ \A g \in Handlers \ {h} : tx'[g] = tx[g]
  BY DEF TypeOK, IdleTx
<1>2. ASSUME NEW g \in Handlers, Settling(g)'
      PROVE  tx'[g] = tx[g] /\ tx[g].charge \notin seen'
  <2>1. g # h /\ tx'[g] = tx[g]
    BY <1>1, <1>2 DEF Settling
  <2>2. Settling(g)
    BY <1>2, <2>1 DEF Settling
  <2>3. tx[g].charge \notin seen
    BY <2>2 DEF HandlersHold, HandlerHolds
  <2>4. Settling(h) => tx[g].charge # tx[h].charge
    BY <2>1, <2>2 DEF HandlersHold
  <2> QED BY <2>1, <2>3, <2>4
<1> QED
  BY <1>2, EvolvesKeepsHandlers

(***************************************************************************)
(* The invariant, step by step.                                            *)
(***************************************************************************)
LEMMA InitIInv == Init => IInv
<1> SUFFICES ASSUME Init PROVE IInv
  OBVIOUS
<1>1. TypeOK
  BY InitType
<1>2. SweepHolds /\ RequestsHold /\ HandlersHold
  BY DEF Init, SweepHolds, RequestsHold, RequestHolds, IdleSweep, IdleRequest,
         HandlersHold, HandlerHolds, Settling, IdleTx
<1>3. \A c \in ChargeIds :
        charge[c].kind = "initial" /\ (gate[c] # "none" => charge[c].status = "paid")
  <2>1. CASE InitTrial
    BY <2>1 DEF InitTrial, UnusedCharge
  <2>2. CASE InitSubscriber
    <3>1. PICK first \in ChargeIds, n \in 1 .. MaxSeats, p \in Offered :
            Subscribed(first, n, p)
      BY <2>2 DEF InitSubscriber
    <3> QED BY <3>1 DEF Subscribed, UnusedCharge
  <2> QED BY <2>1, <2>2 DEF Init
<1>4. OneLivePerPeriod
  BY <1>3 DEF OneLivePerPeriod, Live
<1>5. ReconcilableByRefId
  BY <1>3 DEF ReconcilableByRefId, Rows
<1> QED
  BY <1>1, <1>2, <1>4, <1>5 DEF IInv

LEMMA RequestKeepsIInv ==
  ASSUME IInv, NEW r \in Requests, RequestStep(r)
  PROVE  IInv'
<1> USE DEF IInv
<1>1. TypeOK' /\ Evolves
  BY RequestStepType, RequestEvolves
<1>2. sweep' = sweep /\ tx' = tx /\ seen' = seen
  BY DEF RequestStep, CheckInitial, CheckSeatChange, CommitCharge, GatewayAccepts,
         RequestReturns, RequestFails, RequestCrashes
<1>3. SweepHolds' /\ OneLivePerPeriod' /\ HandlersHold'
  BY <1>1, <1>2, EvolvesKeepsRenewals, SameHandlersKeep
<1>4. \A q \in Requests \ {r} : req'[q] = req[q]
  BY DEF RequestStep, CheckInitial, CheckSeatChange, CommitCharge, GatewayAccepts,
         RequestReturns, RequestFails, RequestCrashes, TypeOK
<1>5. RequestHolds(r)'
  <2>0. req[r] \in Request
    BY DEF TypeOK
  <2>1. ASSUME NEW p \in Offered, CheckInitial(r, p) PROVE RequestHolds(r)'
    <3>1. req'[r].pc = "checked" /\ req'[r].kind = "initial"
      BY <2>1 DEF CheckInitial, IdleRequest, TypeOK
    <3> QED BY <3>1 DEF RequestHolds
  <2>2. ASSUME NEW n \in 1 .. MaxSeats, CheckSeatChange(r, n) PROVE RequestHolds(r)'
    <3>1. req'[r].pc = "checked" /\ req'[r].kind = "seat_upgrade"
      BY <2>2 DEF CheckSeatChange, IdleRequest, TypeOK
    <3> QED BY <3>1 DEF RequestHolds
  <2>3. ASSUME NEW c \in ChargeIds, CommitCharge(r, c) PROVE RequestHolds(r)'
    <3>1. req[r].kind # "renewal"
      BY <2>3 DEF CommitCharge, RequestsHold, RequestHolds
    <3>2. req'[r].charge = c /\ req'[r].kind = req[r].kind
      BY <2>0, <2>3 DEF CommitCharge, TypeOK, Request
    <3>3. charge'[c].kind = req[r].kind /\ charge'[c].status = "pending"
      BY <2>3 DEF CommitCharge, TypeOK, NewCharge, Row, UnusedCharge
    <3> QED BY <3>1, <3>2, <3>3 DEF RequestHolds, Rows
  <2>4. CASE GatewayAccepts(r)
    <3>1. req[r].pc = "calling" /\ req'[r].kind = req[r].kind /\ req'[r].charge = req[r].charge
      BY <2>0, <2>4 DEF GatewayAccepts, TypeOK, Request
    <3>2. charge' = charge
      BY <2>4 DEF GatewayAccepts
    <3> QED BY <3>1, <3>2 DEF RequestsHold, RequestHolds, Rows
  <2>5. CASE RequestReturns(r) \/ RequestFails(r) \/ RequestCrashes(r)
    <3>1. req'[r].pc = "idle"
      BY <2>5 DEF RequestReturns, RequestFails, RequestCrashes, IdleRequest, TypeOK
    <3> QED BY <3>1 DEF RequestHolds
  <2> QED
    BY <2>1, <2>2, <2>3, <2>4, <2>5 DEF RequestStep
<1>6. RequestsHold'
  <2> SUFFICES ASSUME NEW q \in Requests
               PROVE  RequestHolds(q)'
    BY DEF RequestsHold
  <2>1. CASE q = r
    BY <1>5, <2>1
  <2>2. CASE q # r
    BY <1>1, <1>4, <2>2, EvolvesKeepsRows DEF RequestsHold, RequestHolds
  <2> QED BY <2>1, <2>2
<1>7. ReconcilableByRefId'
  <2>1. CASE GatewayAccepts(r)
    <3>1. req[r].charge \in Rows
      BY <2>1 DEF GatewayAccepts, RequestsHold, RequestHolds
    <3>2. \A c \in ChargeIds : c # req[r].charge => gate'[c] = gate[c]
      BY <2>1 DEF GatewayAccepts, TypeOK
    <3>3. charge' = charge
      BY <2>1 DEF GatewayAccepts
    <3> QED BY <3>1, <3>2, <3>3 DEF ReconcilableByRefId, Rows
  <2>2. CASE RequestReturns(r)
    <3>1. \A c \in ChargeIds : gate'[c] # "none" => gate[c] # "none"
      BY <2>2 DEF RequestReturns, TypeOK
    <3> QED BY <1>1, <3>1, EvolvesKeepsGateway
  <2>3. CASE ~ GatewayAccepts(r) /\ ~ RequestReturns(r)
    <3>1. gate' = gate
      BY <2>3 DEF RequestStep, CheckInitial, CheckSeatChange, CommitCharge, RequestFails,
                  RequestCrashes
    <3> QED BY <1>1, <3>1, EvolvesKeepsGateway
  <2> QED BY <2>1, <2>2, <2>3
<1> QED
  BY <1>1, <1>3, <1>6, <1>7

LEMMA SameRowsKeepHandlers ==
  ASSUME HandlersHold, tx' = tx, seen' = seen, \A d \in Rows : charge'[d] = charge[d]
  PROVE  HandlersHold'
  BY DEF HandlersHold, HandlerHolds, Settling, Rows

LEMMA SweepKeepsIInv ==
  ASSUME IInv, SweepStep
  PROVE  IInv'
<1> USE DEF IInv
<1>1. TypeOK'
  BY SweepStepType
<1>0. tx' = tx /\ seen' = seen
  BY DEF SweepStep, SweepBegins, SweepCalls, SweepCommits, SweepFails, SweepCrashes
<1>2. ASSUME NEW c \in ChargeIds, SweepBegins(c) PROVE IInv'
  <2>1. /\ sweep.pc = "idle" /\ sweep'.charge = c
        /\ charge[c].status = "unused"
        /\ charge'[c].kind = "renewal" /\ charge'[c].status = "flushed"
        /\ charge'[c].periodEnd = sub.ends
    BY <1>2 DEF SweepBegins, Unused, UnusedCharge, TypeOK
  <2>2. \A d \in ChargeIds : d # c => charge'[d] = charge[d]
    BY <1>2 DEF SweepBegins, TypeOK
  <2>3. \A d \in ChargeIds : Live(d)' => Live(d) /\ charge[d].periodEnd # sub.ends
    <3>1. \A d \in ChargeIds : Live(d) => charge[d].periodEnd # sub.ends
      BY <1>2 DEF SweepBegins, RenewalDue, AlreadyChargedThisPeriod, ChargedThisPeriod,
                  Charges, Rows, Live
    <3> QED BY <2>1, <2>2, <3>1 DEF Live
  <2>4. SweepHolds'
    BY <2>1, <2>2, <2>3 DEF SweepHolds, Live
  <2>5. OneLivePerPeriod'
    BY <2>1, <2>2, <2>3 DEF OneLivePerPeriod, Live
  <2>6. \A d \in Rows : d \in Rows' /\ charge'[d] = charge[d]
    BY <2>1, <2>2 DEF Rows
  <2>7. RequestsHold'
    BY <1>2, <2>6 DEF SweepBegins, RequestsHold, RequestHolds
  <2>8. ReconcilableByRefId'
    BY <1>2, <2>1, <2>2, <2>6 DEF SweepBegins, ReconcilableByRefId
  <2>9. HandlersHold'
    BY <1>0, <2>6, SameRowsKeepHandlers
  <2> QED BY <1>1, <2>4, <2>5, <2>7, <2>8, <2>9
<1>3. CASE SweepCalls
  <2>1. charge' = charge /\ req' = req /\ sweep.pc # "idle" /\ sweep'.charge = sweep.charge
    BY <1>3 DEF SweepCalls, TypeOK, Sweep
  <2>2. \A c \in ChargeIds : c # sweep.charge => gate'[c] = gate[c]
    BY <1>3 DEF SweepCalls, TypeOK
  <2>3. SweepHolds' /\ OneLivePerPeriod'
    BY <2>1 DEF SweepHolds, OneLivePerPeriod, Live
  <2>4. RequestsHold'
    BY <2>1 DEF RequestsHold, RequestHolds, Rows
  <2>5. ReconcilableByRefId'
    BY <2>1, <2>2 DEF SweepHolds, ReconcilableByRefId, Rows
  <2>6. HandlersHold'
    BY <1>0, <2>1, SameRowsKeepHandlers
  <2> QED BY <1>1, <2>3, <2>4, <2>5, <2>6
<1>4. ASSUME NEW st \in {"pending", "failed", "lost"}, sweep.pc # "idle",
             charge' = [charge EXCEPT ![sweep.charge].status = st],
             sweep' = IdleSweep, gate' = gate, req' = req
      PROVE  IInv'
  <2> DEFINE s == sweep.charge
  <2>1. /\ s \in ChargeIds /\ charge[s].kind = "renewal" /\ charge[s].status = "flushed"
        /\ \A d \in ChargeIds : Live(d) => charge[d].periodEnd # charge[s].periodEnd
    BY <1>4 DEF SweepHolds
  <2>2. charge[s] \in Charge
    BY <2>1 DEF TypeOK
  <2>3. /\ charge'[s].kind = "renewal" /\ charge'[s].status = st
        /\ charge'[s].periodEnd = charge[s].periodEnd
        /\ \A d \in ChargeIds : d # s => charge'[d] = charge[d]
    BY <1>4, <2>1, <2>2 DEF TypeOK, Charge
  <2>4. SweepHolds'
    BY <1>4 DEF SweepHolds, IdleSweep
  <2>5. OneLivePerPeriod'
    BY <2>1, <2>3 DEF OneLivePerPeriod, Live
  <2>6. \A d \in Rows : d \in Rows' /\ charge'[d] = charge[d]
    BY <2>1, <2>3 DEF Rows
  <2>7. RequestsHold'
    BY <1>4, <2>6 DEF RequestsHold, RequestHolds
  <2>8. ReconcilableByRefId'
    BY <1>4, <2>1, <2>3, <2>6 DEF ReconcilableByRefId
  <2>9. HandlersHold'
    BY <1>0, <2>6, SameRowsKeepHandlers
  <2> QED BY <1>1, <2>4, <2>5, <2>7, <2>8, <2>9
<1>5. CASE SweepCommits
  BY <1>4, <1>5 DEF SweepCommits
<1>6. CASE SweepFails
  BY <1>4, <1>6 DEF SweepFails
<1>7. CASE SweepCrashes
  BY <1>4, <1>7 DEF SweepCrashes
<1> QED
  BY <1>2, <1>3, <1>5, <1>6, <1>7 DEF SweepStep

\* What the other actors leave alone.
LEMMA WebhookFrame ==
  ASSUME NEW c \in ChargeIds, Webhook(c)
  PROVE  now' = now /\ gate' = gate /\ req' = req /\ sweep' = sweep
  BY DEF Webhook, WebhookIgnored, WebhookReads, Reads, WebhookCommits, WebhookFailed,
         WebhookInitialPaid, WebhookSeatsPaid, WebhookRenewalPaid

LEMMA CustomerFrame ==
  ASSUME CustomerStep
  PROVE  /\ now' = now /\ charge' = charge /\ gate' = gate /\ seen' = seen /\ card' = card
         /\ req' = req /\ sweep' = sweep
         /\ \/ tx' = tx /\ overtaken' = overtaken
            \/ \E h \in Handlers, n \in 1 .. MaxSeats : CustomerReadsSeats(h, n)
            \/ \E h \in Handlers : CustomerSetsSeats(h)
  BY DEF CustomerStep, CustomerChoosesPlan, CustomerChangesInterval, CustomerKeepsSeats,
         CustomerSetsSeats, CustomerReadsSeats, Reads, CustomerQueuesDownsize, CustomerCancels,
         CustomerReactivates, Writes

LEMMA AdminFrame ==
  ASSUME AdminStep
  PROVE  /\ now' = now /\ gate' = gate /\ seen' = seen /\ card' = card
         /\ req' = req /\ sweep' = sweep
         /\ \/ tx' = tx /\ overtaken' = overtaken /\ charge' = charge
            \/ \E h \in Handlers, c \in ChargeIds : AdminReadsInvoice(h, c)
            \/ \E h \in Handlers : AdminMarksPaid(h)
<1>1. CASE \/ \E p \in Offered \cup (AdminActions \cap {"enterprise"}) : AdminActivates(p)
           \/ \E until \in {NoTime, now + MonthLen} : AdminSetsComp(until)
           \/ AdminSetsEnterprise \/ AdminCancels \/ AdminExtendsTrial
  BY <1>1 DEF AdminActivates, AdminSetsComp, AdminSetsEnterprise, AdminCancels,
              AdminExtendsTrial, Writes
<1>2. ASSUME NEW h \in Handlers, AdminMarksPaid(h)
      PROVE  now' = now /\ gate' = gate /\ seen' = seen /\ card' = card
             /\ req' = req /\ sweep' = sweep
  BY <1>2 DEF AdminMarksPaid
<1>3. ASSUME NEW h \in Handlers, NEW c \in ChargeIds, AdminReadsInvoice(h, c)
      PROVE  now' = now /\ gate' = gate /\ seen' = seen /\ card' = card
             /\ req' = req /\ sweep' = sweep
  BY <1>3 DEF AdminReadsInvoice, Reads
<1> QED
  BY <1>1, <1>2, <1>3 DEF AdminStep

\* Steps that touch neither the sweep nor a request and only settle payments.
LEMMA OtherKeepsIInv ==
  ASSUME IInv, TypeOK', Evolves, HandlersHold', sweep' = sweep, req' = req,
         \A c \in ChargeIds : gate'[c] # "none" => gate[c] # "none"
  PROVE  IInv'
  BY EvolvesKeepsRenewals, EvolvesKeepsRequests, EvolvesKeepsGateway DEF IInv

LEMMA QuietKeepsIInv ==
  ASSUME IInv, TypeOK', Evolves, tx' = tx, seen' = seen, sweep' = sweep, req' = req,
         \A c \in ChargeIds : gate'[c] # "none" => gate[c] # "none"
  PROVE  IInv'
  BY SameHandlersKeep, OtherKeepsIInv DEF IInv

LEMMA WebhookKeepsHandlers ==
  ASSUME IInv, CaptureInv, NEW c \in ChargeIds, Webhook(c)
  PROVE  HandlersHold'
<1> USE DEF IInv
<1>1. CASE WebhookIgnored(c)
  <2>1. \A h \in Handlers : Settling(h) => tx[h].charge # c
    BY <1>1 DEF WebhookIgnored, Delivered, InHand, Settling
  <2>2. tx' = tx /\ charge' = charge /\ seen' = seen \cup {c}
    BY <1>1 DEF WebhookIgnored
  <2> QED BY <2>1, <2>2 DEF HandlersHold, HandlerHolds, Settling
<1>2. ASSUME NEW h \in Handlers, NEW o \in {"PAID", "FAILED"}, WebhookReads(h, c, o)
      PROVE  HandlersHold'
  <2>1. /\ Reads(h, o, c, 0) /\ c \in ChargeIds \ seen /\ ~ InHand(c, {"PAID", "FAILED"})
        /\ charge[c].status = "pending"
    BY <1>2 DEF WebhookReads, Confirmed, Delivered
  <2> QED BY <2>1, ReadsKeepHandlers
<1>3. ASSUME NEW h \in Handlers, WebhookCommits(h) PROVE HandlersHold'
  BY <1>3, CommitsSettle, WebhookCommitsEvolves, DoneKeepsHandlers
<1> QED
  BY <1>1, <1>2, <1>3 DEF Webhook

LEMMA NextIInv == IInv /\ CaptureInv /\ [Next]_vars => IInv'
<1> SUFFICES ASSUME IInv, CaptureInv, [Next]_vars PROVE IInv'
  OBVIOUS
<1>0. TypeOK /\ TypeOK' /\ RequestsHold /\ HandlersHold
  BY NextType DEF IInv
<1>1. CASE Tick
  BY <1>0, <1>1, StaleEvolves, QuietKeepsIInv DEF Tick
<1>2. CASE WindowEnds
  BY <1>0, <1>2, StaleEvolves, QuietKeepsIInv DEF WindowEnds
<1>3. ASSUME NEW c \in ChargeIds, NEW o \in {"PAID", "FAILED"}, GatewaySettles(c, o)
      PROVE  IInv'
  <2>1. \A d \in ChargeIds : gate'[d] # "none" => gate[d] # "none"
    BY <1>0, <1>3 DEF GatewaySettles, TypeOK
  <2> QED
    BY <1>0, <1>3, <2>1, SameChargesEvolve, QuietKeepsIInv DEF GatewaySettles
<1>4. ASSUME NEW c \in ChargeIds, Webhook(c) PROVE IInv'
  BY <1>0, <1>4, WebhookFrame, WebhookEvolves, WebhookKeepsHandlers, OtherKeepsIInv
<1>5. CASE OverdueSweep
  BY <1>0, <1>5, SameChargesEvolve, QuietKeepsIInv DEF OverdueSweep
<1>6. CASE CustomerStep
  <2>0. /\ charge' = charge /\ gate' = gate /\ seen' = seen /\ req' = req /\ sweep' = sweep
        /\ Evolves
    BY <1>6, CustomerFrame, SameChargesEvolve
  <2>1. CASE tx' = tx
    BY <1>0, <2>0, <2>1, QuietKeepsIInv
  <2>2. ASSUME NEW h \in Handlers, NEW n \in 1 .. MaxSeats, CustomerReadsSeats(h, n)
        PROVE  IInv'
    <3>1. Reads(h, "sets_seats", NoCharge, n)
      BY <2>2 DEF CustomerReadsSeats
    <3>2. HandlersHold'
      BY <1>0, <3>1, ReadsKeepHandlers
    <3> QED BY <1>0, <2>0, <3>2, OtherKeepsIInv
  <2>3. ASSUME NEW h \in Handlers, CustomerSetsSeats(h) PROVE IInv'
    <3>1. tx' = [tx EXCEPT ![h] = IdleTx]
      BY <2>3 DEF CustomerSetsSeats, Commits
    <3>2. HandlersHold'
      BY <1>0, <2>0, <3>1, DoneKeepsHandlers
    <3> QED BY <1>0, <2>0, <3>2, OtherKeepsIInv
  <2> QED BY <1>6, <2>1, <2>2, <2>3, CustomerFrame
<1>7. CASE AdminStep
  <2>0. /\ gate' = gate /\ seen' = seen /\ req' = req /\ sweep' = sweep
        /\ Evolves
    BY <1>0, <1>7, AdminFrame, AdminEvolves
  <2>1. CASE tx' = tx
    BY <1>0, <2>0, <2>1, QuietKeepsIInv
  <2>2. ASSUME NEW h \in Handlers, NEW c \in ChargeIds, AdminReadsInvoice(h, c) PROVE IInv'
    <3>1. Reads(h, "marks_paid", c, 0)
      BY <2>2 DEF AdminReadsInvoice
    <3>2. HandlersHold'
      BY <1>0, <3>1, ReadsKeepHandlers
    <3> QED BY <1>0, <2>0, <3>2, OtherKeepsIInv
  <2>3. ASSUME NEW h \in Handlers, AdminMarksPaid(h) PROVE IInv'
    <3>1. tx' = [tx EXCEPT ![h] = IdleTx]
      BY <2>3 DEF AdminMarksPaid, Commits
    <3>2. HandlersHold'
      BY <1>0, <2>0, <3>1, DoneKeepsHandlers
    <3> QED BY <1>0, <2>0, <3>2, OtherKeepsIInv
  <2> QED BY <1>7, <2>1, <2>2, <2>3, AdminFrame
<1>8. CASE UNCHANGED vars
  BY <1>0, <1>8, SameChargesEvolve, QuietKeepsIInv DEF vars
<1>9. ASSUME NEW h \in Handlers, HandlerCrashes(h) PROVE IInv'
  <2>1. /\ tx' = [tx EXCEPT ![h] = IdleTx] /\ charge' = charge /\ gate' = gate
        /\ seen' = seen /\ req' = req /\ sweep' = sweep
    BY <1>9 DEF HandlerCrashes
  <2>2. HandlersHold' /\ Evolves
    BY <1>0, <2>1, DoneKeepsHandlers, SameChargesEvolve
  <2> QED BY <1>0, <2>1, <2>2, OtherKeepsIInv
<1> QED
  BY <1>1, <1>2, <1>3, <1>4, <1>5, <1>6, <1>7, <1>8, <1>9, RequestKeepsIInv, SweepKeepsIInv
  DEF Next

LEMMA InitCaptureInv == Init => CaptureInv
<1> SUFFICES ASSUME Init PROVE CaptureInv
  OBVIOUS
<1>1. \A r \in Requests : req[r].pc = "idle"
  BY DEF Init, IdleRequest
<1>2. sweep.pc = "idle" /\ \A h \in Handlers : ~ Settling(h)
  BY DEF Init, IdleSweep, IdleTx, Settling
<1>3. \A c \in ChargeIds :
        \/ charge[c].status = "unused" /\ gate[c] = "none"
        \/ charge[c].status = "paid" /\ gate[c] = "PAID"
  <2>1. CASE InitTrial
    BY <2>1 DEF InitTrial, UnusedCharge
  <2>2. CASE InitSubscriber
    <3>1. PICK first \in ChargeIds, n \in 1 .. MaxSeats, p \in Offered :
            Subscribed(first, n, p)
      BY <2>2 DEF InitSubscriber
    <3> QED BY <3>1 DEF Subscribed, UnusedCharge
  <2> QED BY <2>1, <2>2 DEF Init
<1> QED
  BY <1>1, <1>2, <1>3
  DEF CaptureInv, UnusedIsUnknown, PaidIsCaptured, HoldsApart, HoldsUncaptured, Holding,
      SweepUncaptured, HandlersConfirmed

\* What a step of anyone does to a charge row.
Moves(c) ==
  /\ charge[c].status # "unused" =>
       charge'[c].status # "unused" /\ charge'[c].kind = charge[c].kind
                                   /\ charge'[c].seats = charge[c].seats
  /\ charge'[c].status = "unused" => charge[c].status = "unused"
  /\ charge'[c].status = "paid" =>
       charge[c].status = "paid" \/ (gate[c] = "PAID" /\ CommitsFor(c, "PAID"))
  /\ charge[c].status = "paid" => charge'[c].status = "paid" \/ HeldBy(c)
  /\ charge[c].status = "failed" /\ charge[c].kind = "renewal" => charge'[c].status = "failed"

LEMMA EvolvesMoves ==
  ASSUME Evolves, NEW c \in ChargeIds
  PROVE  Moves(c)
  BY DEF Evolves, Kept, Inserted, Moves, MayFail, MayBePaid, CommitsFor, Rows

LEMMA SweepMoves ==
  ASSUME IInv, SweepStep, NEW c \in ChargeIds
  PROVE  Moves(c)
<1>1. TypeOK /\ charge[c] \in Charge
  BY DEF IInv, TypeOK
<1>2. ASSUME NEW d \in ChargeIds, SweepBegins(d) PROVE Moves(c)
  <2>1. /\ charge[d].status = "unused"
        /\ charge'[c] = IF c = d THEN [UnusedCharge EXCEPT
                  !.kind = "renewal", !.status = "flushed", !.plan = NextPlan(sub),
                  !.seats = NextSeats(sub), !.periodEnd = sub.ends] ELSE charge[c]
    BY <1>1, <1>2 DEF SweepBegins, Unused, TypeOK
  <2> QED BY <2>1 DEF Moves, UnusedCharge
<1>3. CASE SweepCalls
  BY <1>3 DEF SweepCalls, Moves
<1>4. ASSUME NEW st \in {"pending", "failed", "lost"}, sweep.pc # "idle",
             charge' = [charge EXCEPT ![sweep.charge].status = st]
      PROVE  Moves(c)
  <2>1. sweep.charge \in ChargeIds /\ charge[sweep.charge].status = "flushed"
    BY <1>4 DEF IInv, SweepHolds
  <2>2. charge'[c] = IF c = sweep.charge THEN [charge[c] EXCEPT !.status = st] ELSE charge[c]
    BY <1>1, <1>4 DEF TypeOK
  <2> QED BY <1>1, <2>1, <2>2 DEF Moves, Charge
<1>5. CASE SweepCommits \/ SweepFails \/ SweepCrashes
  BY <1>4, <1>5 DEF SweepCommits, SweepFails, SweepCrashes
<1> QED
  BY <1>2, <1>3, <1>5 DEF SweepStep

\* A step either is the sweep's or moves the charges forward.
LEMMA NextEvolves ==
  ASSUME IInv, CaptureInv, [Next]_vars
  PROVE  SweepStep \/ Evolves
<1>0. TypeOK
  BY DEF IInv
<1>1. CASE Tick \/ WindowEnds
  BY <1>0, <1>1, StaleEvolves DEF Tick, WindowEnds
<1>2. CASE \E r \in Requests : RequestStep(r)
  BY <1>2, RequestEvolves
<1>3. CASE \E c \in ChargeIds : Webhook(c)
  BY <1>3, WebhookEvolves
<1>4. CASE AdminStep
  BY <1>0, <1>4, AdminEvolves
<1>5. CASE \/ \E c \in ChargeIds, o \in {"PAID", "FAILED"} : GatewaySettles(c, o)
           \/ OverdueSweep \/ CustomerStep \/ UNCHANGED vars
           \/ \E h \in Handlers : HandlerCrashes(h)
  <2>1. charge' = charge
    BY <1>5, CustomerFrame DEF GatewaySettles, OverdueSweep, HandlerCrashes, vars
  <2> QED BY <2>1, SameChargesEvolve
<1> QED
  BY <1>1, <1>2, <1>3, <1>4, <1>5 DEF Next

LEMMA NextMoves ==
  ASSUME IInv, CaptureInv, [Next]_vars, NEW c \in ChargeIds
  PROVE  Moves(c)
  BY NextEvolves, EvolvesMoves, SweepMoves

\* What a step of ComGate's own does to a payment.
Settles(c) ==
  \/ gate'[c] = gate[c]
  \/ gate[c] = "open"
  \/ gate[c] = "hidden" /\ gate'[c] = "FAILED"

LEMMA OthersKeepCaptures ==
  ASSUME IInv, CaptureInv, \A c \in ChargeIds : Moves(c) /\ Settles(c),
         HandlersConfirmed', req' = req, sweep' = sweep, charge' = charge \/ gate' = gate
  PROVE  CaptureInv'
<1> USE DEF CaptureInv
<1>1. UnusedIsUnknown'
  BY DEF UnusedIsUnknown, Moves, Settles
<1>2. PaidIsCaptured'
  BY DEF PaidIsCaptured, Moves, Settles
<1>3. HoldsApart'
  BY DEF HoldsApart, Holding
<1>4. ASSUME NEW r \in Requests PROVE HoldsUncaptured(r)'
  <2>1. Holding(r) => req[r].charge \in ChargeIds /\ charge[req[r].charge].status # "unused"
    BY DEF IInv, RequestsHold, RequestHolds, Holding, Rows
  <2> QED BY <2>1 DEF HoldsUncaptured, Holding, Moves, Settles
<1>5. SweepUncaptured'
  BY DEF SweepUncaptured, IInv, SweepHolds, Settles
<1> QED
  BY <1>1, <1>2, <1>3, <1>4, <1>5

LEMMA RequestKeepsCaptures ==
  ASSUME IInv, CaptureInv, NEW r \in Requests, RequestStep(r)
  PROVE  CaptureInv'
<1> USE DEF CaptureInv
<1> DEFINE h == req[r].charge
<1>1. TypeOK /\ req[r] \in Request
  BY DEF IInv, TypeOK
<1>2. \A c \in ChargeIds : Moves(c)
  BY RequestEvolves, EvolvesMoves
<1>3. sweep' = sweep /\ tx' = tx /\ \A q \in Requests \ {r} : req'[q] = req[q]
  BY <1>1 DEF RequestStep, CheckInitial, CheckSeatChange, CommitCharge, GatewayAccepts,
         RequestReturns, RequestFails, RequestCrashes, TypeOK
<1>4. \A q \in Requests :
        Holding(q) => req[q].charge \in ChargeIds /\ charge[req[q].charge].status # "unused"
                      /\ charge[req[q].charge].status # "flushed"
  BY DEF IInv, RequestsHold, RequestHolds, Holding, Rows
<1>5. sweep.pc = "calling" => sweep.charge \in ChargeIds /\ charge[sweep.charge].status = "flushed"
  BY DEF IInv, SweepHolds
<1>10. ASSUME \A c \in ChargeIds : gate[c] \in {"PAID", "FAILED"} => gate'[c] = gate[c]
       PROVE  HandlersConfirmed'
  BY <1>3, <1>10 DEF HandlersConfirmed, Settling, IInv, HandlersHold, HandlerHolds
<1>6. ASSUME gate' = gate, ~ Holding(r)' PROVE CaptureInv'
  <2>1. UnusedIsUnknown' /\ PaidIsCaptured'
    BY <1>2, <1>6 DEF UnusedIsUnknown, PaidIsCaptured, Moves
  <2>2. HoldsApart'
    BY <1>3, <1>6 DEF HoldsApart, Holding
  <2>3. ASSUME NEW q \in Requests PROVE HoldsUncaptured(q)'
    BY <1>2, <1>3, <1>4, <1>6 DEF HoldsUncaptured, Holding, Moves
  <2>4. SweepUncaptured'
    BY <1>3, <1>6 DEF SweepUncaptured
  <2>5. HandlersConfirmed'
    BY <1>6, <1>10
  <2> QED BY <2>1, <2>2, <2>3, <2>4, <2>5
<1>7. CASE \/ \E p \in Offered : CheckInitial(r, p)
           \/ \E n \in 1 .. MaxSeats : CheckSeatChange(r, n)
           \/ RequestFails(r) \/ RequestCrashes(r)
  <2>1. ASSUME NEW p \in Offered, CheckInitial(r, p) PROVE req'[r].pc = "checked"
    BY <1>1, <2>1 DEF CheckInitial, TypeOK, IdleRequest
  <2>2. ASSUME NEW n \in 1 .. MaxSeats, CheckSeatChange(r, n) PROVE req'[r].pc = "checked"
    BY <1>1, <2>2 DEF CheckSeatChange, TypeOK, IdleRequest
  <2>3. RequestFails(r) \/ RequestCrashes(r) => req'[r].pc = "idle"
    BY <1>1 DEF RequestFails, RequestCrashes, TypeOK, IdleRequest
  <2>4. gate' = gate
    BY <1>7 DEF CheckInitial, CheckSeatChange, RequestFails, RequestCrashes
  <2> QED BY <1>6, <1>7, <2>1, <2>2, <2>3, <2>4 DEF Holding
<1>8. ASSUME NEW c \in ChargeIds, CommitCharge(r, c) PROVE CaptureInv'
  <2>1. /\ gate' = gate /\ gate[c] = "none" /\ charge[c].status = "unused"
        /\ req'[r].pc = "calling" /\ req'[r].charge = c /\ req'[r].kind = req[r].kind
        /\ charge'[c].kind = req[r].kind
    BY <1>1, <1>8 DEF CommitCharge, Unused, UnusedIsUnknown, TypeOK, Request, NewCharge, Row,
                      UnusedCharge
  <2>2. UnusedIsUnknown' /\ PaidIsCaptured'
    BY <1>2, <2>1 DEF UnusedIsUnknown, PaidIsCaptured, Moves
  <2>3. HoldsApart'
    BY <1>3, <1>4, <2>1 DEF HoldsApart, Holding
  <2>4. ASSUME NEW q \in Requests PROVE HoldsUncaptured(q)'
    <3>1. CASE q = r
      BY <2>1, <3>1 DEF HoldsUncaptured, Holding
    <3>2. CASE q # r
      BY <1>2, <1>3, <1>4, <2>1, <3>2 DEF HoldsUncaptured, Holding, Moves
    <3> QED BY <3>1, <3>2
  <2>5. SweepUncaptured'
    BY <1>3, <2>1 DEF SweepUncaptured
  <2>6. HandlersConfirmed'
    BY <1>10, <2>1
  <2> QED BY <2>2, <2>3, <2>4, <2>5, <2>6
<1>9. CASE GatewayAccepts(r) \/ RequestReturns(r)
  <2>1. /\ charge' = charge /\ Holding(r) /\ h \in ChargeIds
        /\ \A c \in ChargeIds : c # h => gate'[c] = gate[c]
        /\ charge[h].status # "unused" /\ charge[h].status # "flushed"
    BY <1>1, <1>4, <1>9 DEF GatewayAccepts, RequestReturns, Holding, TypeOK
  <2>2. gate[h] = "PAID" => gate'[h] = "PAID"
    BY <1>1, <1>9, <2>1 DEF GatewayAccepts, RequestReturns, HoldsUncaptured, TypeOK
  <2>3. UnusedIsUnknown' /\ PaidIsCaptured'
    BY <2>1, <2>2 DEF UnusedIsUnknown, PaidIsCaptured
  <2>4. /\ Holding(r)' => req'[r].charge = h /\ req'[r].kind = req[r].kind
                          /\ req'[r].pc = "called" /\ GatewayAccepts(r)
        /\ GatewayAccepts(r) /\ req[r].kind = "initial" => gate'[h] = "hidden"
    BY <1>1, <1>9, <2>1 DEF GatewayAccepts, RequestReturns, Holding, TypeOK, Request, IdleRequest
  <2>5. HoldsApart'
    BY <1>3, <2>1, <2>4 DEF HoldsApart, Holding
  <2>6. ASSUME NEW q \in Requests PROVE HoldsUncaptured(q)'
    <3>1. CASE q = r
      BY <2>1, <2>4, <3>1 DEF HoldsUncaptured, Holding
    <3>2. CASE q # r
      <4>1. Holding(q) => req[q].charge # h
        BY <2>1, <3>2 DEF HoldsApart
      <4> QED BY <1>3, <1>4, <2>1, <3>2, <4>1 DEF HoldsUncaptured, Holding
    <3> QED BY <3>1, <3>2
  <2>7. SweepUncaptured'
    BY <1>3, <1>5, <2>1 DEF SweepUncaptured
  <2>8. HandlersConfirmed'
    <3>1. gate[h] \in {"PAID", "FAILED"} => gate'[h] = gate[h]
      BY <1>1, <1>9, <2>1 DEF GatewayAccepts, RequestReturns, HoldsUncaptured, TypeOK
    <3> QED BY <1>10, <2>1, <3>1
  <2> QED BY <2>3, <2>5, <2>6, <2>7, <2>8
<1> QED
  BY <1>7, <1>8, <1>9 DEF RequestStep

LEMMA SweepKeepsCaptures ==
  ASSUME IInv, CaptureInv, SweepStep
  PROVE  CaptureInv'
<1> USE DEF CaptureInv
<1>1. TypeOK /\ req' = req /\ tx' = tx
  BY DEF IInv, SweepStep, SweepBegins, SweepCalls, SweepCommits, SweepFails, SweepCrashes
<1>2. \A c \in ChargeIds : Moves(c)
  BY SweepMoves
<1>3. \A q \in Requests :
        Holding(q) => req[q].charge \in ChargeIds /\ charge[req[q].charge].status # "unused"
                      /\ charge[req[q].charge].status # "flushed"
  BY DEF IInv, RequestsHold, RequestHolds, Holding, Rows
<1>4. HoldsApart'
  BY <1>1 DEF HoldsApart, Holding
<1>5. ASSUME gate' = gate, sweep'.pc = "calling" => gate[sweep'.charge] = "none"
      PROVE  CaptureInv'
  <2>1. UnusedIsUnknown' /\ PaidIsCaptured'
    BY <1>2, <1>5 DEF UnusedIsUnknown, PaidIsCaptured, Moves
  <2>2. ASSUME NEW q \in Requests PROVE HoldsUncaptured(q)'
    BY <1>1, <1>2, <1>3, <1>5 DEF HoldsUncaptured, Holding, Moves
  <2>3. HandlersConfirmed'
    BY <1>1, <1>5 DEF HandlersConfirmed, Settling
  <2> QED BY <1>4, <1>5, <2>1, <2>2, <2>3 DEF SweepUncaptured
<1>6. ASSUME NEW c \in ChargeIds, SweepBegins(c) PROVE CaptureInv'
  BY <1>5, <1>6 DEF SweepBegins, Unused, UnusedIsUnknown
<1>7. CASE SweepCommits \/ SweepFails \/ SweepCrashes
  BY <1>5, <1>7 DEF SweepCommits, SweepFails, SweepCrashes, IdleSweep
<1>8. CASE SweepCalls
  <2>1. /\ charge' = charge /\ sweep'.pc = "called"
        /\ charge[sweep.charge].status = "flushed"
        /\ \A c \in ChargeIds : c # sweep.charge => gate'[c] = gate[c]
    BY <1>1, <1>8 DEF SweepCalls, IInv, SweepHolds, TypeOK, Sweep
  <2>2. UnusedIsUnknown' /\ PaidIsCaptured'
    BY <2>1 DEF UnusedIsUnknown, PaidIsCaptured
  <2>3. ASSUME NEW q \in Requests PROVE HoldsUncaptured(q)'
    BY <1>1, <1>3, <2>1 DEF HoldsUncaptured, Holding
  <2>4. HandlersConfirmed'
    <3>1. \A h \in Handlers :
            Settling(h) => tx[h].charge \in ChargeIds /\ tx[h].charge # sweep.charge
      BY <2>1 DEF IInv, HandlersHold, HandlerHolds
    <3> QED BY <1>1, <2>1, <3>1 DEF HandlersConfirmed, Settling
  <2> QED BY <1>4, <2>1, <2>2, <2>3, <2>4 DEF SweepUncaptured
<1> QED
  BY <1>6, <1>7, <1>8 DEF SweepStep

\* Where ComGate does not move, a handler that comes to hold a payment has asked for it.
LEMMA QuietHandlersStay ==
  ASSUME IInv, CaptureInv, gate' = gate,
         \/ Tick \/ WindowEnds \/ OverdueSweep \/ CustomerStep \/ AdminStep \/ UNCHANGED vars
         \/ \E c \in ChargeIds : Webhook(c)
         \/ \E h \in Handlers : HandlerCrashes(h)
  PROVE  HandlersConfirmed'
<1>0. TypeOK /\ HandlersConfirmed
  BY DEF IInv, CaptureInv
<1>1. CASE tx' = tx
  BY <1>0, <1>1 DEF HandlersConfirmed, Settling
<1>2. ASSUME NEW h \in Handlers, tx' = [tx EXCEPT ![h] = IdleTx] PROVE HandlersConfirmed'
  BY <1>0, <1>2 DEF HandlersConfirmed, Settling, IdleTx, TypeOK
<1>3. ASSUME NEW h \in Handlers, NEW step, NEW c, NEW n, Reads(h, step, c, n),
             step \in {"PAID", "FAILED"} => gate[c] = step
      PROVE  HandlersConfirmed'
  BY <1>0, <1>3 DEF HandlersConfirmed, Settling, Reads, TypeOK
<1>4. CASE CustomerStep
  BY <1>1, <1>2, <1>3, <1>4, CustomerFrame DEF CustomerReadsSeats, CustomerSetsSeats, Commits
<1>5. CASE AdminStep
  <2>1. ASSUME NEW h \in Handlers, AdminMarksPaid(h) PROVE tx' = [tx EXCEPT ![h] = IdleTx]
    BY <2>1 DEF AdminMarksPaid, Commits
  <2>2. ASSUME NEW h \in Handlers, NEW c \in ChargeIds, AdminReadsInvoice(h, c)
        PROVE  Reads(h, "marks_paid", c, 0)
    BY <2>2 DEF AdminReadsInvoice
  <2> QED BY <1>1, <1>2, <1>3, <1>5, <2>1, <2>2, AdminFrame
<1>6. ASSUME NEW c \in ChargeIds, Webhook(c) PROVE HandlersConfirmed'
  <2>1. CASE WebhookIgnored(c)
    BY <1>1, <2>1 DEF WebhookIgnored
  <2>2. ASSUME NEW h \in Handlers, NEW o \in {"PAID", "FAILED"}, WebhookReads(h, c, o)
        PROVE  HandlersConfirmed'
    BY <1>3, <2>2 DEF WebhookReads, Confirmed
  <2>3. ASSUME NEW h \in Handlers, WebhookCommits(h) PROVE HandlersConfirmed'
    BY <1>2, <2>3, CommitsSettle
  <2> QED BY <1>6, <2>1, <2>2, <2>3 DEF Webhook
<1>7. CASE Tick \/ WindowEnds \/ OverdueSweep \/ UNCHANGED vars
  BY <1>1, <1>7 DEF Tick, WindowEnds, OverdueSweep, vars
<1> QED
  BY <1>2, <1>4, <1>5, <1>6, <1>7 DEF HandlerCrashes

LEMMA NextCaptureInv == IInv /\ CaptureInv /\ [Next]_vars => CaptureInv'
<1> SUFFICES ASSUME IInv, CaptureInv, [Next]_vars PROVE CaptureInv'
  OBVIOUS
<1>1. TypeOK /\ \A c \in ChargeIds : Moves(c)
  BY NextMoves DEF IInv
<1>2. CASE \/ Tick \/ WindowEnds \/ OverdueSweep \/ CustomerStep \/ AdminStep \/ UNCHANGED vars
           \/ \E c \in ChargeIds : Webhook(c)
           \/ \E h \in Handlers : HandlerCrashes(h)
  <2>1. gate' = gate /\ req' = req /\ sweep' = sweep
    BY <1>2, WebhookFrame, CustomerFrame, AdminFrame
    DEF Tick, WindowEnds, OverdueSweep, HandlerCrashes, vars
  <2>2. HandlersConfirmed'
    BY <1>2, <2>1, QuietHandlersStay
  <2> QED BY <1>1, <2>1, <2>2, OthersKeepCaptures DEF Settles
<1>3. ASSUME NEW c \in ChargeIds, NEW o \in {"PAID", "FAILED"}, GatewaySettles(c, o)
      PROVE  CaptureInv'
  <2>1. \A d \in ChargeIds : Settles(d)
    BY <1>1, <1>3 DEF GatewaySettles, Settles, TypeOK
  <2>2. HandlersConfirmed'
    BY <1>1, <1>3 DEF GatewaySettles, CaptureInv, HandlersConfirmed, Settling, IInv,
                      HandlersHold, HandlerHolds, TypeOK
  <2> QED BY <1>1, <1>3, <2>1, <2>2, OthersKeepCaptures DEF GatewaySettles
<1> QED
  BY <1>2, <1>3, RequestKeepsCaptures, SweepKeepsCaptures DEF Next

\* A paid row was captured, what a request or the sweep still holds as unpaid was not, and no
\* two of them hold one charge: webhook, sweep and checkout keep the books with ComGate's.
THEOREM CapturesInductive == Spec => [](IInv /\ CaptureInv)
  BY InitIInv, NextIInv, InitCaptureInv, NextCaptureInv, PTL DEF Spec

\* What the renewal rests on holds in every state: rows, requests, ComGate's books and
\* the sweep's uncommitted row agree (IInv), whoever interrupts whom.
THEOREM Inductive == Spec => []IInv
  BY CapturesInductive, PTL

\* run_recurring_charges never leaves two live renewal charges of one period,
\* although its row is invisible until the commit, the sweep can die or time out
\* at any point, and admins move the period under it.
THEOREM RenewalsAreSingle == Spec => []OneRenewalPerPeriod
<1>1. IInv => OneRenewalPerPeriod
  BY DEF IInv, OneLivePerPeriod, OneRenewalPerPeriod, Live, Charges, Rows
<1> QED
  BY <1>1, Inductive, PTL

\* initial_payment_init and seat_change_init commit before they call: a payment
\* ComGate knows of can always be reconciled, whatever crashes or times out.
THEOREM AlwaysReconcilable == Spec => []ReconcilableByRefId
<1>1. IInv => ReconcilableByRefId
  BY DEF IInv
<1> QED
  BY <1>1, Inductive, PTL

(***************************************************************************)
(* The webhook's acknowledgements.                                         *)
(***************************************************************************)
\* The charge a webhook commits is terminal from then on.
LEMMA CommittedStatus ==
  ASSUME IInv, CaptureInv, NEW h \in Handlers, WebhookCommits(h)
  PROVE  charge'[tx[h].charge].status = IF tx[h].pc = "PAID" THEN "paid" ELSE "failed"
<1> DEFINE c == tx[h].charge
<1>1. TypeOK /\ c \in ChargeIds /\ charge[c] \in Charge
  BY CommitsSettle DEF IInv, TypeOK
<1>2. CASE WebhookFailed(h)
  BY <1>1, <1>2 DEF WebhookFailed, Acknowledges, TypeOK, Charge
<1>3. ASSUME NEW issued \in BOOLEAN, WebhookInitialPaid(h, issued)
      PROVE  tx[h].pc = "PAID" /\ charge'[c].status = "paid"
  <2> DEFINE invoiced == issued /\ ~(tx[h].read.status = "active")
  <2>1. tx[h].pc = "PAID" /\ charge'[c] = Settled(c, invoiced)[c]
    BY <1>1, <1>3 DEF WebhookInitialPaid, Siblings, Acknowledges
  <2>2. invoiced \in BOOLEAN
    OBVIOUS
  <2> HIDE DEF invoiced, c
  <2> QED BY <1>1, <2>1, <2>2, SettledFields
<1>4. ASSUME NEW issued \in BOOLEAN, WebhookSeatsPaid(h, issued) \/ WebhookRenewalPaid(h, issued)
      PROVE  tx[h].pc = "PAID" /\ charge'[c].status = "paid"
  <2> DEFINE invoiced == issued /\ ~tx[h].read.comp
  <2>1. tx[h].pc = "PAID" /\ charge' = Settled(c, invoiced)
    BY <1>4 DEF WebhookSeatsPaid, WebhookRenewalPaid, Acknowledges
  <2>2. invoiced \in BOOLEAN
    OBVIOUS
  <2> HIDE DEF invoiced, c
  <2> QED BY <1>1, <2>1, <2>2, SettledFields
<1> QED
  BY <1>2, <1>3, <1>4 DEF WebhookCommits

\* Nobody but the webhook acknowledges.
LEMMA OnlyWebhooksAcknowledge ==
  ASSUME [Next]_vars
  PROVE  seen' = seen \/ \E c \in ChargeIds : Webhook(c)
<1>1. ASSUME NEW r \in Requests, RequestStep(r) PROVE seen' = seen
  BY <1>1 DEF RequestStep, CheckInitial, CheckSeatChange, CommitCharge, GatewayAccepts,
              RequestReturns, RequestFails, RequestCrashes
<1>2. CASE SweepStep
  BY <1>2 DEF SweepStep, SweepBegins, SweepCalls, SweepCommits, SweepFails, SweepCrashes
<1>3. CASE CustomerStep \/ AdminStep
  BY <1>3, CustomerFrame, AdminFrame
<1>4. CASE \/ Tick \/ WindowEnds \/ OverdueSweep \/ UNCHANGED vars
           \/ \E c \in ChargeIds, o \in {"PAID", "FAILED"} : GatewaySettles(c, o)
           \/ \E h \in Handlers : HandlerCrashes(h)
  BY <1>4 DEF Tick, WindowEnds, OverdueSweep, GatewaySettles, HandlerCrashes, vars
<1> QED
  BY <1>1, <1>2, <1>3, <1>4 DEF Next

LEMMA NextAcknowledged ==
  ASSUME "early" \notin Faults, IInv, CaptureInv, AcknowledgedForGood, [Next]_vars
  PROVE  AcknowledgedForGood'
<1> USE DEF AcknowledgedForGood
<1>0. TypeOK /\ seen \subseteq ChargeIds
  BY DEF IInv, TypeOK
<1>1. Evolves =>
        \A c \in seen : charge'[c].status \in {"paid", "failed", "lost"}
  BY <1>0 DEF Evolves, Kept, Inserted
<1>2. CASE SweepStep
  <2>1. seen' = seen
    BY <1>2 DEF SweepStep, SweepBegins, SweepCalls, SweepCommits, SweepFails, SweepCrashes
  <2>2. ASSUME NEW c \in ChargeIds, SweepBegins(c) PROVE AcknowledgedForGood'
    <3>1. charge[c].status = "unused"
      BY <2>2 DEF SweepBegins, Unused
    <3>2. \A d \in ChargeIds : d # c => charge'[d] = charge[d]
      BY <1>0, <2>2 DEF SweepBegins, TypeOK
    <3> QED BY <1>0, <2>1, <3>1, <3>2
  <2>3. CASE SweepCalls
    BY <2>1, <2>3 DEF SweepCalls
  <2>4. CASE SweepCommits \/ SweepFails \/ SweepCrashes
    <3>1. charge[sweep.charge].status = "flushed"
      BY <2>4 DEF IInv, SweepHolds, SweepCommits, SweepFails, SweepCrashes
    <3>2. \A d \in ChargeIds : d # sweep.charge => charge'[d] = charge[d]
      BY <1>0, <2>4 DEF SweepCommits, SweepFails, SweepCrashes, TypeOK
    <3> QED BY <1>0, <2>1, <3>1, <3>2
  <2> QED BY <1>2, <2>2, <2>3, <2>4 DEF SweepStep
<1>3. ASSUME NEW c \in ChargeIds, Webhook(c) PROVE AcknowledgedForGood'
  <2>0. Evolves
    BY <1>3, WebhookEvolves
  <2>1. CASE WebhookIgnored(c)
    <3>1. /\ charge' = charge /\ seen' = seen \cup {c}
          /\ charge[c].status \in {"paid", "failed", "lost"}
      BY <2>1 DEF WebhookIgnored, NothingToApply
    <3> QED BY <3>1
  <2>2. ASSUME NEW h \in Handlers, NEW o \in {"PAID", "FAILED"}, WebhookReads(h, c, o)
        PROVE  AcknowledgedForGood'
    <3>1. charge' = charge /\ seen' = seen
      BY <2>2 DEF WebhookReads, Reads
    <3> QED BY <3>1
  <2>3. ASSUME NEW h \in Handlers, WebhookCommits(h) PROVE AcknowledgedForGood'
    <3>1. seen' = seen \cup {tx[h].charge}
      BY <2>3, CommitsSettle
    <3>2. charge'[tx[h].charge].status \in {"paid", "failed", "lost"}
      BY <2>3, CommittedStatus
    <3> QED BY <1>1, <2>0, <3>1, <3>2
  <2> QED BY <1>3, <2>1, <2>2, <2>3 DEF Webhook
<1>4. CASE seen' = seen /\ ~ SweepStep
  BY <1>1, <1>4, NextEvolves
<1> QED
  BY <1>2, <1>3, <1>4, OnlyWebhooksAcknowledge

\* The webhook never acknowledges an outcome and leaves its charge pending,
\* provided no notification overtakes the sweep's commit: that is the one way to
\* lose a payment for good.
THEOREM AcknowledgedIsFinal ==
  ASSUME "early" \notin Faults
  PROVE  Spec => []AcknowledgedIsSettled
<1>1. Init => AcknowledgedForGood
  <2> SUFFICES ASSUME Init PROVE AcknowledgedForGood
    OBVIOUS
  <2>1. CASE InitTrial
    BY <2>1 DEF InitTrial, AcknowledgedForGood
  <2>2. CASE InitSubscriber
    <3>1. PICK first \in ChargeIds, n \in 1 .. MaxSeats, p \in Offered : Subscribed(first, n, p)
      BY <2>2 DEF InitSubscriber
    <3> QED BY <3>1 DEF Subscribed, UnusedCharge, AcknowledgedForGood
  <2> QED BY <2>1, <2>2 DEF Init
<1>2. IInv /\ CaptureInv /\ AcknowledgedForGood /\ [Next]_vars => AcknowledgedForGood'
  BY NextAcknowledged
<1>3. AcknowledgedForGood => AcknowledgedIsSettled
  BY DEF AcknowledgedForGood, AcknowledgedIsSettled
<1> QED
  BY <1>1, <1>2, <1>3, CapturesInductive, PTL DEF Spec

(***************************************************************************)
(* The subscription row.  A handler's commit rewrites it with what its       *)
(* operation makes of the row it read; the rest are the inline failure of    *)
(* the sweep, the overdue sweep, and the operations of the customer and the  *)
(* super-admin that set columns to values of their own.                     *)
(***************************************************************************)
Pays(h, w) ==
  LET read == tx[h].read
      c    == tx[h].charge
  IN
  /\ tx[h].pc = "PAID"
  /\ \/ charge[c].kind = "initial" /\ w = ApplyInitialPayment(read, now)
     \/ charge[c].kind = "seat_upgrade" /\ w = ApplySeatCharge(read, charge[c].seats)
     \/ charge[c].kind = "renewal" /\ w = ApplyRenewal(read, now)

Wants(h, w) ==
  \/ Pays(h, w)
  \/ tx[h].pc = "FAILED" /\ w = AfterFailure(tx[h].read, charge[tx[h].charge].kind)
  \/ tx[h].pc = "sets_seats" /\ w = WithSeats(tx[h].read, tx[h].seats)
  \/ /\ tx[h].pc = "marks_paid"
     /\ \/ ManualPaymentExtends(tx[h].read) /\ w = ApplyManualPayment(tx[h].read, now)
        \/ w = tx[h].read

Finishes(h, w) ==
  /\ Wants(h, w) /\ Commits(h, w)
  /\ active' \in {active, active \ tx[h].read.victims}

HandlerCommits(h) == WebhookCommits(h) \/ CustomerSetsSeats(h) \/ AdminMarksPaid(h)

Begins(h) ==
  \/ \E c \in ChargeIds, outcome \in {"PAID", "FAILED"} : WebhookReads(h, c, outcome)
  \/ \E n \in 1 .. MaxSeats : CustomerReadsSeats(h, n)
  \/ \E c \in ChargeIds : AdminReadsInvoice(h, c)

CustomerWrites ==
  \/ \E p \in Offered : CustomerChoosesPlan(p) \/ CustomerChangesInterval(p)
  \/ CustomerKeepsSeats
  \/ \E n \in 1 .. MaxSeats, v \in SUBSET Users : CustomerQueuesDownsize(n, v)
  \/ CustomerCancels
  \/ CustomerReactivates

AdminWrites ==
  \/ \E p \in Offered \cup (AdminActions \cap {"enterprise"}) : AdminActivates(p)
  \/ \E until \in {NoTime, now + MonthLen} : AdminSetsComp(until)
  \/ AdminSetsEnterprise
  \/ AdminCancels
  \/ AdminExtendsTrial

LEMMA HandlerFinishes ==
  ASSUME IInv, NEW h \in Handlers, HandlerCommits(h)
  PROVE  /\ tx[h].pc # "idle" /\ tx[h].read \in Subscription
         /\ tx' = [tx EXCEPT ![h] = IdleTx] /\ now' = now
         /\ tx[h].pc \in {"PAID", "FAILED"} => WebhookCommits(h)
         /\ \E w \in Subscription : Finishes(h, w)
<1> DEFINE read == tx[h].read
           c    == tx[h].charge
<1>1. /\ TypeOK /\ read \in Subscription /\ tx[h].seats \in Nat /\ now \in Int
      /\ tx[h].pc \in {"PAID", "FAILED"} => c \in ChargeIds /\ charge[c].seats \in Nat
  BY DEF IInv, TypeOK, Tx, HandlersHold, HandlerHolds, Settling, Charge
<1>2. CASE WebhookFailed(h)
  <2>1. /\ tx[h].pc = "FAILED" /\ Commits(h, AfterFailure(read, charge[c].kind))
        /\ active' = active /\ now' = now
    BY <1>2 DEF WebhookFailed, Acknowledges
  <2>2. AfterFailure(read, charge[c].kind) \in Subscription
    BY <1>1, AfterFailureType
  <2> QED BY <1>1, <1>2, <2>1, <2>2 DEF Finishes, Wants, Commits, WebhookCommits
<1>3. ASSUME NEW issued \in BOOLEAN, WebhookInitialPaid(h, issued)
      PROVE  /\ tx[h].pc = "PAID" /\ now' = now /\ tx' = [tx EXCEPT ![h] = IdleTx]
             /\ \E w \in Subscription : Finishes(h, w)
  <2>1. /\ tx[h].pc = "PAID" /\ charge[c].kind = "initial"
        /\ Commits(h, ApplyInitialPayment(read, now)) /\ active' = active /\ now' = now
    BY <1>3 DEF WebhookInitialPaid, Acknowledges
  <2>2. ApplyInitialPayment(read, now) \in Subscription
    BY <1>1, InitialPaymentType
  <2> QED BY <2>1, <2>2 DEF Finishes, Wants, Pays, Commits
<1>4. ASSUME NEW issued \in BOOLEAN, WebhookSeatsPaid(h, issued)
      PROVE  /\ tx[h].pc = "PAID" /\ now' = now /\ tx' = [tx EXCEPT ![h] = IdleTx]
             /\ \E w \in Subscription : Finishes(h, w)
  <2>1. /\ tx[h].pc = "PAID" /\ charge[c].kind = "seat_upgrade"
        /\ Commits(h, ApplySeatCharge(read, charge[c].seats)) /\ active' = active /\ now' = now
    BY <1>4 DEF WebhookSeatsPaid, Acknowledges
  <2>2. ApplySeatCharge(read, charge[c].seats) \in Subscription
    BY <1>1, <2>1, SeatChargeType
  <2> QED BY <2>1, <2>2 DEF Finishes, Wants, Pays, Commits
<1>5. ASSUME NEW issued \in BOOLEAN, WebhookRenewalPaid(h, issued)
      PROVE  /\ tx[h].pc = "PAID" /\ now' = now /\ tx' = [tx EXCEPT ![h] = IdleTx]
             /\ \E w \in Subscription : Finishes(h, w)
  <2>1. /\ tx[h].pc = "PAID" /\ charge[c].kind = "renewal"
        /\ Commits(h, ApplyRenewal(read, now)) /\ active' = active \ read.victims /\ now' = now
    BY <1>5 DEF WebhookRenewalPaid, Acknowledges
  <2>2. ApplyRenewal(read, now) \in Subscription
    BY <1>1, RenewalType
  <2> QED BY <2>1, <2>2 DEF Finishes, Wants, Pays, Commits
<1>6. CASE CustomerSetsSeats(h)
  <2>1. /\ tx[h].pc = "sets_seats" /\ Commits(h, WithSeats(read, tx[h].seats))
        /\ active' = active /\ now' = now
    BY <1>6 DEF CustomerSetsSeats
  <2>2. WithSeats(read, tx[h].seats) \in Subscription
    BY <1>1, WithSeatsType
  <2> QED BY <1>1, <2>1, <2>2 DEF Finishes, Wants, Commits
<1>7. CASE AdminMarksPaid(h)
  <2>1. tx[h].pc = "marks_paid" /\ now' = now
    BY <1>7 DEF AdminMarksPaid
  <2>2. CASE ManualPaymentExtends(read)
    <3>1. Commits(h, ApplyManualPayment(read, now)) /\ active' = active \ read.victims
      BY <1>7, <2>2 DEF AdminMarksPaid
    <3>2. ApplyManualPayment(read, now) \in Subscription
      BY <1>1, ManualPaymentType
    <3> QED BY <1>1, <2>1, <2>2, <3>1, <3>2 DEF Finishes, Wants, Commits
  <2>3. CASE ~ ManualPaymentExtends(read)
    <3>1. Commits(h, read) /\ active' = active
      BY <1>7, <2>3 DEF AdminMarksPaid
    <3> QED BY <1>1, <2>1, <3>1 DEF Finishes, Wants, Commits
  <2> QED BY <2>2, <2>3
<1>8. CASE WebhookCommits(h)
  BY <1>1, <1>2, <1>3, <1>4, <1>5, <1>8 DEF WebhookCommits
<1> QED
  BY <1>6, <1>7, <1>8 DEF HandlerCommits

LEMMA RowSteps ==
  ASSUME [Next]_vars
  PROVE  \/ UNCHANGED <<sub, active, overtaken>>
         \/ \E h \in Handlers : HandlerCommits(h)
         \/ SweepFails
         \/ OverdueSweep
         \/ CustomerWrites
         \/ AdminWrites
<1>1. ASSUME NEW c \in ChargeIds, Webhook(c)
      PROVE  UNCHANGED <<sub, active, overtaken>> \/ \E h \in Handlers : HandlerCommits(h)
  BY <1>1 DEF Webhook, WebhookIgnored, WebhookReads, Reads, HandlerCommits
<1>2. CASE SweepStep
  BY <1>2 DEF SweepStep, SweepBegins, SweepCalls, SweepCommits, SweepCrashes
<1>3. CASE CustomerStep
  BY <1>3 DEF CustomerStep, CustomerWrites, HandlerCommits, CustomerReadsSeats, Reads
<1>4. CASE AdminStep
  BY <1>4 DEF AdminStep, AdminWrites, HandlerCommits, AdminReadsInvoice, Reads
<1>5. ASSUME NEW r \in Requests, RequestStep(r) PROVE UNCHANGED <<sub, active, overtaken>>
  BY <1>5 DEF RequestStep, CheckInitial, CheckSeatChange, CommitCharge, GatewayAccepts,
              RequestReturns, RequestFails, RequestCrashes
<1>6. CASE \/ Tick \/ WindowEnds \/ UNCHANGED vars
           \/ \E h \in Handlers : HandlerCrashes(h)
           \/ \E c \in ChargeIds, o \in {"PAID", "FAILED"} : GatewaySettles(c, o)
  BY <1>6 DEF Tick, WindowEnds, vars, GatewaySettles, HandlerCrashes
<1> QED
  BY <1>1, <1>2, <1>3, <1>4, <1>5, <1>6 DEF Next

\* A handler waits, is done, or has just read the row.
LEMMA HandlerSteps ==
  ASSUME IInv, [Next]_vars, NEW h \in Handlers
  PROVE  tx'[h] = tx[h] \/ tx'[h] = IdleTx \/ Begins(h)
<1>1. TypeOK
  BY DEF IInv
<1>2. ASSUME NEW g \in Handlers, tx' = [tx EXCEPT ![g] = IdleTx]
      PROVE  tx'[h] = tx[h] \/ tx'[h] = IdleTx
  BY <1>1, <1>2 DEF TypeOK
<1>3. ASSUME NEW g \in Handlers, Begins(g) PROVE tx'[h] = tx[h] \/ Begins(h)
  <2>1. CASE g = h
    BY <1>3, <2>1
  <2>2. CASE g # h
    BY <1>1, <1>3, <2>2 DEF Begins, WebhookReads, CustomerReadsSeats, AdminReadsInvoice, Reads,
                            TypeOK
  <2> QED BY <2>1, <2>2
<1>4. ASSUME NEW c \in ChargeIds, Webhook(c)
      PROVE  tx' = tx \/ (\E g \in Handlers : Begins(g) \/ HandlerCommits(g))
  BY <1>4 DEF Webhook, WebhookIgnored, Begins, HandlerCommits
<1>5. CASE CustomerStep
  BY <1>2, <1>3, <1>5, HandlerFinishes, CustomerFrame DEF Begins, HandlerCommits
<1>6. CASE AdminStep
  BY <1>2, <1>3, <1>6, HandlerFinishes, AdminFrame DEF Begins, HandlerCommits
<1>7. ASSUME NEW r \in Requests, RequestStep(r) PROVE tx' = tx
  BY <1>7 DEF RequestStep, CheckInitial, CheckSeatChange, CommitCharge, GatewayAccepts,
              RequestReturns, RequestFails, RequestCrashes
<1>8. CASE SweepStep
  BY <1>8 DEF SweepStep, SweepBegins, SweepCalls, SweepCommits, SweepFails, SweepCrashes
<1>9. CASE \/ Tick \/ WindowEnds \/ OverdueSweep \/ UNCHANGED vars
           \/ \E c \in ChargeIds, o \in {"PAID", "FAILED"} : GatewaySettles(c, o)
  BY <1>9 DEF Tick, WindowEnds, OverdueSweep, vars, GatewaySettles
<1>10. ASSUME NEW g \in Handlers, HandlerCrashes(g) PROVE tx' = [tx EXCEPT ![g] = IdleTx]
  BY <1>10 DEF HandlerCrashes
<1> QED
  BY <1>2, <1>3, <1>4, <1>5, <1>6, <1>7, <1>8, <1>9, <1>10, HandlerFinishes DEF Next

LEMMA BeginsFields ==
  ASSUME TypeOK, NEW h \in Handlers, Begins(h)
  PROVE  /\ tx'[h].read = sub /\ sub' = sub /\ active' = active /\ overtaken' = overtaken
         /\ charge' = charge /\ card' = card /\ sweep' = sweep /\ req' = req /\ now' = now
         /\ tx'[h].pc \in {"PAID", "FAILED"} =>
              /\ tx'[h].charge \in ChargeIds /\ charge[tx'[h].charge].status = "pending"
              /\ tx'[h].pc = "PAID" => Accepted(tx'[h].charge)
         /\ tx'[h].pc = "sets_seats" =>
              /\ tx'[h].seats \in Nat
              /\ SeatsAreFree(sub) \/ tx'[h].seats <= sub.contracted
         /\ tx'[h].pc = "marks_paid" =>
              \E c \in ChargeIds : charge[c].dueAt # NoTime
<1>1. ASSUME NEW step, NEW c, NEW n, Reads(h, step, c, n)
      PROVE  /\ tx'[h].read = sub /\ tx'[h].pc = step /\ tx'[h].charge = c /\ tx'[h].seats = n
             /\ sub' = sub /\ active' = active /\ overtaken' = overtaken
             /\ charge' = charge /\ card' = card /\ sweep' = sweep /\ req' = req /\ now' = now
  BY <1>1 DEF Reads, TypeOK
<1>2. ASSUME NEW c \in ChargeIds, NEW o \in {"PAID", "FAILED"}, WebhookReads(h, c, o)
      PROVE  /\ Reads(h, o, c, 0) /\ charge[c].status = "pending"
             /\ o = "PAID" => Accepted(c)
  BY <1>2 DEF WebhookReads
<1>3. ASSUME NEW n \in 1 .. MaxSeats, CustomerReadsSeats(h, n)
      PROVE  /\ Reads(h, "sets_seats", NoCharge, n) /\ n \in Nat
             /\ SeatsAreFree(sub) \/ n <= sub.contracted
  BY <1>3 DEF CustomerReadsSeats
<1>4. ASSUME NEW c \in ChargeIds, AdminReadsInvoice(h, c)
      PROVE  Reads(h, "marks_paid", c, 0) /\ charge[c].dueAt # NoTime
  BY <1>4 DEF AdminReadsInvoice
<1>5. ASSUME NEW c \in ChargeIds, NEW o \in {"PAID", "FAILED"}, WebhookReads(h, c, o)
      PROVE  tx'[h].pc = o /\ tx'[h].charge = c
  BY <1>1, <1>2, <1>5
<1> QED
  BY <1>1, <1>2, <1>3, <1>4 DEF Begins

(***************************************************************************)
(* The queue of users to lose: operations clear it or leave it alone, and   *)
(* only update_seat_count fills it.                                         *)
(***************************************************************************)
LEMMA QueuedDownsizeClears ==
  ASSUME NEW s \in Subscription
  PROVE  ApplyQueuedDownsize(s).victims = {}
  BY DEF ApplyQueuedDownsize, Subscription

LEMMA StartPeriodKeepsVictims ==
  ASSUME NEW s \in Subscription, NEW from, NEW until
  PROVE  StartPeriod(s, from, until).victims = s.victims
  BY DEF StartPeriod, Subscription

LEMMA PaymentVictims ==
  ASSUME NEW s \in Subscription, NEW t \in Int
  PROVE  /\ ApplyInitialPayment(s, t).victims = s.victims
         /\ \A n : ApplySeatCharge(s, n).victims = {}
         /\ ApplyRenewal(s, t).victims = {}
         /\ ApplyManualPayment(s, t).victims = {}
         /\ \A d : MarkRenewalFailed(s, d, t).victims = s.victims
<1>1. ApplyInitialPayment(s, t).victims = s.victims
  <2> DEFINE anchor == IF s.status \in {"trialing", "pending_activation"}
                         THEN LaterEnd(s, t) ELSE t
             u == StartPeriod(s, anchor, anchor + PeriodLen(s.plan))
  <2>1. u.victims = s.victims
    BY StartPeriodKeepsVictims
  <2>2. u \in Subscription
    BY LaterEndType, PeriodLenType, StartPeriodType
  <2>3. [u EXCEPT !.comp = FALSE, !.contracted = s.seats].victims = s.victims
    <3> HIDE DEF u
    <3> QED BY <2>1, <2>2 DEF Subscription
  <2> QED BY <2>3 DEF ApplyInitialPayment
<1>2. \A n : ApplySeatCharge(s, n).victims = {}
  BY DEF ApplySeatCharge, Subscription
<1>3. ApplyRenewal(s, t).victims = {}
  <2> DEFINE plan == NextPlan(s)
             u == StartPeriod(s, t, t + PeriodLen(plan))
  <2>1. u \in Subscription /\ plan \in Plans
    BY NextPlanType, PeriodLenType, StartPeriodType
  <2>2. [u EXCEPT !.plan = plan, !.pendingPlan = NoPlan] \in Subscription
    <3> HIDE DEF u, plan
    <3>1. NoPlan \in Renewable \cup {NoPlan}
      OBVIOUS
    <3> QED BY <2>1, <3>1, Zenon DEF Subscription
  <2> QED BY <2>2, QueuedDownsizeClears DEF ApplyRenewal
<1>4. ApplyManualPayment(s, t).victims = {}
  <2>1. StartPeriod(s, t, LaterEnd(s, t) + PeriodLen(s.plan)) \in Subscription
    BY LaterEndType, PeriodLenType, StartPeriodType
  <2> QED BY <2>1, QueuedDownsizeClears DEF ApplyManualPayment
<1>5. \A d : MarkRenewalFailed(s, d, t).victims = s.victims
  BY DEF MarkRenewalFailed, Subscription
<1> QED
  BY <1>1, <1>2, <1>3, <1>4, <1>5

LEMMA OperationVictims ==
  ASSUME NEW s \in Subscription, NEW t \in Int
  PROVE  /\ \A p : ChoosePlan(s, p).victims = s.victims
         /\ CancelSelfServe(s).victims = s.victims /\ Reactivate(s).victims = s.victims
         /\ \A p \in Plans, len \in Int : Activate(s, p, len, t).victims = {}
         /\ \A until : SetComp(s, until, t).victims = s.victims
         /\ \A len : SetEnterprise(s, len, t).victims = s.victims
         /\ HardCancel(s).victims = s.victims
         /\ \A days : ExtendTrial(s, days).victims = s.victims
<1>1. ASSUME NEW p \in Plans, NEW len \in Int PROVE Activate(s, p, len, t).victims = {}
  <2>1. /\ "active" \in Statuses /\ FALSE \in BOOLEAN
        /\ t \in Timestamp /\ t + len \in Timestamp
    BY DEF Statuses, Timestamp
  <2>2. [s EXCEPT !.plan = p, !.status = "active", !.comp = FALSE, !.canceledAt = FALSE,
                  !.starts = t, !.ends = t + len] \in Subscription
    BY <2>1, Zenon DEF Subscription
  <2> QED BY <2>2, QueuedDownsizeClears DEF Activate
<1>2. /\ \A p : ChoosePlan(s, p).victims = s.victims
      /\ CancelSelfServe(s).victims = s.victims /\ Reactivate(s).victims = s.victims
  BY DEF ChoosePlan, CancelSelfServe, Reactivate, Subscription
<1>3. /\ \A until : SetComp(s, until, t).victims = s.victims
      /\ \A len : SetEnterprise(s, len, t).victims = s.victims
  BY DEF SetComp, SetEnterprise, Subscription
<1>4. HardCancel(s).victims = s.victims /\ \A days : ExtendTrial(s, days).victims = s.victims
  BY DEF HardCancel, ExtendTrial, Subscription
<1> QED
  BY <1>1, <1>2, <1>3, <1>4

LEMMA WantedVictims ==
  ASSUME TypeOK, NEW h \in Handlers, NEW w, Wants(h, w)
  PROVE  w.victims \in {tx[h].read.victims, {}}
<1> DEFINE read == tx[h].read
<1>1. read \in Subscription /\ now \in Int
  BY DEF TypeOK, Tx
<1>2. Pays(h, w) => w.victims \in {read.victims, {}}
  BY <1>1, PaymentVictims DEF Pays
<1>3. \A kind : AfterFailure(read, kind).victims = read.victims
  BY <1>1, PaymentVictims DEF AfterFailure
<1>4. WithSeats(read, tx[h].seats).victims = {}
  BY <1>1 DEF WithSeats, Subscription
<1> QED
  BY <1>1, <1>2, <1>3, <1>4, PaymentVictims DEF Wants

LEMMA NextOwnerIsSafe == IInv /\ OwnerIsSafe /\ [Next]_vars => OwnerIsSafe'
<1> SUFFICES ASSUME IInv, OwnerIsSafe, [Next]_vars PROVE OwnerIsSafe'
  OBVIOUS
<1> DEFINE Safe == Owner \in active' /\ Owner \notin sub'.victims
<1>1. TypeOK /\ sub \in Subscription /\ now \in Int
  BY DEF IInv, TypeOK
<1>2. ASSUME sub'.victims \in {sub.victims, {}}, active' \in {active, active \ sub.victims}
      PROVE  Safe
  BY <1>2 DEF OwnerIsSafe
<1>3. ASSUME NEW h \in Handlers, HandlerCommits(h) PROVE Safe
  <2>1. PICK w \in Subscription : Finishes(h, w)
    BY <1>3, HandlerFinishes
  <2>2. w.victims \in {tx[h].read.victims, {}}
    BY <1>1, <2>1, WantedVictims DEF Finishes
  <2>3. sub'.victims = IF w.victims = tx[h].read.victims THEN sub.victims ELSE w.victims
    BY <2>1, OverwriteFields DEF Finishes, Commits
  <2> QED BY <2>1, <2>2, <2>3 DEF Finishes, OwnerIsSafe
<1>4. ASSUME SweepFails PROVE Safe
  BY <1>1, <1>2, <1>4, PaymentVictims DEF SweepFails
<1>5. ASSUME OverdueSweep PROVE Safe
  <2>1. sub'.victims = sub.victims /\ active' = active
    BY <1>1, <1>5 DEF OverdueSweep, Subscription
  <2> QED BY <1>2, <2>1
<1>6. ASSUME CustomerWrites PROVE Safe
  <2>1. ASSUME NEW p \in Offered, CustomerChoosesPlan(p) \/ CustomerChangesInterval(p)
        PROVE  Safe
    <3>1. [sub EXCEPT !.pendingPlan = p].victims = sub.victims
      BY <1>1 DEF Subscription
    <3>2. ChoosePlan(sub, p).victims = sub.victims
      BY <1>1, OperationVictims
    <3>3. /\ active' = active
          /\ sub' = ChoosePlan(sub, p) \/ sub' = [sub EXCEPT !.pendingPlan = p]
      BY <2>1 DEF CustomerChoosesPlan, CustomerChangesInterval, Writes
    <3>4. sub'.victims = sub.victims
      BY <3>1, <3>2, <3>3
    <3> QED BY <1>2, <3>3, <3>4
  <2>2. CASE CustomerKeepsSeats
    <3>1. sub'.victims = {} /\ active' = active
      BY <1>1, <2>2 DEF CustomerKeepsSeats, Writes, Subscription
    <3> QED BY <1>2, <3>1
  <2>3. ASSUME NEW n \in 1 .. MaxSeats, NEW v \in SUBSET Users, CustomerQueuesDownsize(n, v)
        PROVE  Safe
    BY <1>1, <2>3 DEF CustomerQueuesDownsize, Losable, Writes, OwnerIsSafe, Subscription
  <2>4. CASE CustomerCancels \/ CustomerReactivates
    BY <1>1, <1>2, <2>4, OperationVictims DEF CustomerCancels, CustomerReactivates, Writes
  <2> QED BY <1>6, <2>1, <2>2, <2>3, <2>4 DEF CustomerWrites
<1>7. ASSUME AdminWrites PROVE Safe
  <2>1. ASSUME NEW p \in Offered \cup (AdminActions \cap {"enterprise"}), AdminActivates(p)
        PROVE  Safe
    <3>1. p \in Plans /\ PeriodLen(p) \in Int
      BY BoundsAssumption, PeriodLenType DEF Plans, Renewable
    <3> QED BY <1>1, <1>2, <2>1, <3>1, OperationVictims DEF AdminActivates, Writes
  <2>2. ASSUME NEW until, AdminSetsComp(until) PROVE Safe
    BY <1>1, <1>2, <2>2, OperationVictims DEF AdminSetsComp, Writes
  <2>3. CASE AdminSetsEnterprise \/ AdminCancels \/ AdminExtendsTrial
    BY <1>1, <1>2, <2>3, OperationVictims
    DEF AdminSetsEnterprise, AdminCancels, AdminExtendsTrial, Writes
  <2> QED BY <1>7, <2>1, <2>2, <2>3 DEF AdminWrites
<1>8. Safe
  BY <1>2, <1>3, <1>4, <1>5, <1>6, <1>7, RowSteps
<1>9. ASSUME NEW h \in Handlers PROVE Owner \notin tx'[h].read.victims
  <2>1. IdleTx.read.victims = {}
    BY DEF IdleTx, NewSubscription
  <2> QED BY <1>1, <2>1, HandlerSteps, BeginsFields DEF OwnerIsSafe
<1> QED
  BY <1>8, <1>9 DEF OwnerIsSafe

\* The admin who runs the billing page cannot lock the organization out: no
\* renewal, activation or hand-flagged invoice that applies a queued downsize
\* deactivates them.
THEOREM OwnerNeverLockedOut == Spec => []OwnerStaysActive
<1>1. Init => OwnerIsSafe
  <2> SUFFICES ASSUME Init PROVE OwnerIsSafe
    OBVIOUS
  <2>0. \A h \in Handlers : tx[h].read.victims = {}
    BY DEF Init, IdleTx, NewSubscription
  <2>1. CASE InitTrial
    BY <2>0, <2>1 DEF InitTrial, NewSubscription, OwnerIsSafe
  <2>2. CASE InitSubscriber
    <3>1. PICK first \in ChargeIds, n \in 1 .. MaxSeats, p \in Offered : Subscribed(first, n, p)
      BY <2>2 DEF InitSubscriber
    <3> DEFINE chosen == [NewSubscription EXCEPT !.seats = n, !.plan = p, !.ends = 0,
                                                 !.status = "pending_activation"]
    <3>2. n \in Nat /\ p \in Renewable /\ 0 \in Int
      BY BoundsAssumption
    <3>3. chosen \in Subscription
      BY <3>2, NewSubscriptionType, Zenon
    <3>4. chosen.victims = {}
      BY DEF NewSubscription
    <3>5. sub = ApplyInitialPayment(chosen, 0) /\ Owner \in active
      BY <3>1 DEF Subscribed
    <3> HIDE DEF chosen
    <3>6. sub.victims = {}
      BY <3>2, <3>3, <3>4, <3>5, PaymentVictims
    <3> QED BY <2>0, <3>5, <3>6 DEF OwnerIsSafe
  <2> QED BY <2>1, <2>2 DEF Init
<1>2. IInv /\ OwnerIsSafe /\ [Next]_vars => OwnerIsSafe'
  BY NextOwnerIsSafe
<1>3. OwnerIsSafe => OwnerStaysActive
  BY DEF OwnerIsSafe, OwnerStaysActive
<1> QED
  BY <1>1, <1>2, <1>3, Inductive, PTL DEF Spec

(***************************************************************************)
(* A paid checkout or renewal is never rewritten.                          *)
(***************************************************************************)
LEMMA PaidStays ==
  ASSUME IInv, CaptureInv, [Next]_vars, NEW c \in ChargeIds,
         charge[c].status = "paid", charge[c].kind # "seat_upgrade"
  PROVE  charge'[c].status = "paid"
<1> SUFFICES ASSUME HeldBy(c) PROVE FALSE
  BY NextMoves DEF Moves
<1>1. PICK r \in Requests : req[r].charge = c /\ Holding(r)
  BY DEF HeldBy, Holding
<1>2. req[r].kind = "initial"
  <2>1. req[r].kind \in ChargeKinds /\ req[r].kind # "renewal"
    BY <1>1 DEF IInv, TypeOK, Request, RequestsHold, RequestHolds, Holding
  <2>2. req[r].kind = charge[c].kind
    BY <1>1 DEF CaptureInv, HoldsUncaptured
  <2> QED BY <2>1, <2>2 DEF ChargeKinds
<1>3. gate[c] = "PAID"
  BY DEF CaptureInv, PaidIsCaptured
<1> QED
  BY <1>1, <1>2, <1>3 DEF CaptureInv, HoldsUncaptured, Holding

\* No sibling checkout, late answer, sweep or webhook turns a paid checkout or renewal
\* into anything else (mark_charge_failed, _retire_pending_siblings, ComGateError paths).
THEOREM PaidStaysPaid == Spec => PaidIsFinal
<1>1. IInv /\ CaptureInv /\ [Next]_vars =>
        [\A c \in ChargeIds :
           charge[c].status = "paid" /\ charge[c].kind # "seat_upgrade" =>
             charge'[c].status = "paid"]_vars
  BY PaidStays
<1> QED
  BY <1>1, CapturesInductive, PTL DEF Spec, PaidIsFinal

(***************************************************************************)
(* The saved card.                                                         *)
(***************************************************************************)
LEMMA NextCardPaid ==
  ASSUME IInv, CaptureInv, CaptureInv', CardComesFromPaidCheckout, [Next]_vars
  PROVE  CardComesFromPaidCheckout'
<1>0. TypeOK /\ TypeOK'
  BY NextType DEF IInv
<1>1. CASE card' = card
  <2> SUFFICES ASSUME card # NoCharge
               PROVE  /\ charge'[card].kind = "initial" /\ charge'[card].status = "paid"
                      /\ gate'[card] = "PAID"
    BY <1>1 DEF CardComesFromPaidCheckout
  <2>1. card \in ChargeIds /\ charge[card].kind = "initial" /\ charge[card].status = "paid"
    BY <1>0 DEF TypeOK, CardComesFromPaidCheckout
  <2>2. charge'[card].status = "paid"
    BY <2>1, PaidStays
  <2>3. charge'[card].kind = "initial"
    BY <2>1, NextMoves DEF Moves
  <2>4. gate'[card] = "PAID"
    BY <2>1, <2>2 DEF CaptureInv, PaidIsCaptured
  <2> QED BY <2>2, <2>3, <2>4
<1>2. ASSUME NEW h \in Handlers, NEW issued \in BOOLEAN, WebhookInitialPaid(h, issued)
      PROVE  CardComesFromPaidCheckout'
  <2> DEFINE c == tx[h].charge
  <2>1. /\ card' = c /\ charge[c].kind = "initial" /\ tx[h].pc = "PAID"
        /\ WebhookCommits(h)
    BY <1>2 DEF WebhookInitialPaid, Acknowledges, WebhookCommits
  <2>2. c \in ChargeIds /\ charge'[c].kind = "initial" /\ charge'[c].status = "paid"
    <3>1. c \in ChargeIds /\ charge'[c].status = "paid"
      BY <2>1, CommitsSettle, CommittedStatus
    <3>2. charge[c].status # "unused"
      BY <2>1 DEF IInv, HandlersHold, HandlerHolds, Settling
    <3> QED BY <2>1, <3>1, <3>2, NextMoves DEF Moves
  <2>3. gate'[c] = "PAID"
    BY <2>2 DEF CaptureInv, PaidIsCaptured
  <2> QED BY <2>1, <2>2, <2>3 DEF CardComesFromPaidCheckout
<1>3. card' = card \/ \E h \in Handlers, issued \in BOOLEAN : WebhookInitialPaid(h, issued)
  <2>1. ASSUME NEW c \in ChargeIds, Webhook(c)
        PROVE  card' = card \/ \E h \in Handlers, issued \in BOOLEAN : WebhookInitialPaid(h, issued)
    BY <2>1 DEF Webhook, WebhookIgnored, WebhookReads, Reads, WebhookCommits, WebhookFailed,
                WebhookSeatsPaid, WebhookRenewalPaid
  <2>2. ASSUME NEW r \in Requests, RequestStep(r) PROVE card' = card
    BY <2>2 DEF RequestStep, CheckInitial, CheckSeatChange, CommitCharge, GatewayAccepts,
                RequestReturns, RequestFails, RequestCrashes
  <2>3. CASE SweepStep
    BY <2>3 DEF SweepStep, SweepBegins, SweepCalls, SweepCommits, SweepFails, SweepCrashes
  <2>4. CASE \/ Tick \/ WindowEnds \/ OverdueSweep \/ CustomerStep \/ AdminStep
             \/ UNCHANGED vars
             \/ \E c \in ChargeIds, o \in {"PAID", "FAILED"} : GatewaySettles(c, o)
             \/ \E h \in Handlers : HandlerCrashes(h)
    BY <2>4, CustomerFrame, AdminFrame
    DEF Tick, WindowEnds, OverdueSweep, vars, GatewaySettles, HandlerCrashes
  <2> QED BY <2>1, <2>2, <2>3, <2>4 DEF Next
<1> QED
  BY <1>1, <1>2, <1>3

\* payment_methods always names the transaction of a checkout that was captured and is
\* on the books as paid: the sweep never charges a card nobody paid with.
THEOREM CardIsOfAPaidCheckout == Spec => []CardComesFromPaidCheckout
<1>1. Init => CardComesFromPaidCheckout
  <2> SUFFICES ASSUME Init PROVE CardComesFromPaidCheckout
    OBVIOUS
  <2>1. CASE InitTrial
    BY <2>1 DEF InitTrial, CardComesFromPaidCheckout
  <2>2. CASE InitSubscriber
    <3>1. PICK first \in ChargeIds, n \in 1 .. MaxSeats, p \in Offered : Subscribed(first, n, p)
      BY <2>2 DEF InitSubscriber
    <3> QED BY <3>1 DEF Subscribed, UnusedCharge, CardComesFromPaidCheckout
  <2> QED BY <2>1, <2>2 DEF Init
<1>2. IInv /\ CaptureInv /\ CaptureInv' /\ CardComesFromPaidCheckout /\ [Next]_vars
        => CardComesFromPaidCheckout'
  BY NextCardPaid
<1> QED
  BY <1>1, <1>2, CapturesInductive, PTL DEF Spec

(***************************************************************************)
(* Captures of renewals.  As long as no worker dies and no answer of         *)
(* ComGate is lost, a renewal ComGate may still capture is on the books, or  *)
(* about to be: the sweep that called for it is the one that commits it.     *)
(***************************************************************************)
CapturableIsLive ==
  \A c \in ChargeIds :
    charge[c].kind = "renewal" /\ gate[c] \notin {"none", "FAILED"} =>
      Live(c) \/ (sweep.pc = "called" /\ sweep.charge = c)

LEMMA EvolvesKeepsCapturable ==
  ASSUME IInv, CapturableIsLive, Evolves, sweep' = sweep,
         \A c \in ChargeIds : charge[c].kind = "renewal" => Settles(c)
  PROVE  CapturableIsLive'
<1> SUFFICES ASSUME NEW c \in ChargeIds, charge'[c].kind = "renewal",
                    gate'[c] \notin {"none", "FAILED"}
             PROVE  Live(c)' \/ (sweep.pc = "called" /\ sweep.charge = c)
  BY DEF CapturableIsLive
<1>1. Kept(c) /\ charge[c].kind = "renewal"
  BY DEF Evolves, Kept, Inserted
<1>2. gate[c] \notin {"none", "FAILED"}
  BY <1>1 DEF Settles
<1>3. CASE Live(c)
  <2>1. ~ HeldBy(c)
    BY <1>1 DEF HeldBy, IInv, RequestsHold, RequestHolds
  <2> QED BY <1>1, <1>2, <1>3, <2>1 DEF Kept, MayFail, CommitsFor, Live
<1>4. CASE sweep.pc = "called" /\ sweep.charge = c
  BY <1>4
<1> QED
  BY <1>1, <1>2, <1>3, <1>4 DEF CapturableIsLive

LEMMA SweepKeepsCapturable ==
  ASSUME "crash" \notin Faults, "timeout" \notin Faults,
         IInv, CaptureInv, CapturableIsLive, SweepStep
  PROVE  CapturableIsLive'
<1>0. TypeOK
  BY DEF IInv
<1> DEFINE s == sweep.charge
<1>1. ASSUME NEW c \in ChargeIds, SweepBegins(c) PROVE CapturableIsLive'
  <2>1. /\ sweep.pc = "idle" /\ gate' = gate /\ gate[c] = "none"
        /\ \A d \in ChargeIds : d # c => charge'[d] = charge[d]
    BY <1>0, <1>1 DEF SweepBegins, Unused, CaptureInv, UnusedIsUnknown, TypeOK
  <2> QED BY <2>1 DEF CapturableIsLive, Live
<1>2. CASE SweepCalls
  <2>1. /\ charge' = charge /\ sweep.pc = "calling" /\ sweep'.pc = "called" /\ sweep'.charge = s
        /\ \A c \in ChargeIds : c # s => gate'[c] = gate[c]
    BY <1>0, <1>2 DEF SweepCalls, TypeOK, Sweep
  <2> QED BY <2>1 DEF CapturableIsLive, Live
<1>3. CASE SweepCommits
  <2>1. s \in ChargeIds /\ charge[s] \in Charge /\ charge[s].kind = "renewal"
    BY <1>0, <1>3 DEF SweepCommits, IInv, SweepHolds, TypeOK
  <2>2. /\ gate' = gate /\ charge'[s].kind = "renewal" /\ charge'[s].status = "pending"
        /\ \A c \in ChargeIds : c # s => charge'[c] = charge[c]
    BY <1>0, <1>3, <2>1 DEF SweepCommits, TypeOK, Charge
  <2> QED BY <2>2 DEF CapturableIsLive, Live
<1>4. CASE SweepFails
  <2>1. /\ sweep.pc = "calling" /\ gate' = gate /\ gate[s] = "none"
        /\ \A c \in ChargeIds : c # s => charge'[c] = charge[c]
    BY <1>0, <1>4 DEF SweepFails, CaptureInv, SweepUncaptured, TypeOK
  <2> QED BY <2>1 DEF CapturableIsLive, Live
<1> QED
  BY <1>1, <1>2, <1>3, <1>4 DEF SweepStep, SweepCrashes

LEMMA NextCapturable ==
  ASSUME "crash" \notin Faults, "timeout" \notin Faults,
         IInv, CaptureInv, CapturableIsLive, [Next]_vars
  PROVE  CapturableIsLive'
<1>0. TypeOK
  BY DEF IInv
<1>1. CASE SweepStep
  BY <1>1, SweepKeepsCapturable
<1>2. ASSUME NEW r \in Requests, RequestStep(r) PROVE CapturableIsLive'
  <2>1. sweep' = sweep
    BY <1>2 DEF RequestStep, CheckInitial, CheckSeatChange, CommitCharge, GatewayAccepts,
                RequestReturns, RequestFails, RequestCrashes
  <2>2. ASSUME NEW c \in ChargeIds, charge[c].kind = "renewal" PROVE gate'[c] = gate[c]
    <3>1. CASE GatewayAccepts(r) \/ RequestReturns(r)
      <4>1. req[r].charge # c
        BY <2>2, <3>1 DEF GatewayAccepts, RequestReturns, IInv, RequestsHold, RequestHolds
      <4> QED BY <1>0, <3>1, <4>1 DEF GatewayAccepts, RequestReturns, TypeOK
    <3>2. CASE ~ GatewayAccepts(r) /\ ~ RequestReturns(r)
      BY <1>2, <3>2 DEF RequestStep, CheckInitial, CheckSeatChange, CommitCharge, RequestFails,
                        RequestCrashes
    <3> QED BY <3>1, <3>2
  <2> QED BY <1>2, <2>1, <2>2, RequestEvolves, EvolvesKeepsCapturable DEF Settles
<1>3. ASSUME NEW c \in ChargeIds, NEW o \in {"PAID", "FAILED"}, GatewaySettles(c, o)
      PROVE  CapturableIsLive'
  <2>1. \A d \in ChargeIds : Settles(d)
    BY <1>0, <1>3 DEF GatewaySettles, Settles, TypeOK
  <2> QED BY <1>3, <2>1, SameChargesEvolve, EvolvesKeepsCapturable DEF GatewaySettles
<1>4. CASE \/ Tick \/ WindowEnds \/ OverdueSweep \/ CustomerStep \/ AdminStep \/ UNCHANGED vars
           \/ \E c \in ChargeIds : Webhook(c)
           \/ \E h \in Handlers : HandlerCrashes(h)
  <2>1. gate' = gate /\ sweep' = sweep
    BY <1>4, WebhookFrame, CustomerFrame, AdminFrame
    DEF Tick, WindowEnds, OverdueSweep, HandlerCrashes, vars
  <2>2. CASE SweepStep
    BY <2>2, SweepKeepsCapturable
  <2>3. CASE Evolves
    BY <2>1, <2>3, EvolvesKeepsCapturable DEF Settles
  <2> QED BY <2>2, <2>3, NextEvolves
<1> QED
  BY <1>1, <1>2, <1>3, <1>4 DEF Next

\* The card is captured at most once for a renewal of one period, even if notifications
\* overtake the commit of the sweep and admins move the period, provided that no worker
\* dies and no answer of ComGate is lost while run_recurring_charges holds an uncommitted
\* row: without that it is false (run BugSweepCrash).
THEOREM RenewalIsCapturedOnce ==
  ASSUME "crash" \notin Faults, "timeout" \notin Faults
  PROVE  Spec => []RenewalCapturedOnce
<1>1. Init => CapturableIsLive
  <2> SUFFICES ASSUME Init PROVE CapturableIsLive
    OBVIOUS
  <2>1. CASE InitTrial
    BY <2>1 DEF InitTrial, CapturableIsLive
  <2>2. CASE InitSubscriber
    <3>1. PICK first \in ChargeIds, n \in 1 .. MaxSeats, p \in Offered : Subscribed(first, n, p)
      BY <2>2 DEF InitSubscriber
    <3> QED BY <3>1 DEF Subscribed, UnusedCharge, CapturableIsLive
  <2> QED BY <2>1, <2>2 DEF Init
<1>2. IInv /\ CaptureInv /\ CapturableIsLive /\ [Next]_vars => CapturableIsLive'
  BY NextCapturable
<1>3. IInv /\ CapturableIsLive => RenewalCapturedOnce
  BY DEF IInv, OneLivePerPeriod, SweepHolds, CapturableIsLive, RenewalCapturedOnce
<1> QED
  BY <1>1, <1>2, <1>3, CapturesInductive, PTL DEF Spec

(***************************************************************************)
(* Seats.  Until its first payment an organization sets its seats freely,    *)
(* and the contract means nothing; from then on its cap never exceeds its    *)
(* contract, until some handler writes its seats over a commit it missed.    *)
(* A grant by a super-admin (activation, complimentary access, enterprise)   *)
(* carries the free seats of a trial over, and is left out.                  *)
(***************************************************************************)
Grants == {"activate", "comp", "enterprise"}

Unpaying == {"trialing", "pending_activation", "canceled"}

BeforeFirstPayment ==
  /\ sub.status \in Unpaying
  /\ card = NoCharge
  /\ sweep.pc = "idle"
  /\ \A c \in ChargeIds : charge[c].kind = "initial" /\ charge[c].dueAt = NoTime
  /\ \A r \in Requests : req[r].kind = "initial"
  /\ \A h \in Handlers : tx[h].pc # "marks_paid" /\ tx[h].read.status \in Unpaying

WithinContract == sub.status # "trialing" /\ sub.seats <= sub.contracted

\* What a handler decided when it read the row.
NeverComp == ~sub.comp /\ \A h \in Handlers : ~tx[h].read.comp

PutsAllowed ==
  \A h \in Handlers :
    tx[h].pc = "sets_seats" =>
      SeatsAreFree(tx[h].read) \/ tx[h].seats <= tx[h].read.contracted

UpgradesAllowed ==
  \A h \in Handlers :
    tx[h].pc = "PAID" /\ charge[tx[h].charge].kind = "seat_upgrade" =>
      SeatChargeAllowed(tx[h].read, charge[tx[h].charge].seats)

SeatsInv ==
  /\ NeverComp
  /\ PutsAllowed
  /\ UpgradesAllowed
  /\ overtaken \/ BeforeFirstPayment \/ WithinContract

LEMMA SubscribedRow ==
  ASSUME NEW first \in ChargeIds, NEW n \in 1 .. MaxSeats, NEW p \in Offered,
         Subscribed(first, n, p)
  PROVE  /\ sub.status = "active" /\ ~sub.comp
         /\ sub.seats = n /\ sub.contracted = n /\ sub.pendingSeats = NoSeats
         /\ sub.ends = PeriodLen(p) /\ sub.dunning = 0
<1> DEFINE s == [NewSubscription EXCEPT !.seats = n, !.plan = p, !.ends = 0,
                                        !.status = "pending_activation"]
<1>1. n \in Nat /\ p \in Renewable
  BY BoundsAssumption
<1>2. s \in Subscription
  BY <1>1, NewSubscriptionType, Zenon
<1>3. /\ s.status = "pending_activation" /\ s.seats = n /\ s.ends = 0 /\ s.plan = p
      /\ s.pendingSeats = NoSeats
  BY DEF NewSubscription
<1>4. sub = ApplyInitialPayment(s, 0)
  BY DEF Subscribed
<1> HIDE DEF s
<1> QED
  BY <1>2, <1>3, <1>4, InitialPaymentFields, PeriodLenType DEF LaterEnd

LEMMA InitSeatsInv == Init => SeatsInv
<1> SUFFICES ASSUME Init PROVE SeatsInv
  OBVIOUS
<1>1. /\ \A h \in Handlers :
           tx[h].pc = "idle" /\ tx[h].read.status = "trialing" /\ ~tx[h].read.comp
      /\ PutsAllowed /\ UpgradesAllowed
  BY DEF Init, IdleTx, NewSubscription, PutsAllowed, UpgradesAllowed
<1>2. CASE InitTrial
  BY <1>1, <1>2 DEF InitTrial, Init, NewSubscription, UnusedCharge, IdleRequest, IdleSweep,
                    SeatsInv, NeverComp, BeforeFirstPayment, Unpaying
<1>3. CASE InitSubscriber
  <2>1. PICK first \in ChargeIds, n \in 1 .. MaxSeats, p \in Offered : Subscribed(first, n, p)
    BY <1>3 DEF InitSubscriber
  <2> QED BY <1>1, <2>1, SubscribedRow DEF SeatsInv, NeverComp, WithinContract
<1> QED
  BY <1>2, <1>3 DEF Init

\* What a handler decided stays decided until it commits.
LEMMA HandlersDecided ==
  ASSUME IInv, CaptureInv, NeverComp, PutsAllowed, UpgradesAllowed, [Next]_vars
  PROVE  /\ PutsAllowed' /\ UpgradesAllowed'
         /\ \A h \in Handlers : ~tx'[h].read.comp
<1>0. TypeOK
  BY DEF IInv
<1>1. IdleTx.pc = "idle" /\ ~IdleTx.read.comp
  BY DEF IdleTx, NewSubscription
<1>2. ASSUME NEW h \in Handlers PROVE ~tx'[h].read.comp
  BY <1>0, <1>1, HandlerSteps, BeginsFields DEF NeverComp
<1>3. ASSUME NEW h \in Handlers, tx'[h].pc = "sets_seats"
      PROVE  SeatsAreFree(tx'[h].read) \/ tx'[h].seats <= tx'[h].read.contracted
  <2>1. Begins(h) => SeatsAreFree(tx'[h].read) \/ tx'[h].seats <= tx'[h].read.contracted
    BY <1>0, <1>3, BeginsFields
  <2> QED BY <1>1, <1>3, <2>1, HandlerSteps DEF PutsAllowed
<1>4. ASSUME NEW h \in Handlers, tx'[h].pc = "PAID",
             charge'[tx'[h].charge].kind = "seat_upgrade"
      PROVE  SeatChargeAllowed(tx'[h].read, charge'[tx'[h].charge].seats)
  <2>1. CASE tx'[h] = tx[h]
    <3>1. tx[h].charge \in ChargeIds /\ charge[tx[h].charge].status # "unused"
      BY <1>4, <2>1 DEF IInv, HandlersHold, HandlerHolds, Settling
    <3>2. /\ charge'[tx[h].charge].kind = charge[tx[h].charge].kind
          /\ charge'[tx[h].charge].seats = charge[tx[h].charge].seats
      BY <3>1, NextMoves DEF Moves
    <3> QED BY <1>4, <2>1, <3>2 DEF UpgradesAllowed
  <2>2. CASE Begins(h)
    BY <1>0, <1>4, <2>2, BeginsFields DEF Accepted
  <2> QED BY <1>1, <1>4, <2>1, <2>2, HandlerSteps
<1>5. PutsAllowed'
  BY <1>3 DEF PutsAllowed
<1>6. UpgradesAllowed'
  BY <1>4 DEF UpgradesAllowed
<1> QED
  BY <1>2, <1>5, <1>6

\* The row a handler makes of one within its contract is within its contract.
LEMMA WantedSeats ==
  ASSUME IInv, NeverComp, PutsAllowed, NEW h \in Handlers, NEW w, Wants(h, w)
  PROVE  /\ ~w.comp
         /\ w.status \in {tx[h].read.status, "active", "past_due"}
         /\ tx[h].read.seats <= tx[h].read.contracted => w.seats <= w.contracted
<1> DEFINE read == tx[h].read
           c    == tx[h].charge
<1>1. /\ read \in Subscription /\ now \in Int /\ ~read.comp /\ tx[h].seats \in Int
      /\ read.seats \in Int /\ read.contracted \in Int /\ read.pendingSeats \in Int
  BY DEF IInv, TypeOK, Tx, Subscription, NeverComp
<1> DEFINE Goal == /\ ~w.comp
                   /\ w.status \in {read.status, "active", "past_due"}
                   /\ read.seats <= read.contracted => w.seats <= w.contracted
<1>2. ASSUME QueueApplied(read, w), w.status = "active", w.comp = read.comp PROVE Goal
  BY <1>1, <1>2 DEF QueueApplied, NextSeats
<1>3. ASSUME Pays(h, w) PROVE Goal
  <2>1. CASE charge[c].kind = "initial" /\ w = ApplyInitialPayment(read, now)
    BY <1>1, <2>1, InitialPaymentFields
  <2>2. CASE charge[c].kind = "seat_upgrade" /\ w = ApplySeatCharge(read, charge[c].seats)
    <3>1. charge[c].seats \in Int
      BY <1>3 DEF Pays, IInv, TypeOK, HandlersHold, HandlerHolds, Settling, Charge
    <3> QED BY <1>1, <2>2, <3>1, SeatChargeFields
  <2>3. CASE w = ApplyRenewal(read, now)
    BY <1>1, <1>2, <2>3, RenewalFields
  <2> QED BY <1>3, <2>1, <2>2, <2>3 DEF Pays
<1>4. ASSUME NEW kind, w = AfterFailure(read, kind) PROVE Goal
  BY <1>1, <1>4, RenewalFailedFields DEF AfterFailure, SameSeats
<1>5. ASSUME tx[h].pc = "sets_seats", w = WithSeats(read, tx[h].seats) PROVE Goal
  <2>1. w.status = read.status /\ w.comp = read.comp /\ w.seats = tx[h].seats
        /\ w.contracted = IF SeatsAreFree(read) /\ tx[h].seats > read.contracted
                            THEN tx[h].seats ELSE read.contracted
    BY <1>1, <1>5 DEF WithSeats, Subscription
  <2>2. SeatsAreFree(read) \/ tx[h].seats <= read.contracted
    BY <1>5 DEF PutsAllowed
  <2> QED BY <1>1, <2>1, <2>2
<1>6. ASSUME w = ApplyManualPayment(read, now) PROVE Goal
  BY <1>1, <1>2, <1>6, ManualPaymentFields
<1>7. ASSUME w = read PROVE Goal
  BY <1>1, <1>7
<1> QED
  BY <1>3, <1>4, <1>5, <1>6, <1>7 DEF Wants

\* A commit that missed nothing either found the seats as it had read them, or leaves
\* them, and the status, alone.
LEMMA CommittedSeats ==
  ASSUME NEW h \in Handlers, NEW w, Commits(h, w), ~overtaken'
  PROVE  \/ /\ sub'.seats = sub.seats /\ sub'.contracted = sub.contracted
            /\ sub'.status = sub.status /\ w.status = tx[h].read.status
         \/ /\ tx[h].read.seats = sub.seats /\ tx[h].read.contracted = sub.contracted
            /\ sub'.seats = w.seats /\ sub'.contracted = w.contracted
            /\ sub'.status = IF w.status = tx[h].read.status THEN sub.status ELSE w.status
<1>1. ~MissedSeats(tx[h].read, w)
  BY DEF Commits
<1>2. sub' = Overwrite(sub, tx[h].read, w)
  BY DEF Commits
<1>3. /\ sub'.status = IF w.status = tx[h].read.status THEN sub.status ELSE w.status
      /\ sub'.seats = IF w.seats = tx[h].read.seats THEN sub.seats ELSE w.seats
      /\ sub'.contracted = IF w.contracted = tx[h].read.contracted
                             THEN sub.contracted ELSE w.contracted
  BY <1>2, OverwriteFields
<1> QED
  BY <1>1, <1>3 DEF MissedSeats

LEMMA NextNeverComp ==
  ASSUME AdminActions \cap Grants = {}, IInv, CaptureInv, NeverComp, PutsAllowed,
         UpgradesAllowed, [Next]_vars
  PROVE  NeverComp'
<1>1. sub \in Subscription /\ ~sub.comp
  BY DEF IInv, TypeOK, NeverComp
<1>2. ASSUME NEW h \in Handlers, HandlerCommits(h) PROVE ~sub'.comp
  <2>1. PICK w \in Subscription : Finishes(h, w)
    BY <1>2, HandlerFinishes
  <2>2. ~w.comp /\ ~tx[h].read.comp
    BY <2>1, WantedSeats DEF Finishes, NeverComp
  <2>3. sub'.comp = IF w.comp = tx[h].read.comp THEN sub.comp ELSE w.comp
    BY <2>1, OverwriteFields DEF Finishes, Commits
  <2> QED BY <1>1, <2>2, <2>3
<1>3. SweepFails => ~sub'.comp
  BY <1>1, RenewalFailedFields DEF SweepFails
<1>4. OverdueSweep => ~sub'.comp
  BY <1>1 DEF OverdueSweep, Subscription
<1>5. CustomerWrites => ~sub'.comp
  <2>1. ASSUME NEW p \in Offered, CustomerChoosesPlan(p) \/ CustomerChangesInterval(p)
        PROVE  ~sub'.comp
    <3>1. CustomerChoosesPlan(p) => ~sub'.comp
      BY <1>1, OperationFields DEF CustomerChoosesPlan, Writes
    <3>2. CustomerChangesInterval(p) => ~sub'.comp
      BY <1>1 DEF CustomerChangesInterval, Writes, Subscription
    <3> QED BY <2>1, <3>1, <3>2
  <2>2. ASSUME NEW n \in 1 .. MaxSeats, NEW v \in SUBSET Users, CustomerQueuesDownsize(n, v)
        PROVE  ~sub'.comp
    BY <1>1, <2>2 DEF CustomerQueuesDownsize, Writes, Subscription
  <2>3. CustomerKeepsSeats => ~sub'.comp
    BY <1>1 DEF CustomerKeepsSeats, Writes, Subscription
  <2>4. CustomerCancels \/ CustomerReactivates => ~sub'.comp
    BY <1>1, OperationFields DEF CustomerCancels, CustomerReactivates, Writes
  <2> QED BY <2>1, <2>2, <2>3, <2>4 DEF CustomerWrites
<1>6. AdminWrites => ~sub'.comp
  <2>1. AdminWrites => AdminCancels \/ AdminExtendsTrial
    BY DEF AdminWrites, AdminActivates, AdminSetsComp, AdminSetsEnterprise, Grants
  <2> QED BY <1>1, <2>1, OperationFields DEF AdminCancels, AdminExtendsTrial, Writes
<1>7. ~sub'.comp
  BY <1>1, <1>2, <1>3, <1>4, <1>5, <1>6, RowSteps
<1> QED
  BY <1>7, HandlersDecided DEF NeverComp

\* Before its first payment the organization has no card to sweep, no seats to buy, and
\* no invoice to owe: the webhook of a checkout is the way out.
LEMMA BeforeSteps ==
  ASSUME AdminActions \cap Grants = {}, IInv, NeverComp, PutsAllowed, BeforeFirstPayment,
         ~overtaken', [Next]_vars
  PROVE  BeforeFirstPayment' \/ WithinContract'
<1> USE DEF BeforeFirstPayment
<1>1. TypeOK /\ sub \in Subscription
  BY DEF IInv, TypeOK
<1>0. \A h \in Handlers : tx'[h].pc # "marks_paid" /\ tx'[h].read.status \in Unpaying
  <2>1. IdleTx.pc = "idle" /\ IdleTx.read.status \in Unpaying
    BY DEF IdleTx, NewSubscription, Unpaying
  <2> QED BY <1>1, <2>1, HandlerSteps, BeginsFields
<1>2. ASSUME NEW r \in Requests, RequestStep(r) PROVE BeforeFirstPayment'
  <2>1. sub' = sub /\ card' = card /\ sweep' = sweep
    BY <1>2 DEF RequestStep, CheckInitial, CheckSeatChange, CommitCharge, GatewayAccepts,
                RequestReturns, RequestFails, RequestCrashes
  <2>2. ASSUME NEW q \in Requests PROVE req'[q].kind = "initial"
    <3>1. req[q] \in Request /\ req \in [Requests -> Request]
      BY <1>1 DEF TypeOK
    <3>2. ASSUME NEW p \in Offered, CheckInitial(r, p) PROVE req'[q].kind = "initial"
      BY <3>1, <3>2 DEF CheckInitial, IdleRequest
    <3>3. ASSUME NEW d \in ChargeIds, CommitCharge(r, d) PROVE req'[q].kind = "initial"
      BY <3>1, <3>3 DEF CommitCharge, Request
    <3>4. CASE GatewayAccepts(r)
      BY <3>1, <3>4 DEF GatewayAccepts, Request
    <3>5. CASE RequestReturns(r) \/ RequestFails(r) \/ RequestCrashes(r)
      BY <3>1, <3>5 DEF RequestReturns, RequestFails, RequestCrashes, IdleRequest
    <3> QED BY <1>2, <3>2, <3>3, <3>4, <3>5 DEF RequestStep, CheckSeatChange
  <2>3. ASSUME NEW c \in ChargeIds PROVE charge'[c].kind = "initial" /\ charge'[c].dueAt = NoTime
    <3>1. charge[c] \in Charge
      BY <1>1 DEF TypeOK
    <3>2. ASSUME NEW d \in ChargeIds, CommitCharge(r, d)
          PROVE  charge'[c].kind = "initial" /\ charge'[c].dueAt = NoTime
      BY <1>1, <3>2 DEF CommitCharge, NewCharge, Row, UnusedCharge, TypeOK
    <3>3. CASE RequestFails(r)
      BY <1>1, <3>1, <3>3 DEF RequestFails, TypeOK, Charge
    <3> QED BY <1>2, <3>2, <3>3 DEF RequestStep, CheckInitial, CheckSeatChange, GatewayAccepts,
                RequestReturns, RequestCrashes
  <2> QED BY <1>0, <2>1, <2>2, <2>3
<1>3. ASSUME NEW h \in Handlers, HandlerCommits(h)
      PROVE  BeforeFirstPayment' \/ WithinContract'
  <2> DEFINE read == tx[h].read
             c    == tx[h].charge
  <2>1. PICK w \in Subscription : Finishes(h, w)
    BY <1>3, HandlerFinishes
  <2>2. /\ read \in Subscription /\ now \in Int /\ read.status \in Unpaying
        /\ read.seats \in Int /\ sub.seats \in Int
    BY <1>1 DEF TypeOK, Tx, Subscription
  <2>3. tx[h].pc \in {"PAID", "FAILED"} => charge[c].kind = "initial"
    BY DEF IInv, HandlersHold, HandlerHolds, Settling
  <2>4. CASE tx[h].pc = "PAID"
    <3>1. w = ApplyInitialPayment(read, now)
      BY <2>1, <2>3, <2>4 DEF Finishes, Wants, Pays
    <3>2. w.status = "active" /\ w.seats = w.contracted /\ w.seats = read.seats
      BY <2>2, <3>1, InitialPaymentFields DEF Unpaying
    <3>3. sub'.seats = sub'.contracted /\ sub'.status = "active" /\ sub'.seats = read.seats
      BY <2>1, <2>2, <3>2, CommittedSeats DEF Finishes, Unpaying
    <3> QED BY <2>2, <3>3 DEF WithinContract
  <2>5. CASE tx[h].pc = "FAILED"
    <3>1. WebhookFailed(h)
      BY <1>3, <2>5 DEF HandlerCommits, WebhookCommits, WebhookInitialPaid, WebhookSeatsPaid,
         WebhookRenewalPaid, Acknowledges, CustomerSetsSeats, AdminMarksPaid
    <3>2. w = read
      BY <2>1, <2>3, <2>5 DEF Finishes, Wants, Pays, AfterFailure
    <3>3. sub'.status = sub.status
      BY <2>1, <3>2, OverwriteFields DEF Finishes, Commits
    <3>4. \A d \in ChargeIds : charge'[d].kind = charge[d].kind /\ charge'[d].dueAt = charge[d].dueAt
      BY <1>1, <3>1 DEF WebhookFailed, TypeOK, Charge
    <3> QED BY <1>0, <3>1, <3>3, <3>4 DEF WebhookFailed
  <2>6. CASE tx[h].pc = "sets_seats"
    <3>1. CustomerSetsSeats(h)
      BY <1>3, <2>6 DEF HandlerCommits, WebhookCommits, WebhookFailed, WebhookInitialPaid,
         WebhookSeatsPaid, WebhookRenewalPaid, Acknowledges, AdminMarksPaid
    <3>2. w.status = read.status
      BY <2>1, <2>2, <2>6 DEF Finishes, Wants, Pays, WithSeats, Subscription
    <3>3. sub'.status = sub.status
      BY <2>1, <3>2, OverwriteFields DEF Finishes, Commits
    <3> QED BY <1>0, <3>1, <3>3 DEF CustomerSetsSeats
  <2> QED BY <2>1, <2>4, <2>5, <2>6 DEF Finishes, Wants, Pays
<1>4. ASSUME UNCHANGED <<charge, card, req, sweep>>, sub'.status \in Unpaying
      PROVE  BeforeFirstPayment'
  BY <1>0, <1>4
<1>5. CASE CustomerWrites
  <2>1. sub'.status \in {sub.status, "pending_activation"}
    <3>1. ASSUME NEW p \in Offered, CustomerChoosesPlan(p) \/ CustomerChangesInterval(p)
          PROVE  sub'.status \in {sub.status, "pending_activation"}
      <4>1. CASE CustomerChoosesPlan(p)
        BY <1>1, <4>1, OperationFields DEF CustomerChoosesPlan, Writes
      <4>2. CASE CustomerChangesInterval(p)
        BY <1>1, <4>2 DEF CustomerChangesInterval, Writes, Subscription
      <4> QED BY <3>1, <4>1, <4>2
    <3>2. ASSUME NEW n \in 1 .. MaxSeats, NEW v \in SUBSET Users, CustomerQueuesDownsize(n, v)
          PROVE  sub'.status = sub.status
      BY <1>1, <3>2 DEF CustomerQueuesDownsize, Writes, Subscription
    <3>3. CustomerKeepsSeats => sub'.status = sub.status
      BY <1>1 DEF CustomerKeepsSeats, Writes, Subscription
    <3>4. CustomerCancels \/ CustomerReactivates => sub'.status = sub.status
      BY <1>1, OperationFields DEF CustomerCancels, CustomerReactivates, Writes
    <3> QED BY <1>5, <3>1, <3>2, <3>3, <3>4 DEF CustomerWrites
  <2>2. UNCHANGED <<charge, card, req, sweep>>
    BY <1>5 DEF CustomerWrites, CustomerChoosesPlan, CustomerChangesInterval,
         CustomerKeepsSeats, CustomerQueuesDownsize, CustomerCancels, CustomerReactivates, Writes
  <2> QED BY <1>4, <2>1, <2>2 DEF Unpaying
<1>6. CASE AdminWrites
  <2>1. AdminCancels \/ AdminExtendsTrial
    BY <1>6 DEF AdminWrites, AdminActivates, AdminSetsComp, AdminSetsEnterprise, Grants
  <2>2. sub'.status \in {sub.status, "canceled"}
    BY <1>1, <2>1, OperationFields DEF AdminCancels, AdminExtendsTrial, Writes
  <2> QED BY <1>4, <2>1, <2>2 DEF AdminCancels, AdminExtendsTrial, Writes, Unpaying
<1>7. CASE Tick \/ WindowEnds
  <2>1. \A c \in ChargeIds : charge'[c].kind = charge[c].kind /\ charge'[c].dueAt = charge[c].dueAt
    BY <1>1, <1>7 DEF Tick, WindowEnds, Stale, TypeOK, Charge
  <2> QED BY <1>0, <1>7, <2>1 DEF Tick, WindowEnds
<1>8. ~ SweepStep /\ ~ OverdueSweep
  BY DEF SweepStep, SweepBegins, RenewalDue, SweepCalls, SweepCommits, SweepFails, SweepCrashes,
         OverdueSweep, OverdueInvoices
<1>9. CASE \/ UNCHANGED vars
           \/ \E c \in ChargeIds, o \in {"PAID", "FAILED"} : GatewaySettles(c, o)
           \/ \E h \in Handlers : HandlerCrashes(h)
           \/ \E h \in Handlers : Begins(h)
           \/ \E c \in ChargeIds : WebhookIgnored(c)
  BY <1>1, <1>4, <1>9, BeginsFields DEF vars, GatewaySettles, HandlerCrashes, WebhookIgnored
<1>10. CASE CustomerStep
  BY <1>3, <1>5, <1>9, <1>10 DEF CustomerStep, CustomerWrites, HandlerCommits, Begins
<1>11. CASE AdminStep
  BY <1>3, <1>6, <1>9, <1>11 DEF AdminStep, AdminWrites, HandlerCommits, Begins
<1>12. ASSUME NEW c \in ChargeIds, Webhook(c) PROVE BeforeFirstPayment' \/ WithinContract'
  BY <1>3, <1>9, <1>12 DEF Webhook, HandlerCommits, Begins
<1> QED
  BY <1>2, <1>7, <1>8, <1>9, <1>10, <1>11, <1>12 DEF Next

\* From the first payment on, every operation keeps the cap within the contract.
LEMMA WithinSteps ==
  ASSUME AdminActions \cap Grants = {}, IInv, NeverComp, PutsAllowed, WithinContract,
         ~overtaken', [Next]_vars
  PROVE  WithinContract'
<1> USE DEF WithinContract
<1>1. /\ sub \in Subscription /\ now \in Int /\ sub.seats \in Nat /\ sub.contracted \in Nat
      /\ sub.pendingSeats \in Nat /\ ~sub.comp
  BY DEF IInv, TypeOK, Subscription, NeverComp
<1>2. sub'.status # "trialing" /\ SameSeats(sub, sub') => WithinContract'
  BY <1>1 DEF SameSeats
<1>3. ASSUME NEW h \in Handlers, HandlerCommits(h) PROVE WithinContract'
  <2>1. PICK w \in Subscription : Finishes(h, w)
    BY <1>3, HandlerFinishes
  <2>2. /\ w.status \in {tx[h].read.status, "active", "past_due"}
        /\ tx[h].read.seats <= tx[h].read.contracted => w.seats <= w.contracted
    BY <2>1, WantedSeats DEF Finishes
  <2> QED BY <1>1, <2>1, <2>2, CommittedSeats DEF Finishes
<1>4. CASE SweepFails
  BY <1>1, <1>2, <1>4, RenewalFailedFields DEF SweepFails
<1>5. CASE OverdueSweep
  BY <1>1, <1>5 DEF OverdueSweep, Subscription
<1>6. CASE CustomerWrites
  <2>1. ASSUME NEW p \in Offered, CustomerChoosesPlan(p) \/ CustomerChangesInterval(p)
        PROVE  WithinContract'
    <3>1. CASE CustomerChoosesPlan(p)
      BY <1>1, <1>2, <3>1, OperationFields DEF CustomerChoosesPlan, Writes
    <3>2. CASE CustomerChangesInterval(p)
      BY <1>1, <3>2 DEF CustomerChangesInterval, Writes, Subscription
    <3> QED BY <2>1, <3>1, <3>2
  <2>2. ASSUME NEW n \in 1 .. MaxSeats, NEW v \in SUBSET Users, CustomerQueuesDownsize(n, v)
        PROVE  WithinContract'
    BY <1>1, <2>2 DEF CustomerQueuesDownsize, Writes, Subscription
  <2>3. CustomerKeepsSeats => WithinContract'
    BY <1>1 DEF CustomerKeepsSeats, Writes, Subscription
  <2>4. CustomerCancels \/ CustomerReactivates => WithinContract'
    BY <1>1, <1>2, OperationFields DEF CustomerCancels, CustomerReactivates, Writes
  <2> QED BY <1>6, <2>1, <2>2, <2>3, <2>4 DEF CustomerWrites
<1>7. CASE AdminWrites
  <2>1. AdminCancels \/ AdminExtendsTrial
    BY <1>7 DEF AdminWrites, AdminActivates, AdminSetsComp, AdminSetsEnterprise, Grants
  <2> QED BY <1>1, <1>2, <2>1, OperationFields DEF AdminCancels, AdminExtendsTrial, Writes
<1> QED
  BY <1>3, <1>4, <1>5, <1>6, <1>7, RowSteps

LEMMA NextSeatsInv ==
  ASSUME AdminActions \cap Grants = {}, IInv, CaptureInv, SeatsInv, [Next]_vars
  PROVE  SeatsInv'
<1>1. NeverComp /\ PutsAllowed /\ UpgradesAllowed
  BY DEF SeatsInv
<1>2. NeverComp' /\ PutsAllowed' /\ UpgradesAllowed'
  BY <1>1, NextNeverComp, HandlersDecided
<1>3. ~overtaken' => ~overtaken
  <2>1. ASSUME NEW h \in Handlers, HandlerCommits(h), ~overtaken' PROVE ~overtaken
    BY <2>1, HandlerFinishes DEF Finishes, Commits
  <2> QED BY <2>1, RowSteps DEF SweepFails, OverdueSweep, CustomerWrites, CustomerChoosesPlan,
          CustomerChangesInterval, CustomerKeepsSeats, CustomerQueuesDownsize, CustomerCancels,
          CustomerReactivates, AdminWrites, AdminActivates, AdminSetsComp, AdminSetsEnterprise,
          AdminCancels, AdminExtendsTrial, Writes
<1>4. overtaken' \/ BeforeFirstPayment' \/ WithinContract'
  BY <1>1, <1>3, BeforeSteps, WithinSteps DEF SeatsInv
<1> QED
  BY <1>2, <1>4 DEF SeatsInv

\* The seats of the subscription stay within those of the contract through purchases,
\* downsizes and renewals that overlap as they may, until one of them writes the seats
\* over a commit it had not seen; and what a handler allowed when it read the row
\* (a PUT within the contract it read, an upgrade not below it) it still holds when it
\* commits.
THEOREM SeatsInductive ==
  ASSUME AdminActions \cap Grants = {}
  PROVE  Spec => [](IInv /\ SeatsInv)
<1>1. IInv /\ CaptureInv /\ SeatsInv /\ [Next]_vars => SeatsInv'
  BY NextSeatsInv
<1> QED
  BY <1>1, InitSeatsInv, CapturesInductive, PTL DEF Spec

\* An organization that pays never has a higher cap than its contract, whatever it
\* queues, drops, buys, lets lapse or checks out again, and whatever crashes on the
\* way, unless a super-admin grants it a plan, or a handler has written its seats over
\* a commit it had not seen: a PUT overtaken by a renewal that lands a downsize, or by
\* the webhook of another checkout, leaves the cap above.
THEOREM CapIsContracted ==
  ASSUME AdminActions \cap Grants = {}
  PROVE  Spec => []SeatsWithinContract
<1>1. SeatsInv => SeatsWithinContract
  BY DEF SeatsInv, BeforeFirstPayment, Unpaying, WithinContract, SeatsWithinContract
<1> QED
  BY <1>1, SeatsInductive, PTL

\* A paid upgrade lowers the contract only if another commit moved it after the webhook
\* had compared the charge with it (two upgrade webhooks in flight at once: the smaller
\* may commit last), and lowers the cap only where seats were written over an unseen
\* commit; in sequence the smaller of two upgrades is refused.
THEOREM UpgradesOnlyRaise ==
  ASSUME AdminActions \cap Grants = {}
  PROVE  Spec => UpgradeNeverLowers
<1> DEFINE Raises(h) ==
             /\ sub'.contracted >= sub.contracted \/ tx[h].read.contracted # sub.contracted
             /\ sub'.seats >= sub.seats \/ overtaken'
<1>1. ASSUME IInv, SeatsInv, [Next]_vars, NEW h \in Handlers, NEW issued \in BOOLEAN,
             WebhookSeatsPaid(h, issued)
      PROVE  Raises(h)
  <2> DEFINE c    == tx[h].charge
             read == tx[h].read
             w    == ApplySeatCharge(read, charge[c].seats)
  <2>1. /\ tx[h].pc = "PAID" /\ charge[c].kind = "seat_upgrade" /\ Commits(h, w)
        /\ overtaken' = (overtaken \/ MissedSeats(read, w))
    BY <1>1 DEF WebhookSeatsPaid, Acknowledges, Commits
  <2>2. c \in ChargeIds
    BY <1>1, <2>1 DEF IInv, HandlersHold, HandlerHolds, Settling
  <2>3. /\ read \in Subscription /\ sub \in Subscription /\ charge[c].seats \in Nat
        /\ read.contracted \in Nat /\ sub.contracted \in Nat /\ sub.seats \in Nat
    BY <1>1, <2>2 DEF IInv, TypeOK, Tx, Subscription, Charge
  <2>4. w.seats = charge[c].seats /\ w.contracted = charge[c].seats /\ w.status = read.status
    BY <2>3, SeatChargeFields
  <2>5. charge[c].seats >= read.contracted
    BY <1>1, <2>1 DEF SeatsInv, UpgradesAllowed, SeatChargeAllowed
  <2>6. sub'.contracted >= sub.contracted \/ read.contracted # sub.contracted
    <3>1. sub'.contracted = IF w.contracted = read.contracted THEN sub.contracted ELSE w.contracted
      BY <2>1, OverwriteFields DEF Commits
    <3> HIDE DEF w, read, c
    <3> QED BY <2>3, <2>4, <2>5, <3>1
  <2>7. ASSUME ~overtaken' PROVE sub'.seats >= sub.seats
    <3>1. ~overtaken
      BY <2>1, <2>7
    <3>2. sub.seats <= sub.contracted
      BY <1>1, <2>2, <2>1, <3>1 DEF SeatsInv, BeforeFirstPayment, WithinContract
    <3>3. sub'.seats = sub.seats \/ (read.contracted = sub.contracted /\ sub'.seats = w.seats)
      BY <2>1, <2>7, CommittedSeats
    <3> HIDE DEF w, read, c
    <3> QED BY <2>3, <2>4, <2>5, <3>2, <3>3
  <2> QED BY <2>6, <2>7
<1>2. IInv /\ SeatsInv /\ [Next]_vars =>
        \A h \in Handlers, issued \in BOOLEAN : WebhookSeatsPaid(h, issued) => Raises(h)
  BY <1>1
<1>3. IInv /\ SeatsInv /\ [Next]_vars =>
        [\A h \in Handlers, issued \in BOOLEAN : WebhookSeatsPaid(h, issued) => Raises(h)]_vars
  BY <1>2
<1> QED
  BY <1>3, SeatsInductive, PTL DEF Spec, UpgradeNeverLowers

(***************************************************************************)
(* What was paid for.  The largest paid charge covers the seats, the         *)
(* contract, a queued downsize and the users in place, in the row and in     *)
(* whatever copy of it a handler holds: a later contract is one of these or   *)
(* the seats of a charge that is paid in the same commit.                    *)
(***************************************************************************)
PaidFor(n) == \E c \in ChargeIds : charge[c].status = "paid" /\ charge[c].seats >= n

CoveredRow(s) ==
  /\ ~s.comp /\ s.status # "trialing"
  /\ PaidFor(s.seats) /\ PaidFor(s.contracted) /\ PaidFor(s.pendingSeats)

CoverInv ==
  /\ CoveredRow(sub) /\ PaidFor(Cardinality(active))
  /\ \A h \in Handlers :
       tx[h].pc # "idle" =>
         CoveredRow(tx[h].read) /\ (tx[h].pc = "sets_seats" => PaidFor(tx[h].seats))

StillPaidFor(n) == \E c \in ChargeIds : charge'[c].status = "paid" /\ charge'[c].seats >= n

StillCovered(s) ==
  /\ ~s.comp /\ s.status # "trialing"
  /\ StillPaidFor(s.seats) /\ StillPaidFor(s.contracted) /\ StillPaidFor(s.pendingSeats)

\* No payment, not even of an upgrade, is overwritten unless an answer of ComGate is lost.
LEMMA MoneyStays ==
  ASSUME "timeout" \notin Faults, IInv, CaptureInv, [Next]_vars, NEW n \in Int, PaidFor(n)
  PROVE  StillPaidFor(n)
<1>1. PICK c \in ChargeIds : charge[c].status = "paid" /\ charge[c].seats >= n
  BY DEF PaidFor
<1>2. ~ HeldBy(c)
  BY <1>1 DEF HeldBy, CaptureInv, PaidIsCaptured, HoldsUncaptured
<1>3. charge'[c].status = "paid" /\ charge'[c].seats = charge[c].seats
  BY <1>1, <1>2, NextMoves DEF Moves
<1> QED
  BY <1>1, <1>3 DEF StillPaidFor

LEMMA CoverStays ==
  ASSUME "timeout" \notin Faults, IInv, CaptureInv, [Next]_vars,
         NEW s \in Subscription, CoveredRow(s)
  PROVE  StillCovered(s)
<1>1. s.seats \in Int /\ s.contracted \in Int /\ s.pendingSeats \in Int
  BY DEF Subscription
<1> QED
  BY <1>1, MoneyStays DEF CoveredRow, StillCovered

LEMMA PaidForLess ==
  ASSUME TypeOK, NEW m \in Int, NEW n \in Int, n <= m
  PROVE  /\ PaidFor(m) => PaidFor(n)
         /\ TypeOK' /\ StillPaidFor(m) => StillPaidFor(n)
<1>1. \A c \in ChargeIds : charge[c].seats \in Nat
  BY DEF TypeOK, Charge
<1>2. ASSUME TypeOK' PROVE \A c \in ChargeIds : charge'[c].seats \in Nat
  BY <1>2 DEF TypeOK, Charge
<1> QED
  BY <1>1, <1>2 DEF PaidFor, StillPaidFor

LEMMA UsersCount ==
  ASSUME NEW S \in SUBSET Users
  PROVE  IsFiniteSet(S) /\ Cardinality(S) \in Nat
  BY UsersAssumption, FS_Subset, FS_CardinalityType

\* Nobody joins in this module: the users in place only get fewer.
LEMMA UsersOnlyLeave ==
  ASSUME IInv, [Next]_vars
  PROVE  active' \subseteq active /\ Cardinality(active') <= Cardinality(active)
<1>1. ASSUME NEW h \in Handlers, HandlerCommits(h) PROVE active' \subseteq active
  BY <1>1, HandlerFinishes DEF Finishes
<1>2. CustomerWrites \/ AdminWrites => active' \subseteq active
  BY DEF CustomerWrites, CustomerChoosesPlan, CustomerChangesInterval, CustomerKeepsSeats,
       CustomerQueuesDownsize, CustomerCancels, CustomerReactivates, AdminWrites,
       AdminActivates, AdminSetsComp, AdminSetsEnterprise, AdminCancels, AdminExtendsTrial, Writes
<1>3. active' \subseteq active
  BY <1>1, <1>2, RowSteps DEF SweepFails, OverdueSweep
<1> QED
  BY <1>3, UsersCount, FS_Subset DEF IInv, TypeOK

LEMMA InitCover ==
  ASSUME Origins = {"subscriber"}, Init
  PROVE  CoverInv
<1>1. PICK first \in ChargeIds, n \in 1 .. MaxSeats, p \in Offered : Subscribed(first, n, p)
  BY DEF Init, InitSubscriber
<1>2. charge[first].status = "paid" /\ charge[first].seats = n
  BY <1>1 DEF Subscribed, UnusedCharge
<1>3. Cardinality(active) <= n
  <2>1. PICK others \in SUBSET (Users \ {Owner}) :
          Cardinality(others) < n /\ active = others \cup {Owner}
    BY <1>1 DEF Subscribed
  <2>2. IsFiniteSet(others) /\ Owner \notin others /\ Cardinality(others) \in Nat
    BY <2>1, UsersCount
  <2>3. Cardinality(active) = Cardinality(others) + 1
    BY <2>1, <2>2, FS_AddElement
  <2> QED BY <2>1, <2>2, <2>3
<1>4. CoveredRow(sub) /\ PaidFor(Cardinality(active))
  BY <1>1, <1>2, <1>3, SubscribedRow DEF CoveredRow, PaidFor, NoSeats
<1>5. \A h \in Handlers : tx[h].pc = "idle"
  BY DEF Init, IdleTx
<1> QED
  BY <1>4, <1>5 DEF CoverInv

\* What a handler makes of a covered row is covered when it commits.
LEMMA WantedIsCovered ==
  ASSUME "timeout" \notin Faults, IInv, CaptureInv, CoverInv, [Next]_vars,
         NEW h \in Handlers, HandlerCommits(h), NEW w, Finishes(h, w)
  PROVE  StillCovered(w)
<1> DEFINE read == tx[h].read
           c    == tx[h].charge
<1>1. /\ TypeOK /\ TypeOK' /\ read \in Subscription /\ now \in Int /\ tx[h].seats \in Int
      /\ tx[h].pc # "idle"
  BY HandlerFinishes, NextType DEF IInv, TypeOK, Tx
<1>2. StillCovered(read) /\ ~read.comp /\ read.status # "trialing"
  BY <1>1, CoverStays DEF CoverInv, CoveredRow
<1>3. StillPaidFor(NoSeats)
  <2>1. read.seats \in Int /\ NoSeats <= read.seats /\ NoSeats \in Int
    BY <1>1 DEF Subscription, NoSeats
  <2> QED BY <1>1, <1>2, <2>1, PaidForLess DEF StillCovered
<1>4. ASSUME QueueApplied(read, w), w.status = "active", w.comp = read.comp
      PROVE  StillCovered(w)
  BY <1>2, <1>3, <1>4 DEF QueueApplied, NextSeats, StillCovered
<1>5. ASSUME Pays(h, w) PROVE StillCovered(w)
  <2>1. CASE charge[c].kind = "initial" /\ w = ApplyInitialPayment(read, now)
    <3>1. CASE read.status = "active"
      BY <1>1, <1>2, <2>1, <3>1, InitialPaymentFields
    <3>2. CASE read.status # "active"
      <4>1. /\ w.status = "active" /\ ~w.comp /\ w.seats = read.seats
            /\ w.contracted = read.seats /\ w.pendingSeats = read.pendingSeats
        BY <1>1, <2>1, <3>2, InitialPaymentFields
      <4> QED BY <1>2, <4>1 DEF StillCovered
    <3> QED BY <3>1, <3>2
  <2>2. CASE charge[c].kind = "seat_upgrade" /\ w = ApplySeatCharge(read, charge[c].seats)
    <3>1. tx[h].pc = "PAID" /\ WebhookCommits(h)
      BY <1>5, HandlerFinishes DEF Pays
    <3>2. c \in ChargeIds /\ charge[c].status # "unused"
      BY <3>1 DEF IInv, HandlersHold, HandlerHolds, Settling
    <3>3. charge'[c].status = "paid" /\ charge'[c].seats = charge[c].seats
      BY <3>1, <3>2, CommittedStatus, NextMoves DEF Moves
    <3>4. charge[c].seats \in Nat
      BY <1>1, <3>2 DEF TypeOK, Charge
    <3>5. StillPaidFor(charge[c].seats)
      BY <3>2, <3>3, <3>4 DEF StillPaidFor
    <3>6. /\ w.status = read.status /\ w.comp = read.comp /\ w.seats = charge[c].seats
          /\ w.contracted = charge[c].seats /\ w.pendingSeats = NoSeats
      BY <1>1, <2>2, SeatChargeFields
    <3> QED BY <1>2, <1>3, <3>5, <3>6 DEF StillCovered
  <2>3. CASE w = ApplyRenewal(read, now)
    BY <1>1, <1>4, <2>3, RenewalFields
  <2> QED BY <1>5, <2>1, <2>2, <2>3 DEF Pays
<1>6. ASSUME NEW kind, w = AfterFailure(read, kind) PROVE StillCovered(w)
  <2>1. w.comp = read.comp /\ w.status \in {read.status, "past_due"} /\ SameSeats(read, w)
    BY <1>1, <1>6, RenewalFailedFields DEF AfterFailure, SameSeats
  <2> QED BY <1>2, <2>1 DEF StillCovered, SameSeats
<1>7. ASSUME tx[h].pc = "sets_seats", w = WithSeats(read, tx[h].seats) PROVE StillCovered(w)
  <2>1. /\ w.status = read.status /\ w.comp = read.comp /\ w.seats = tx[h].seats
        /\ w.contracted = read.contracted /\ w.pendingSeats = NoSeats
    BY <1>1, <1>2, <1>7 DEF WithSeats, SeatsAreFree, Subscription
  <2>2. StillPaidFor(tx[h].seats)
    BY <1>1, <1>7, MoneyStays DEF CoverInv
  <2> QED BY <1>2, <1>3, <2>1, <2>2 DEF StillCovered
<1>8. ASSUME w = ApplyManualPayment(read, now) PROVE StillCovered(w)
  BY <1>1, <1>4, <1>8, ManualPaymentFields
<1>9. ASSUME w = read PROVE StillCovered(w)
  BY <1>2, <1>9
<1> QED
  BY <1>5, <1>6, <1>7, <1>8, <1>9 DEF Finishes, Wants

LEMMA NextCover ==
  ASSUME AdminActions \cap Grants = {}, "timeout" \notin Faults,
         IInv, CaptureInv, CoverInv, [Next]_vars
  PROVE  CoverInv'
<1>1. /\ TypeOK /\ TypeOK' /\ sub \in Subscription /\ now \in Int
      /\ sub.seats \in Int /\ sub.contracted \in Int /\ sub.pendingSeats \in Int
      /\ 0 <= sub.contracted
  BY NextType DEF IInv, TypeOK, Subscription
<1>2. Cardinality(active) \in Int /\ Cardinality(active') \in Int
  BY <1>1, UsersCount DEF TypeOK
<1>3. StillCovered(sub) /\ StillPaidFor(Cardinality(active)) /\ StillPaidFor(NoSeats)
  <2>1. NoSeats \in Int /\ NoSeats <= sub.contracted
    BY <1>1 DEF NoSeats
  <2> QED BY <1>1, <1>2, <2>1, CoverStays, MoneyStays, PaidForLess DEF CoverInv, CoveredRow
<1>4. StillPaidFor(Cardinality(active'))
  BY <1>1, <1>2, <1>3, UsersOnlyLeave, PaidForLess
<1>5. ASSUME SameSeats(sub, sub'), sub'.comp = sub.comp \/ ~sub'.comp, sub'.status # "trialing"
      PROVE  StillCovered(sub')
  BY <1>3, <1>5 DEF SameSeats, StillCovered
<1>6. ASSUME NEW h \in Handlers, HandlerCommits(h) PROVE StillCovered(sub')
  <2>1. PICK w \in Subscription : Finishes(h, w)
    BY <1>6, HandlerFinishes
  <2>2. StillCovered(w)
    BY <1>6, <2>1, WantedIsCovered
  <2>3. /\ sub'.comp \in {sub.comp, w.comp} /\ sub'.status \in {sub.status, w.status}
        /\ sub'.seats \in {sub.seats, w.seats}
        /\ sub'.contracted \in {sub.contracted, w.contracted}
        /\ sub'.pendingSeats \in {sub.pendingSeats, w.pendingSeats}
    BY <2>1, OverwriteFields DEF Finishes, Commits
  <2>4. StillPaidFor(sub'.seats) /\ StillPaidFor(sub'.contracted) /\ StillPaidFor(sub'.pendingSeats)
    BY <1>3, <2>2, <2>3 DEF StillCovered
  <2>5. ~sub'.comp
    BY <1>3, <2>2, <2>3 DEF StillCovered
  <2>6. sub'.status # "trialing"
    BY <1>3, <2>2, <2>3 DEF StillCovered
  <2> QED BY <2>4, <2>5, <2>6 DEF StillCovered
<1>7. ASSUME SweepFails PROVE StillCovered(sub')
  <2>1. SameSeats(sub, sub') /\ sub'.comp = sub.comp /\ sub'.status \in {sub.status, "past_due"}
    BY <1>1, <1>7, RenewalFailedFields DEF SweepFails
  <2> QED BY <1>3, <1>5, <2>1 DEF StillCovered
<1>8. ASSUME OverdueSweep PROVE StillCovered(sub')
  <2>1. SameSeats(sub, sub') /\ sub'.comp = sub.comp /\ sub'.status = "past_due"
    BY <1>1, <1>8 DEF OverdueSweep, Subscription, SameSeats
  <2> QED BY <1>5, <2>1
<1>9. ASSUME CustomerWrites PROVE StillCovered(sub')
  <2>1. ASSUME NEW p \in Offered, CustomerChoosesPlan(p) \/ CustomerChangesInterval(p)
        PROVE  StillCovered(sub')
    <3>1. /\ SameSeats(sub, sub') /\ sub'.comp = sub.comp
          /\ sub'.status \in {sub.status, "pending_activation"}
      <4>1. CASE CustomerChoosesPlan(p)
        BY <1>1, <4>1, OperationFields DEF CustomerChoosesPlan, Writes
      <4>2. CASE CustomerChangesInterval(p)
        BY <1>1, <4>2 DEF CustomerChangesInterval, Writes, Subscription, SameSeats
      <4> QED BY <2>1, <4>1, <4>2
    <3> QED BY <1>3, <1>5, <3>1 DEF StillCovered
  <2>2. ASSUME NEW n \in 1 .. MaxSeats, NEW v \in SUBSET Users, CustomerQueuesDownsize(n, v)
        PROVE  StillCovered(sub')
    <3>1. /\ sub'.pendingSeats = n /\ sub'.contracted = sub.contracted /\ sub'.seats = sub.seats
          /\ sub'.comp = sub.comp /\ sub'.status = sub.status
          /\ n < Cardinality(active)
      BY <1>1, <2>2 DEF CustomerQueuesDownsize, Writes, Subscription
    <3>2. StillPaidFor(n)
      BY <1>1, <1>2, <1>3, <3>1, PaidForLess
    <3> QED BY <1>3, <3>1, <3>2 DEF StillCovered
  <2>3. ASSUME CustomerKeepsSeats PROVE StillCovered(sub')
    <3>1. /\ sub'.pendingSeats = NoSeats /\ sub'.contracted = sub.contracted
          /\ sub'.seats = sub.seats /\ sub'.comp = sub.comp /\ sub'.status = sub.status
      BY <1>1, <2>3 DEF CustomerKeepsSeats, Writes, Subscription
    <3> QED BY <1>3, <3>1 DEF StillCovered
  <2>4. ASSUME CustomerCancels \/ CustomerReactivates PROVE StillCovered(sub')
    <3>1. SameSeats(sub, sub') /\ sub'.comp = sub.comp /\ sub'.status = sub.status
      BY <1>1, <2>4, OperationFields DEF CustomerCancels, CustomerReactivates, Writes
    <3> QED BY <1>3, <1>5, <3>1 DEF StillCovered
  <2> QED BY <1>9, <2>1, <2>2, <2>3, <2>4 DEF CustomerWrites
<1>10. ASSUME AdminWrites PROVE StillCovered(sub')
  <2>1. AdminCancels \/ AdminExtendsTrial
    BY <1>10 DEF AdminWrites, AdminActivates, AdminSetsComp, AdminSetsEnterprise, Grants
  <2>2. /\ SameSeats(sub, sub') /\ (sub'.comp = sub.comp \/ ~sub'.comp)
        /\ sub'.status \in {sub.status, "canceled"}
    BY <1>1, <2>1, OperationFields DEF AdminCancels, AdminExtendsTrial, Writes
  <2> QED BY <1>3, <1>5, <2>2 DEF StillCovered
<1>11. StillCovered(sub')
  BY <1>3, <1>6, <1>7, <1>8, <1>9, <1>10, RowSteps
<1>12. ASSUME NEW h \in Handlers, tx'[h].pc # "idle"
       PROVE  /\ StillCovered(tx'[h].read)
              /\ tx'[h].pc = "sets_seats" => StillPaidFor(tx'[h].seats)
  <2>1. CASE tx'[h] = tx[h]
    <3>1. tx[h].read \in Subscription /\ tx[h].seats \in Int
      BY <1>1 DEF TypeOK, Tx
    <3> QED BY <1>12, <2>1, <3>1, CoverStays, MoneyStays DEF CoverInv
  <2>2. CASE Begins(h)
    <3>1. tx'[h].read = sub
      BY <1>1, <2>2, BeginsFields
    <3>2. ASSUME tx'[h].pc = "sets_seats" PROVE StillPaidFor(tx'[h].seats)
      <4>1. tx'[h].seats \in Int /\ tx'[h].seats <= sub.contracted
        BY <1>1, <1>3, <2>2, <3>2, BeginsFields DEF SeatsAreFree, StillCovered
      <4> QED BY <1>1, <1>3, <4>1, PaidForLess DEF StillCovered
    <3> QED BY <1>3, <3>1, <3>2
  <2> QED BY <1>12, <2>1, <2>2, HandlerSteps DEF IdleTx
<1>13. CoveredRow(sub)' /\ PaidFor(Cardinality(active))'
  BY <1>4, <1>11 DEF CoveredRow, PaidFor, StillCovered, StillPaidFor
<1>14. \A h \in Handlers :
         (tx[h].pc # "idle" =>
           CoveredRow(tx[h].read) /\ (tx[h].pc = "sets_seats" => PaidFor(tx[h].seats)))'
  BY <1>12 DEF CoveredRow, PaidFor, StillCovered, StillPaidFor
<1> QED
  BY <1>13, <1>14 DEF CoverInv

\* The contract of an organization that pays was paid for: some captured charge was
\* computed for at least as many seats, whatever downsizes, upgrades and renewals were
\* queued, in flight, overlapping or settled in between.  The organization starts as a
\* subscriber (a trial's contract is one seat nobody paid for); no super-admin grants it
\* a plan; and no answer of ComGate is lost, or a paid upgrade may be on the books as
\* failed.
THEOREM ContractsArePaidFor ==
  ASSUME Origins = {"subscriber"}, AdminActions \cap Grants = {}, "timeout" \notin Faults
  PROVE  Spec => []ContractIsPaidFor
<1>1. Init => CoverInv
  BY InitCover
<1>2. IInv /\ CaptureInv /\ CoverInv /\ [Next]_vars => CoverInv'
  BY NextCover
<1>3. CoverInv => ContractIsPaidFor
  BY DEF CoverInv, CoveredRow, PaidFor, ContractIsPaidFor
<1> QED
  BY <1>1, <1>2, <1>3, CapturesInductive, PTL DEF Spec

(***************************************************************************)
(* Days.  Unless complimentary access is granted, the row always has an end, *)
(* and so does whatever copy of it a handler holds.                          *)
(***************************************************************************)
ActiveHasAnEnd == sub.status = "active" /\ ~sub.comp => sub.ends # NoTime

EndIsKnown ==
  /\ ~sub.comp /\ sub.ends >= 0
  /\ \A h \in Handlers : ~tx[h].read.comp /\ tx[h].read.ends >= 0

\* A step that is no grant and pays nothing leaves the end of the period where it is,
\* and brings no subscription to `active'.
EndKept == sub'.ends = sub.ends /\ sub'.comp = sub.comp /\ sub'.dunning = sub.dunning

LEMMA CustomerKeepsEnd ==
  ASSUME TypeOK, CustomerWrites
  PROVE  EndKept
<1>1. sub \in Subscription
  BY DEF TypeOK
<1>2. ASSUME NEW p \in Offered, CustomerChoosesPlan(p) \/ CustomerChangesInterval(p)
      PROVE  EndKept
  <2>1. CASE CustomerChoosesPlan(p)
    BY <1>1, <2>1, OperationFields DEF CustomerChoosesPlan, Writes, EndKept
  <2>2. CASE CustomerChangesInterval(p)
    BY <1>1, <2>2 DEF CustomerChangesInterval, Writes, Subscription, EndKept
  <2> QED BY <1>2, <2>1, <2>2
<1>3. ASSUME NEW n \in 1 .. MaxSeats, NEW v \in SUBSET Users, CustomerQueuesDownsize(n, v)
      PROVE  EndKept
  BY <1>1, <1>3 DEF CustomerQueuesDownsize, Writes, Subscription, EndKept
<1>4. CASE CustomerKeepsSeats
  BY <1>1, <1>4 DEF CustomerKeepsSeats, Writes, Subscription, EndKept
<1>5. CASE CustomerCancels \/ CustomerReactivates
  BY <1>1, <1>5, OperationFields DEF CustomerCancels, CustomerReactivates, Writes, EndKept
<1> QED
  BY <1>2, <1>3, <1>4, <1>5 DEF CustomerWrites

LEMMA PlansOfAdmin == Offered \cup (AdminActions \cap {"enterprise"}) \subseteq Plans
  BY BoundsAssumption DEF Renewable, Plans

\* A handler starts a period or keeps the end it read, resets the counter or keeps it,
\* but for the one failure a webhook counts; and no handler makes a row complimentary.
LEMMA WantedDays ==
  ASSUME IInv, NEW h \in Handlers, NEW w, Wants(h, w)
  PROVE  /\ w.comp => tx[h].read.comp
         /\ \/ w.ends = tx[h].read.ends
            \/ w.ends >= now /\ tx[h].pc \in {"PAID", "marks_paid"}
         /\ \/ w.dunning = tx[h].read.dunning
            \/ w.dunning = 0
            \/ tx[h].pc = "FAILED" /\ charge[tx[h].charge].kind = "renewal"
<1> DEFINE read == tx[h].read
           c    == tx[h].charge
           Comp == w.comp => read.comp
           Ends == w.ends = read.ends \/ (w.ends >= now /\ tx[h].pc \in {"PAID", "marks_paid"})
           Dunning == \/ w.dunning = read.dunning \/ w.dunning = 0
                      \/ tx[h].pc = "FAILED" /\ charge[c].kind = "renewal"
<1>1. /\ read \in Subscription /\ now \in Int /\ read.ends \in Int
      /\ \A p : PeriodLen(p) \in Nat
  BY PeriodLenType DEF IInv, TypeOK, Tx, Subscription, Timestamp
<1>2. LaterEnd(read, now) \in Int /\ LaterEnd(read, now) >= now
  BY <1>1 DEF LaterEnd
<1>3. ASSUME Pays(h, w) PROVE Comp /\ Ends /\ Dunning
  <2>1. tx[h].pc = "PAID"
    BY <1>3 DEF Pays
  <2>2. ASSUME w = ApplyInitialPayment(read, now) PROVE Comp /\ Ends /\ Dunning
    <3>1. CASE read.status = "active"
      BY <1>1, <2>2, <3>1, InitialPaymentFields
    <3>2. CASE read.status # "active"
      <4>1. /\ ~w.comp /\ w.dunning = 0
            /\ \/ w.ends = now + PeriodLen(read.plan)
               \/ w.ends = LaterEnd(read, now) + PeriodLen(read.plan)
        BY <1>1, <2>2, <3>2, InitialPaymentFields
      <4>2. w.ends >= now
        BY <1>1, <1>2, <4>1
      <4> QED BY <2>1, <4>1, <4>2
    <3> QED BY <3>1, <3>2
  <2>3. ASSUME NEW n, w = ApplySeatCharge(read, n) PROVE Comp /\ Ends /\ Dunning
    BY <1>1, <2>3, SeatChargeFields
  <2>4. ASSUME w = ApplyRenewal(read, now) PROVE Comp /\ Ends /\ Dunning
    <3>1. w.comp = read.comp /\ w.dunning = 0 /\ w.ends = now + PeriodLen(NextPlan(read))
      BY <1>1, <2>4, RenewalFields
    <3>2. w.ends >= now
      BY <1>1, <3>1
    <3> QED BY <2>1, <3>1, <3>2
  <2> QED BY <1>3, <2>2, <2>3, <2>4 DEF Pays
<1>4. ASSUME tx[h].pc = "FAILED", w = AfterFailure(read, charge[c].kind)
      PROVE  Comp /\ Ends /\ Dunning
  BY <1>1, <1>4, RenewalFailedFields DEF AfterFailure
<1>5. ASSUME w = WithSeats(read, tx[h].seats) PROVE Comp /\ Ends /\ Dunning
  BY <1>1, <1>5 DEF WithSeats, Subscription
<1>6. ASSUME tx[h].pc = "marks_paid", w = ApplyManualPayment(read, now)
      PROVE  Comp /\ Ends /\ Dunning
  <2>1. w.comp = read.comp /\ w.dunning = 0 /\ w.ends = LaterEnd(read, now) + PeriodLen(read.plan)
    BY <1>1, <1>6, ManualPaymentFields
  <2>2. w.ends >= now
    BY <1>1, <1>2, <2>1
  <2> QED BY <1>6, <2>1, <2>2
<1>7. ASSUME w = read PROVE Comp /\ Ends /\ Dunning
  BY <1>7
<1> QED
  BY <1>3, <1>4, <1>5, <1>6, <1>7 DEF Wants

\* What the commit leaves of it.
LEMMA CommittedDays ==
  ASSUME NEW h \in Handlers, NEW w, Finishes(h, w)
  PROVE  /\ sub'.ends = IF w.ends = tx[h].read.ends THEN sub.ends ELSE w.ends
         /\ sub'.comp = IF w.comp = tx[h].read.comp THEN sub.comp ELSE w.comp
         /\ sub'.dunning = IF w.dunning = tx[h].read.dunning THEN sub.dunning ELSE w.dunning
         /\ sub'.status = IF w.status = tx[h].read.status THEN sub.status ELSE w.status
  BY OverwriteFields DEF Finishes, Commits

LEMMA NextEndIsKnown ==
  ASSUME "comp" \notin AdminActions, IInv, EndIsKnown, [Next]_vars
  PROVE  EndIsKnown'
<1>1. /\ TypeOK /\ TypeOK' /\ sub \in Subscription /\ now \in Int /\ now >= 0 /\ sub.ends \in Int
      /\ ~sub.comp /\ sub.ends >= 0
  BY NextType DEF IInv, TypeOK, Subscription, Timestamp, EndIsKnown
<1> DEFINE Known == ~sub'.comp /\ sub'.ends >= 0
<1>2. EndKept => Known
  BY <1>1 DEF EndKept
<1>3. ASSUME NEW h \in Handlers, HandlerCommits(h) PROVE Known
  <2>1. PICK w \in Subscription : Finishes(h, w)
    BY <1>3, HandlerFinishes
  <2>2. ~tx[h].read.comp /\ tx[h].read.ends >= 0
    BY DEF EndIsKnown
  <2>3. /\ w.comp => tx[h].read.comp
        /\ w.ends = tx[h].read.ends \/ w.ends >= now
    BY <2>1, WantedDays DEF Finishes
  <2>4. w.ends \in Int
    BY <2>1 DEF Subscription, Timestamp
  <2>5. ~sub'.comp
    BY <1>1, <2>1, <2>2, <2>3, CommittedDays
  <2>6. sub'.ends >= 0
    BY <1>1, <2>1, <2>2, <2>3, <2>4, CommittedDays
  <2> QED BY <2>5, <2>6
<1>4. ASSUME SweepFails PROVE Known
  BY <1>1, <1>4, RenewalFailedFields DEF SweepFails
<1>5. ASSUME OverdueSweep PROVE Known
  BY <1>1, <1>5 DEF OverdueSweep, Subscription
<1>6. ASSUME CustomerWrites PROVE Known
  BY <1>1, <1>2, <1>6, CustomerKeepsEnd
<1>7. ASSUME AdminWrites PROVE Known
  <2>1. ASSUME NEW p \in Offered \cup (AdminActions \cap {"enterprise"}), AdminActivates(p)
        PROVE  Known
    <3>1. p \in Plans /\ PeriodLen(p) \in Nat
      BY PlansOfAdmin, PeriodLenType
    <3>2. sub' = Activate(sub, p, PeriodLen(p), now)
      BY <2>1 DEF AdminActivates, Writes
    <3>3. \A q \in Plans, len \in Int :
            ~Activate(sub, q, len, now).comp /\ Activate(sub, q, len, now).ends = now + len
      BY <1>1, GrantFields
    <3> QED BY <1>1, <3>1, <3>2, <3>3
  <2>2. ASSUME AdminSetsEnterprise PROVE Known
    <3>1. sub' = SetEnterprise(sub, AnnualLen, now)
      BY <2>2 DEF AdminSetsEnterprise, Writes
    <3>2. LET u == SetEnterprise(sub, AnnualLen, now)
          IN  ~u.comp /\ u.ends = now + AnnualLen
      BY <1>1, GrantFields
    <3> QED BY <1>1, <3>1, <3>2, PeriodAssumption
  <2>3. AdminCancels \/ AdminExtendsTrial => Known
    BY <1>1, OperationFields DEF AdminCancels, AdminExtendsTrial, Writes
  <2> QED BY <1>7, <2>1, <2>2, <2>3 DEF AdminWrites, AdminSetsComp
<1>8. Known
  BY <1>1, <1>3, <1>4, <1>5, <1>6, <1>7, RowSteps
<1>9. IdleTx.read.ends = TrialLen /\ ~IdleTx.read.comp /\ TrialLen >= 0
  BY BoundsAssumption DEF IdleTx, NewSubscription
<1>10. ASSUME NEW h \in Handlers PROVE ~tx'[h].read.comp /\ tx'[h].read.ends >= 0
  <2>1. Begins(h) => tx'[h].read = sub
    BY <1>1, BeginsFields
  <2>2. CASE tx'[h] = tx[h]
    BY <2>2 DEF EndIsKnown
  <2>3. CASE tx'[h] = IdleTx
    BY <1>9, <2>3
  <2>4. CASE Begins(h)
    BY <1>1, <2>1, <2>4
  <2> QED BY <2>2, <2>3, <2>4, HandlerSteps
<1> QED
  BY <1>8, <1>10 DEF EndIsKnown

LEMMA InitEndIsKnown == Init => EndIsKnown
<1> SUFFICES ASSUME Init PROVE EndIsKnown
  OBVIOUS
<1>1. \A h \in Handlers : ~tx[h].read.comp /\ tx[h].read.ends >= 0
  BY BoundsAssumption DEF Init, IdleTx, NewSubscription
<1>2. CASE InitTrial
  BY <1>1, <1>2, BoundsAssumption DEF InitTrial, NewSubscription, EndIsKnown
<1>3. CASE InitSubscriber
  <2>1. PICK first \in ChargeIds, n \in 1 .. MaxSeats, p \in Offered : Subscribed(first, n, p)
    BY <1>3 DEF InitSubscriber
  <2> QED BY <1>1, <2>1, SubscribedRow, PeriodLenType DEF EndIsKnown
<1> QED BY <1>2, <1>3 DEF Init

\* An active subscription has an end of its period, whichever path activated it and
\* whatever overlapped with it, as long as no complimentary access is granted: such a grant
\* clears the end, and a webhook that overlaps it writes an end only if it is not the one it
\* read, which days, unlike the program's instants, cannot always tell.
THEOREM AlwaysAnEnd ==
  ASSUME "comp" \notin AdminActions
  PROVE  Spec => []ActiveHasAnEnd
<1>1. IInv /\ EndIsKnown /\ [Next]_vars => EndIsKnown'
  BY NextEndIsKnown
<1>2. IInv /\ EndIsKnown => ActiveHasAnEnd
  BY DEF IInv, TypeOK, Subscription, Timestamp, EndIsKnown, ActiveHasAnEnd, NoTime
<1> QED
  BY <1>1, <1>2, InitEndIsKnown, Inductive, PTL DEF Spec

(***************************************************************************)
(* Dunning.  Every renewal that fails is counted at most once, also by a      *)
(* sweep, or a webhook, that writes the counter it loaded before others      *)
(* changed it.                                                             *)
(***************************************************************************)
Failures == Cardinality(FailedRenewals)

FailuresCounted ==
  /\ Failures >= sub.dunning
  /\ sweep.pc # "idle" => Failures >= sweep.dunning
  /\ \A h \in Handlers : tx[h].pc = "FAILED" => Failures >= tx[h].read.dunning

LEMMA FailedStay ==
  ASSUME IsFiniteSet(ChargeIds), IInv, CaptureInv, [Next]_vars
  PROVE  /\ FailedRenewals \subseteq FailedRenewals'
         /\ IsFiniteSet(FailedRenewals) /\ IsFiniteSet(FailedRenewals')
         /\ Failures \in Nat /\ Failures' \in Nat /\ Failures <= Failures'
<1>1. FailedRenewals \subseteq FailedRenewals'
  BY NextMoves DEF FailedRenewals, Moves
<1>2. IsFiniteSet(FailedRenewals) /\ IsFiniteSet(FailedRenewals')
  BY FS_Subset DEF FailedRenewals
<1> QED
  BY <1>1, <1>2, FS_Subset, FS_CardinalityType DEF Failures

LEMMA OneMoreFailed ==
  ASSUME IsFiniteSet(ChargeIds), IInv, CaptureInv, [Next]_vars,
         NEW c \in FailedRenewals', c \notin FailedRenewals
  PROVE  Failures' >= Failures + 1
<1>1. Cardinality(FailedRenewals \cup {c}) = Failures + 1
  BY FailedStay, FS_AddElement DEF Failures
<1>2. FailedRenewals \cup {c} \subseteq FailedRenewals'
  BY FailedStay
<1>3. Cardinality(FailedRenewals \cup {c}) <= Failures'
  BY <1>2, FailedStay, FS_Subset DEF Failures
<1> QED
  BY <1>1, <1>3, FailedStay

\* One failure counted on top of the n that were counted when it was loaded.
Counts(n) ==
  /\ sub'.dunning = n + 1 /\ Failures' >= n + 1
  /\ sub'.ends = sub.ends /\ sub'.comp = sub.comp
  /\ sub'.status = sub.status \/ (sub'.status = "past_due" /\ n + 1 >= DunningThreshold)

\* The two ways dunning counts a failure: the webhook's, and the sweep's own.
LEMMA WebhookCounts ==
  ASSUME IsFiniteSet(ChargeIds), IInv, CaptureInv, FailuresCounted, [Next]_vars,
         NEW h \in Handlers, HandlerCommits(h), NEW w \in Subscription, Finishes(h, w),
         tx[h].pc = "FAILED", charge[tx[h].charge].kind = "renewal"
  PROVE  Counts(tx[h].read.dunning)
<1> DEFINE read == tx[h].read
           c    == tx[h].charge
<1>1. /\ TypeOK /\ read \in Subscription /\ read.dunning \in Nat /\ Failures \in Nat
      /\ Failures' \in Nat
  BY FailedStay DEF IInv, TypeOK, Tx, Subscription
<1>2. c \in ChargeIds /\ charge[c].status = "pending"
  BY DEF IInv, HandlersHold, HandlerHolds, Settling
<1>3. charge'[c].status = "failed" /\ charge'[c].kind = "renewal"
  <2>1. WebhookCommits(h)
    BY HandlerFinishes
  <2> QED BY <1>2, <2>1, CommittedStatus, NextMoves DEF Moves
<1>4. Failures' >= Failures + 1
  <2>1. c \in FailedRenewals' /\ c \notin FailedRenewals
    BY <1>2, <1>3 DEF FailedRenewals
  <2> QED BY <2>1, OneMoreFailed
<1>5. w = MarkRenewalFailed(read, read.dunning, now)
  BY DEF Finishes, Wants, Pays, AfterFailure
<1>6. /\ w.status = (IF read.dunning + 1 >= DunningThreshold THEN "past_due" ELSE read.status)
      /\ w.dunning = read.dunning + 1 /\ w.ends = read.ends /\ w.comp = read.comp
  BY <1>1, <1>5, RenewalFailedFields
<1>7. /\ sub'.ends = sub.ends /\ sub'.comp = sub.comp
      /\ sub'.status = IF w.status = read.status THEN sub.status ELSE w.status
  BY <1>6, CommittedDays
<1>8. sub'.dunning = read.dunning + 1
  BY <1>1, <1>6, CommittedDays
<1>9. Failures' >= read.dunning + 1
  BY <1>1, <1>4 DEF FailuresCounted
<1>10. sub'.status = sub.status \/ (sub'.status = "past_due" /\ read.dunning + 1 >= DunningThreshold)
  BY <1>6, <1>7
<1> QED
  BY <1>7, <1>8, <1>9, <1>10 DEF Counts

LEMMA SweepCounts ==
  ASSUME IsFiniteSet(ChargeIds), IInv, CaptureInv, FailuresCounted, [Next]_vars, SweepFails
  PROVE  Counts(sweep.dunning)
<1>1. /\ sub \in Subscription /\ sweep.dunning \in Nat /\ charge \in [ChargeIds -> Charge]
      /\ Failures \in Nat /\ Failures' \in Nat
  BY FailedStay DEF IInv, TypeOK, Sweep
<1>2. sweep.charge \in FailedRenewals' /\ sweep.charge \notin FailedRenewals
  BY <1>1 DEF SweepFails, FailedRenewals, Charge, IInv, SweepHolds
<1>3. Failures' >= Failures + 1
  BY <1>2, OneMoreFailed
<1>4. Failures' >= sweep.dunning + 1
  BY <1>1, <1>3 DEF SweepFails, FailuresCounted
<1>5. sub' = MarkRenewalFailed(sub, sweep.dunning, now)
  BY DEF SweepFails
<1>6. /\ sub'.status = (IF sweep.dunning + 1 >= DunningThreshold THEN "past_due" ELSE sub.status)
      /\ sub'.dunning = sweep.dunning + 1 /\ sub'.ends = sub.ends /\ sub'.comp = sub.comp
  BY <1>1, <1>5, RenewalFailedFields
<1> QED
  BY <1>4, <1>6 DEF Counts

\* Every other step leaves the counter alone or resets it.
LEMMA CounterSteps ==
  ASSUME IsFiniteSet(ChargeIds), IInv, CaptureInv, FailuresCounted, [Next]_vars
  PROVE  sub'.dunning = sub.dunning \/ sub'.dunning = 0 \/ \E n \in Nat : Counts(n)
<1>1. TypeOK /\ sub \in Subscription /\ now \in Int /\ sweep.dunning \in Nat
  BY DEF IInv, TypeOK, Sweep
<1>2. ASSUME NEW h \in Handlers, HandlerCommits(h)
      PROVE  sub'.dunning = sub.dunning \/ sub'.dunning = 0 \/ \E n \in Nat : Counts(n)
  <2>1. PICK w \in Subscription : Finishes(h, w)
    BY <1>2, HandlerFinishes
  <2>2. tx[h].read.dunning \in Nat
    BY <1>1 DEF TypeOK, Tx, Subscription
  <2>3. CASE tx[h].pc = "FAILED" /\ charge[tx[h].charge].kind = "renewal"
    BY <1>2, <2>1, <2>2, <2>3, WebhookCounts
  <2>4. CASE w.dunning \in {tx[h].read.dunning, 0}
    BY <2>1, <2>4, CommittedDays
  <2> QED BY <2>1, <2>3, <2>4, WantedDays DEF Finishes
<1>3. CASE OverdueSweep
  BY <1>1, <1>3 DEF OverdueSweep, Subscription
<1>4. CASE CustomerWrites
  BY <1>1, <1>4, CustomerKeepsEnd DEF EndKept
<1>5. CASE AdminWrites
  <2>1. ASSUME NEW p \in Offered \cup (AdminActions \cap {"enterprise"}), AdminActivates(p)
        PROVE  sub'.dunning = sub.dunning
    <3>1. p \in Plans /\ PeriodLen(p) \in Nat /\ sub' = Activate(sub, p, PeriodLen(p), now)
      BY <2>1, PlansOfAdmin, PeriodLenType DEF AdminActivates, Writes
    <3>2. \A q \in Plans, len \in Int : Activate(sub, q, len, now).dunning = sub.dunning
      BY <1>1, GrantFields
    <3> QED BY <3>1, <3>2
  <2>2. ASSUME NEW until, AdminSetsComp(until) PROVE sub'.dunning = sub.dunning
    BY <1>1, <2>2, GrantFields DEF AdminSetsComp, Writes
  <2>3. AdminSetsEnterprise => sub'.dunning = sub.dunning
    BY <1>1, GrantFields DEF AdminSetsEnterprise, Writes
  <2>4. AdminCancels \/ AdminExtendsTrial => sub'.dunning = sub.dunning
    BY <1>1, OperationFields DEF AdminCancels, AdminExtendsTrial, Writes
  <2> QED BY <1>5, <2>1, <2>2, <2>3, <2>4 DEF AdminWrites
<1>6. CASE SweepFails
  BY <1>1, <1>6, SweepCounts
<1> QED
  BY <1>2, <1>3, <1>4, <1>5, <1>6, RowSteps

LEMMA NextFailuresCounted ==
  ASSUME IsFiniteSet(ChargeIds), IInv, CaptureInv, FailuresCounted, [Next]_vars
  PROVE  FailuresCounted'
<1>1. /\ TypeOK /\ sub \in Subscription /\ sub.dunning \in Nat /\ sweep.dunning \in Nat
      /\ sweep \in Sweep /\ Failures \in Nat /\ Failures' \in Nat /\ Failures <= Failures'
      /\ \A h \in Handlers : tx[h].read.dunning \in Nat
  BY FailedStay DEF IInv, TypeOK, Subscription, Sweep, Tx
<1>2. Failures' >= sub'.dunning
  BY <1>1, CounterSteps DEF FailuresCounted, Counts
<1>3. sweep'.pc # "idle" =>
        \/ sweep.pc # "idle" /\ sweep'.dunning = sweep.dunning
        \/ sweep'.dunning = sub.dunning
  <2>1. ASSUME NEW c \in ChargeIds, SweepBegins(c) PROVE sweep'.dunning = sub.dunning
    BY <2>1 DEF SweepBegins
  <2>2. SweepCalls => sweep.pc # "idle" /\ sweep'.dunning = sweep.dunning
    BY <1>1 DEF SweepCalls, Sweep
  <2>3. SweepCommits \/ SweepFails \/ SweepCrashes => sweep'.pc = "idle"
    BY DEF SweepCommits, SweepFails, SweepCrashes, IdleSweep
  <2>4. ~ SweepStep => sweep' = sweep
    <3>1. \A r \in Requests : RequestStep(r) => sweep' = sweep
      BY DEF RequestStep, CheckInitial, CheckSeatChange, CommitCharge, GatewayAccepts,
             RequestReturns, RequestFails, RequestCrashes
    <3>2. \A c \in ChargeIds : Webhook(c) => sweep' = sweep
      BY WebhookFrame
    <3>3. CustomerStep \/ AdminStep => sweep' = sweep
      BY CustomerFrame, AdminFrame
    <3> QED BY <3>1, <3>2, <3>3 DEF Next, vars, Tick, WindowEnds, OverdueSweep, GatewaySettles,
          HandlerCrashes
  <2> QED BY <2>1, <2>2, <2>3, <2>4 DEF SweepStep
<1>4. ASSUME NEW h \in Handlers, tx'[h].pc = "FAILED" PROVE Failures' >= tx'[h].read.dunning
  <2>1. CASE tx'[h] = tx[h]
    BY <1>1, <1>4, <2>1 DEF FailuresCounted
  <2>2. CASE Begins(h)
    <3>1. tx'[h].read = sub
      BY <1>1, <2>2, BeginsFields
    <3> QED BY <1>1, <3>1 DEF FailuresCounted
  <2> QED BY <1>4, <2>1, <2>2, HandlerSteps DEF IdleTx
<1>5. sweep'.pc # "idle" => Failures' >= sweep'.dunning
  BY <1>1, <1>3 DEF FailuresCounted
<1> QED
  BY <1>2, <1>4, <1>5 DEF FailuresCounted

\* A failure that locks a subscription is at least the third renewal of it that failed,
\* and none that dunning counts changes the access of a subscriber by itself: `active'
\* past its end and `past_due' grant the same grace.  (It needs an end, see AlwaysAnEnd:
\* access without one is unlimited while active, and gone when past due.)
THEOREM DunningFair ==
  ASSUME IsFiniteSet(ChargeIds), "comp" \notin AdminActions
  PROVE  Spec => DunningIsFair
<1>1. Init => FailuresCounted
  <2> SUFFICES ASSUME Init PROVE FailuresCounted
    OBVIOUS
  <2>1. sub.dunning = 0 /\ sweep.pc = "idle" /\ \A h \in Handlers : tx[h].pc = "idle"
    <3>1. CASE InitTrial
      BY <3>1 DEF InitTrial, Init, NewSubscription, IdleSweep, IdleTx
    <3>2. CASE InitSubscriber
      <4>1. PICK first \in ChargeIds, n \in 1 .. MaxSeats, p \in Offered : Subscribed(first, n, p)
        BY <3>2 DEF InitSubscriber
      <4> QED BY <4>1, SubscribedRow DEF Init, IdleSweep, IdleTx
    <3> QED BY <3>1, <3>2 DEF Init
  <2>2. Failures \in Nat
    BY FS_Subset, FS_CardinalityType DEF Failures, FailedRenewals
  <2> QED BY <2>1, <2>2 DEF FailuresCounted
<1>2. IInv /\ CaptureInv /\ FailuresCounted /\ [Next]_vars => FailuresCounted'
  BY NextFailuresCounted
<1> DEFINE Strikes ==
             sub.status # "past_due" /\ sub'.status = "past_due" /\ sub'.dunning > sub.dunning
               => Cardinality(FailedRenewals') >= DunningThreshold
           Access ==
             sub.status = "active" /\ sub'.dunning > sub.dunning =>
               AccessAllowed(sub', now) = AccessAllowed(sub, now)
<1>3. ASSUME IInv, CaptureInv, ActiveHasAnEnd, FailuresCounted, [Next]_vars
      PROVE  Strikes /\ Access
  <2>1. /\ sub \in Subscription /\ sub.dunning \in Nat /\ now \in Nat
        /\ sub.ends \in Int /\ Failures' \in Nat
    BY <1>3, FailedStay DEF IInv, TypeOK, Subscription, Timestamp
  <2> SUFFICES ASSUME sub'.dunning > sub.dunning PROVE Strikes /\ Access
    OBVIOUS
  <2>2. PICK n \in Nat : Counts(n)
    BY <1>3, <2>1, CounterSteps
  <2>3. /\ sub'.ends = sub.ends /\ sub'.comp = sub.comp /\ Failures' >= n + 1
        /\ sub'.status = sub.status \/ (sub'.status = "past_due" /\ n + 1 >= DunningThreshold)
    BY <2>2 DEF Counts
  <2>4. Strikes
    BY <2>1, <2>2, <2>3 DEF Failures, DunningThreshold
  <2>5. ASSUME sub.status = "active" PROVE AccessAllowed(sub', now) = AccessAllowed(sub, now)
    <3>1. CASE sub.comp
      BY <2>3, <3>1 DEF AccessAllowed
    <3>2. CASE ~sub.comp
      <4>1. sub.ends # NoTime /\ sub'.status \in {"active", "past_due"}
        BY <1>3, <2>3, <2>5, <3>2 DEF ActiveHasAnEnd
      <4>2. AccessAllowed(sub, now) <=> now - sub.ends < GraceLen
        BY <2>1, <2>5, <3>2, <4>1, PeriodAssumption DEF AccessAllowed
      <4>3. AccessAllowed(sub', now) <=> now - sub.ends < GraceLen
        BY <2>1, <2>3, <3>2, <4>1, PeriodAssumption DEF AccessAllowed
      <4> QED BY <4>2, <4>3 DEF AccessAllowed
    <3> QED BY <3>1, <3>2
  <2> QED BY <2>4, <2>5
<1>4. IInv /\ CaptureInv /\ ActiveHasAnEnd /\ FailuresCounted /\ [Next]_vars =>
        [Strikes]_vars /\ [Access]_vars
  BY <1>3
<1> QED
  BY <1>1, <1>2, <1>4, CapturesInductive, AlwaysAnEnd, PTL
  DEF Spec, DunningIsFair, ThreeStrikes, DunningKeepsAccess

\* The end of a period moves out only with captured money: no failure, retry, lost
\* answer, plan change or cancellation gives days away, whatever they overlap with.
THEOREM DaysArePaid ==
  ASSUME AdminActions \subseteq {"cancel"}
  PROVE  Spec => ExtensionIsPaid
<1>1. ASSUME IInv, CaptureInv, [Next]_vars, sub'.ends > sub.ends
      PROVE  \E c \in ChargeIds : BecomesPaid(c) /\ gate[c] = "PAID"
  <2>1. TypeOK /\ sub \in Subscription /\ sub.ends \in Int
    BY <1>1 DEF IInv, TypeOK, Subscription, Timestamp
  <2>2. ASSUME NEW h \in Handlers, HandlerCommits(h)
        PROVE  \E c \in ChargeIds : BecomesPaid(c) /\ gate[c] = "PAID"
    <3>1. PICK w \in Subscription : Finishes(h, w)
      BY <1>1, <2>2, HandlerFinishes
    <3>2. w.ends # tx[h].read.ends
      BY <1>1, <2>1, <3>1, CommittedDays
    <3>3. tx[h].pc \in {"PAID", "marks_paid"}
      BY <1>1, <3>1, <3>2, WantedDays DEF Finishes
    <3>4. tx[h].pc = "PAID"
      BY <2>1, <3>3 DEF TypeOK, Tx, TxSteps
    <3>5. WebhookCommits(h)
      BY <1>1, <2>2, <3>4, HandlerFinishes
    <3>6. charge'[tx[h].charge].status = "paid"
      BY <1>1, <3>4, <3>5, CommittedStatus
    <3>7. tx[h].charge \in ChargeIds /\ charge[tx[h].charge].status # "paid"
      BY <1>1, <3>4 DEF IInv, HandlersHold, HandlerHolds, Settling
    <3>8. gate[tx[h].charge] = "PAID"
      BY <1>1, <3>4 DEF CaptureInv, HandlersConfirmed, Settling
    <3> QED BY <3>6, <3>7, <3>8 DEF BecomesPaid
  <2>3. ~ SweepFails
    BY <1>1, <2>1, RenewalFailedFields DEF SweepFails
  <2>4. ~ OverdueSweep
    BY <1>1, <2>1 DEF OverdueSweep, Subscription
  <2>5. ~ CustomerWrites
    BY <1>1, <2>1, CustomerKeepsEnd DEF EndKept
  <2>6. ~ AdminWrites
    <3>1. ~ AdminCancels
      BY <1>1, <2>1, OperationFields DEF AdminCancels, Writes
    <3> QED BY <3>1 DEF AdminWrites, AdminActivates, AdminSetsComp, AdminSetsEnterprise,
                        AdminExtendsTrial
  <2> QED BY <1>1, <2>1, <2>2, <2>3, <2>4, <2>5, <2>6, RowSteps
<1>2. IInv /\ CaptureInv /\ [Next]_vars =>
        [sub'.ends > sub.ends => \E c \in ChargeIds : BecomesPaid(c) /\ gate[c] = "PAID"]_vars
  BY <1>1
<1> QED
  BY <1>2, CapturesInductive, PTL DEF Spec, ExtensionIsPaid

\* A transfer flagged paid by hand adds a whole period to what is left of the one that
\* apply_manual_payment_success read, whatever else commits meanwhile; and takes no day
\* back, unless another commit moved the end between the read and the commit: it is then
\* overwritten, a longer period that a renewal has just started included.
THEOREM ManualPaymentExtendsPeriod == Spec => ManualPaymentKeepsTail
<1> DEFINE Keeps(h) ==
             /\ ManualPaymentExtends(tx[h].read) => sub'.ends > tx[h].read.ends
             /\ tx[h].read.ends = sub.ends => sub'.ends >= sub.ends
<1>1. ASSUME TypeOK, NEW h \in Handlers, AdminMarksPaid(h) PROVE Keeps(h)
  <2> DEFINE read == tx[h].read
             len  == PeriodLen(read.plan)
  <2>1. /\ sub \in Subscription /\ sub.ends \in Int /\ now \in Int
        /\ read \in Subscription /\ read.ends \in Int /\ len \in Nat \ {0}
    BY <1>1, PeriodLenType DEF TypeOK, Tx, Subscription, Timestamp
  <2>2. ASSUME ManualPaymentExtends(read) PROVE Keeps(h)
    <3> DEFINE w == ApplyManualPayment(read, now)
    <3>1. sub' = Overwrite(sub, read, w)
      BY <1>1, <2>2 DEF AdminMarksPaid, Commits
    <3>2. w.ends = LaterEnd(read, now) + len
      BY <2>1, ManualPaymentFields
    <3>3. w.ends > read.ends /\ w.ends \in Int
      <4> HIDE DEF w, len
      <4> QED BY <2>1, <3>2 DEF LaterEnd
    <3>4. sub'.ends = w.ends
      <4>1. sub'.ends = IF w.ends = read.ends THEN sub.ends ELSE w.ends
        BY <3>1, OverwriteFields
      <4> HIDE DEF w
      <4> QED BY <2>1, <3>3, <4>1
    <3> HIDE DEF w, len
    <3> QED BY <2>1, <3>3, <3>4
  <2>3. ASSUME ~ManualPaymentExtends(read) PROVE Keeps(h)
    <3>1. sub' = Overwrite(sub, read, read)
      BY <1>1, <2>3 DEF AdminMarksPaid, Commits
    <3>2. sub'.ends = sub.ends
      BY <3>1, OverwriteFields
    <3> QED BY <2>1, <2>3, <3>2
  <2> QED BY <2>2, <2>3
<1>2. TypeOK /\ [Next]_vars =>
        [\A h \in Handlers : AdminMarksPaid(h) => Keeps(h)]_vars
  BY <1>1
<1> QED
  BY <1>2, TypeCorrect, PTL DEF Spec, ManualPaymentKeepsTail

=============================================================================
