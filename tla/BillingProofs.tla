----------------------------- MODULE BillingProofs -----------------------------
(***************************************************************************)
(* Every rewrite of the subscription row yields a subscription row: the     *)
(* lemmas the proofs about the state machines cite, one per operation.      *)
(***************************************************************************)
EXTENDS Billing, TLAPS

LEMMA PeriodLenType == \A plan : PeriodLen(plan) \in Nat \ {0}
  BY PeriodAssumption DEF PeriodLen

LEMMA LaterEndType ==
  ASSUME NEW s \in Subscription, NEW t \in Int
  PROVE  LaterEnd(s, t) \in Int
  BY DEF LaterEnd, Subscription, Timestamp

LEMMA NextSeatsType ==
  ASSUME NEW s \in Subscription
  PROVE  NextSeats(s) \in Nat
  BY DEF NextSeats, Subscription

\* A queued plan is monthly or annual, so the next plan is always a plan.
LEMMA NextPlanType ==
  ASSUME NEW s \in Subscription
  PROVE  NextPlan(s) \in Plans
  BY DEF NextPlan, Subscription, Plans, Renewable, NoPlan

LEMMA ChoosePlanType ==
  ASSUME NEW s \in Subscription, NEW plan \in Renewable
  PROVE  ChoosePlan(s, plan) \in Subscription
  BY DEF ChoosePlan, Subscription, Plans, Renewable, Statuses

LEMMA CancelSelfServeType ==
  ASSUME NEW s \in Subscription
  PROVE  CancelSelfServe(s) \in Subscription
<1>1. NoTime \in Timestamp
  BY DEF NoTime, Timestamp
<1> QED
  BY <1>1, Zenon DEF CancelSelfServe, Subscription

LEMMA ReactivateType ==
  ASSUME NEW s \in Subscription
  PROVE  Reactivate(s) \in Subscription
<1>1. s.ends \in Timestamp
  BY DEF Subscription
<1> QED
  BY <1>1, Zenon DEF Reactivate, Subscription

LEMMA QueuedDownsizeType ==
  ASSUME NEW s \in Subscription
  PROVE  ApplyQueuedDownsize(s) \in Subscription
<1> DEFINE n == NextSeats(s)
           c == IF s.pendingSeats # NoSeats THEN s.pendingSeats ELSE s.contracted
<1>1. n \in Nat /\ c \in Nat /\ NoSeats \in Nat /\ {} \in SUBSET Users
  BY NextSeatsType DEF Subscription, NoSeats
<1>2. [s EXCEPT !.seats = n, !.contracted = c, !.pendingSeats = NoSeats, !.victims = {}]
        \in Subscription
  <2> HIDE DEF n, c
  <2> QED BY <1>1, Zenon DEF Subscription
<1> QED
  BY <1>2 DEF ApplyQueuedDownsize

LEMMA ActivateType ==
  ASSUME NEW s \in Subscription, NEW plan \in Plans, NEW len \in Int, NEW t \in Int
  PROVE  Activate(s, plan, len, t) \in Subscription
<1> DEFINE u == [s EXCEPT !.plan = plan, !.status = "active", !.comp = FALSE,
                          !.canceledAt = FALSE, !.starts = t, !.ends = t + len]
<1>1. "active" \in Statuses /\ t + len \in Timestamp
  BY DEF Statuses, Timestamp
<1>2. u \in Subscription
  BY <1>1, Zenon DEF Subscription, Timestamp
<1> QED
  BY <1>2, QueuedDownsizeType DEF Activate

LEMMA SetCompType ==
  ASSUME NEW s \in Subscription, NEW until \in Timestamp, NEW t \in Int
  PROVE  SetComp(s, until, t) \in Subscription
<1>1. "comp" \in Plans /\ "active" \in Statuses /\ t \in Timestamp
  BY DEF Plans, Statuses, Timestamp
<1> QED
  BY <1>1, Zenon DEF SetComp, Subscription

LEMMA SetEnterpriseType ==
  ASSUME NEW s \in Subscription, NEW len \in Int, NEW t \in Int
  PROVE  SetEnterprise(s, len, t) \in Subscription
<1>1. "enterprise" \in Plans /\ "active" \in Statuses
  BY DEF Plans, Statuses
<1>2. t \in Timestamp /\ t + len \in Timestamp
  BY DEF Timestamp
<1> QED
  BY <1>1, <1>2, Zenon DEF SetEnterprise, Subscription

LEMMA HardCancelType ==
  ASSUME NEW s \in Subscription
  PROVE  HardCancel(s) \in Subscription
<1>1. "canceled" \in Statuses
  BY DEF Statuses
<1> QED
  BY <1>1, Zenon DEF HardCancel, Subscription

LEMMA ExtendTrialType ==
  ASSUME NEW s \in Subscription, NEW days \in Int
  PROVE  ExtendTrial(s, days) \in Subscription
<1>1. s.ends + days \in Timestamp
  BY DEF Subscription, Timestamp
<1> QED
  BY <1>1, Zenon DEF ExtendTrial, Subscription

LEMMA StartPeriodType ==
  ASSUME NEW s \in Subscription, NEW from \in Int, NEW until \in Int
  PROVE  StartPeriod(s, from, until) \in Subscription
<1>1. "active" \in Statuses /\ 0 \in Nat /\ from \in Timestamp /\ until \in Timestamp
  BY DEF Statuses, Timestamp
<1> QED
  BY <1>1, Zenon DEF StartPeriod, Subscription

LEMMA InitialPaymentType ==
  ASSUME NEW s \in Subscription, NEW t \in Int
  PROVE  ApplyInitialPayment(s, t) \in Subscription
<1> DEFINE anchor == IF s.status \in {"trialing", "pending_activation"}
                       THEN LaterEnd(s, t) ELSE t
           u == StartPeriod(s, anchor, anchor + PeriodLen(s.plan))
<1>1. anchor \in Int /\ anchor + PeriodLen(s.plan) \in Int
  BY LaterEndType, PeriodLenType
<1>2. u \in Subscription
  BY <1>1, StartPeriodType
<1>3. [u EXCEPT !.comp = FALSE, !.contracted = s.seats] \in Subscription
  <2> HIDE DEF u
  <2>1. s.seats \in Nat
    BY DEF Subscription
  <2> QED BY <1>2, <2>1, Zenon DEF Subscription
<1> QED
  BY <1>3 DEF ApplyInitialPayment

LEMMA SeatChargeType ==
  ASSUME NEW s \in Subscription, NEW n \in Nat
  PROVE  ApplySeatCharge(s, n) \in Subscription
<1>1. NoSeats \in Nat /\ {} \in SUBSET Users
  BY DEF NoSeats
<1> QED
  BY <1>1, Zenon DEF ApplySeatCharge, Subscription

LEMMA RenewalType ==
  ASSUME NEW s \in Subscription, NEW t \in Int
  PROVE  ApplyRenewal(s, t) \in Subscription
<1> DEFINE plan == NextPlan(s)
           u == StartPeriod(s, t, t + PeriodLen(plan))
           v == [u EXCEPT !.plan = plan, !.pendingPlan = NoPlan]
<1>1. plan \in Plans /\ t + PeriodLen(plan) \in Int
  BY NextPlanType, PeriodLenType
<1>2. u \in Subscription
  BY <1>1, StartPeriodType
<1>3. v \in Subscription
  <2> HIDE DEF u, plan
  <2>1. NoPlan \in Renewable \cup {NoPlan}
    OBVIOUS
  <2> QED BY <1>1, <1>2, <2>1, Zenon DEF Subscription
<1> QED
  BY <1>3, QueuedDownsizeType DEF ApplyRenewal

LEMMA ManualPaymentType ==
  ASSUME NEW s \in Subscription, NEW t \in Int
  PROVE  ApplyManualPayment(s, t) \in Subscription
<1>1. LaterEnd(s, t) + PeriodLen(s.plan) \in Int
  BY LaterEndType, PeriodLenType
<1>2. StartPeriod(s, t, LaterEnd(s, t) + PeriodLen(s.plan)) \in Subscription
  BY <1>1, StartPeriodType
<1> QED
  BY <1>2, QueuedDownsizeType DEF ApplyManualPayment

LEMMA RenewalFailedType ==
  ASSUME NEW s \in Subscription, NEW seen \in Nat, NEW t \in Int
  PROVE  MarkRenewalFailed(s, seen, t) \in Subscription
<1> DEFINE status == IF seen + 1 >= DunningThreshold THEN "past_due" ELSE s.status
           retry  == t + 2 ^ seen
<1>1. 2 ^ seen \in Int
  OBVIOUS
<1>2. retry \in Timestamp /\ seen + 1 \in Nat
  BY <1>1 DEF Timestamp
<1>3. status \in Statuses
  BY DEF Subscription, Statuses
<1>4. [s EXCEPT !.dunning = seen + 1, !.status = status, !.renewAt = retry] \in Subscription
  <2> HIDE DEF status, retry
  <2> QED BY <1>2, <1>3, Zenon DEF Subscription
<1> QED
  BY <1>4 DEF MarkRenewalFailed

\* What a handler leaves of the row it did not lock.
LEMMA OverwriteType ==
  ASSUME NEW s \in Subscription, NEW read \in Subscription, NEW wanted \in Subscription
  PROVE  Overwrite(s, read, wanted) \in Subscription
<1> DEFINE Column(there, loaded, given) == IF given = loaded THEN there ELSE given
<1>1. /\ Column(s.status, read.status, wanted.status) \in Statuses
      /\ Column(s.plan, read.plan, wanted.plan) \in Plans
      /\ Column(s.pendingPlan, read.pendingPlan, wanted.pendingPlan)
           \in Renewable \cup {NoPlan}
      /\ Column(s.comp, read.comp, wanted.comp) \in BOOLEAN
      /\ Column(s.seats, read.seats, wanted.seats) \in Nat
      /\ Column(s.contracted, read.contracted, wanted.contracted) \in Nat
      /\ Column(s.pendingSeats, read.pendingSeats, wanted.pendingSeats) \in Nat
      /\ Column(s.victims, read.victims, wanted.victims) \in SUBSET Users
      /\ Column(s.starts, read.starts, wanted.starts) \in Timestamp
      /\ Column(s.ends, read.ends, wanted.ends) \in Timestamp
      /\ Column(s.renewAt, read.renewAt, wanted.renewAt) \in Timestamp
      /\ Column(s.canceledAt, read.canceledAt, wanted.canceledAt) \in BOOLEAN
      /\ Column(s.dunning, read.dunning, wanted.dunning) \in Nat
  BY Zenon DEF Subscription
<1> QED
  BY <1>1, Zenon DEF Overwrite, Subscription

-----------------------------------------------------------------------------
(***************************************************************************)
(* What each operation does to the seats, the contract and the period.      *)
(***************************************************************************)

\* The seats and the contract of a row, and the downsize queued on it.
SameSeats(s, u) ==
  u.seats = s.seats /\ u.contracted = s.contracted /\ u.pendingSeats = s.pendingSeats

\* The queued downsize takes effect.
QueueApplied(s, u) ==
  /\ u.seats = NextSeats(s)
  /\ u.contracted = IF s.pendingSeats # NoSeats THEN s.pendingSeats ELSE s.contracted
  /\ u.pendingSeats = NoSeats

LEMMA StartPeriodFields ==
  ASSUME NEW s \in Subscription, NEW from, NEW until
  PROVE  LET u == StartPeriod(s, from, until)
         IN  /\ u.status = "active" /\ u.ends = until /\ u.comp = s.comp
             /\ u.dunning = 0 /\ u.plan = s.plan /\ SameSeats(s, u)
  BY DEF StartPeriod, Subscription, SameSeats

LEMMA QueuedDownsizeFields ==
  ASSUME NEW s \in Subscription
  PROVE  LET u == ApplyQueuedDownsize(s)
         IN  /\ u.status = s.status /\ u.ends = s.ends /\ u.comp = s.comp
             /\ u.dunning = s.dunning /\ QueueApplied(s, u)
  BY DEF ApplyQueuedDownsize, Subscription, QueueApplied

LEMMA InitialPaymentFields ==
  ASSUME NEW s \in Subscription, NEW t \in Int
  PROVE  LET u == ApplyInitialPayment(s, t)
         IN  /\ s.status = "active" => u = s
             /\ s.status # "active" =>
                  /\ u.status = "active" /\ ~u.comp /\ u.dunning = 0
                  /\ u.seats = s.seats /\ u.contracted = s.seats
                  /\ u.pendingSeats = s.pendingSeats
                  /\ u.ends = (IF s.status \in {"trialing", "pending_activation"}
                                 THEN LaterEnd(s, t) ELSE t) + PeriodLen(s.plan)
<1> DEFINE anchor == IF s.status \in {"trialing", "pending_activation"}
                       THEN LaterEnd(s, t) ELSE t
           until  == anchor + PeriodLen(s.plan)
           p      == StartPeriod(s, anchor, until)
<1>1. p \in Subscription
  BY LaterEndType, PeriodLenType, StartPeriodType
<1>2. p.status = "active" /\ p.ends = until /\ p.dunning = 0 /\ SameSeats(s, p)
  BY StartPeriodFields
<1>3. ASSUME s.status # "active"
      PROVE  ApplyInitialPayment(s, t) = [p EXCEPT !.comp = FALSE, !.contracted = s.seats]
  BY <1>3 DEF ApplyInitialPayment
<1>4. s.status = "active" => ApplyInitialPayment(s, t) = s
  BY DEF ApplyInitialPayment
<1> HIDE DEF p, until
<1>5. LET u == [p EXCEPT !.comp = FALSE, !.contracted = s.seats]
      IN  /\ u.status = "active" /\ ~u.comp /\ u.dunning = 0
          /\ u.seats = s.seats /\ u.contracted = s.seats
          /\ u.pendingSeats = s.pendingSeats /\ u.ends = until
  BY <1>1, <1>2 DEF Subscription, SameSeats
<1> QED
  BY <1>3, <1>4, <1>5 DEF until

LEMMA SeatChargeFields ==
  ASSUME NEW s \in Subscription, NEW n
  PROVE  LET u == ApplySeatCharge(s, n)
         IN  /\ u.status = s.status /\ u.ends = s.ends /\ u.comp = s.comp
             /\ u.dunning = s.dunning
             /\ u.seats = n /\ u.contracted = n /\ u.pendingSeats = NoSeats
  BY DEF ApplySeatCharge, Subscription

LEMMA RenewalFields ==
  ASSUME NEW s \in Subscription, NEW t \in Int
  PROVE  LET u == ApplyRenewal(s, t)
         IN  /\ u.status = "active" /\ u.comp = s.comp /\ u.dunning = 0
             /\ u.ends = t + PeriodLen(NextPlan(s)) /\ QueueApplied(s, u)
<1> DEFINE plan  == NextPlan(s)
           until == t + PeriodLen(plan)
           p     == StartPeriod(s, t, until)
           q     == [p EXCEPT !.plan = plan, !.pendingPlan = NoPlan]
<1>1. p \in Subscription /\ plan \in Plans
  BY NextPlanType, PeriodLenType, StartPeriodType
<1>2. /\ p.status = "active" /\ p.ends = until /\ p.dunning = 0 /\ p.comp = s.comp
      /\ SameSeats(s, p)
  BY StartPeriodFields
<1>3. ApplyRenewal(s, t) = ApplyQueuedDownsize(q)
  BY DEF ApplyRenewal
<1>4. q \in Subscription
  <2> HIDE DEF p, plan
  <2>1. NoPlan \in Renewable \cup {NoPlan}
    OBVIOUS
  <2> QED BY <1>1, <2>1, Zenon DEF Subscription
<1>5. /\ q.status = "active" /\ q.ends = until /\ q.dunning = 0 /\ q.comp = s.comp
      /\ SameSeats(s, q)
  <2> HIDE DEF p, plan, until
  <2> QED BY <1>1, <1>2 DEF Subscription, SameSeats
<1> HIDE DEF q
<1>6. QueueApplied(q, ApplyQueuedDownsize(q)) => QueueApplied(s, ApplyQueuedDownsize(q))
  BY <1>5 DEF QueueApplied, NextSeats, SameSeats
<1> QED
  BY <1>3, <1>4, <1>5, <1>6, QueuedDownsizeFields

LEMMA ManualPaymentFields ==
  ASSUME NEW s \in Subscription, NEW t \in Int
  PROVE  LET u == ApplyManualPayment(s, t)
         IN  /\ u.status = "active" /\ u.comp = s.comp /\ u.dunning = 0
             /\ u.ends = LaterEnd(s, t) + PeriodLen(s.plan) /\ QueueApplied(s, u)
<1> DEFINE until == LaterEnd(s, t) + PeriodLen(s.plan)
           p     == StartPeriod(s, t, until)
<1>1. p \in Subscription
  BY LaterEndType, PeriodLenType, StartPeriodType
<1>2. /\ p.status = "active" /\ p.ends = until /\ p.dunning = 0 /\ p.comp = s.comp
      /\ SameSeats(s, p)
  BY StartPeriodFields
<1>3. ApplyManualPayment(s, t) = ApplyQueuedDownsize(p)
  BY DEF ApplyManualPayment
<1> HIDE DEF p
<1>4. QueueApplied(p, ApplyQueuedDownsize(p)) => QueueApplied(s, ApplyQueuedDownsize(p))
  BY <1>2 DEF QueueApplied, NextSeats, SameSeats
<1> QED
  BY <1>1, <1>2, <1>3, <1>4, QueuedDownsizeFields

LEMMA RenewalFailedFields ==
  ASSUME NEW s \in Subscription, NEW seen, NEW t
  PROVE  LET u == MarkRenewalFailed(s, seen, t)
         IN  /\ u.status = (IF seen + 1 >= DunningThreshold THEN "past_due" ELSE s.status)
             /\ u.dunning = seen + 1
             /\ u.ends = s.ends /\ u.comp = s.comp /\ SameSeats(s, u)
  BY DEF MarkRenewalFailed, Subscription, SameSeats

\* Column by column: the value given, unless it is the one that was loaded.
LEMMA OverwriteFields ==
  ASSUME NEW s, NEW read, NEW wanted
  PROVE  LET u == Overwrite(s, read, wanted)
         IN  /\ u.status = IF wanted.status = read.status THEN s.status ELSE wanted.status
             /\ u.plan = IF wanted.plan = read.plan THEN s.plan ELSE wanted.plan
             /\ u.comp = IF wanted.comp = read.comp THEN s.comp ELSE wanted.comp
             /\ u.seats = IF wanted.seats = read.seats THEN s.seats ELSE wanted.seats
             /\ u.contracted = IF wanted.contracted = read.contracted
                                THEN s.contracted ELSE wanted.contracted
             /\ u.pendingSeats = IF wanted.pendingSeats = read.pendingSeats
                                  THEN s.pendingSeats ELSE wanted.pendingSeats
             /\ u.victims = IF wanted.victims = read.victims THEN s.victims ELSE wanted.victims
             /\ u.ends = IF wanted.ends = read.ends THEN s.ends ELSE wanted.ends
             /\ u.dunning = IF wanted.dunning = read.dunning THEN s.dunning ELSE wanted.dunning
  BY DEF Overwrite

\* The operations of the customer and of the super-admin that move no seats.
LEMMA OperationFields ==
  ASSUME NEW s \in Subscription
  PROVE  /\ \A p : LET u == ChoosePlan(s, p)
                  IN  /\ u.status = "pending_activation" /\ u.ends = s.ends
                      /\ u.comp = s.comp /\ u.dunning = s.dunning /\ SameSeats(s, u)
         /\ \A u \in {CancelSelfServe(s), Reactivate(s)} :
              /\ u.status = s.status /\ u.ends = s.ends /\ u.comp = s.comp
              /\ u.dunning = s.dunning /\ SameSeats(s, u)
         /\ LET u == HardCancel(s)
            IN  /\ u.status = "canceled" /\ u.ends = s.ends /\ ~u.comp
                /\ u.dunning = s.dunning /\ SameSeats(s, u)
         /\ \A days : LET u == ExtendTrial(s, days)
                     IN  /\ u.status = s.status /\ u.ends = s.ends + days
                         /\ u.comp = s.comp /\ u.dunning = s.dunning /\ SameSeats(s, u)
<1>1. \A p : LET u == ChoosePlan(s, p)
            IN  /\ u.status = "pending_activation" /\ u.ends = s.ends
                /\ u.comp = s.comp /\ u.dunning = s.dunning /\ SameSeats(s, u)
  BY DEF ChoosePlan, Subscription, SameSeats
<1>2. \A u \in {CancelSelfServe(s), Reactivate(s)} :
        /\ u.status = s.status /\ u.ends = s.ends /\ u.comp = s.comp
        /\ u.dunning = s.dunning /\ SameSeats(s, u)
  BY DEF CancelSelfServe, Reactivate, Subscription, SameSeats
<1>3. LET u == HardCancel(s)
      IN  /\ u.status = "canceled" /\ u.ends = s.ends /\ ~u.comp
          /\ u.dunning = s.dunning /\ SameSeats(s, u)
  BY DEF HardCancel, Subscription, SameSeats
<1>4. \A days : LET u == ExtendTrial(s, days)
               IN  /\ u.status = s.status /\ u.ends = s.ends + days
                   /\ u.comp = s.comp /\ u.dunning = s.dunning /\ SameSeats(s, u)
  BY DEF ExtendTrial, Subscription, SameSeats
<1> QED
  BY <1>1, <1>2, <1>3, <1>4

\* The super-admin's operations that put a plan in place.
LEMMA GrantFields ==
  ASSUME NEW s \in Subscription, NEW t \in Int
  PROVE  /\ \A p \in Plans, len \in Int :
              LET u == Activate(s, p, len, t)
              IN  u.status = "active" /\ ~u.comp /\ u.ends = t + len /\ u.dunning = s.dunning
         /\ \A until : LET u == SetComp(s, until, t)
                      IN  u.status = "active" /\ u.comp /\ u.dunning = s.dunning
         /\ \A len : LET u == SetEnterprise(s, len, t)
                    IN  u.status = "active" /\ ~u.comp /\ u.ends = t + len
                        /\ u.dunning = s.dunning
<1>1. ASSUME NEW p \in Plans, NEW len \in Int
      PROVE  LET u == Activate(s, p, len, t)
             IN  u.status = "active" /\ ~u.comp /\ u.ends = t + len /\ u.dunning = s.dunning
  <2> DEFINE q == [s EXCEPT !.plan = p, !.status = "active", !.comp = FALSE,
                            !.canceledAt = FALSE, !.starts = t, !.ends = t + len]
  <2>1. /\ "active" \in Statuses /\ FALSE \in BOOLEAN
        /\ t \in Timestamp /\ t + len \in Timestamp
    BY DEF Statuses, Timestamp
  <2>2. q \in Subscription
    BY <2>1, Zenon DEF Subscription
  <2>3. q.status = "active" /\ ~q.comp /\ q.ends = t + len /\ q.dunning = s.dunning
    BY DEF Subscription
  <2>4. Activate(s, p, len, t) = ApplyQueuedDownsize(q)
    BY DEF Activate
  <2> HIDE DEF q
  <2> QED BY <2>2, <2>3, <2>4, QueuedDownsizeFields
<1>2. \A until : LET u == SetComp(s, until, t)
                IN  u.status = "active" /\ u.comp /\ u.dunning = s.dunning
  BY DEF SetComp, Subscription
<1>3. \A len : LET u == SetEnterprise(s, len, t)
              IN  u.status = "active" /\ ~u.comp /\ u.ends = t + len
                  /\ u.dunning = s.dunning
  BY DEF SetEnterprise, Subscription
<1> QED
  BY <1>1, <1>2, <1>3

=============================================================================
