------------------------------- MODULE Billing -------------------------------
(***************************************************************************)
(* The subscription row of one organization and every way the billing      *)
(* service rewrites it (backend/app/services/billing.py).  The service is   *)
(* a set of functions over the row and the clock, so this module has no     *)
(* variables: it is the vocabulary the state machines share.                *)
(*                                                                         *)
(* Time is counted in days.  Money is not counted: an amount is determined  *)
(* by the plan and the number of seats it was computed from, and that pair  *)
(* is what the properties compare.  `canceledAt' keeps only whether         *)
(* canceled_at is set, the one thing the code reads of it.                  *)
(***************************************************************************)
EXTENDS Integers, FiniteSets

CONSTANTS
  Users,         \* the user accounts of the organization
  Owner,         \* the org admin who operates the billing page
  MonthLen,      \* days of a monthly period
  AnnualLen,     \* days of an annual period
  GraceLen       \* PAST_DUE_GRACE, in days

ASSUME UsersAssumption == IsFiniteSet(Users) /\ Owner \in Users
ASSUME PeriodAssumption ==
  /\ MonthLen \in Nat \ {0}
  /\ AnnualLen \in Nat \ {0}
  /\ MonthLen <= AnnualLen
  /\ GraceLen \in Nat \ {0}

NoTime  == -1          \* SQL NULL in a timestamp column
NoPlan  == "none"      \* SQL NULL in pending_plan_id
NoSeats == 0           \* SQL NULL in pending_seat_count; real counts start at 1

Plans      == {"trial", "monthly", "annual", "enterprise", "comp"}
Renewable  == {"monthly", "annual"}
Statuses   == {"trialing", "pending_activation", "active", "past_due", "canceled"}
Timestamp  == Int    \* a day, or NoTime; the clock itself is never negative

Subscription == [
  status       : Statuses,
  plan         : Plans,
  pendingPlan  : Renewable \cup {NoPlan},
  comp         : BOOLEAN,
  seats        : Nat,
  contracted   : Nat,
  pendingSeats : Nat,
  victims      : SUBSET Users,
  starts       : Timestamp,
  ends         : Timestamp,
  renewAt      : Timestamp,
  canceledAt   : BOOLEAN,
  dunning      : Nat ]

PeriodLen(plan) == IF plan = "annual" THEN AnnualLen ELSE MonthLen

\* Mutant: the unused days are forgotten.
LaterEndForgotten(s, t) == t

\* Later of the instant t and the end of the running period.
LaterEnd(s, t) == IF s.ends > t THEN s.ends ELSE t

(***************************************************************************)
(* Reads.                                                                  *)
(***************************************************************************)

\* Mutant: no fallback to the plan in place.
QueuedPlan(s) == s.pendingPlan

\* What the next period is contracted for: queued values win.
NextPlan(s)  == IF s.pendingPlan # NoPlan THEN s.pendingPlan ELSE s.plan
NextSeats(s) == IF s.pendingSeats # NoSeats THEN s.pendingSeats ELSE s.seats

\* The pay gate.
AccessAllowed(s, t) ==
  \/ s.comp
  \/ s.status \in {"trialing", "pending_activation"} /\ (s.ends = NoTime \/ s.ends >= t)
  \/ s.status = "active" /\ (s.ends = NoTime \/ s.ends >= t \/ t - s.ends < GraceLen)
  \/ s.status = "past_due" /\ s.ends # NoTime /\ t - s.ends < GraceLen

\* A prorated amount above zero exists for a mid-period upgrade to n seats.
ProrationPositive(s, n, t) ==
  /\ ~s.comp /\ s.status = "active"
  /\ n > s.contracted
  /\ s.starts # NoTime /\ s.ends # NoTime
  /\ s.starts < s.ends /\ t < s.ends

(***************************************************************************)
(* Customer operations.                                                    *)
(***************************************************************************)

ChoosePlan(s, plan) ==
  IF s.status = "pending_activation" /\ s.plan = plan
    THEN s
    ELSE [s EXCEPT !.plan = plan, !.status = "pending_activation"]

CancelSelfServeAllowed(s) == ~s.comp /\ s.plan # "enterprise"
CancelSelfServe(s) == [s EXCEPT !.canceledAt = TRUE, !.renewAt = NoTime]

ReactivateAllowed(s, t) == s.canceledAt /\ s.ends # NoTime /\ s.ends > t
Reactivate(s) == [s EXCEPT !.canceledAt = FALSE, !.renewAt = s.ends]

(***************************************************************************)
(* Super-admin operations.  None of them touches renewAt or dunning.       *)
(***************************************************************************)

\* _apply_queued_downsize: the row's part.  The queued users that are still
\* active lose access: the caller removes s.victims from the active users.
ApplyQueuedDownsize(s) ==
  LET n == NextSeats(s)
      c == IF s.pendingSeats # NoSeats THEN s.pendingSeats ELSE s.contracted
  IN  [s EXCEPT !.seats = n, !.contracted = c, !.pendingSeats = NoSeats, !.victims = {}]

Activate(s, plan, len, t) ==
  ApplyQueuedDownsize(
    [s EXCEPT !.plan = plan, !.status = "active", !.comp = FALSE, !.canceledAt = FALSE,
              !.starts = t, !.ends = t + len])

SetComp(s, until, t) ==
  [s EXCEPT !.plan = "comp", !.status = "active", !.comp = TRUE, !.canceledAt = FALSE,
            !.starts = t, !.ends = until]

SetEnterprise(s, len, t) ==
  [s EXCEPT !.plan = "enterprise", !.status = "active", !.comp = FALSE,
            !.canceledAt = FALSE, !.starts = t, !.ends = t + len]

HardCancel(s) == [s EXCEPT !.status = "canceled", !.canceledAt = TRUE, !.comp = FALSE]

ExtendTrialAllowed(s) == s.status = "trialing"
ExtendTrial(s, days) == [s EXCEPT !.ends = s.ends + days]

(***************************************************************************)
(* The funnels a payment outcome runs through.                             *)
(***************************************************************************)

DunningThreshold == 3

\* Period dates and renewal date of a paid period, dunning reset.
StartPeriod(s, from, until) ==
  [s EXCEPT !.status = "active", !.canceledAt = FALSE, !.starts = from, !.ends = until,
            !.renewAt = until, !.dunning = 0]

\* A second initial payment finds the row active and leaves it as it is.
InitialPaymentAllowed(s) == s.plan \in Renewable
ApplyInitialPayment(s, t) ==
  LET anchor == IF s.status \in {"trialing", "pending_activation"} THEN LaterEnd(s, t) ELSE t
  IN  IF s.status = "active"
        THEN s
        ELSE [StartPeriod(s, anchor, anchor + PeriodLen(s.plan))
                EXCEPT !.comp = FALSE, !.contracted = s.seats]

\* Mutants: an answer that comes after a larger one is not refused; the new cap
\* is granted without raising the contract.
AnySeatCharge(s, n) == TRUE
ApplySeatChargeToCapOnly(s, n) ==
  [s EXCEPT !.seats = n, !.pendingSeats = NoSeats, !.victims = {}]

SeatChargeAllowed(s, n) == n >= s.contracted
ApplySeatCharge(s, n) ==
  [s EXCEPT !.seats = n, !.contracted = n, !.pendingSeats = NoSeats, !.victims = {}]

RenewalAllowed(s) == NextPlan(s) \in Renewable
ApplyRenewal(s, t) ==
  LET plan == NextPlan(s)
  IN  ApplyQueuedDownsize(
        [StartPeriod(s, t, t + PeriodLen(plan)) EXCEPT !.plan = plan, !.pendingPlan = NoPlan])

ManualPaymentExtends(s) == ~s.comp /\ s.status # "canceled" /\ s.plan \in Renewable
ApplyManualPayment(s, t) ==
  ApplyQueuedDownsize(StartPeriod(s, t, LaterEnd(s, t) + PeriodLen(s.plan)))

\* Mutant: gives up one failure early.
MarkRenewalFailedEarly(s, seen, t) ==
  [s EXCEPT !.dunning = seen + 1,
            !.status  = IF seen + 2 >= DunningThreshold THEN "past_due" ELSE @,
            !.renewAt = t + 2 ^ seen]

\* mark_charge_failed for a renewal.  `seen' is the dunning counter the
\* session loaded, which a long transaction may hold after it changed.
MarkRenewalFailed(s, seen, t) ==
  [s EXCEPT !.dunning = seen + 1,
            !.status  = IF seen + 1 >= DunningThreshold THEN "past_due" ELSE @,
            !.renewAt = t + 2 ^ seen]

(***************************************************************************)
(* What a commit leaves of the row when others committed since it was read:  *)
(* the ORM writes the columns it gave a value other than the one it loaded,  *)
(* over whatever is there by then (READ COMMITTED; no row is locked before   *)
(* that, and no column counts the versions).                                *)
(***************************************************************************)
Overwrite(s, read, wanted) ==
  LET Column(there, loaded, given) == IF given = loaded THEN there ELSE given
  IN  [status       |-> Column(s.status, read.status, wanted.status),
       plan         |-> Column(s.plan, read.plan, wanted.plan),
       pendingPlan  |-> Column(s.pendingPlan, read.pendingPlan, wanted.pendingPlan),
       comp         |-> Column(s.comp, read.comp, wanted.comp),
       seats        |-> Column(s.seats, read.seats, wanted.seats),
       contracted   |-> Column(s.contracted, read.contracted, wanted.contracted),
       pendingSeats |-> Column(s.pendingSeats, read.pendingSeats, wanted.pendingSeats),
       victims      |-> Column(s.victims, read.victims, wanted.victims),
       starts       |-> Column(s.starts, read.starts, wanted.starts),
       ends         |-> Column(s.ends, read.ends, wanted.ends),
       renewAt      |-> Column(s.renewAt, read.renewAt, wanted.renewAt),
       canceledAt   |-> Column(s.canceledAt, read.canceledAt, wanted.canceledAt),
       dunning      |-> Column(s.dunning, read.dunning, wanted.dunning)]

=============================================================================
