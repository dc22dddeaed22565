------------------------------ MODULE Checkout ------------------------------
(***************************************************************************)
(* Where a plan is paid for from the client: the dialog of the subscription    *)
(* settings, the gate of an expired trial, and the public demo order.  A       *)
(* submission stores the billing details and then asks for a payment, whose    *)
(* answer sends the browser to the gateway; the form can be gone by then.      *)
(***************************************************************************)
EXTENDS Naturals, FiniteSets

CONSTANTS
  Plans,
  Annual,      \* the plan a monthly customer is invited to switch to
  Details,     \* complete billing details
  None,
  MaxRuns,     \* bound: submissions on their way at once
  MaxTaps      \* bound: what the users do

CheckoutAssumption == Annual \in Plans /\ None \notin Plans \cup Details /\ MaxRuns \in Nat /\ MaxTaps \in Nat

VARIABLES
  door,       \* the form on the screen, or None
  plan, consent, form,     \* what it shows
  cached,     \* the organization's details the client read last, or None
  asking,     \* they are being read
  runs,       \* submissions on their way
  stored,     \* the server's details, or None
  due,        \* payments the server created and nobody paid yet
  active,     \* the subscription is paid
  gone,       \* the submission the browser left for the gateway with, or None
  taps

formVars == <<plan, consent, form>>
orgVars == <<cached, asking>>
serverVars == <<stored, due, active>>
checkoutVars == <<door, formVars, orgVars, runs, serverVars, gone, taps>>

\* Which forms ask for details and consent, and which answer reaches a form left behind.
Door == [bills : BOOLEAN, locks : BOOLEAN, outlives : BOOLEAN, presets : SUBSET (Plans \cup {None})]
ChoosePlanModal  == [bills |-> TRUE,  locks |-> TRUE,  outlives |-> FALSE, presets |-> {None, Annual}]
TrialExpiredGate == [bills |-> TRUE,  locks |-> TRUE,  outlives |-> FALSE, presets |-> {None}]
ObjednavkaPage   == [bills |-> FALSE, locks |-> FALSE, outlives |-> TRUE,  presets |-> Plans]
Doors == {ChoosePlanModal, TrialExpiredGate, ObjednavkaPage}

Run == [door : Doors, stage : {"saving", "charging"}, plan : Plans, details : Details \cup {None}, own : BOOLEAN]

CheckoutTypeOK ==
  /\ door \in Doors \cup {None} /\ plan \in Plans \cup {None} /\ consent \in BOOLEAN
  /\ {form, cached, stored} \subseteq Details \cup {None} /\ {asking, active} \subseteq BOOLEAN
  /\ runs \subseteq Run /\ due \subseteq Plans /\ gone \in Run \cup {None}

Shown == door # None /\ gone = None
submitting == \E r \in runs : r.own
Tap == taps < MaxTaps /\ taps' = taps + 1

-----------------------------------------------------------------------------
Prefilled(d) == IF d.bills /\ cached # None THEN cached ELSE None

\* The dialog opens without a plan, or with the annual one for who pays by the month; the
\* gate stands while nobody paid.
IsOffered(d, p) ==
  /\ p \in d.presets
  /\ d = TrialExpiredGate => ~active
  /\ (d = ChoosePlanModal /\ p = Annual) => active

\* A form opens with what is cached, and reads the organization again.
OpenDoor(d, p) ==
  /\ door = None /\ gone = None /\ IsOffered(d, p) /\ Tap
  /\ door' = d /\ plan' = p /\ consent' = FALSE /\ form' = Prefilled(d)
  /\ asking' = d.bills
  /\ UNCHANGED <<cached, runs, serverVars, gone>>

\* Only an answer that differs from the cached one fills the form, over what was typed.
OrganizationAnswers ==
  /\ asking /\ gone = None /\ asking' = FALSE
  /\ \/ cached' = stored
        /\ form' = IF Shown /\ door.bills /\ stored \notin {cached, None} THEN stored ELSE form
     \/ UNCHANGED <<cached, form>>
  /\ UNCHANGED <<door, plan, consent, runs, serverVars, gone, taps>>

FreeToChange == Shown /\ (door.locks => ~submitting)

SelectPlan(p) ==
  /\ FreeToChange /\ Tap /\ plan' = p
  /\ UNCHANGED <<door, consent, form, orgVars, runs, serverVars, gone>>

RecurringPaymentConsent ==
  /\ FreeToChange /\ door.bills /\ Tap /\ consent' = ~consent
  /\ UNCHANGED <<door, plan, form, orgVars, runs, serverVars, gone>>

\* The details stay open to typing while a submission is on its way.
OrgBillingFields(v) ==
  /\ Shown /\ door.bills /\ Tap /\ form' = v
  /\ UNCHANGED <<door, plan, consent, orgVars, runs, serverVars, gone>>

handleSubmit ==
  /\ Shown /\ plan # None /\ ~submitting /\ Cardinality(runs) < MaxRuns /\ Tap
  /\ door.bills => consent /\ form # None
  /\ runs' = runs \cup {[door |-> door, stage |-> IF door.bills THEN "saving" ELSE "charging",
                         plan |-> plan, details |-> form, own |-> TRUE]}
  /\ UNCHANGED <<door, formVars, orgVars, serverVars, gone>>

\* The payment is asked for once the details are stored, the form being there or not.
SavingAnswers(r) ==
  /\ r.stage = "saving" /\ gone = None
  /\ \/ stored' = r.details /\ runs' = (runs \ {r}) \cup {[r EXCEPT !.stage = "charging"]}
     \/ stored' \in {stored, r.details} /\ runs' = runs \ {r}
  /\ UNCHANGED <<door, formVars, orgVars, due, active, gone, taps>>

\* A mutant of the next: a form left behind acts, too.
AnyAnswer(r) == TRUE

\* A form that is gone does not act on the answer; the demo order's page does.
ActsOn(r) == r.own \/ r.door.outlives

useInitialPaymentInit(r) ==
  /\ r.stage = "charging" /\ gone = None /\ runs' = runs \ {r}
  /\ \/ /\ r.door.bills => stored # None /\ ~active
        /\ due' = IF r.door.bills THEN due \cup {r.plan} ELSE due
        /\ gone' = IF ActsOn(r) THEN r ELSE gone
     \/ UNCHANGED <<due, gone>>
  /\ UNCHANGED <<door, formVars, orgVars, stored, active, taps>>

\* The dialog closes by its key even while its button is locked; a page is left; the
\* gate goes when somebody paid.
Close ==
  /\ Shown /\ Tap
  /\ door = TrialExpiredGate => active
  /\ door' = None /\ runs' = {[r EXCEPT !.own = FALSE] : r \in runs}
  /\ UNCHANGED <<formVars, orgVars, serverVars, gone>>

\* Back from the gateway the client is loaded anew, whatever became of the payment.
LoadedAnew ==
  /\ gone' = None /\ door' = None /\ plan' = None /\ consent' = FALSE /\ form' = None
  /\ cached' = None /\ asking' = FALSE /\ runs' = {}
  /\ UNCHANGED serverVars

BillingReturnPage == gone # None /\ gone.door.bills /\ Tap /\ LoadedAnew
ObjednavkaNavratPage == gone # None /\ ~gone.door.bills /\ Tap /\ LoadedAnew

\* The gateway's word reaches the server: before the browser is back, or after.
PaymentLands(p) ==
  /\ p \in due /\ ~active /\ active' = TRUE /\ due' = due \ {p}
  /\ UNCHANGED <<door, formVars, orgVars, runs, stored, gone, taps>>

ColleagueStores(v) ==
  /\ Tap /\ v # stored /\ stored' = v
  /\ UNCHANGED <<door, formVars, orgVars, runs, due, active, gone>>

CheckoutInit ==
  /\ door = None /\ plan = None /\ consent = FALSE /\ form = None
  /\ cached = None /\ asking = FALSE /\ runs = {}
  /\ stored \in Details \cup {None} /\ due = {} /\ active = FALSE /\ gone = None /\ taps = 0

CheckoutNext ==
  \/ \E d \in Doors, p \in Plans \cup {None} : OpenDoor(d, p)
  \/ OrganizationAnswers \/ RecurringPaymentConsent \/ handleSubmit \/ Close
  \/ BillingReturnPage \/ ObjednavkaNavratPage
  \/ \E p \in Plans : SelectPlan(p) \/ PaymentLands(p)
  \/ \E v \in Details \cup {None} : OrgBillingFields(v)
  \/ \E v \in Details : ColleagueStores(v)
  \/ \E r \in runs : SavingAnswers(r) \/ useInitialPaymentInit(r)

CheckoutSpec == CheckoutInit /\ [][CheckoutNext]_checkoutVars

-----------------------------------------------------------------------------
\* The browser leaves for a payment of the subscription only from the form that asked
\* for it, with that plan still selected, the consent still given and details stored,
\* whichever forms were closed and opened while the answers were on their way.
GoesAsConfirmed ==
  gone = None /\ gone' # None /\ gone'.door.bills =>
    door = gone'.door /\ plan = gone'.plan /\ consent /\ stored # None

=============================================================================
