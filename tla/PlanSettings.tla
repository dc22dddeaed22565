---------------------------- MODULE PlanSettings ----------------------------
(***************************************************************************)
(* The settings that change what a customer pays for: the seats, the interval  *)
(* and the end of the subscription.  The cards show the subscription and the   *)
(* team as the client read them last; more seats than the contract covers are  *)
(* refused first and then charged to the stored card.  A request outlives the    *)
(* card that sent it: its answer comes after the section was left, or to a card    *)
(* that is on the screen by then and did not send it.                            *)
(***************************************************************************)
EXTENDS Naturals, FiniteSets

CONSTANTS
  People,      \* members besides the admin at the screen
  MaxSeats,
  Price,       \* of a seat for one period, by interval
  Slots,       \* bound: requests about the seats under way at a time
  None,
  MaxTaps      \* bound: what the users do

Intervals == {"monthly", "annual"}

PlanSettingsAssumption ==
  /\ IsFiniteSet(People) /\ MaxSeats \in Nat /\ MaxSeats > Cardinality(People)
  /\ Price \in [Intervals -> Nat] /\ MaxTaps \in Nat /\ None \notin Intervals

VARIABLES
  row,        \* the server's subscription
  team,       \* the server's active members
  sub, users, asking,      \* as read last, and being read again
  here,       \* the section is on the screen
  draft, picked, redirecting,      \* the card of the seats
  visit,      \* the card of the seats on the screen, or the last one that was: cards are numbered
  puts,       \* the changes of seats on their way, by slot, or None
  charges,    \* upgrades being charged, by slot, or None
  target, confirming,      \* the cards of the interval and of the end
  change,     \* the change of either on its way, or None
  taps

cardVars == <<draft, picked, redirecting, target, confirming>>
readVars == <<sub, users, asking>>
settingsVars == <<row, team, readVars, here, cardVars, visit, puts, charges, change, taps>>

Subscription == [seats : 1..MaxSeats, queued : (SUBSET People) \cup {None}, plan : Intervals,
                 next : Intervals \cup {None}, ends : BOOLEAN]
\* The request of the form, or the bare one that gives up the queue; the card that sent
\* it, and what that card showed when it was left.
SeatPut == [seats : 1..MaxSeats, leave : SUBSET People, submit : BOOLEAN, card : Nat, shown : 1..MaxSeats]
Charge == [seats : 1..MaxSeats, card : Nat]
Changes == Intervals \cup {"cancel", "reactivate"}

PlanSettingsTypeOK ==
  /\ {row, sub} \subseteq Subscription /\ team \subseteq People /\ users \subseteq People
  /\ {asking, here, redirecting, confirming} \subseteq BOOLEAN
  /\ draft \in 1..MaxSeats /\ picked \subseteq People /\ visit \in Nat
  /\ puts \in [Slots -> SeatPut \cup {None}] /\ charges \in [Slots -> Charge \cup {None}]
  /\ target \in Intervals /\ change \in Changes \cup {None}

Effective(s) == IF s.next # None THEN s.next ELSE s.plan
Tap == taps < MaxTaps /\ taps' = taps + 1

-----------------------------------------------------------------------------
\* The card of the seats, while the admin types: the price is that of a whole period,
\* and the preview of a year multiplies it by its months.
LiveSeatCostPreview(s, n) == (IF s.plan = "annual" THEN 12 ELSE 1) * Price[s.plan] * n

\* What the next charge takes for as many seats.
Bill(s, n) == Price[s.plan] * n

Needed == IF draft < Cardinality(users) + 1 THEN Cardinality(users) + 1 - draft ELSE 0

\* A callback of the card's own finds it on the screen: one that came back is another card.
OnScreen(card) == here /\ card = visit
Submitted(card) == \E i \in Slots : puts[i] # None /\ puts[i].submit /\ puts[i].card = card

\* A mutant of the next: the charge after a refusal locks nothing.
OnlyItsOwnRequest == Submitted(visit)

\* The button waits for the change, and for the charge that follows a refusal.
SeatCardIsLocked == Submitted(visit) \/ redirecting

TypeSeats(n) ==
  /\ here /\ Tap /\ draft' = n
  /\ UNCHANGED <<row, team, readVars, here, picked, redirecting, visit, puts, charges, target, confirming, change>>

TogglePick(u) ==
  /\ here /\ Needed > 0 /\ u \in users /\ Tap
  /\ picked' = IF u \in picked THEN picked \ {u} ELSE picked \cup {u}
  /\ UNCHANGED <<row, team, readVars, here, draft, redirecting, visit, puts, charges, target, confirming, change>>

\* A request of the card on the screen takes a slot that is free.
Send(i, n, victims, form) ==
  /\ puts[i] = None /\ charges[i] = None
  /\ puts' = [puts EXCEPT ![i] = [seats |-> n, leave |-> victims, submit |-> form, card |-> visit, shown |-> draft]]

SubmitSeats(i) ==
  /\ here /\ draft # sub.seats /\ (Needed > 0 => Cardinality(picked) = Needed)
  /\ ~SeatCardIsLocked /\ Tap
  /\ Send(i, draft, IF Needed > 0 THEN picked ELSE {}, TRUE)
  /\ UNCHANGED <<row, team, readVars, here, cardVars, visit, charges, change>>

\* The queue is given up by asking for the seats there are, as far as the card knows:
\* by a request no lock waits for, and whose refusal charges nothing.
CancelQueue(i) ==
  /\ here /\ sub.queued # None /\ Tap
  /\ Send(i, sub.seats, {}, FALSE)
  /\ UNCHANGED <<row, team, readVars, here, cardVars, visit, charges, change>>

\* The server: the seats there are, fewer than the members, free ones, or to be paid.
Seated(p) ==
  IF p.seats = row.seats THEN row' = [row EXCEPT !.queued = None]
  ELSE IF p.seats < Cardinality(team) + 1
  THEN /\ Cardinality(p.leave) = Cardinality(team) + 1 - p.seats /\ p.leave \subseteq team
       /\ row' = [row EXCEPT !.queued = p.leave]
  ELSE p.seats < row.seats /\ row' = [row EXCEPT !.seats = p.seats, !.queued = None]

PutAnswers(i) ==
  /\ puts[i] # None /\ puts' = [puts EXCEPT ![i] = None]
  /\ \/ Seated(puts[i]) /\ asking' = TRUE
        /\ picked' = IF puts[i].submit /\ OnScreen(puts[i].card) THEN {} ELSE picked
     \/ UNCHANGED <<row, asking, picked>>
  /\ UNCHANGED <<team, sub, users, here, visit, draft, redirecting, charges, target, confirming, change, taps>>

\* A refusal of the form's request for want of payment is answered by a charge, whether
\* or not the card is still there: for the seats it shows by then, as its field takes
\* typing meanwhile, or showed last.  It locks the card only if that is on the screen.
PaymentIsRequired(i) ==
  /\ puts[i] # None /\ puts[i].submit /\ puts[i].seats > row.seats
  /\ puts' = [puts EXCEPT ![i] = None]
  /\ charges' = [charges EXCEPT ![i] = [seats |-> IF OnScreen(puts[i].card) THEN draft ELSE puts[i].shown,
                                        card |-> puts[i].card]]
  /\ redirecting' = (redirecting \/ OnScreen(puts[i].card))
  /\ UNCHANGED <<row, team, readVars, here, visit, draft, picked, target, confirming, change, taps>>

\* The return page is loaded anew: what was on its way loses who waited for it.
Unloads ==
  /\ here' = FALSE
  /\ puts' = [j \in Slots |-> IF puts[j] = None THEN None ELSE [puts[j] EXCEPT !.submit = FALSE]]

\* A charge that is taken leaves for the return page, and one that is refused unlocks, if
\* the card that asked for it is on the screen.
ChargeAnswers(i) ==
  /\ charges[i] # None /\ charges' = [charges EXCEPT ![i] = None]
  /\ \/ /\ row' = [row EXCEPT !.seats = IF charges[i].seats > @ THEN charges[i].seats ELSE @]
        /\ IF OnScreen(charges[i].card) THEN Unloads ELSE UNCHANGED <<here, puts>>
     \/ UNCHANGED <<row, here, puts>>
  /\ redirecting' = (redirecting /\ ~OnScreen(charges[i].card))
  /\ UNCHANGED <<team, readVars, visit, draft, picked, target, confirming, change, taps>>

\* The radio buttons and the button of the end: one change at a time.
PickInterval(i) ==
  /\ here /\ Tap /\ target' = i
  /\ UNCHANGED <<row, team, readVars, here, draft, picked, redirecting, visit, puts, charges, confirming, change>>

SubmitInterval ==
  /\ here /\ change = None /\ target # Effective(sub) /\ Tap /\ change' = target
  /\ UNCHANGED <<row, team, readVars, here, cardVars, visit, puts, charges>>

ConfirmCancel ==
  /\ here /\ change = None /\ ~sub.ends /\ Tap
  /\ IF confirming THEN change' = "cancel" /\ UNCHANGED confirming
                   ELSE confirming' \in BOOLEAN /\ UNCHANGED change
  /\ UNCHANGED <<row, team, readVars, here, draft, picked, redirecting, visit, puts, charges, target>>

Reactivate ==
  /\ here /\ change = None /\ sub.ends /\ Tap /\ change' = "reactivate"
  /\ UNCHANGED <<row, team, readVars, here, cardVars, visit, puts, charges>>

ChangeAnswers ==
  /\ change # None /\ change' = None
  /\ \/ /\ row' = IF change \in Intervals THEN [row EXCEPT !.next = change]
                                          ELSE [row EXCEPT !.ends = (change = "cancel")]
        /\ asking' = TRUE /\ confirming' = (confirming /\ change # "cancel")
     \/ UNCHANGED <<row, asking, confirming>>
  /\ UNCHANGED <<team, sub, users, here, draft, picked, redirecting, visit, puts, charges, target, taps>>

\* New seats fill the draft and drop the picks; a new interval moves the choice.
SubscriptionAnswers ==
  /\ asking /\ asking' = FALSE
  /\ \/ /\ sub' = row /\ users' = team
        /\ IF row.seats # sub.seats THEN draft' = row.seats /\ picked' = {}
                                    ELSE UNCHANGED <<draft, picked>>
        /\ target' = IF Effective(row) # Effective(sub) THEN Effective(row) ELSE target
     \/ UNCHANGED <<sub, users, draft, picked, target>>
  /\ UNCHANGED <<row, team, here, redirecting, visit, puts, charges, confirming, change, taps>>

\* Another section and back: the cards start from what is cached, and it is read again.
Leave ==
  /\ here /\ Tap /\ here' = FALSE
  /\ puts' = [i \in Slots |-> IF puts[i] # None /\ puts[i].card = visit
                             THEN [puts[i] EXCEPT !.shown = draft] ELSE puts[i]]
  /\ UNCHANGED <<row, team, readVars, cardVars, visit, charges, change>>

Return ==
  /\ ~here /\ Tap /\ here' = TRUE /\ visit' = visit + 1
  /\ draft' = sub.seats /\ picked' = {} /\ redirecting' = FALSE
  /\ target' = Effective(sub) /\ confirming' = FALSE /\ asking' = TRUE
  /\ UNCHANGED <<row, team, sub, users, puts, charges, change>>

\* Another admin buys seats or gives them up, or a member is deactivated.
ColleagueChanges ==
  /\ Tap
  /\ \/ \E n \in (Cardinality(team) + 1)..MaxSeats : row' = [row EXCEPT !.seats = n, !.queued = None]
        /\ UNCHANGED team
     \/ \E u \in team : team' = team \ {u} /\ UNCHANGED row
  /\ UNCHANGED <<readVars, here, cardVars, visit, puts, charges, change>>

PlanSettingsInit ==
  /\ team = People
  /\ row \in {s \in Subscription : s.seats = Cardinality(People) + 1 /\ s.queued = None /\ s.next = None /\ ~s.ends}
  /\ sub = row /\ users = team /\ asking = FALSE /\ here = TRUE
  /\ draft = row.seats /\ picked = {} /\ redirecting = FALSE /\ visit = 0
  /\ puts = [i \in Slots |-> None] /\ charges = puts
  /\ target = row.plan /\ confirming = FALSE /\ change = None /\ taps = 0

PlanSettingsNext ==
  \/ \E n \in 1..MaxSeats : TypeSeats(n)
  \/ \E u \in People : TogglePick(u)
  \/ \E i \in Slots : \/ SubmitSeats(i) \/ CancelQueue(i)
                      \/ PutAnswers(i) \/ PaymentIsRequired(i) \/ ChargeAnswers(i)
  \/ \E i \in Intervals : PickInterval(i)
  \/ SubmitInterval \/ ConfirmCancel \/ Reactivate \/ ChangeAnswers
  \/ SubscriptionAnswers \/ Leave \/ Return \/ ColleagueChanges

PlanSettingsSpec == PlanSettingsInit /\ [][PlanSettingsNext]_settingsVars

-----------------------------------------------------------------------------
\* The form's request of a card, or the charge that answered its refusal.
Upgrading(i, card) ==
  \/ puts[i] # None /\ puts[i].submit /\ puts[i].card = card
  \/ charges[i] # None /\ charges[i].card = card

\* Of the requests and charges one card of the seats sent, one is under way, whether the
\* card is on the screen or its section was left: while an upgrade refused for want of
\* payment is being charged, the card asks for nothing else, so that a customer who
\* presses its button again is not charged twice.
OneUpgradePerCard ==
  \A card \in 0..visit : \A i, j \in Slots : Upgrading(i, card) /\ Upgrading(j, card) => i = j

\* One charge at a time, whatever card asked for it.  The lock is a state of the card: one
\* that is left and comes back knows nothing of the charge it asked for, and asks again.
OneChargeAtATime == \A i, j \in Slots : charges[i] # None /\ charges[j] # None => i = j

\* A charge for seats is made for the number the server refused for want of payment
\* ("Used when the seat-count PUT returns 402", usePayments.ts): what the customer
\* submitted, not what is typed into the field meanwhile.
ChargedAsRefused ==
  \A i \in Slots : charges[i] = None /\ charges'[i] # None => charges'[i].seats = puts[i].seats

\* What the preview calls the new cost is what the next charge takes for those seats.
PreviewIsTheBill == here => LiveSeatCostPreview(sub, draft) = Bill(sub, draft)

=============================================================================
