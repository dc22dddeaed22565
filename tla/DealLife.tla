------------------------------- MODULE DealLife -------------------------------
(***************************************************************************)
(* How a deal is won, lost, reopened, moved and paid: the handlers of the     *)
(* board (PipelinePage) and of the deal dialog (DealDetail, MarkLostDialog)  *)
(* on one side, the deals API on the other.  A request and its answer are    *)
(* separate steps; the server runs one request at a time and a colleague     *)
(* works on the same deals.                                                *)
(***************************************************************************)
EXTENDS Naturals

CONSTANTS
  Deals, Reasons,
  Open1, Open2, Won, Lost,  \* the stages: two open ones, in order, and the closing ones
  None,
  MaxActs                   \* bound: requests made, by the user or the colleague

Stages == {Open1, Open2, Won, Lost}

LifeAssumption ==
  /\ Open1 # Open2 /\ Won # Lost /\ {Open1, Open2} \cap {Won, Lost} = {}
  /\ None \notin Deals \cup Reasons /\ MaxActs \in Nat

VARIABLES
  lostStage, \* the pipeline has a stage of type "lost"
  server,    \* deal -> what the API holds of it
  shown,     \* deal -> what the client's cache shows of it
  losing,    \* losingDealTarget: the deal the open MarkLostDialog names
  editing,   \* DealDetail's edit: the deal, and the stage its form was seeded with
  flights,   \* requests under way; winningDealId and payingDealId are read from them
  told,      \* deal -> reasons the user confirmed for it
  acts

lifeVars == <<lostStage, server, shown, losing, editing, flights, told, acts>>

Deal == [stage : Stages, closed : BOOLEAN, reason : Reasons \cup {None}, paid : BOOLEAN]
Ops == [op : {"win", "reopen"}] \cup [op : {"lose"}, reason : Reasons]
       \cup [op : {"pay"}, paid : BOOLEAN] \cup [op : {"move", "put"}, stage : Stages]
Flight == [deal : Deals, do : Ops, step : {"sent", "ok", "refused"}]

LifeTypeOK ==
  /\ lostStage \in BOOLEAN
  /\ server \in [Deals -> Deal] /\ shown \in [Deals -> Deal]
  /\ losing \in Deals \cup {None}
  /\ editing \in {None} \cup [deal : Deals, stage : Stages]
  /\ flights \subseteq Flight /\ told \in [Deals -> SUBSET Reasons]
  /\ acts \in 0 .. MaxActs

Board == IF lostStage THEN Stages ELSE Stages \ {Lost}

-----------------------------------------------------------------------------
(***************************************************************************)
(* The deals API.                                                          *)
(***************************************************************************)
\* _transition_stage: what entering a stage does to the rest of the deal.
Entered(r, s) ==
  [stage  |-> s,
   closed |-> IF s = r.stage THEN r.closed ELSE s \in {Won, Lost},
   reason |-> IF s = Lost \/ s = r.stage THEN r.reason ELSE None,
   paid   |-> r.paid /\ ~(r.stage = Won /\ s # Won)]

\* mark-won forgets the reason of a loss; whether the deal is paid it leaves alone.
MarkedWon(r) == [r EXCEPT !.stage = Won, !.closed = TRUE, !.reason = None]

\* mark-lost stays in the stage when the pipeline has no lost one.
MarkedLost(r, why) ==
  [r EXCEPT !.stage = IF lostStage THEN Lost ELSE @, !.closed = TRUE, !.reason = why]

\* A mutant of the next: the reason stays.
ReopenedWithReason(r) == [r EXCEPT !.stage = IF @ \in {Won, Lost} THEN Open1 ELSE @, !.closed = FALSE]

Reopened(r) ==
  [stage |-> IF r.stage \in {Won, Lost} THEN Open1 ELSE r.stage,
   closed |-> FALSE, reason |-> None, paid |-> FALSE]

Accepts(r, do) ==
  CASE do.op = "reopen" -> r.closed \/ r.stage \in {Won, Lost}
    [] do.op = "pay"    -> r.stage = Won
    [] OTHER            -> TRUE

Applied(r, do) ==
  CASE do.op = "win"    -> MarkedWon(r)
    [] do.op = "lose"   -> MarkedLost(r, do.reason)
    [] do.op = "reopen" -> Reopened(r)
    [] do.op = "pay"    -> [r EXCEPT !.paid = do.paid]
    [] OTHER            -> Entered(r, do.stage)

-----------------------------------------------------------------------------
(***************************************************************************)
(* The client.                                                             *)
(***************************************************************************)
Sends(d, do) ==
  /\ acts < MaxActs /\ acts' = acts + 1
  /\ flights' = flights \cup {[deal |-> d, do |-> do, step |-> "sent"]}

Pending(op) == \E f \in flights : f.do.op = op

\* handleWinDeal: celebrated at once, and one at a time.
WinDeal(d) ==
  /\ ~Pending("win") /\ shown[d].stage # Won
  /\ Sends(d, [op |-> "win"])
  /\ UNCHANGED <<lostStage, server, shown, losing, editing, told>>

\* handleTogglePayment: the box of a card in the won column, one at a time.
TogglePayment(d) ==
  /\ ~Pending("pay") /\ shown[d].stage = Won
  /\ Sends(d, [op |-> "pay", paid |-> ~shown[d].paid])
  /\ UNCHANGED <<lostStage, server, shown, losing, editing, told>>

\* The card's X, or any card dropped on the lose zone, those of the won column too.
AskReason(d) ==
  /\ losing = None
  /\ losing' = d
  /\ UNCHANGED <<lostStage, server, shown, editing, flights, told, acts>>

CancelReason ==
  /\ losing # None
  /\ losing' = None
  /\ UNCHANGED <<lostStage, server, shown, editing, flights, told, acts>>

\* handleConfirmLose: the target is taken when the request is sent; pending locks the form.
ConfirmLose(why) ==
  /\ losing # None
  /\ ~Pending("lose")
  /\ Sends(losing, [op |-> "lose", reason |-> why])
  /\ told' = [told EXCEPT ![losing] = @ \cup {why}]
  /\ UNCHANGED <<lostStage, server, shown, losing, editing>>

ReopenDeal(d) ==
  /\ shown[d].closed /\ ~\E f \in flights : f.deal = d /\ f.do.op = "reopen"
  /\ Sends(d, [op |-> "reopen"])
  /\ UNCHANGED <<lostStage, server, shown, losing, editing, told>>

StartEditing(d) ==
  /\ editing = None
  /\ editing' = [deal |-> d, stage |-> shown[d].stage]
  /\ UNCHANGED <<lostStage, server, shown, losing, flights, told, acts>>

\* handleSave sends every field of the form, the stage it was seeded with among them.
SaveEdit(s) ==
  /\ editing # None /\ ~Pending("put")
  /\ Sends(editing.deal, [op |-> "put", stage |-> s])
  /\ editing' = [editing EXCEPT !.stage = s]
  /\ UNCHANGED <<lostStage, server, shown, losing, told>>

CancelEdit ==
  /\ editing # None
  /\ editing' = None
  /\ UNCHANGED <<lostStage, server, shown, losing, flights, told, acts>>

\* The API answers in any order.
ServerAnswers(f) ==
  /\ f.step = "sent"
  /\ LET yes == Accepts(server[f.deal], f.do)
         fits == f.do.op \in {"move", "put"} => f.do.stage \in Board
     IN \/ /\ yes /\ fits
           /\ server' = [server EXCEPT ![f.deal] = Applied(@, f.do)]
           /\ flights' = (flights \ {f}) \cup {[f EXCEPT !.step = "ok"]}
        \/ /\ flights' = (flights \ {f}) \cup {[f EXCEPT !.step = "refused"]}
           /\ UNCHANGED server
  /\ UNCHANGED <<lostStage, shown, losing, editing, told, acts>>

\* Success reads the board again; whatever dialog is open closes with a loss or an edit.
Settles(f) ==
  /\ f.step # "sent"
  /\ flights' = flights \ {f}
  /\ IF f.step = "ok"
     THEN /\ shown' = server
          /\ losing'  = IF f.do.op = "lose" THEN None ELSE losing
          /\ editing' = IF f.do.op = "put" THEN None ELSE editing
     ELSE UNCHANGED <<shown, losing, editing>>
  /\ UNCHANGED <<lostStage, server, told, acts>>

Colleague(d) ==
  /\ acts < MaxActs /\ acts' = acts + 1
  /\ \E do \in [op : {"win", "reopen"}] \cup [op : {"pay"}, paid : BOOLEAN] \cup [op : {"move"}, stage : Board] :
       /\ Accepts(server[d], do)
       /\ server' = [server EXCEPT ![d] = Applied(@, do)]
  /\ UNCHANGED <<lostStage, shown, losing, editing, flights, told>>

Refetched ==
  /\ shown # server
  /\ shown' = server
  /\ UNCHANGED <<lostStage, server, losing, editing, flights, told, acts>>

LifeInit ==
  /\ lostStage \in BOOLEAN
  /\ server \in [Deals -> {[stage |-> s, closed |-> s = Won, reason |-> None, paid |-> FALSE] : s \in {Open1, Won}}]
  /\ shown = server
  /\ losing = None /\ editing = None
  /\ flights = {} /\ told = [d \in Deals |-> {}] /\ acts = 0

LifeNext ==
  \/ \E d \in Deals : WinDeal(d) \/ TogglePayment(d) \/ AskReason(d) \/ ReopenDeal(d)
                      \/ StartEditing(d) \/ Colleague(d)
  \/ \E why \in Reasons : ConfirmLose(why)
  \/ \E s \in Board : SaveEdit(s)
  \/ CancelReason \/ CancelEdit \/ Refetched
  \/ \E f \in flights : ServerAnswers(f) \/ Settles(f)

LifeSpec == LifeInit /\ [][LifeNext]_lifeVars

-----------------------------------------------------------------------------
(***************************************************************************)
(* A reason is stored on the deal it was given for, whatever dialog is open   *)
(* when the request leaves, arrives or is answered.                          *)
(***************************************************************************)
ReasonReachesItsDeal == \A d \in Deals : server[d].reason \in told[d] \cup {None}

(***************************************************************************)
(* The board never loses a deal between its states: a deal is closed exactly  *)
(* when it sits in a closing stage or was given up in an open one.           *)
(***************************************************************************)
ClosedMeansDecided ==
  \A d \in Deals : server[d].closed <=> server[d].stage \in {Won, Lost} \/ server[d].reason # None

(***************************************************************************)
(* "is_paid only carries meaning in a won stage; left set, no UI could ever   *)
(* clear it" (backend api/v1/deals.py:603): no deal is paid outside one.     *)
(***************************************************************************)
PaidOnlyWhileWon == \A d \in Deals : server[d].paid => server[d].stage = Won
=============================================================================
