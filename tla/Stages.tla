-------------------------------- MODULE Stages --------------------------------
(***************************************************************************)
(* The stages of the pipeline in the settings (PipelineSection): an arrow     *)
(* swaps two stages of the list on screen and sends the whole order; a stage   *)
(* is added at the end or deleted after a question.  No arrow is locked while  *)
(* an order is on its way, and another admin works on the same stages.        *)
(***************************************************************************)
EXTENDS Naturals, Sequences, SequencesExt

CONSTANTS
  Given,     \* the stages of the beginning, in order
  Spare,     \* stages that may be added
  Held,      \* stages that cannot be deleted: with deals, or the only won one
  Slots,     \* bound: orders on their way at once
  None,
  MaxTaps    \* bound: what the two admins do

StagesAssumption ==
  /\ Given \in Seq(Range(Given)) /\ IsInjective(Given) /\ Range(Given) \cap Spare = {}
  /\ None \notin Range(Given) \cup Spare /\ MaxTaps \in Nat

AllStages == Range(Given) \cup Spare
Orders == {o \in Seq(AllStages) : IsInjective(o)}

VARIABLES
  server,    \* the order of the positions
  shown,     \* usePipeline's data
  fetch,     \* its request
  failed,    \* isError: the list is hidden
  moves,     \* useReorderStages, one slot for each order on its way
  target,    \* deleteTarget: the stage the dialog asks about
  deleting,  \* useDeleteStage
  adding,    \* useCreateStage
  meant,     \* the order the admin last asked for, as he saw it
  hasty,     \* he acted on a list that was about to change
  meddled,   \* the other admin changed something, or an answer was lost,
  news,      \* and that since the list was last read
  made,      \* every stage there ever was
  gone,      \* and those deleted
  taps

stagesVars == <<server, shown, fetch, failed, moves, target, deleting, adding, meant, hasty, meddled,
                news, made, gone, taps>>
listVars == <<shown, fetch, failed>>
askVars == <<meant, hasty>>
otherVars == <<meddled, news>>
pastVars == <<made, gone>>

NoFetch == [step |-> "idle", order |-> << >>]
AskedFor == [step |-> "asked", order |-> << >>]
Idle == [step |-> "idle"]
Sent(what) == [step |-> "sent", what |-> what]

StagesTypeOK ==
  /\ {server, shown, meant} \subseteq Orders
  /\ fetch \in [step : {"idle", "asked", "read"}, order : Orders]
  /\ moves \in [Slots -> {Idle} \cup [step : {"sent", "done", "refused"}, what : Orders]]
  /\ target \in AllStages \cup {None}
  /\ {deleting, adding} \subseteq
       {Idle} \cup [step : {"sent", "done", "settling", "refused"}, what : AllStages]
  /\ {failed, hasty, meddled, news} \subseteq BOOLEAN /\ {made, gone} \subseteq SUBSET AllStages /\ taps \in Nat

AtRest ==
  /\ \A i \in Slots : moves[i] = Idle
  /\ deleting = Idle /\ adding = Idle /\ fetch = NoFetch /\ ~failed

Tap == taps < MaxTaps /\ taps' = taps + 1
Asks(order) == meant' = order /\ hasty' = (hasty \/ ~AtRest)

-----------------------------------------------------------------------------
\* The query.  An answer to a request that an invalidation replaced is dropped.
ServerReads ==
  /\ fetch.step = "asked"
  /\ fetch' = [step |-> "read", order |-> server] /\ news' = FALSE
  /\ UNCHANGED <<server, shown, failed, moves, target, deleting, adding, askVars, meddled, pastVars, taps>>

ListArrives ==
  /\ fetch.step = "read"
  /\ shown' = fetch.order /\ fetch' = NoFetch /\ failed' = FALSE
  /\ UNCHANGED <<server, moves, target, deleting, adding, askVars, otherVars, pastVars, taps>>

ListFails ==
  /\ fetch.step # "idle"
  /\ fetch' = NoFetch /\ failed' = TRUE
  /\ UNCHANGED <<server, shown, moves, target, deleting, adding, askVars, otherVars, pastVars, taps>>

\* The section is opened again after the data went stale.
Revisit ==
  /\ fetch = NoFetch /\ target = None /\ Tap /\ fetch' = AskedFor
  /\ UNCHANGED <<server, shown, failed, moves, target, deleting, adding, askVars, otherVars, pastVars>>

-----------------------------------------------------------------------------
\* What a press on an arrow is computed from: the list on screen.
OnScreen == ~failed /\ target = None

\* The order without stage s, which it has once.
Without(order, s) ==
  IF s \in Range(order) THEN RemoveAt(order, CHOOSE k \in DOMAIN order : order[k] = s) ELSE order

Swapped(order, k) ==
  [order EXCEPT ![k] = order[k + 1], ![k + 1] = order[k]]

\* handleMove: the arrow down of the k-th stage, and the arrow up of the next one.
Move(k) ==
  /\ OnScreen /\ k \in 1 .. Len(shown) - 1 /\ Tap
  /\ \E i \in Slots : moves[i] = Idle /\ moves' = [moves EXCEPT ![i] = Sent(Swapped(shown, k))]
  /\ Asks(Swapped(shown, k))
  /\ UNCHANGED <<server, listVars, target, deleting, adding, otherVars, pastVars>>

\* Mutant: the server takes whatever list it is sent.
AcceptsAny(order) == TRUE

\* "stage_ids must be a permutation of the pipeline's stages."
Accepts(order) == Range(order) = Range(server)

\* An answer that is lost looks like a refusal.
Unsure(step) ==
  IF step = "refused" THEN meddled' = TRUE /\ news' = TRUE ELSE UNCHANGED otherVars

\* reorder_stages, one transaction; or the request never gets there.
ServerOrders(i) ==
  /\ moves[i].step = "sent"
  /\ \/ /\ Accepts(moves[i].what) /\ server' = moves[i].what
        /\ \E step \in {"done", "refused"} : moves' = [moves EXCEPT ![i].step = step] /\ Unsure(step)
     \/ moves' = [moves EXCEPT ![i].step = "refused"] /\ UNCHANGED <<server, otherVars>>
  /\ UNCHANGED <<listVars, target, deleting, adding, askVars, pastVars, taps>>

\* Mutant: a request that is under way is let go on.
InvalidatesIdle == fetch' = IF fetch = NoFetch THEN AskedFor ELSE fetch

\* invalidatePipeline: a request under way is dropped and made anew.
Invalidates == fetch' = AskedFor

OrderConfirmed(i) ==
  /\ moves[i].step = "done"
  /\ moves' = [moves EXCEPT ![i] = Idle] /\ Invalidates
  /\ UNCHANGED <<server, shown, failed, target, deleting, adding, askVars, otherVars, pastVars, taps>>

\* The error is shown; the list is not read again.
OrderRefused(i) ==
  /\ moves[i].step = "refused"
  /\ moves' = [moves EXCEPT ![i] = Idle] /\ meant' = shown
  /\ UNCHANGED <<server, listVars, target, deleting, adding, hasty, otherVars, pastVars, taps>>

-----------------------------------------------------------------------------
\* ConfirmDialog.  Leaving it while the request is out does not stop the request.
AskDelete(s) ==
  /\ OnScreen /\ s \in Range(shown) /\ Tap /\ target' = s
  /\ UNCHANGED <<server, listVars, moves, deleting, adding, askVars, otherVars, pastVars>>

CancelDelete ==
  /\ target # None /\ target' = None
  /\ UNCHANGED <<server, listVars, moves, deleting, adding, askVars, otherVars, pastVars, taps>>

ConfirmDelete ==
  /\ target # None /\ deleting = Idle
  /\ deleting' = Sent(target)
  /\ Asks(Without(shown, target))
  /\ UNCHANGED <<server, listVars, moves, target, adding, otherVars, pastVars, taps>>

\* delete_stage; or the request never gets there.
ServerDeletes ==
  /\ deleting.step = "sent"
  /\ LET s == deleting.what IN
     \/ /\ s \in Range(server) /\ s \notin Held
        /\ server' = Without(server, s) /\ gone' = gone \cup {s} /\ UNCHANGED made
        /\ \E step \in {"done", "refused"} : deleting' = [deleting EXCEPT !.step = step] /\ Unsure(step)
     \/ deleting' = [deleting EXCEPT !.step = "refused"] /\ UNCHANGED <<server, pastVars, otherVars>>
  /\ UNCHANGED <<listVars, moves, target, adding, askVars, taps>>

\* The call returns when the list has been read again.
DeleteConfirmed ==
  /\ deleting.step = "done"
  /\ deleting' = [deleting EXCEPT !.step = "settling"] /\ Invalidates
  /\ UNCHANGED <<server, shown, failed, moves, target, adding, askVars, otherVars, pastVars, taps>>

\* `finally': the dialog closes, whichever stage it is about by now.
DeleteEnds ==
  /\ \/ deleting.step = "settling" /\ fetch = NoFetch /\ UNCHANGED meant
     \/ deleting.step = "refused" /\ meant' = shown
  /\ deleting' = Idle /\ target' = None
  /\ UNCHANGED <<server, listVars, moves, adding, hasty, otherVars, pastVars, taps>>

-----------------------------------------------------------------------------
\* The new stage gets the last position; the form is locked until the list is read.
AddStage(s) ==
  /\ OnScreen /\ adding = Idle /\ s \in Spare \ made /\ Tap
  /\ adding' = Sent(s) /\ Asks(Append(shown, s))
  /\ UNCHANGED <<server, listVars, moves, target, deleting, otherVars, pastVars>>

ServerAdds ==
  /\ adding.step = "sent"
  /\ \/ /\ adding.what \notin made
        /\ server' = Append(server, adding.what) /\ made' = made \cup {adding.what}
        /\ \E step \in {"done", "refused"} : adding' = [adding EXCEPT !.step = step] /\ Unsure(step)
     \/ adding' = [adding EXCEPT !.step = "refused"] /\ UNCHANGED <<server, made, otherVars>>
  /\ UNCHANGED <<listVars, moves, target, deleting, askVars, gone, taps>>

AddConfirmed ==
  /\ adding.step = "done"
  /\ adding' = [adding EXCEPT !.step = "settling"] /\ Invalidates
  /\ UNCHANGED <<server, shown, failed, moves, target, deleting, askVars, otherVars, pastVars, taps>>

AddEnds ==
  /\ \/ adding.step = "settling" /\ fetch = NoFetch /\ UNCHANGED meant
     \/ adding.step = "refused" /\ meant' = shown
  /\ adding' = Idle
  /\ UNCHANGED <<server, listVars, moves, target, deleting, hasty, otherVars, pastVars, taps>>

-----------------------------------------------------------------------------
\* The other admin, with a list of his own.
Meddles(order, added, deleted) ==
  /\ Tap /\ server' = order /\ made' = made \cup added /\ gone' = gone \cup deleted
  /\ meddled' = TRUE /\ news' = TRUE
  /\ UNCHANGED <<listVars, moves, target, deleting, adding, askVars>>

OtherAdmin ==
  \/ Len(server) > 1 /\ Meddles(Swapped(server, 1), {}, {})
  \/ \E s \in Spare \ made : Meddles(Append(server, s), {s}, {})
  \/ \E s \in Range(server) \ Held : Meddles(Without(server, s), {}, {s})

StagesInit ==
  /\ server = Given /\ shown = Given /\ fetch = NoFetch /\ failed = FALSE
  /\ moves = [i \in Slots |-> Idle] /\ target = None /\ deleting = Idle /\ adding = Idle
  /\ meant = Given /\ hasty = FALSE /\ meddled = FALSE /\ news = FALSE
  /\ made = Range(Given) /\ gone = {} /\ taps = 0

StagesNext ==
  \/ ServerReads \/ ListArrives \/ ListFails \/ Revisit
  \/ \E k \in 1 .. Len(shown) : Move(k)
  \/ \E i \in Slots : ServerOrders(i) \/ OrderConfirmed(i) \/ OrderRefused(i)
  \/ \E s \in AllStages : AskDelete(s) \/ AddStage(s)
  \/ CancelDelete \/ ConfirmDelete \/ ServerDeletes \/ DeleteConfirmed \/ DeleteEnds
  \/ ServerAdds \/ AddConfirmed \/ AddEnds
  \/ OtherAdmin

StagesSpec == StagesInit /\ [][StagesNext]_stagesVars

-----------------------------------------------------------------------------
\* An order computed from an old list never drops or revives a stage: the pipeline has
\* the stages that were made and not deleted, each once (reorder_stages' check).
NoStageIsLost == Range(server) = made \ gone /\ IsInjective(server)

\* Once every answer is in, the section shows the server's order, unless the other admin
\* changed it since it was read; and an admin who waits for each answer gets the order
\* he asked for (invalidatePipeline).
OrderSettles ==
  AtRest =>
    /\ ~news => shown = server
    /\ ~hasty /\ ~meddled => server = meant
=============================================================================
