-------------------------------- MODULE Board --------------------------------
(***************************************************************************)
(* The pipeline board of the web client: the cards of PipelinePage, the      *)
(* optimistic move of useMoveDealStage, and the react-query entries the      *)
(* board is read from, one for each "won" window.                           *)
(*                                                                         *)
(* The server's past is kept as a log of its states, so that what a cached   *)
(* board shows can be compared with what the server once answered.  A        *)
(* request and its answer are separate steps; react-query is external and    *)
(* modelled by what the hooks ask of it.                                    *)
(***************************************************************************)
EXTENDS Naturals, Sequences

CONSTANTS
  Deals,       \* the cards of the board
  Stages,      \* the columns
  Windows,     \* WON_WINDOW_VALUES, each a cached variant of the board
  DefaultWindow,
  Slots,       \* bound: moves whose answer is awaited at once
  None,        \* no card, no data
  MaxLog,      \* bound: states of the server
  MaxTaps      \* bound: drops, changes of the window, visits and reloads

BoardAssumption ==
  /\ DefaultWindow \in Windows
  /\ MaxLog \in Nat \ {0} /\ MaxTaps \in Nat
  /\ None \notin Deals /\ None \notin [at : [Deals -> Stages], ver : Nat] /\ Stages # {}

VARIABLES
  log,      \* the states the server went through: deal -> stage
  cache,    \* the query of each window: data, isInvalidated, error, fetch in flight
  window,   \* the window on screen
  moves,    \* useMoveDealStage, one slot for each mutation in flight
  known,    \* server state of the newest move that was confirmed to the client
  switched, \* the page or its window was changed while a request was under way
  taps      \* what the user has done so far

boardVars == <<log, cache, window, moves, known, switched, taps>>

Positions == [Deals -> Stages]
Shown == [at : Positions, ver : Nat]
NoFetch == [step |-> "idle", ver |-> 0]

\* One cached variant of usePipelineBoard.
Query == [data : Shown \cup {None}, invalid : BOOLEAN, failed : BOOLEAN,
          fetch : [step : {"idle", "asked", "read"}, ver : Nat]]

Idle == [step |-> "idle"]
Move == [step : {"sent", "done", "refused", "orphan"}, deal : Deals, to : Stages,
         snap : [Windows -> Shown \cup {None}], alone : BOOLEAN, ver : Nat]

TypeOK ==
  /\ log \in Seq(Positions) /\ log # << >>
  /\ cache \in [Windows -> Query]
  /\ window \in Windows
  /\ moves \in [Slots -> {Idle} \cup Move]
  /\ known \in Nat /\ switched \in BOOLEAN /\ taps \in Nat

(***************************************************************************)
(* react-query, as far as useBoard relies on it.                            *)
(***************************************************************************)
Asked == [step |-> "asked", ver |-> 0]
Empty == [data |-> None, invalid |-> FALSE, failed |-> FALSE, fetch |-> NoFetch]

\* fetch(): an entry without data keeps the request it has, one with data starts over.
Refetched(q) ==
  IF q.fetch.step # "idle" /\ q.data = None THEN q ELSE [q EXCEPT !.fetch = Asked]

\* invalidateQueries(): every variant is marked, only the one on screen is fetched.
Invalidated(c) ==
  [w \in Windows |->
     LET q == [c[w] EXCEPT !.invalid = c[w].data # None \/ c[w].invalid]
     IN  IF w = window THEN Refetched(q) ELSE q]

\* A mutant of the next: a request under way is let go on.
CancelledNothing(c) == c

\* cancelQueries(): the requests under way are dropped, answers and all.
Cancelled(c) == [w \in Windows |-> [c[w] EXCEPT !.fetch = NoFetch]]

\* A variant that comes on screen is fetched unless its data is still fresh.
Observed(c, w, aged) ==
  IF c[w].data = None \/ c[w].invalid \/ aged
  THEN [c EXCEPT ![w] = IF @.fetch.step = "idle" THEN [@ EXCEPT !.fetch = Asked] ELSE @]
  ELSE c

ServerReads(w) ==
  /\ cache[w].fetch.step = "asked"
  /\ cache' = [cache EXCEPT ![w].fetch = [step |-> "read", ver |-> Len(log)]]
  /\ UNCHANGED <<log, window, moves, known, switched, taps>>

BoardArrives(w) ==
  /\ cache[w].fetch.step = "read"
  /\ cache' = [cache EXCEPT ![w] =
       [data |-> [at |-> log[@.fetch.ver], ver |-> @.fetch.ver],
        invalid |-> FALSE, failed |-> FALSE, fetch |-> NoFetch]]
  /\ UNCHANGED <<log, window, moves, known, switched, taps>>

BoardFails(w) ==
  /\ cache[w].fetch.step # "idle"
  /\ cache' = [cache EXCEPT ![w].fetch = NoFetch, ![w].failed = TRUE, ![w].invalid = TRUE]
  /\ UNCHANGED <<log, window, moves, known, switched, taps>>

(***************************************************************************)
(* The page.  A failed refetch hides the cards even when data is there.      *)
(***************************************************************************)
OnScreen == cache[window].data # None /\ ~cache[window].failed

Pending == {i \in Slots : moves[i].step \in {"sent", "done", "refused"}}
Busy == Pending # {} \/ \E w \in Windows : cache[w].fetch.step # "idle"

\* What onMutate leaves in one variant: the card at the head of its new column.
Optimistic(q, d, s) ==
  IF q.data = None THEN q ELSE [q EXCEPT !.data.at[d] = s]

\* useMoveDealStage.mutate: cancel, snapshot, show the move, send the request.
MoveStage(d, s) ==
  \E i \in Slots :
    /\ moves[i] = Idle
    /\ LET quiet == Cancelled(cache) IN
       /\ moves' = [moves EXCEPT ![i] =
            [step |-> "sent", deal |-> d, to |-> s, alone |-> TRUE, ver |-> 0,
             snap |-> [w \in Windows |-> quiet[w].data]]]
       /\ cache' = [w \in Windows |-> Optimistic(quiet[w], d, s)]
    /\ taps < MaxTaps /\ taps' = taps + 1
    /\ UNCHANGED <<log, window, known>>

\* handleDragEnd over a column, and the select of a card on a phone.  A drop on the
\* card's own column is ignored, one on the lose zone opens a dialog and moves nothing.
DropOnStage(d, s) ==
  /\ OnScreen /\ cache[window].data.at[d] # s
  /\ MoveStage(d, s)
  /\ UNCHANGED switched

\* POST /deals/{id}/move-stage.  Also for a page that has gone meanwhile.
ServerMoves(i) ==
  /\ moves[i].step \in {"sent", "orphan"}
  /\ Len(log) < MaxLog
  /\ log' = Append(log, [log[Len(log)] EXCEPT ![moves[i].deal] = moves[i].to])
  /\ \/ /\ moves[i].step = "sent"
        /\ \E answer \in {"done", "refused"} :    \* "refused": the answer is lost
             moves' = [moves EXCEPT ![i].step = answer, ![i].ver = Len(log) + 1]
     \/ moves[i].step = "orphan" /\ moves' = [moves EXCEPT ![i] = Idle]
  /\ UNCHANGED <<cache, window, known, switched, taps>>

ServerRefuses(i) ==
  /\ moves[i].step \in {"sent", "orphan"}
  /\ moves' = [moves EXCEPT ![i] =
       IF @.step = "orphan" THEN Idle ELSE [@ EXCEPT !.step = "refused"]]
  /\ UNCHANGED <<log, cache, window, known, switched, taps>>

\* onError: every variant gets back what it held when this move began.
RolledBack(c, snap) ==
  [w \in Windows |-> IF snap[w] = None THEN c[w] ELSE [c[w] EXCEPT !.data = snap[w]]]

\* A mutant of the next: the board is left as it was cached.
SettledAsCached(c) == c

\* onSettled runs whether the move was accepted or not.
Settled(c) == Invalidated(c)

Settle(i) ==
  /\ moves[i].step \in {"done", "refused"}
  /\ cache' = Settled(IF moves[i].step = "done" THEN cache ELSE RolledBack(cache, moves[i].snap))
  /\ known' = IF moves[i].step = "done" /\ moves[i].ver > known THEN moves[i].ver ELSE known
  /\ moves' = [j \in Slots |-> IF j = i THEN Idle
                               ELSE IF moves[j] = Idle THEN Idle ELSE [moves[j] EXCEPT !.alone = FALSE]]
  /\ UNCHANGED <<log, window, switched, taps>>

\* The select above the board; the choice outlives the page.
ChooseWindow(w) ==
  /\ taps < MaxTaps /\ taps' = taps + 1
  /\ OnScreen /\ w # window
  /\ window' = w
  /\ \E aged \in BOOLEAN : cache' = Observed(cache, w, aged)
  /\ switched' = (switched \/ Busy)
  /\ moves' = [j \in Slots |-> IF moves[j] = Idle THEN Idle ELSE [moves[j] EXCEPT !.alone = FALSE]]
  /\ UNCHANGED <<log, known>>

\* Leaving the page and coming back: the page mounts again, its requests went on.
Revisit ==
  /\ taps < MaxTaps /\ taps' = taps + 1
  /\ \E aged \in BOOLEAN : cache' = Observed(cache, window, aged)
  /\ switched' = (switched \/ Busy)
  /\ moves' = [j \in Slots |-> IF moves[j] = Idle THEN Idle ELSE [moves[j] EXCEPT !.alone = FALSE]]
  /\ UNCHANGED <<log, window, known>>

\* A reload forgets everything but the window, which localStorage keeps when it can;
\* what was sent stays sent.
Reload ==
  /\ taps < MaxTaps /\ taps' = taps + 1
  /\ window' \in {window, DefaultWindow}
  /\ cache' = [w \in Windows |-> IF w = window' THEN [Empty EXCEPT !.fetch = Asked] ELSE Empty]
  /\ known' = 0 /\ switched' = FALSE
  /\ moves' = [i \in Slots |-> IF moves[i].step = "sent" THEN [moves[i] EXCEPT !.step = "orphan"]
                               ELSE IF moves[i].step = "orphan" THEN moves[i] ELSE Idle]
  /\ UNCHANGED log

\* loadWonWindow: a stored choice, or 30 days when storage is absent or throws.
BoardInit ==
  /\ \E s \in Stages : log = <<[d \in Deals |-> s]>>
  /\ window \in Windows
  /\ cache = [w \in Windows |-> IF w = window THEN [Empty EXCEPT !.fetch = Asked] ELSE Empty]
  /\ moves = [i \in Slots |-> Idle]
  /\ known = 0 /\ switched = FALSE /\ taps = 0

BoardNext ==
  \/ \E w \in Windows : ServerReads(w) \/ BoardArrives(w) \/ BoardFails(w) \/ ChooseWindow(w)
  \/ \E d \in Deals, s \in Stages : DropOnStage(d, s)
  \/ Revisit \/ Reload
  \/ \E i \in Slots : ServerMoves(i) \/ ServerRefuses(i) \/ Settle(i)

BoardSpec == BoardInit /\ [][BoardNext]_boardVars

-----------------------------------------------------------------------------
Quiet == Pending = {} /\ cache[window].fetch.step = "idle" /\ OnScreen

(***************************************************************************)
(* Once the answers are in, the board shows what the server once held, and   *)
(* nothing older than the moves it has confirmed: neither a rollback nor an  *)
(* overlapping move leaves a card in a column it is not in.  The window must *)
(* not have been changed while a request was under way.                     *)
(***************************************************************************)
BoardSettles ==
  Quiet /\ ~switched =>
    LET shown == cache[window].data
    IN  shown.at = log[shown.ver] /\ shown.ver >= known

(***************************************************************************)
(* A card stays where it was dropped until the move is answered, as long as  *)
(* no other answer has made the board read the server again in between.     *)
(***************************************************************************)
CardStaysWhereDropped ==
  \A i \in Pending :
    moves[i].alone /\ (\A j \in Pending \ {i} : moves[j].deal # moves[i].deal)
      => \A w \in Windows : moves[i].snap[w] # None => cache[w].data.at[moves[i].deal] = moves[i].to

(***************************************************************************)
(* cache.ts:6-13 of the deals: every deal write makes the board "re-fetch    *)
(* on the next render" instead of showing "a pre-write snapshot until React  *)
(* Query's staleTime elapses".                                              *)
(***************************************************************************)
NoPreWriteSnapshot ==
  Quiet /\ ~cache[window].invalid => cache[window].data.ver >= known
=============================================================================
