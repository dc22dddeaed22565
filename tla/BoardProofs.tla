------------------------------ MODULE BoardProofs ------------------------------
(***************************************************************************)
(* The invariants of the board, of a press on a card, of the section of the      *)
(* stages and of how a deal is decided: each holds at the start and after every  *)
(* step of its part, and with it the types of the part's state.               *)
(***************************************************************************)
EXTENDS Deals, PagesProofs

-----------------------------------------------------------------------------
(***************************************************************************)
(* The pipeline board.                                                      *)
(***************************************************************************)
\* What a variant shows is what the server once held, and no older than what it confirmed.
IsOfServer(w) ==
  LET data == s2[w].data IN data.ver \in 1 .. Len(s1) /\ data.ver >= s5 /\ data.at = s1[data.ver]

\* Nothing has been read since a move that is alone was made, and it still shows.
AloneMovesShow ==
  \A i \in AtBoard!Pending : s4[i].alone =>
    /\ \A w \in Windows : /\ s2[w].fetch.step = "idle"
                          /\ s4[i].snap[w] # None => s2[w].data # None
    /\ (\A j \in AtBoard!Pending \ {i} : s4[j].deal # s4[i].deal)
         => \A w \in Windows : s4[i].snap[w] # None => s2[w].data.at[s4[i].deal] = s4[i].to

\* The versions there are, and that a variant is marked when its read failed.
VersionsAreOfLog ==
  /\ s5 <= Len(s1)
  /\ \A i \in AtBoard!Pending : s4[i].ver <= Len(s1)
  /\ \A w \in Windows : /\ s2[w].fetch.step = "read" => s2[w].fetch.ver \in 1 .. Len(s1)
                        /\ s2[w].failed => s2[w].invalid

\* Only the variant on screen is read, anew after every answer.
OnlyOneIsRead ==
  /\ \A w \in Windows \ {s3} : s2[w].fetch.step = "idle"
  /\ s2[s3].fetch.step = "read" => s2[s3].fetch.ver >= s5
  /\ AtBoard!Pending # {} => s2[s3].data # None

\* A variant that is good to show without another read is the server's.
GoodToShow(w) ==
  /\ s2[w].fetch.step = "idle" /\ s2[w].data # None
  /\ IF w = s3 THEN ~s2[w].failed ELSE ~s2[w].invalid

BoardInv ==
  /\ AtBoard!TypeOK /\ VersionsAreOfLog /\ AloneMovesShow
  /\ ~s6 => OnlyOneIsRead
  /\ ~s6 /\ AtBoard!Pending = {} => \A w \in Windows : GoodToShow(w) => IsOfServer(w)

LEMMA NothingIsNoData == None \notin AtBoard!Shown
  BY DealsAssumption DEF AtBoard!BoardAssumption, AtBoard!Shown, AtBoard!Positions

LEMMA BoardShows == BoardInv => AtBoard!BoardSettles /\ AtBoard!CardStaysWhereDropped
<1> SUFFICES ASSUME BoardInv PROVE AtBoard!BoardSettles /\ AtBoard!CardStaysWhereDropped
  OBVIOUS
<1>1. AtBoard!BoardSettles
  BY DEF BoardInv, AtBoard!TypeOK, AtBoard!BoardSettles, AtBoard!Quiet, AtBoard!OnScreen, GoodToShow, IsOfServer
<1>2. AtBoard!CardStaysWhereDropped
  BY DEF BoardInv, AloneMovesShow, AtBoard!CardStaysWhereDropped
<1> QED
  BY <1>1, <1>2

\* What react-query's operations do to an entry.
LEMMA QueryFields ==
  ASSUME NEW q \in AtBoard!Query
  PROVE  /\ q.data \in AtBoard!Shown \cup {None} /\ q.invalid \in BOOLEAN /\ q.failed \in BOOLEAN
         /\ q.fetch.step \in {"idle", "asked", "read"} /\ q.fetch.ver \in Nat
         /\ q.fetch \in [step : {"idle", "asked", "read"}, ver : Nat]
  BY DEF AtBoard!Query

LEMMA FetchSteps == AtBoard!Asked.step = "asked" /\ AtBoard!NoFetch.step = "idle"
  BY DEF AtBoard!Asked, AtBoard!NoFetch

LEMMA SetFetch ==
  ASSUME NEW q \in AtBoard!Query, NEW f \in {AtBoard!Asked, AtBoard!NoFetch}
  PROVE  LET r == [q EXCEPT !.fetch = f] IN
         /\ r \in AtBoard!Query /\ r.data = q.data /\ r.invalid = q.invalid /\ r.failed = q.failed /\ r.fetch = f
  BY DEF AtBoard!Query, AtBoard!Asked, AtBoard!NoFetch

LEMMA RefetchedFields ==
  ASSUME NEW q \in AtBoard!Query
  PROVE  LET r == AtBoard!Refetched(q) IN
         /\ r \in AtBoard!Query /\ r.data = q.data /\ r.invalid = q.invalid /\ r.failed = q.failed
         /\ r.fetch.step # "idle" /\ (q.data # None => r.fetch = AtBoard!Asked)
         /\ r.fetch \in {q.fetch, AtBoard!Asked}
<1> DEFINE r == [q EXCEPT !.fetch = AtBoard!Asked]
<1>1. r \in AtBoard!Query /\ r.data = q.data /\ r.invalid = q.invalid /\ r.failed = q.failed /\ r.fetch = AtBoard!Asked
  BY SetFetch
<1>2. AtBoard!Refetched(q) = IF q.fetch.step # "idle" /\ q.data = None THEN q ELSE r
  BY DEF AtBoard!Refetched
<1> HIDE DEF r
<1> QED
  BY <1>1, <1>2, FetchSteps

LEMMA CancelledFields ==
  ASSUME NEW c \in [Windows -> AtBoard!Query]
  PROVE  /\ AtBoard!Cancelled(c) \in [Windows -> AtBoard!Query]
         /\ \A w \in Windows : /\ AtBoard!Cancelled(c)[w].data = c[w].data /\ AtBoard!Cancelled(c)[w].invalid = c[w].invalid
                               /\ AtBoard!Cancelled(c)[w].failed = c[w].failed /\ AtBoard!Cancelled(c)[w].fetch = AtBoard!NoFetch
  BY SetFetch DEF AtBoard!Cancelled

LEMMA OptimisticFields ==
  ASSUME NEW q \in AtBoard!Query, NEW d \in Deals, NEW s \in Columns
  PROVE  LET r == AtBoard!Optimistic(q, d, s) IN
         /\ r \in AtBoard!Query /\ r.invalid = q.invalid /\ r.failed = q.failed /\ r.fetch = q.fetch
         /\ (q.data = None => r.data = None)
         /\ q.data # None => /\ r.data \in AtBoard!Shown /\ r.data.at[d] = s
                             /\ \A e \in Deals \ {d} : r.data.at[e] = q.data.at[e]
<1>1. CASE q.data = None
  BY <1>1 DEF AtBoard!Optimistic
<1>2. CASE q.data # None
  <2>1. q.data \in AtBoard!Shown
    BY <1>2 DEF AtBoard!Query
  <2>2. q.data.at \in [Deals -> Columns]
    BY <2>1 DEF AtBoard!Shown, AtBoard!Positions
  <2> DEFINE a == [q.data.at EXCEPT ![d] = s]
             n == [q.data EXCEPT !.at = a]
  <2>3. a \in AtBoard!Positions /\ a[d] = s /\ \A e \in Deals \ {d} : a[e] = q.data.at[e]
    BY <2>2 DEF AtBoard!Positions
  <2>4. AtBoard!Optimistic(q, d, s) = [q EXCEPT !.data = n]
    BY <1>2 DEF AtBoard!Optimistic
  <2> HIDE DEF a
  <2>5. n \in AtBoard!Shown /\ n.at = a
    BY <2>1, <2>3 DEF AtBoard!Shown
  <2> HIDE DEF n
  <2>6. LET r == [q EXCEPT !.data = n] IN
          r \in AtBoard!Query /\ r.invalid = q.invalid /\ r.failed = q.failed /\ r.fetch = q.fetch /\ r.data = n
    BY <2>5 DEF AtBoard!Query
  <2> QED
    BY <1>2, <2>3, <2>4, <2>5, <2>6
<1> QED
  BY <1>1, <1>2

LEMMA InvalidatedFields ==
  ASSUME NEW c \in [Windows -> AtBoard!Query]
  PROVE  /\ AtBoard!Invalidated(c) \in [Windows -> AtBoard!Query]
         /\ \A w \in Windows : /\ AtBoard!Invalidated(c)[w].data = c[w].data /\ AtBoard!Invalidated(c)[w].failed = c[w].failed
                               /\ AtBoard!Invalidated(c)[w].invalid = (c[w].data # None \/ c[w].invalid)
                               /\ w # s3 => AtBoard!Invalidated(c)[w].fetch = c[w].fetch
                               /\ w = s3 => /\ AtBoard!Invalidated(c)[w].fetch.step # "idle"
                                            /\ AtBoard!Invalidated(c)[w].fetch \in {c[w].fetch, AtBoard!Asked}
                                            /\ c[w].data # None => AtBoard!Invalidated(c)[w].fetch = AtBoard!Asked
<1> SUFFICES ASSUME NEW w \in Windows
             PROVE  LET r == AtBoard!Invalidated(c)[w] IN
                    /\ r \in AtBoard!Query /\ r.data = c[w].data /\ r.failed = c[w].failed
                    /\ r.invalid = (c[w].data # None \/ c[w].invalid)
                    /\ w # s3 => r.fetch = c[w].fetch
                    /\ w = s3 => /\ r.fetch.step # "idle" /\ r.fetch \in {c[w].fetch, AtBoard!Asked}
                                 /\ c[w].data # None => r.fetch = AtBoard!Asked
  BY DEF AtBoard!Invalidated
<1> DEFINE q == [c[w] EXCEPT !.invalid = c[w].data # None \/ c[w].invalid]
<1>1. /\ q \in AtBoard!Query /\ q.data = c[w].data /\ q.failed = c[w].failed /\ q.fetch = c[w].fetch
      /\ q.invalid = (c[w].data # None \/ c[w].invalid)
  BY DEF AtBoard!Query
<1>2. AtBoard!Invalidated(c)[w] = IF w = s3 THEN AtBoard!Refetched(q) ELSE q
  BY DEF AtBoard!Invalidated
<1> HIDE DEF q
<1> QED
  BY <1>1, <1>2, RefetchedFields

LEMMA ObservedFields ==
  ASSUME NEW c \in [Windows -> AtBoard!Query], NEW w \in Windows, NEW aged \in BOOLEAN
  PROVE  LET r == AtBoard!Observed(c, w, aged) IN
         /\ r \in [Windows -> AtBoard!Query]
         /\ \A v \in Windows : /\ r[v].data = c[v].data /\ r[v].invalid = c[v].invalid /\ r[v].failed = c[v].failed
                               /\ r[v].fetch \in {c[v].fetch, AtBoard!Asked}
                               /\ v # w => r[v].fetch = c[v].fetch
         /\ c[w].data = None \/ c[w].invalid => r[w].fetch.step # "idle"
<1> DEFINE n == IF c[w].fetch.step = "idle" THEN [c[w] EXCEPT !.fetch = AtBoard!Asked] ELSE c[w]
<1>1. /\ n \in AtBoard!Query /\ n.data = c[w].data /\ n.invalid = c[w].invalid /\ n.failed = c[w].failed
      /\ n.fetch \in {c[w].fetch, AtBoard!Asked} /\ n.fetch.step # "idle"
  <2> DEFINE r == [c[w] EXCEPT !.fetch = AtBoard!Asked]
  <2>1. c[w] \in AtBoard!Query
    OBVIOUS
  <2>2. /\ r \in AtBoard!Query /\ r.data = c[w].data /\ r.invalid = c[w].invalid /\ r.failed = c[w].failed
        /\ r.fetch = AtBoard!Asked
    BY <2>1, SetFetch
  <2>3. n = IF c[w].fetch.step = "idle" THEN r ELSE c[w]
    OBVIOUS
  <2> HIDE DEF r, n
  <2> QED
    BY <2>1, <2>2, <2>3, FetchSteps
<1>2. AtBoard!Observed(c, w, aged) = IF c[w].data = None \/ c[w].invalid \/ aged THEN [c EXCEPT ![w] = n] ELSE c
  BY DEF AtBoard!Observed
<1> HIDE DEF n
<1> QED
  BY <1>1, <1>2

LEMMA BoardStarts == AtBoard!BoardInit => BoardInv
<1> SUFFICES ASSUME AtBoard!BoardInit PROVE BoardInv
  OBVIOUS
<1>1. PICK s \in Columns : s1 = <<[d \in Deals |-> s]>>
  BY DEF AtBoard!BoardInit
<1>2. s1 \in Seq(AtBoard!Positions) /\ s1 # << >> /\ Len(s1) = 1
  BY <1>1 DEF AtBoard!Positions
<1>3. AtBoard!Empty \in AtBoard!Query /\ [AtBoard!Empty EXCEPT !.fetch = AtBoard!Asked] \in AtBoard!Query
  BY DEF AtBoard!Empty, AtBoard!Query, AtBoard!Asked, AtBoard!NoFetch
<1>4. \A w \in Windows : /\ s2[w].data = None /\ ~s2[w].failed /\ s2[w].fetch.step # "read"
                         /\ w # s3 => s2[w].fetch.step = "idle"
  <2>1. AtBoard!Empty.data = None /\ ~AtBoard!Empty.failed /\ AtBoard!Empty.fetch = AtBoard!NoFetch
    BY DEF AtBoard!Empty
  <2>2. LET r == [AtBoard!Empty EXCEPT !.fetch = AtBoard!Asked] IN r.data = None /\ ~r.failed /\ r.fetch = AtBoard!Asked
    BY DEF AtBoard!Empty
  <2>3. \A w \in Windows : s2[w] = IF w = s3 THEN [AtBoard!Empty EXCEPT !.fetch = AtBoard!Asked] ELSE AtBoard!Empty
    BY DEF AtBoard!BoardInit
  <2> QED
    BY <2>1, <2>2, <2>3, FetchSteps
<1>5. s2 \in [Windows -> AtBoard!Query] /\ s3 \in Windows
  BY <1>3 DEF AtBoard!BoardInit
<1>6. s4 \in [Hands -> {AtBoard!Idle}] /\ AtBoard!Pending = {}
  BY DEF AtBoard!BoardInit, AtBoard!Pending, AtBoard!Idle
<1>7. s5 = 0 /\ s6 = FALSE /\ taps = 0
  BY DEF AtBoard!BoardInit
<1>8. AtBoard!TypeOK
  BY <1>2, <1>5, <1>6, <1>7 DEF AtBoard!TypeOK
<1>9. VersionsAreOfLog /\ AloneMovesShow /\ OnlyOneIsRead
  BY <1>2, <1>4, <1>5, <1>6, <1>7 DEF VersionsAreOfLog, AloneMovesShow, OnlyOneIsRead
<1>10. \A w \in Windows : ~GoodToShow(w)
  BY <1>4 DEF GoodToShow
<1> QED
  BY <1>8, <1>9, <1>10 DEF BoardInv

LEMMA MoveFields ==
  ASSUME AtBoard!TypeOK, NEW i \in Hands
  PROVE  /\ s4[i] \in {AtBoard!Idle} \cup AtBoard!Move
         /\ i \in AtBoard!Pending => s4[i] \in AtBoard!Move /\ s4[i] # AtBoard!Idle
         /\ s4[i] # AtBoard!Idle => s4[i] \in AtBoard!Move
         /\ s4[i] \in AtBoard!Move => /\ s4[i].deal \in Deals /\ s4[i].to \in Columns /\ s4[i].alone \in BOOLEAN
                                      /\ s4[i].ver \in Nat /\ s4[i].snap \in [Windows -> AtBoard!Shown \cup {None}]
<1>1. s4[i] \in {AtBoard!Idle} \cup AtBoard!Move
  BY DEF AtBoard!TypeOK
<1>2. i \in AtBoard!Pending => s4[i] # AtBoard!Idle
  BY DEF AtBoard!Pending, AtBoard!Idle
<1> QED
  BY <1>1, <1>2 DEF AtBoard!Move

\* While something is read, no move is alone.
LEMMA NoneAloneWhileReading ==
  ASSUME AloneMovesShow, NEW w \in Windows, s2[w].fetch.step # "idle"
  PROVE  \A i \in AtBoard!Pending : ~s4[i].alone
  BY DEF AloneMovesShow

\* A longer log changes nothing of what it held.
LEMMA LogGrows ==
  ASSUME AtBoard!TypeOK, NEW p \in AtBoard!Positions, s1' = Append(s1, p)
  PROVE  /\ s1' \in Seq(AtBoard!Positions) /\ s1' # << >> /\ Len(s1') = Len(s1) + 1
         /\ \A v \in 1 .. Len(s1) : s1'[v] = s1[v]
  BY DEF AtBoard!TypeOK

LEMMA LastState == AtBoard!TypeOK => s1[Len(s1)] \in AtBoard!Positions /\ Len(s1) \in Nat /\ Len(s1) >= 1
  BY DEF AtBoard!TypeOK

\* A move loses its claim to be alone.
LEMMA NoneAloneAnyMore ==
  ASSUME AtBoard!TypeOK, s4' = [j \in Hands |-> IF s4[j] = AtBoard!Idle THEN AtBoard!Idle ELSE [s4[j] EXCEPT !.alone = FALSE]]
  PROVE  /\ s4' \in [Hands -> {AtBoard!Idle} \cup AtBoard!Move] /\ AtBoard!Pending' = AtBoard!Pending
         /\ \A i \in AtBoard!Pending : s4'[i].ver = s4[i].ver /\ ~s4'[i].alone
<1>1. ASSUME NEW i \in Hands
      PROVE  /\ s4'[i] \in {AtBoard!Idle} \cup AtBoard!Move /\ s4'[i].step = s4[i].step
             /\ i \in AtBoard!Pending => s4'[i].ver = s4[i].ver /\ ~s4'[i].alone
  <2>1. CASE s4[i] = AtBoard!Idle
    BY <2>1, MoveFields
  <2>2. CASE s4[i] # AtBoard!Idle
    <3>1. s4[i] \in AtBoard!Move
      BY <2>2, MoveFields
    <3>2. s4'[i] = [s4[i] EXCEPT !.alone = FALSE]
      BY <2>2
    <3> QED
      BY <3>1, <3>2 DEF AtBoard!Move
  <2> QED
    BY <2>1, <2>2
<1> QED
  BY <1>1 DEF AtBoard!Pending

LEMMA ReadingKeepsBoard ==
  ASSUME BoardInv, NEW w \in Windows, AtBoard!ServerReads(w) \/ AtBoard!BoardArrives(w) \/ AtBoard!BoardFails(w)
  PROVE  BoardInv'
<1>1. /\ UNCHANGED <<s1, s3, s4, s5, s6, taps>> /\ AtBoard!Pending' = AtBoard!Pending
      /\ s2[w].fetch.step # "idle" /\ s2[w] \in AtBoard!Query /\ s2 \in [Windows -> AtBoard!Query]
  BY DEF AtBoard!ServerReads, AtBoard!BoardArrives, AtBoard!BoardFails, AtBoard!Pending, BoardInv,
     AtBoard!TypeOK
<1>2. AloneMovesShow'
  BY <1>1, NoneAloneWhileReading DEF BoardInv, AloneMovesShow
<1>3. Len(s1) \in Nat /\ Len(s1) >= 1 /\ s1 \in Seq(AtBoard!Positions) /\ s5 \in Nat /\ s5 <= Len(s1)
  BY LastState DEF BoardInv, AtBoard!TypeOK, VersionsAreOfLog
\* The entry that changed is of the form, and what it shows is the server's.
<1>4. /\ s2' \in [Windows -> AtBoard!Query] /\ \A v \in Windows \ {w} : s2'[v] = s2[v]
      /\ s2'[w].fetch.step = "read" => s2'[w].fetch.ver = Len(s1)
      /\ s2'[w].failed => s2'[w].invalid
      /\ s2[w].data # None => s2'[w].data # None
      /\ s2'[w].fetch.step = "idle" =>
           \/ s2'[w].failed
           \/ /\ s2[w].fetch.step = "read" /\ s2'[w].data.ver = s2[w].fetch.ver
              /\ s2'[w].data.at = s1[s2[w].fetch.ver]
  <2>1. CASE AtBoard!ServerReads(w)
    <3> DEFINE f == [step |-> "read", ver |-> Len(s1)]
    <3>1. s2' = [s2 EXCEPT ![w] = [s2[w] EXCEPT !.fetch = f]]
      BY <1>1, <2>1 DEF AtBoard!ServerReads
    <3>2. LET r == [s2[w] EXCEPT !.fetch = f] IN
            /\ r \in AtBoard!Query /\ r.data = s2[w].data /\ r.failed = s2[w].failed /\ r.invalid = s2[w].invalid
            /\ r.fetch = f
      BY <1>1, <1>3 DEF AtBoard!Query
    <3> QED
      BY <1>1, <3>1, <3>2 DEF BoardInv, VersionsAreOfLog
  <2>2. CASE AtBoard!BoardArrives(w)
    <3> DEFINE v == s2[w].fetch.ver
               d == [at |-> s1[v], ver |-> v]
               r == [data |-> d, invalid |-> FALSE, failed |-> FALSE, fetch |-> AtBoard!NoFetch]
    <3>1. s2[w].fetch.step = "read" /\ v \in 1 .. Len(s1)
      BY <2>2 DEF AtBoard!BoardArrives, BoardInv, VersionsAreOfLog
    <3>2. s1[v] \in AtBoard!Positions /\ v \in Nat
      BY <1>3, <3>1
    <3>3. d \in AtBoard!Shown /\ d.ver = v /\ d.at = s1[v]
      BY <3>2 DEF AtBoard!Shown
    <3>4. s2' = [s2 EXCEPT ![w] = r]
      BY <1>1, <2>2 DEF AtBoard!BoardArrives
    <3> HIDE DEF d
    <3>5. r \in AtBoard!Query /\ r.data = d /\ ~r.failed /\ r.fetch.step = "idle"
      BY <3>3, FetchSteps DEF AtBoard!Query, AtBoard!NoFetch
    <3> QED
      BY <1>1, <3>1, <3>3, <3>4, <3>5, NothingIsNoData
  <2>3. CASE AtBoard!BoardFails(w)
    <3> DEFINE r == [s2[w] EXCEPT !.fetch = AtBoard!NoFetch, !.failed = TRUE, !.invalid = TRUE]
    <3>1. s2' = [s2 EXCEPT ![w] = r]
      BY <1>1, <2>3 DEF AtBoard!BoardFails
    <3>2. r \in AtBoard!Query /\ r.data = s2[w].data /\ r.failed /\ r.invalid /\ r.fetch = AtBoard!NoFetch
      BY <1>1 DEF AtBoard!Query, AtBoard!NoFetch
    <3> HIDE DEF r
    <3> QED
      BY <1>1, <3>1, <3>2, FetchSteps
  <2> QED
    BY <2>1, <2>2, <2>3
<1>5. AtBoard!TypeOK'
  BY <1>1, <1>4 DEF BoardInv, AtBoard!TypeOK
<1>6. VersionsAreOfLog'
  BY <1>1, <1>3, <1>4 DEF BoardInv, VersionsAreOfLog
<1>7. ASSUME ~s6 PROVE w = s3 /\ OnlyOneIsRead'
  BY <1>1, <1>3, <1>4, <1>7 DEF BoardInv, OnlyOneIsRead
<1>8. ASSUME ~s6, AtBoard!Pending = {}, NEW v \in Windows, GoodToShow(v)' PROVE IsOfServer(v)'
  <2>1. CASE v = w
    BY <1>1, <1>3, <1>4, <1>7, <1>8, <2>1
    DEF BoardInv, OnlyOneIsRead, VersionsAreOfLog, GoodToShow, IsOfServer
  <2>2. CASE v # w
    <3>1. GoodToShow(v)
      BY <1>1, <1>4, <1>8, <2>2 DEF GoodToShow
    <3> QED
      BY <1>1, <1>4, <1>8, <2>2, <3>1 DEF BoardInv, IsOfServer
  <2> QED
    BY <2>1, <2>2
<1> QED
  BY <1>1, <1>2, <1>5, <1>6, <1>7, <1>8 DEF BoardInv

LEMMA DroppingKeepsBoard ==
  ASSUME BoardInv, NEW d \in Deals, NEW s \in Columns, AtBoard!DropOnStage(d, s)
  PROVE  BoardInv'
<1> DEFINE quiet == AtBoard!Cancelled(s2)
<1>0. s2 \in [Windows -> AtBoard!Query] /\ s4 \in [Hands -> {AtBoard!Idle} \cup AtBoard!Move] /\ s3 \in Windows
  BY DEF BoardInv, AtBoard!TypeOK
<1>1. PICK i \in Hands :
        /\ s4[i] = AtBoard!Idle
        /\ s4' = [s4 EXCEPT ![i] =
             [step |-> "sent", deal |-> d, to |-> s, alone |-> TRUE, ver |-> 0, snap |-> [w \in Windows |-> quiet[w].data]]]
        /\ s2' = [w \in Windows |-> AtBoard!Optimistic(quiet[w], d, s)]
        /\ UNCHANGED <<s1, s3, s5, s6>> /\ taps' = taps + 1
  BY DEF AtBoard!DropOnStage, AtBoard!MoveStage
<1> DEFINE m == [step |-> "sent", deal |-> d, to |-> s, alone |-> TRUE, ver |-> 0, snap |-> [w \in Windows |-> quiet[w].data]]
<1>2. /\ quiet \in [Windows -> AtBoard!Query]
      /\ \A w \in Windows : /\ quiet[w].data = s2[w].data /\ quiet[w].invalid = s2[w].invalid
                            /\ quiet[w].failed = s2[w].failed /\ quiet[w].fetch = AtBoard!NoFetch
  BY <1>0, CancelledFields
<1> HIDE DEF quiet
<1>3. \A w \in Windows : quiet[w].data \in AtBoard!Shown \cup {None}
  BY <1>2, QueryFields
<1>4. m \in AtBoard!Move /\ m.step = "sent" /\ m.deal = d /\ m.to = s /\ m.ver = 0 /\ \A w \in Windows : m.snap[w] = s2[w].data
  BY <1>2, <1>3 DEF AtBoard!Move
<1> HIDE DEF m
<1>5. \A j \in Hands : s4'[j] = IF j = i THEN m ELSE s4[j]
  BY <1>0, <1>1 DEF m
<1>6. AtBoard!Pending' = AtBoard!Pending \cup {i} /\ i \notin AtBoard!Pending
  <2>1. s4[i].step = "idle"
    BY <1>1 DEF AtBoard!Idle
  <2>2. i \notin AtBoard!Pending /\ i \in AtBoard!Pending'
    BY <1>4, <1>5, <2>1 DEF AtBoard!Pending
  <2> QED
    BY <1>5, <2>2 DEF AtBoard!Pending
<1>7. \A w \in Windows :
        /\ s2'[w] \in AtBoard!Query /\ s2'[w].invalid = s2[w].invalid /\ s2'[w].failed = s2[w].failed
        /\ s2'[w].fetch = AtBoard!NoFetch
        /\ (s2[w].data = None => s2'[w].data = None)
        /\ s2[w].data # None => /\ s2'[w].data # None /\ s2'[w].data.at[d] = s
                                /\ \A e \in Deals \ {d} : s2'[w].data.at[e] = s2[w].data.at[e]
  <2> SUFFICES ASSUME NEW w \in Windows
               PROVE  /\ s2'[w] \in AtBoard!Query /\ s2'[w].invalid = s2[w].invalid /\ s2'[w].failed = s2[w].failed
                      /\ s2'[w].fetch = AtBoard!NoFetch
                      /\ (s2[w].data = None => s2'[w].data = None)
                      /\ s2[w].data # None => /\ s2'[w].data # None /\ s2'[w].data.at[d] = s
                                              /\ \A e \in Deals \ {d} : s2'[w].data.at[e] = s2[w].data.at[e]
    OBVIOUS
  <2>1. quiet[w] \in AtBoard!Query /\ s2'[w] = AtBoard!Optimistic(quiet[w], d, s)
    BY <1>1, <1>2
  <2> QED
    BY <1>2, <2>1, OptimisticFields, NothingIsNoData
<1>8. AtBoard!TypeOK'
  <2>1. s4' \in [Hands -> {AtBoard!Idle} \cup AtBoard!Move]
    BY <1>0, <1>1, <1>4 DEF m
  <2>2. s2' \in [Windows -> AtBoard!Query]
    BY <1>1, <1>7
  <2> QED
    BY <1>1, <2>1, <2>2 DEF BoardInv, AtBoard!TypeOK
<1>9. VersionsAreOfLog'
  <2>1. Len(s1) \in Nat /\ \A j \in AtBoard!Pending' : s4'[j].ver <= Len(s1)
    BY <1>4, <1>5, <1>6, LastState DEF BoardInv, VersionsAreOfLog, AtBoard!Pending
  <2>2. \A w \in Windows : s2'[w].fetch.step # "read" /\ (s2'[w].failed => s2'[w].invalid)
    BY <1>7, FetchSteps DEF BoardInv, VersionsAreOfLog
  <2> QED
    BY <1>1, <2>1, <2>2 DEF BoardInv, VersionsAreOfLog
<1>10. AloneMovesShow'
  <2> SUFFICES ASSUME NEW k \in AtBoard!Pending', s4'[k].alone
               PROVE  /\ \A w \in Windows : /\ s2'[w].fetch.step = "idle"
                                            /\ s4'[k].snap[w] # None => s2'[w].data # None
                      /\ (\A j \in AtBoard!Pending' \ {k} : s4'[j].deal # s4'[k].deal)
                           => \A w \in Windows : s4'[k].snap[w] # None => s2'[w].data.at[s4'[k].deal] = s4'[k].to
    BY DEF AloneMovesShow
  <2>1. CASE k = i
    BY <1>4, <1>5, <1>7, <2>1, FetchSteps
  <2>2. CASE k # i
    <3>1. k \in AtBoard!Pending /\ s4'[k] = s4[k] /\ k \in Hands
      BY <1>5, <1>6, <2>2 DEF AtBoard!Pending
    <3>2. \A w \in Windows : s2'[w].fetch.step = "idle" /\ (s4[k].snap[w] # None => s2[w].data # None)
      BY <1>7, <3>1, FetchSteps DEF BoardInv, AloneMovesShow
    <3>3. ASSUME \A j \in AtBoard!Pending' \ {k} : s4'[j].deal # s4[k].deal,
                 NEW w \in Windows, s4[k].snap[w] # None
          PROVE  s2'[w].data.at[s4[k].deal] = s4[k].to
      <4>1. \A j \in AtBoard!Pending \ {k} : s4[j].deal # s4[k].deal
        <5> SUFFICES ASSUME NEW j \in AtBoard!Pending \ {k} PROVE s4[j].deal # s4[k].deal
          OBVIOUS
        <5>1. j \in AtBoard!Pending' /\ j \in Hands /\ j # i
          BY <1>6 DEF AtBoard!Pending
        <5> QED
          BY <1>5, <3>3, <5>1
      <4>2. s4[k].deal # d
        BY <1>4, <1>5, <1>6, <2>2, <3>3
      <4>3. s4[k].deal \in Deals
        BY <3>1, MoveFields DEF BoardInv
      <4> QED
        BY <1>7, <3>1, <3>2, <3>3, <4>1, <4>2, <4>3 DEF BoardInv, AloneMovesShow
    <3> QED
      BY <1>7, <3>1, <3>2, <3>3
  <2> QED
    BY <2>1, <2>2
<1>11. OnlyOneIsRead'
  <2>1. s2[s3].data # None
    BY DEF AtBoard!DropOnStage, AtBoard!OnScreen
  <2> QED
    BY <1>0, <1>1, <1>7, <2>1, FetchSteps DEF OnlyOneIsRead
<1> QED
  BY <1>6, <1>8, <1>9, <1>10, <1>11 DEF BoardInv

LEMMA AnsweringKeepsBoard ==
  ASSUME BoardInv, NEW i \in Hands, AtBoard!ServerMoves(i) \/ AtBoard!ServerRefuses(i)
  PROVE  BoardInv'
<1>0. /\ s2 \in [Windows -> AtBoard!Query] /\ s4 \in [Hands -> {AtBoard!Idle} \cup AtBoard!Move] /\ s3 \in Windows
      /\ s1 \in Seq(AtBoard!Positions) /\ s1 # << >> /\ Len(s1) \in Nat /\ s5 \in Nat
  BY LastState DEF BoardInv, AtBoard!TypeOK
<1>1. s4[i] \in AtBoard!Move /\ s4[i].step \in {"sent", "orphan"} /\ UNCHANGED <<s2, s3, s5, s6, taps>>
  BY MoveFields DEF AtBoard!ServerMoves, AtBoard!ServerRefuses, BoardInv, AtBoard!Idle
<1>2. /\ s1' \in Seq(AtBoard!Positions) /\ s1' # << >> /\ Len(s1') \in Nat /\ Len(s1') >= Len(s1)
      /\ \A v \in 1 .. Len(s1) : s1'[v] = s1[v]
  <2>1. CASE AtBoard!ServerMoves(i)
    <3> DEFINE p == [s1[Len(s1)] EXCEPT ![s4[i].deal] = s4[i].to]
    <3>1. s4[i].deal \in Deals /\ s4[i].to \in Columns /\ s1[Len(s1)] \in AtBoard!Positions
      BY <1>1, LastState, MoveFields DEF BoardInv
    <3>2. p \in AtBoard!Positions /\ s1' = Append(s1, p)
      BY <2>1, <3>1 DEF AtBoard!ServerMoves, AtBoard!Positions
    <3> HIDE DEF p
    <3> QED
      BY <1>0, <3>2, LogGrows DEF BoardInv
  <2>2. CASE AtBoard!ServerRefuses(i)
    BY <1>0, <2>2 DEF AtBoard!ServerRefuses
  <2> QED
    BY <2>1, <2>2
<1>3. \E n \in {AtBoard!Idle} \cup AtBoard!Move :
        /\ s4' = [s4 EXCEPT ![i] = n]
        /\ \/ s4[i].step = "orphan" /\ n = AtBoard!Idle
           \/ /\ s4[i].step = "sent" /\ n \in AtBoard!Move /\ n.step \in {"done", "refused"} /\ n.ver <= Len(s1')
              /\ n.deal = s4[i].deal /\ n.to = s4[i].to /\ n.snap = s4[i].snap /\ n.alone = s4[i].alone
  <2>1. CASE s4[i].step = "orphan"
    BY <1>1, <2>1 DEF AtBoard!ServerMoves, AtBoard!ServerRefuses
  <2>2. CASE s4[i].step = "sent" /\ AtBoard!ServerMoves(i)
    <3>1. PICK answer \in {"done", "refused"} : s4' = [s4 EXCEPT ![i].step = answer, ![i].ver = Len(s1) + 1]
      BY <2>2 DEF AtBoard!ServerMoves
    <3> DEFINE a == [s4[i] EXCEPT !.step = answer]
               n == [a EXCEPT !.ver = Len(s1) + 1]
    <3>2. s4' = [s4 EXCEPT ![i] = n]
      BY <1>0, <3>1
    <3>3. /\ n \in AtBoard!Move /\ n.step = answer /\ n.ver = Len(s1) + 1
          /\ n.deal = s4[i].deal /\ n.to = s4[i].to /\ n.snap = s4[i].snap /\ n.alone = s4[i].alone
      <4>1. /\ a \in AtBoard!Move /\ a.step = answer
            /\ a.deal = s4[i].deal /\ a.to = s4[i].to /\ a.snap = s4[i].snap /\ a.alone = s4[i].alone
        BY <1>1 DEF AtBoard!Move
      <4>2. Len(s1) + 1 \in Nat
        BY <1>0
      <4> HIDE DEF a
      <4>3. /\ n \in AtBoard!Move /\ n.step = a.step /\ n.ver = Len(s1) + 1
            /\ n.deal = a.deal /\ n.to = a.to /\ n.snap = a.snap /\ n.alone = a.alone
        BY <4>1, <4>2 DEF AtBoard!Move
      <4> HIDE DEF n
      <4> QED
        BY <4>1, <4>3
    <3>4. Len(s1') = Len(s1) + 1
      BY <1>0, <2>2 DEF AtBoard!ServerMoves
    <3> HIDE DEF n
    <3>5. n \in {AtBoard!Idle} \cup AtBoard!Move /\ n.ver <= Len(s1') /\ n.step \in {"done", "refused"}
      BY <1>0, <3>3, <3>4
    <3> QED
      BY <2>2, <3>2, <3>3, <3>5
  <2>3. CASE s4[i].step = "sent" /\ AtBoard!ServerRefuses(i)
    <3> DEFINE n == [s4[i] EXCEPT !.step = "refused"]
    <3>1. s4' = [s4 EXCEPT ![i] = n] /\ s1' = s1
      BY <1>0, <2>3 DEF AtBoard!ServerRefuses
    <3>2. /\ n \in AtBoard!Move /\ n.step = "refused" /\ n.ver = s4[i].ver
          /\ n.deal = s4[i].deal /\ n.to = s4[i].to /\ n.snap = s4[i].snap /\ n.alone = s4[i].alone
      BY <1>0, <1>1 DEF AtBoard!Move
    <3>3. s4[i].ver <= Len(s1)
      BY <2>3 DEF BoardInv, VersionsAreOfLog, AtBoard!Pending
    <3> HIDE DEF n
    <3> QED
      BY <1>0, <2>3, <3>1, <3>2, <3>3
  <2> QED
    BY <1>1, <2>1, <2>2, <2>3
<1>4. PICK n \in {AtBoard!Idle} \cup AtBoard!Move :
        /\ s4' = [s4 EXCEPT ![i] = n]
        /\ \/ s4[i].step = "orphan" /\ n = AtBoard!Idle
           \/ /\ s4[i].step = "sent" /\ n \in AtBoard!Move /\ n.step \in {"done", "refused"} /\ n.ver <= Len(s1')
              /\ n.deal = s4[i].deal /\ n.to = s4[i].to /\ n.snap = s4[i].snap /\ n.alone = s4[i].alone
  BY <1>3
<1>5. s4' \in [Hands -> {AtBoard!Idle} \cup AtBoard!Move] /\ \A j \in Hands : s4'[j] = IF j = i THEN n ELSE s4[j]
  BY <1>0, <1>4
<1>6. AtBoard!Pending' = AtBoard!Pending
  <2>1. i \in AtBoard!Pending' <=> i \in AtBoard!Pending
    BY <1>1, <1>4, <1>5 DEF AtBoard!Pending, AtBoard!Idle
  <2> QED
    BY <1>5, <2>1 DEF AtBoard!Pending
<1>7. \A j \in AtBoard!Pending : /\ s4'[j].deal = s4[j].deal /\ s4'[j].to = s4[j].to
                                 /\ s4'[j].snap = s4[j].snap /\ s4'[j].alone = s4[j].alone
                                 /\ s4'[j].ver <= Len(s1')
  <2> SUFFICES ASSUME NEW j \in AtBoard!Pending
               PROVE  /\ s4'[j].deal = s4[j].deal /\ s4'[j].to = s4[j].to
                      /\ s4'[j].snap = s4[j].snap /\ s4'[j].alone = s4[j].alone
                      /\ s4'[j].ver <= Len(s1')
    OBVIOUS
  <2>1. j \in Hands /\ s4[j] \in AtBoard!Move /\ s4[j].ver \in Nat /\ s4[j].ver <= Len(s1)
    BY MoveFields DEF AtBoard!Pending, BoardInv, VersionsAreOfLog
  <2>2. CASE j = i
    BY <1>4, <1>5, <2>1, <2>2 DEF AtBoard!Pending
  <2>3. CASE j # i
    BY <1>0, <1>2, <1>5, <2>1, <2>3
  <2> QED
    BY <2>2, <2>3
<1>8. AtBoard!TypeOK'
  BY <1>1, <1>2, <1>5 DEF BoardInv, AtBoard!TypeOK
<1>9. VersionsAreOfLog'
  <2>1. \A v \in 1 .. Len(s1) : v \in 1 .. Len(s1')
    BY <1>0, <1>2
  <2>2. s5 <= Len(s1')
    BY <1>0, <1>2 DEF BoardInv, VersionsAreOfLog
  <2> QED
    BY <1>1, <1>6, <1>7, <2>1, <2>2 DEF BoardInv, VersionsAreOfLog
<1>10. AloneMovesShow'
  BY <1>1, <1>6, <1>7 DEF BoardInv, AloneMovesShow
<1>11. OnlyOneIsRead => OnlyOneIsRead'
  BY <1>1, <1>6 DEF OnlyOneIsRead
<1>12. ASSUME NEW w \in Windows, GoodToShow(w)', ~s6, AtBoard!Pending = {} PROVE IsOfServer(w)'
  <2>1. GoodToShow(w)
    BY <1>1, <1>12 DEF GoodToShow
  <2>2. IsOfServer(w)
    BY <1>12, <2>1 DEF BoardInv
  <2> QED
    BY <1>0, <1>1, <1>2, <2>2 DEF IsOfServer
<1> QED
  BY <1>1, <1>6, <1>8, <1>9, <1>10, <1>11, <1>12 DEF BoardInv

LEMMA RolledBackFields ==
  ASSUME NEW c \in [Windows -> AtBoard!Query], NEW snap \in [Windows -> AtBoard!Shown \cup {None}]
  PROVE  /\ AtBoard!RolledBack(c, snap) \in [Windows -> AtBoard!Query]
         /\ \A w \in Windows : LET r == AtBoard!RolledBack(c, snap)[w] IN
              /\ r.fetch = c[w].fetch /\ r.failed = c[w].failed /\ r.invalid = c[w].invalid
              /\ c[w].data # None => r.data # None
<1>1. ASSUME NEW w \in Windows
      PROVE  LET r == AtBoard!RolledBack(c, snap)[w] IN
             /\ r \in AtBoard!Query /\ r.fetch = c[w].fetch /\ r.failed = c[w].failed /\ r.invalid = c[w].invalid
             /\ c[w].data # None => r.data # None
  <2> DEFINE n == [c[w] EXCEPT !.data = snap[w]]
  <2>1. AtBoard!RolledBack(c, snap)[w] = IF snap[w] = None THEN c[w] ELSE n
    BY DEF AtBoard!RolledBack
  <2>2. n \in AtBoard!Query /\ n.fetch = c[w].fetch /\ n.failed = c[w].failed /\ n.invalid = c[w].invalid /\ n.data = snap[w]
    BY DEF AtBoard!Query
  <2> HIDE DEF n
  <2> QED
    BY <2>1, <2>2
<1>2. AtBoard!RolledBack(c, snap) = [w \in Windows |-> AtBoard!RolledBack(c, snap)[w]]
  BY DEF AtBoard!RolledBack
<1> QED
  BY <1>1, <1>2

LEMMA SettlingKeepsBoard ==
  ASSUME BoardInv, NEW i \in Hands, AtBoard!Settle(i)
  PROVE  BoardInv'
<1> DEFINE c == IF s4[i].step = "done" THEN s2 ELSE AtBoard!RolledBack(s2, s4[i].snap)
<1>0. /\ s2 \in [Windows -> AtBoard!Query] /\ s4 \in [Hands -> {AtBoard!Idle} \cup AtBoard!Move] /\ s3 \in Windows
      /\ Len(s1) \in Nat /\ s5 \in Nat /\ s5 <= Len(s1)
  BY LastState DEF BoardInv, AtBoard!TypeOK, VersionsAreOfLog
<1>1. i \in AtBoard!Pending /\ s4[i] \in AtBoard!Move /\ s4[i].snap \in [Windows -> AtBoard!Shown \cup {None}]
      /\ s4[i].ver \in Nat /\ s4[i].ver <= Len(s1)
  BY MoveFields DEF AtBoard!Settle, AtBoard!Pending, BoardInv, VersionsAreOfLog
<1>2. /\ c \in [Windows -> AtBoard!Query]
      /\ \A w \in Windows : /\ c[w].fetch = s2[w].fetch /\ c[w].failed = s2[w].failed
                            /\ c[w].invalid = s2[w].invalid /\ (s2[w].data # None => c[w].data # None)
  BY <1>0, <1>1, RolledBackFields
<1>3. s2' = AtBoard!Invalidated(c) /\ UNCHANGED <<s1, s3, s6, taps>>
  BY DEF AtBoard!Settle, AtBoard!Settled
<1> HIDE DEF c
<1>4. /\ s2' \in [Windows -> AtBoard!Query]
      /\ \A w \in Windows : /\ s2'[w].failed = s2[w].failed
                            /\ s2'[w].data # None \/ s2[w].invalid => s2'[w].invalid
                            /\ s2[w].data # None => s2'[w].data # None
                            /\ w # s3 => s2'[w].fetch = s2[w].fetch
                            /\ w = s3 => /\ s2'[w].fetch.step # "idle"
                                         /\ s2'[w].fetch \in {s2[w].fetch, AtBoard!Asked}
                                         /\ s2[w].data # None => s2'[w].fetch = AtBoard!Asked
  <2>1. c \in [Windows -> AtBoard!Query] /\ s2' = AtBoard!Invalidated(c)
    BY <1>2, <1>3
  <2>2. /\ s2' \in [Windows -> AtBoard!Query]
        /\ \A w \in Windows : /\ s2'[w].data = c[w].data /\ s2'[w].failed = c[w].failed
                              /\ s2'[w].invalid = (c[w].data # None \/ c[w].invalid)
                              /\ w # s3 => s2'[w].fetch = c[w].fetch
                              /\ w = s3 => /\ s2'[w].fetch.step # "idle"
                                           /\ s2'[w].fetch \in {c[w].fetch, AtBoard!Asked}
                                           /\ c[w].data # None => s2'[w].fetch = AtBoard!Asked
    BY <2>1, InvalidatedFields
  <2> QED
    BY <1>2, <2>2
<1>5. s5' \in Nat /\ s5' <= Len(s1)
  BY <1>0, <1>1 DEF AtBoard!Settle
<1>6. ASSUME NEW j \in Hands
      PROVE  /\ s4'[j] \in {AtBoard!Idle} \cup AtBoard!Move /\ (j \in AtBoard!Pending' <=> j \in AtBoard!Pending \ {i})
             /\ j \in AtBoard!Pending' => s4'[j].ver = s4[j].ver /\ ~s4'[j].alone
  <2>1. s4'[j] = IF j = i THEN AtBoard!Idle ELSE IF s4[j] = AtBoard!Idle THEN AtBoard!Idle ELSE [s4[j] EXCEPT !.alone = FALSE]
    BY DEF AtBoard!Settle
  <2>2. AtBoard!Idle.step = "idle"
    BY DEF AtBoard!Idle
  <2>3. CASE j = i \/ s4[j] = AtBoard!Idle
    BY <2>1, <2>2, <2>3 DEF AtBoard!Pending
  <2>4. CASE j # i /\ s4[j] # AtBoard!Idle
    <3>1. s4[j] \in AtBoard!Move
      BY <2>4, MoveFields DEF BoardInv
    <3>2. s4'[j] \in AtBoard!Move /\ s4'[j].step = s4[j].step /\ s4'[j].ver = s4[j].ver /\ ~s4'[j].alone
      BY <2>1, <2>4, <3>1 DEF AtBoard!Move
    <3> QED
      BY <2>4, <3>2 DEF AtBoard!Pending
  <2> QED
    BY <2>3, <2>4
<1>7. AtBoard!Pending' = AtBoard!Pending \ {i} /\ s4' \in [Hands -> {AtBoard!Idle} \cup AtBoard!Move]
  <2>1. s4' = [j \in Hands |-> s4'[j]]
    BY DEF AtBoard!Settle
  <2>2. AtBoard!Pending' \subseteq Hands /\ AtBoard!Pending \subseteq Hands
    BY DEF AtBoard!Pending
  <2> QED
    BY <1>6, <2>1, <2>2
<1>8. AtBoard!TypeOK'
  BY <1>3, <1>4, <1>5, <1>7 DEF BoardInv, AtBoard!TypeOK
<1>9. VersionsAreOfLog'
  <2>1. \A j \in AtBoard!Pending' : s4'[j].ver <= Len(s1)
    BY <1>6, <1>7 DEF BoardInv, VersionsAreOfLog, AtBoard!Pending
  <2>2. \A w \in Windows : s2'[w].fetch.step = "read" => s2'[w].fetch.ver \in 1 .. Len(s1)
    BY <1>4, FetchSteps DEF BoardInv, VersionsAreOfLog
  <2>3. \A w \in Windows : s2'[w].failed => s2'[w].invalid
    BY <1>4 DEF BoardInv, VersionsAreOfLog
  <2> QED
    BY <1>3, <1>5, <2>1, <2>2, <2>3 DEF VersionsAreOfLog
<1>10. AloneMovesShow'
  BY <1>6, <1>7 DEF AloneMovesShow, AtBoard!Pending
<1>11. ASSUME ~s6 PROVE OnlyOneIsRead'
  <2>1. s2[s3].data # None
    BY <1>1, <1>11 DEF BoardInv, OnlyOneIsRead
  <2> QED
    BY <1>0, <1>3, <1>4, <1>11, <2>1, FetchSteps DEF BoardInv, OnlyOneIsRead
<1>12. \A w \in Windows : ~GoodToShow(w)'
  BY <1>3, <1>4 DEF GoodToShow
<1> QED
  BY <1>3, <1>8, <1>9, <1>10, <1>11, <1>12 DEF BoardInv

\* Another variant, or another look at this one, starts no read of a variant that is not shown.
LEMMA LookingKeepsBoard ==
  ASSUME BoardInv, NEW v \in Windows, NEW aged \in BOOLEAN,
         s3' = v, s2' = AtBoard!Observed(s2, v, aged), s6' = (s6 \/ AtBoard!Busy),
         s4' = [j \in Hands |-> IF s4[j] = AtBoard!Idle THEN AtBoard!Idle ELSE [s4[j] EXCEPT !.alone = FALSE]],
         UNCHANGED <<s1, s5>>, taps' = taps + 1
  PROVE  BoardInv'
<1>0. s2 \in [Windows -> AtBoard!Query] /\ s4 \in [Hands -> {AtBoard!Idle} \cup AtBoard!Move] /\ s3 \in Windows
  BY DEF BoardInv, AtBoard!TypeOK
<1>1. /\ s4' \in [Hands -> {AtBoard!Idle} \cup AtBoard!Move] /\ AtBoard!Pending' = AtBoard!Pending
      /\ \A i \in AtBoard!Pending : s4'[i].ver = s4[i].ver /\ ~s4'[i].alone
  BY NoneAloneAnyMore DEF BoardInv
<1>2. /\ s2' \in [Windows -> AtBoard!Query]
      /\ \A w \in Windows : /\ s2'[w].data = s2[w].data /\ s2'[w].invalid = s2[w].invalid
                            /\ s2'[w].failed = s2[w].failed
                            /\ s2'[w].fetch \in {s2[w].fetch, AtBoard!Asked}
                            /\ w # v => s2'[w].fetch = s2[w].fetch
      /\ s2[v].data = None \/ s2[v].invalid => s2'[v].fetch.step # "idle"
  BY <1>0, ObservedFields
<1>3. AtBoard!TypeOK'
  BY <1>1, <1>2 DEF BoardInv, AtBoard!TypeOK, AtBoard!Busy
<1>4. VersionsAreOfLog'
  <2>1. \A w \in Windows : s2'[w].fetch.step = "read" => s2'[w].fetch = s2[w].fetch
    BY <1>2, FetchSteps
  <2> QED
    BY <1>1, <1>2, <2>1 DEF BoardInv, VersionsAreOfLog
<1>5. AloneMovesShow'
  BY <1>1 DEF AloneMovesShow
<1>6. ASSUME ~s6' PROVE ~s6 /\ AtBoard!Pending = {} /\ \A w \in Windows : s2[w].fetch.step = "idle"
  BY <1>6 DEF AtBoard!Busy
<1>7. ASSUME ~s6' PROVE OnlyOneIsRead'
  BY <1>1, <1>2, <1>6, <1>7, FetchSteps DEF OnlyOneIsRead
<1>8. ASSUME ~s6', NEW w \in Windows, GoodToShow(w)' PROVE IsOfServer(w)'
  <2>1. ~s2[w].invalid
    BY <1>2, <1>8 DEF GoodToShow
  <2>2. GoodToShow(w)
    BY <1>2, <1>6, <1>8, <2>1 DEF GoodToShow, BoardInv, VersionsAreOfLog
  <2> QED
    BY <1>2, <1>6, <1>8, <2>2 DEF BoardInv, IsOfServer
<1> QED
  BY <1>3, <1>4, <1>5, <1>7, <1>8 DEF BoardInv

LEMMA ReloadingKeepsBoard ==
  ASSUME BoardInv, AtBoard!Reload
  PROVE  BoardInv'
<1>0. s4 \in [Hands -> {AtBoard!Idle} \cup AtBoard!Move] /\ s3 \in Windows /\ s3' \in Windows
  BY DealsAssumption DEF BoardInv, AtBoard!TypeOK, AtBoard!Reload, AtBoard!BoardAssumption
<1>1. \A w \in Windows : /\ s2'[w] \in AtBoard!Query /\ s2'[w].data = None /\ ~s2'[w].failed
                         /\ s2'[w].fetch.step # "read" /\ (w # s3' => s2'[w].fetch.step = "idle")
  <2>1. AtBoard!Empty \in AtBoard!Query /\ AtBoard!Empty.data = None /\ ~AtBoard!Empty.failed /\ AtBoard!Empty.fetch = AtBoard!NoFetch
    BY DEF AtBoard!Empty, AtBoard!Query, AtBoard!NoFetch
  <2>2. LET r == [AtBoard!Empty EXCEPT !.fetch = AtBoard!Asked] IN r \in AtBoard!Query /\ r.data = None /\ ~r.failed /\ r.fetch = AtBoard!Asked
    BY DEF AtBoard!Empty, AtBoard!Query, AtBoard!Asked
  <2>3. \A w \in Windows : s2'[w] = IF w = s3' THEN [AtBoard!Empty EXCEPT !.fetch = AtBoard!Asked] ELSE AtBoard!Empty
    BY DEF AtBoard!Reload
  <2> QED
    BY <2>1, <2>2, <2>3, FetchSteps
<1>2. ASSUME NEW i \in Hands PROVE s4'[i] \in {AtBoard!Idle} \cup AtBoard!Move /\ i \notin AtBoard!Pending'
  <2>1. s4[i] \in {AtBoard!Idle} \cup AtBoard!Move /\ (s4[i].step \in {"sent", "orphan"} => s4[i] \in AtBoard!Move)
    BY <1>0 DEF AtBoard!Idle
  <2>2. s4'[i] = IF s4[i].step = "sent" THEN [s4[i] EXCEPT !.step = "orphan"]
                    ELSE IF s4[i].step = "orphan" THEN s4[i] ELSE AtBoard!Idle
    BY DEF AtBoard!Reload
  <2>3. s4'[i] \in {AtBoard!Idle} \cup AtBoard!Move /\ s4'[i].step \in {"idle", "orphan"}
    <3>1. CASE s4[i].step = "sent"
      BY <2>1, <2>2, <3>1 DEF AtBoard!Move
    <3>2. CASE s4[i].step # "sent"
      BY <2>1, <2>2, <3>2 DEF AtBoard!Idle
    <3> QED
      BY <3>1, <3>2
  <2> QED
    BY <2>3 DEF AtBoard!Pending
<1>3. AtBoard!Pending' = {} /\ s4' \in [Hands -> {AtBoard!Idle} \cup AtBoard!Move]
  BY <1>2 DEF AtBoard!Reload, AtBoard!Pending
<1>4. AtBoard!TypeOK' /\ s5' = 0
  <2>1. s2' \in [Windows -> AtBoard!Query]
    BY <1>1 DEF AtBoard!Reload
  <2>2. s5' = 0 /\ taps' \in Nat
    BY DEF AtBoard!Reload, BoardInv, AtBoard!TypeOK
  <2>3. s1' \in Seq(AtBoard!Positions) /\ s1' # << >>
    BY DEF AtBoard!Reload, BoardInv, AtBoard!TypeOK
  <2>4. s6' \in BOOLEAN
    BY DEF AtBoard!Reload
  <2> QED
    BY <1>0, <1>3, <2>1, <2>2, <2>3, <2>4 DEF AtBoard!TypeOK
<1>5. VersionsAreOfLog' /\ AloneMovesShow' /\ OnlyOneIsRead'
  <2>1. VersionsAreOfLog'
    <3>1. 0 <= Len(s1') /\ Len(s1') \in Nat
      BY LastState DEF BoardInv, AtBoard!Reload
    <3> QED
      BY <1>1, <1>3, <1>4, <3>1 DEF VersionsAreOfLog
  <2>2. AloneMovesShow'
    BY <1>3 DEF AloneMovesShow
  <2>3. OnlyOneIsRead'
    BY <1>0, <1>1, <1>3 DEF OnlyOneIsRead
  <2> QED
    BY <2>1, <2>2, <2>3
<1>6. \A w \in Windows : ~GoodToShow(w)'
  BY <1>1 DEF GoodToShow
<1> QED
  BY <1>4, <1>5, <1>6 DEF BoardInv

LEMMA BoardStays == BoardInv /\ [AtBoard!BoardNext]_AtBoard!boardVars => BoardInv'
<1> SUFFICES ASSUME BoardInv, [AtBoard!BoardNext]_AtBoard!boardVars PROVE BoardInv'
  OBVIOUS
<1>1. ASSUME NEW w \in Windows, AtBoard!ChooseWindow(w) PROVE BoardInv'
  <2>1. PICK aged \in BOOLEAN : s2' = AtBoard!Observed(s2, w, aged)
    BY <1>1 DEF AtBoard!ChooseWindow
  <2> QED
    BY <1>1, <2>1, LookingKeepsBoard DEF AtBoard!ChooseWindow
<1>2. CASE AtBoard!Revisit
  <2>1. PICK aged \in BOOLEAN : s2' = AtBoard!Observed(s2, s3, aged)
    BY <1>2 DEF AtBoard!Revisit
  <2> QED
    BY <1>2, <2>1, LookingKeepsBoard DEF AtBoard!Revisit, BoardInv, AtBoard!TypeOK
<1>3. CASE UNCHANGED AtBoard!boardVars
  BY <1>3 DEF AtBoard!boardVars, BoardInv, AtBoard!TypeOK, VersionsAreOfLog, AloneMovesShow, OnlyOneIsRead,
     GoodToShow, IsOfServer, AtBoard!Pending
<1> QED
  BY <1>1, <1>2, <1>3, ReadingKeepsBoard, DroppingKeepsBoard, AnsweringKeepsBoard, SettlingKeepsBoard,
     ReloadingKeepsBoard
  DEF AtBoard!BoardNext

-----------------------------------------------------------------------------
(***************************************************************************)
(* A press on a card.                                                       *)
(***************************************************************************)
\* What a press has done so far, and what of its movement the handlers know.
PressSoFar ==
  IF s1 = "desktop"
  THEN /\ s11 = (IF s7 THEN <<"drag">> ELSE << >>)
       /\ s7 <=> s3 = "card" /\ s5 \in {"far", "back"}
  ELSE /\ s11 = (IF s8 THEN <<"preview">> ELSE << >>)
       /\ ~s7 /\ (s9 <=> s8) /\ s5 # "back"

\* The click that is still to come is that of a press that neither dragged nor scrolled.
ClickToCome ==
  IF s1 = "desktop"
  THEN s11 = << >> /\ (s3 = "control" \/ s5 \in {"no", "near"})
  ELSE /\ s11 = (IF s8 THEN <<"preview">> ELSE << >>)
       /\ (s9 <=> s8) /\ s5 \in {"no", "near"}

GestureInv ==
  /\ s1 \in {"desktop", "phone"} /\ s2 \in {"pointer", "key"} /\ s3 \in {"card", "control"}
  /\ s4 \in {"up", "down", "released"} /\ s5 \in {"no", "near", "far", "back"}
  /\ s6 \in BOOLEAN /\ s7 \in BOOLEAN /\ s8 \in BOOLEAN /\ s9 \in BOOLEAN
  /\ (s4 = "down" => s2 = "pointer" /\ PressSoFar)
  /\ (s4 = "down" /\ s6 => (s1 = "phone" => ~s8 /\ s5 = "no"))
  /\ (s4 = "down" /\ s1 = "desktop" => s6 = (s3 = "card"))
  /\ (s4 = "released" /\ s2 = "pointer" => ClickToCome)
  /\ AtCard!OnePressOneEffect

\* The first effect is the only one.
LEMMA FirstEffect == ASSUME NEW e, s11 = << >>, AtCard!Effect(e) PROVE s11' = <<e>>
  BY DEF AtCard!Effect

LEMMA GestureStarts == AtCard!GestureInit => GestureInv
<1> SUFFICES ASSUME AtCard!GestureInit PROVE GestureInv
  OBVIOUS
<1>1. /\ s1 \in {"desktop", "phone"} /\ s2 = "pointer" /\ s3 = "card"
      /\ s4 = "up" /\ s5 = "no"
  BY DEF AtCard!GestureInit
<1>3. s6 \in BOOLEAN /\ s7 \in BOOLEAN /\ s8 \in BOOLEAN /\ s9 \in BOOLEAN
  BY Zenon DEF AtCard!GestureInit
<1>4. taps = 0
  BY Zenon DEF AtCard!GestureInit
<1>5. ~(taps > 0)
  BY <1>4
<1>2. s4 # "down" /\ s4 # "released"
  BY <1>1
<1> QED
  BY <1>1, <1>2, <1>3, <1>5, Zenon DEF GestureInv, AtCard!OnePressOneEffect

LEMMA GestureStays == GestureInv /\ [AtCard!GestureNext]_AtCard!gestureVars => GestureInv'
<1> SUFFICES ASSUME GestureInv, [AtCard!GestureNext]_AtCard!gestureVars PROVE GestureInv'
  OBVIOUS
<1> USE DEF GestureInv
<1>1. ASSUME NEW where \in {"card", "control"}, AtCard!Down(where) PROVE GestureInv'
  BY <1>1 DEF AtCard!Down, AtCard!Starts, PressSoFar, AtCard!OnePressOneEffect
<1>2. ASSUME NEW where \in {"card", "control"}, AtCard!Key(where) PROVE GestureInv'
  BY <1>2 DEF AtCard!Key, AtCard!Starts, AtCard!OnePressOneEffect
<1>3. ASSUME NEW far \in {"near", "far"}, AtCard!Stray(far) PROVE GestureInv'
  <2>1. CASE s1 = "phone"
    BY <1>3, <2>1 DEF AtCard!Stray, PressSoFar, AtCard!OnePressOneEffect
  <2>2. CASE s1 = "desktop"
    <3>1. ~s7 /\ s11 = << >> /\ s4' = "down" /\ s5' = far /\ s6' = s6
      BY <1>3, <2>2 DEF AtCard!Stray, PressSoFar
    <3>2. /\ s7' = (s3 = "card" /\ far = "far")
          /\ s11' = IF s7' THEN <<"drag">> ELSE << >>
      BY <1>3, <2>2, <3>1, FirstEffect DEF AtCard!Stray
    <3> QED
      BY <1>3, <2>2, <3>1, <3>2 DEF AtCard!Stray, PressSoFar, AtCard!OnePressOneEffect
  <2> QED
    BY <2>1, <2>2
<1>4. CASE AtCard!Return
  BY <1>4 DEF AtCard!Return, PressSoFar, AtCard!OnePressOneEffect
<1>5. CASE AtCard!Hold
  <2>1. ~s8 /\ s11 = << >>
    BY <1>5 DEF AtCard!Hold, PressSoFar
  <2>2. s11' = <<"preview">>
    BY <1>5, <2>1, FirstEffect DEF AtCard!Hold
  <2> QED
    BY <1>5, <2>1, <2>2 DEF AtCard!Hold, PressSoFar, AtCard!OnePressOneEffect
<1>6. CASE AtCard!Up
  <2>1. CASE s1 = "phone"
    BY <1>6, <2>1 DEF AtCard!Up, PressSoFar, ClickToCome, AtCard!OnePressOneEffect, AtCard!Meant
  <2>2. CASE s1 = "desktop"
    BY <1>6, <2>2 DEF AtCard!Up, PressSoFar, ClickToCome, AtCard!OnePressOneEffect, AtCard!Meant
  <2> QED
    BY <2>1, <2>2
<1>7. CASE AtCard!Cancel
  BY <1>7 DEF AtCard!Cancel, PressSoFar, AtCard!OnePressOneEffect, AtCard!Meant
<1>8. CASE AtCard!Click
  <2>1. CASE s1 = "phone"
    <3>1. CASE s2 = "key"
      BY <1>8, <2>1, <3>1 DEF AtCard!Click, AtCard!OnePressOneEffect
    <3>2. CASE s2 = "pointer" /\ s9
      BY <1>8, <2>1, <3>2 DEF AtCard!Click, ClickToCome, AtCard!OnePressOneEffect, AtCard!Meant
    <3>3. CASE s2 = "pointer" /\ ~s9
      <4>1. s11 = << >> /\ ~s8 /\ s5 \in {"no", "near"}
        BY <1>8, <2>1, <3>3 DEF AtCard!Click, ClickToCome
      <4>2. s11' = IF s3 = "control" THEN <<"act">> ELSE <<"open">>
        BY <1>8, <3>3, <4>1, FirstEffect DEF AtCard!Click
      <4> QED
        BY <1>8, <2>1, <3>3, <4>1, <4>2 DEF AtCard!Click, AtCard!OnePressOneEffect, AtCard!Meant
    <3> QED
      BY <3>1, <3>2, <3>3
  <2>2. CASE s1 = "desktop"
    <3>1. CASE s2 = "key"
      BY <1>8, <2>2, <3>1 DEF AtCard!Click, AtCard!OnePressOneEffect
    <3>2. CASE s2 = "pointer"
      <4>1. s11 = << >> /\ (s3 = "control" \/ s5 \in {"no", "near"})
        BY <1>8, <2>2, <3>2 DEF AtCard!Click, ClickToCome
      <4>2. s11' = IF s3 = "control" THEN <<"act">> ELSE <<"open">>
        BY <1>8, <2>2, <4>1, FirstEffect DEF AtCard!Click
      <4> QED
        BY <1>8, <2>2, <3>2, <4>1, <4>2 DEF AtCard!Click, AtCard!OnePressOneEffect, AtCard!Meant
    <3> QED
      BY <3>1, <3>2
  <2> QED
    BY <2>1, <2>2
<1>9. CASE UNCHANGED AtCard!gestureVars
  BY <1>9 DEF AtCard!gestureVars, PressSoFar, ClickToCome, AtCard!OnePressOneEffect, AtCard!Meant
<1> QED
  BY <1>1, <1>2, <1>3, <1>4, <1>5, <1>6, <1>7, <1>8, <1>9 DEF AtCard!GestureNext

\* The preview, the effects of the press and the presses.
PressTyped ==
  /\ s10 \in BOOLEAN /\ s11 \in Seq({"open", "act", "drag", "preview"}) /\ taps \in Nat

LEMMA PressTypes == GestureInv /\ PressTyped => AtCard!GestureTypeOK
  BY DEF GestureInv, PressTyped, AtCard!GestureTypeOK

LEMMA PressTypesStart == AtCard!GestureInit => PressTyped
<1> SUFFICES ASSUME AtCard!GestureInit PROVE PressTyped
  OBVIOUS
<1>1. s10 = FALSE
  BY Zenon DEF AtCard!GestureInit
<1>2. s11 = << >> /\ taps = 0
  BY Zenon DEF AtCard!GestureInit
<1>3. << >> \in Seq({"open", "act", "drag", "preview"}) /\ 0 \in Nat
  BY EmptySeq
<1> QED
  BY <1>1, <1>2, <1>3, Zenon DEF PressTyped

LEMMA PressTypesStay == PressTyped /\ [AtCard!GestureNext]_AtCard!gestureVars => PressTyped'
<1> SUFFICES ASSUME PressTyped, [AtCard!GestureNext]_AtCard!gestureVars PROVE PressTyped'
  OBVIOUS
<1> DEFINE Effects == {"open", "act", "drag", "preview"}
<1>1. UNCHANGED taps \/ taps' = taps + 1
  BY DEF AtCard!GestureNext, AtCard!Down, AtCard!Key, AtCard!Starts, AtCard!Stray, AtCard!Return, AtCard!Hold, AtCard!Up,
     AtCard!Cancel, AtCard!Click, AtCard!gestureVars
<1>2. taps' \in Nat
  BY <1>1 DEF PressTyped
<1>3. UNCHANGED s10 \/ s10' = FALSE \/ s10' = TRUE
  BY DEF AtCard!GestureNext, AtCard!Down, AtCard!Key, AtCard!Starts, AtCard!Stray, AtCard!Return, AtCard!Hold, AtCard!Up,
     AtCard!Cancel, AtCard!Click, AtCard!gestureVars
<1>4. s10' \in BOOLEAN
  BY <1>3 DEF PressTyped
<1>5. UNCHANGED s11 \/ s11' = << >> \/ s11' = <<"open">> \/ \E e \in Effects : s11' = Append(s11, e)
  BY DEF AtCard!GestureNext, AtCard!Down, AtCard!Key, AtCard!Starts, AtCard!Stray, AtCard!Return, AtCard!Hold, AtCard!Up,
     AtCard!Cancel, AtCard!Click, AtCard!gestureVars, AtCard!Effect
<1>6. s11 \in Seq(Effects)
  BY DEF PressTyped
<1>7. s11' \in Seq(Effects)
  <2>1. "open" \in Effects
    OBVIOUS
  <2> HIDE DEF Effects
  <2>2. <<"open">> \in Seq(Effects) /\ << >> \in Seq(Effects)
    BY <2>1
  <2>3. \A e \in Effects : Append(s11, e) \in Seq(Effects)
    BY <1>6
  <2> QED
    BY <1>5, <1>6, <2>2, <2>3
<1> QED
  BY <1>2, <1>4, <1>7 DEF PressTyped

-----------------------------------------------------------------------------
(***************************************************************************)
(* The stages of the pipeline.                                              *)
(***************************************************************************)
\* An order of stages: each of them once.
IsOrder(o) == o \in Seq(AtStages!AllStages) /\ AtStages!IsInjective(o)

LEMMA OrderFields ==
  ASSUME NEW o, IsOrder(o)
  PROVE  /\ o \in Seq(AtStages!AllStages) /\ Len(o) \in Nat /\ DOMAIN o = 1 .. Len(o)
         /\ \A i \in 1 .. Len(o) : o[i] \in AtStages!AllStages
         /\ \A i, j \in 1 .. Len(o) : i # j => o[i] # o[j]
         /\ AtStages!Range(o) = {o[i] : i \in 1 .. Len(o)} /\ AtStages!Range(o) \subseteq AtStages!AllStages
<1>1. o \in Seq(AtStages!AllStages) /\ Len(o) \in Nat /\ DOMAIN o = 1 .. Len(o) /\ \A i \in 1 .. Len(o) : o[i] \in AtStages!AllStages
  BY DEF IsOrder
<1>2. \A i, j \in 1 .. Len(o) : i # j => o[i] # o[j]
  BY <1>1 DEF IsOrder, AtStages!IsInjective
<1>3. AtStages!Range(o) = {o[i] : i \in 1 .. Len(o)}
  BY <1>1 DEF AtStages!Range
<1> QED
  BY <1>1, <1>2, <1>3

LEMMA IsOrderByPlaces ==
  ASSUME NEW o \in Seq(AtStages!AllStages), \A i, j \in 1 .. Len(o) : i # j => o[i] # o[j]
  PROVE  IsOrder(o) /\ AtStages!Range(o) = {o[i] : i \in 1 .. Len(o)}
<1>1. DOMAIN o = 1 .. Len(o)
  OBVIOUS
<1> QED
  BY <1>1 DEF IsOrder, AtStages!IsInjective, AtStages!Range

\* Two neighbours swap their places, and nobody is lost.
LEMMA SwappedKeepsStages ==
  ASSUME NEW o, IsOrder(o), NEW k \in 1 .. Len(o) - 1
  PROVE  IsOrder(AtStages!Swapped(o, k)) /\ AtStages!Range(AtStages!Swapped(o, k)) = AtStages!Range(o)
<1> DEFINE n == Len(o)
           w == AtStages!Swapped(o, k)
           at(i) == IF i = k THEN k + 1 ELSE IF i = k + 1 THEN k ELSE i
<1>1. o \in Seq(AtStages!AllStages) /\ n \in Nat /\ DOMAIN o = 1 .. n /\ k \in 1 .. n /\ k + 1 \in 1 .. n /\ k # k + 1
  BY OrderFields
<1>2. /\ \A i \in 1 .. n : at(i) \in 1 .. n /\ at(at(i)) = i
      /\ \A i, j \in 1 .. n : i # j => at(i) # at(j)
  BY <1>1
<1>3. w = [i \in 1 .. n |-> o[at(i)]]
  BY <1>1 DEF AtStages!Swapped
<1>4. \A i \in 1 .. n : o[i] \in AtStages!AllStages
  BY OrderFields
<1>5. \A i, j \in 1 .. n : i # j => o[i] # o[j]
  BY OrderFields
<1> HIDE DEF at, n, w
<1>6. w \in Seq(AtStages!AllStages) /\ Len(w) = n
  BY <1>1, <1>2, <1>3, <1>4, IsASeq
<1>7. \A i \in 1 .. n : w[i] = o[at(i)]
  BY <1>3
<1>8. \A i, j \in 1 .. n : i # j => w[i] # w[j]
  BY <1>2, <1>5, <1>7
<1>9. IsOrder(w) /\ AtStages!Range(w) = {w[i] : i \in 1 .. n}
  BY <1>6, <1>8, IsOrderByPlaces
<1>10. AtStages!Range(o) = {o[i] : i \in 1 .. n}
  BY OrderFields DEF n
<1>11. {w[i] : i \in 1 .. n} = {o[i] : i \in 1 .. n}
  <2>1. ASSUME NEW i \in 1 .. n PROVE w[i] \in {o[j] : j \in 1 .. n}
    BY <1>2, <1>7
  <2>2. ASSUME NEW i \in 1 .. n PROVE o[i] \in {w[j] : j \in 1 .. n}
    <3>1. at(i) \in 1 .. n /\ w[at(i)] = o[i]
      BY <1>2, <1>7
    <3> QED
      BY <3>1
  <2> QED
    BY <2>1, <2>2
<1> QED
  BY <1>9, <1>10, <1>11 DEF w

LEMMA WithoutDropsOne ==
  ASSUME NEW o, IsOrder(o), NEW s
  PROVE  IsOrder(AtStages!Without(o, s)) /\ AtStages!Range(AtStages!Without(o, s)) = AtStages!Range(o) \ {s}
<1>1. CASE s \notin AtStages!Range(o)
  BY <1>1 DEF AtStages!Without
<1>2. CASE s \in AtStages!Range(o)
  <2> DEFINE n == Len(o)
             k == CHOOSE i \in DOMAIN o : o[i] = s
             w == AtStages!Without(o, s)
             up(j) == IF j < k THEN j ELSE j + 1
  <2>1. o \in Seq(AtStages!AllStages) /\ n \in Nat /\ DOMAIN o = 1 .. n
    BY OrderFields
  <2>2. AtStages!Range(o) = {o[i] : i \in 1 .. n}
    BY OrderFields
  <2>3. \A i, j \in 1 .. n : i # j => o[i] # o[j]
    BY OrderFields
  <2>4. \E i \in DOMAIN o : o[i] = s
    BY <1>2, <2>1, <2>2
  <2>5. k \in 1 .. n /\ o[k] = s
    BY <2>1, <2>4
  <2>6. w = TakenOut(o, k)
    BY <1>2 DEF AtStages!Without, AtStages!RemoveAt, TakenOut
  <2> HIDE DEF k
  <2>7. /\ w \in Seq(AtStages!AllStages) /\ Len(w) = n - 1
        /\ \A j \in 1 .. n - 1 : w[j] = IF j < k THEN o[j] ELSE o[j + 1]
    BY <2>1, <2>5, <2>6, TakenOutProperties
  <2>8. /\ \A j \in 1 .. n - 1 : up(j) \in 1 .. n /\ up(j) # k /\ w[j] = o[up(j)]
        /\ \A i, j \in 1 .. n - 1 : i # j => up(i) # up(j)
        /\ \A i \in 1 .. n : i # k => \E j \in 1 .. n - 1 : up(j) = i
    <3>1. \A j \in 1 .. n - 1 : up(j) \in 1 .. n /\ up(j) # k /\ w[j] = o[up(j)]
      BY <2>1, <2>5, <2>7
    <3>2. \A i, j \in 1 .. n - 1 : i # j => up(i) # up(j)
      BY <2>1, <2>5
    <3>3. ASSUME NEW i \in 1 .. n, i # k PROVE \E j \in 1 .. n - 1 : up(j) = i
      <4>1. CASE i < k
        BY <2>1, <2>5, <4>1
      <4>2. CASE ~(i < k)
        <5>1. i - 1 \in 1 .. n - 1 /\ up(i - 1) = i
          BY <2>1, <2>5, <3>3, <4>2
        <5> QED
          BY <5>1
      <4> QED
        BY <4>1, <4>2
    <3> QED
      BY <3>1, <3>2, <3>3
  <2> HIDE DEF n, up, w
  <2>9. \A i, j \in 1 .. n - 1 : i # j => w[i] # w[j]
    BY <2>3, <2>8
  <2>10. IsOrder(w) /\ AtStages!Range(w) = {w[i] : i \in 1 .. n - 1}
    BY <2>7, <2>9, IsOrderByPlaces
  <2>11. {w[i] : i \in 1 .. n - 1} = {o[i] : i \in 1 .. n} \ {s}
    <3>1. ASSUME NEW j \in 1 .. n - 1 PROVE w[j] \in {o[i] : i \in 1 .. n} \ {s}
      BY <2>3, <2>5, <2>8
    <3>2. ASSUME NEW i \in 1 .. n, o[i] # s PROVE o[i] \in {w[j] : j \in 1 .. n - 1}
      <4>1. PICK j \in 1 .. n - 1 : up(j) = i
        BY <2>5, <2>8, <3>2
      <4> QED
        BY <2>8, <4>1
    <3> QED
      BY <3>1, <3>2
  <2> QED
    BY <2>2, <2>10, <2>11 DEF w
<1> QED
  BY <1>1, <1>2

LEMMA AppendedAddsOne ==
  ASSUME NEW o, IsOrder(o), NEW s \in AtStages!AllStages, s \notin AtStages!Range(o)
  PROVE  IsOrder(Append(o, s)) /\ AtStages!Range(Append(o, s)) = AtStages!Range(o) \cup {s}
<1> DEFINE n == Len(o)
           w == Append(o, s)
<1>1. o \in Seq(AtStages!AllStages) /\ n \in Nat
  BY OrderFields
<1>2. AtStages!Range(o) = {o[i] : i \in 1 .. n}
  BY OrderFields
<1>3. \A i, j \in 1 .. n : i # j => o[i] # o[j]
  BY OrderFields
<1>4. w \in Seq(AtStages!AllStages) /\ Len(w) = n + 1 /\ (\A i \in 1 .. n : w[i] = o[i]) /\ w[n + 1] = s
  BY <1>1, AppendProperties
<1> HIDE DEF n, w
<1>5. \A i \in 1 .. n + 1 : i \in 1 .. n \/ i = n + 1
  BY <1>1
<1>6. \A i \in 1 .. n : o[i] # s
  BY <1>2
<1>7. \A i, j \in 1 .. n + 1 : i # j => w[i] # w[j]
  BY <1>3, <1>4, <1>5, <1>6
<1>8. IsOrder(w) /\ AtStages!Range(w) = {w[i] : i \in 1 .. n + 1}
  BY <1>4, <1>7, IsOrderByPlaces
<1>9. {w[i] : i \in 1 .. n + 1} = {o[i] : i \in 1 .. n} \cup {s}
  <2>1. ASSUME NEW i \in 1 .. n + 1 PROVE w[i] \in {o[j] : j \in 1 .. n} \cup {s}
    BY <1>4, <1>5
  <2>2. \A i \in 1 .. n : i \in 1 .. n + 1
    BY <1>1
  <2>3. n + 1 \in 1 .. n + 1
    BY <1>1
  <2>4. ASSUME NEW i \in 1 .. n PROVE o[i] \in {w[j] : j \in 1 .. n + 1}
    BY <1>4, <2>2
  <2>5. s \in {w[j] : j \in 1 .. n + 1}
    BY <1>4, <2>3
  <2> QED
    BY <2>1, <2>4, <2>5
<1> QED
  BY <1>2, <1>8, <1>9 DEF w

MoveJob == [step : {"sent", "done", "refused"}, what : Seq(AtStages!AllStages)]
StageJob == [step : {"sent", "done", "settling", "refused"}, what : AtStages!AllStages]

\* Every list there is has each stage once, and the server's has those made and not deleted.
ListsAreOrders ==
  /\ s5 \in [Hands -> {AtStages!Idle} \cup MoveJob] /\ {s7, s8} \subseteq {AtStages!Idle} \cup StageJob
  /\ s6 \in AtStages!AllStages \cup {None} /\ s13 \subseteq AtStages!AllStages /\ s14 \subseteq s13
  /\ s3.step \in {"idle", "asked", "read"} /\ s12 \in BOOLEAN /\ s11 \in BOOLEAN /\ s10 \in BOOLEAN
  /\ IsOrder(s1) /\ IsOrder(s2) /\ (s3.step = "read" => IsOrder(s3.order))
  /\ \A i \in Hands : s5[i].step # "idle" => IsOrder(s5[i].what)
  /\ AtStages!Range(s1) = s13 \ s14

\* A change of the admin's own that is confirmed will be read.
WillBeRead ==
  \/ s3.step = "asked"
  \/ \E i \in Hands : s5[i].step = "done"
  \/ s7.step = "done" \/ s8.step = "done"

\* Without news, what the list shows, or what is about to arrive, is the server's order.
ListIsCurrent ==
  /\ s12 => s11
  /\ ~s12 => \/ WillBeRead
             \/ s3.step = "read" /\ s3.order = s1
             \/ s3.step = "idle" /\ (s4 \/ s2 = s1)

OneAtATime ==
  /\ \A i, j \in Hands : s5[i].step # "idle" /\ s5[j].step # "idle" => i = j
  /\ \A i \in Hands : s5[i].step # "idle" => s7.step = "idle" /\ s8.step = "idle"
  /\ s7.step = "idle" \/ s8.step = "idle"

Waits(how) == how \in {"sent", "refused"}
SomeoneWaits == (\E i \in Hands : Waits(s5[i].step)) \/ Waits(s7.step) \/ Waits(s8.step)

\* What an admin who waits for each answer asked for is on its way, or done.
AskIsOnItsWay ==
  /\ \A i \in Hands : s5[i].step = "sent" => s5[i].what = s9
  /\ s7.step = "sent" => AtStages!Without(s1, s7.what) = s9
  /\ s8.step = "sent" => Append(s1, s8.what) = s9
  /\ IF SomeoneWaits THEN s2 = s1 /\ (s3.step = "read" => s3.order = s1) ELSE s1 = s9

StagesInv == ListsAreOrders /\ ListIsCurrent /\ (~s10 /\ ~s11 => OneAtATime /\ AskIsOnItsWay)

LEMMA JobFields ==
  ASSUME ListsAreOrders
  PROVE  /\ AtStages!Idle.step = "idle"
         /\ \A i \in Hands : /\ s5[i] \in {AtStages!Idle} \cup MoveJob
                             /\ s5[i].step \in {"idle", "sent", "done", "refused"}
                             /\ s5[i].step # "idle" => s5[i] \in MoveJob
         /\ s7 \in {AtStages!Idle} \cup StageJob /\ s8 \in {AtStages!Idle} \cup StageJob
         /\ s7.step # "idle" => s7 \in StageJob /\ s7.what \in AtStages!AllStages
         /\ s8.step # "idle" => s8 \in StageJob /\ s8.what \in AtStages!AllStages
<1>1. AtStages!Idle.step = "idle"
  BY DEF AtStages!Idle
<1>2. ASSUME NEW i \in Hands
      PROVE  /\ s5[i] \in {AtStages!Idle} \cup MoveJob /\ s5[i].step \in {"idle", "sent", "done", "refused"}
             /\ s5[i].step # "idle" => s5[i] \in MoveJob
  BY <1>1 DEF ListsAreOrders, MoveJob
<1>3. s7 \in {AtStages!Idle} \cup StageJob /\ s8 \in {AtStages!Idle} \cup StageJob
  BY DEF ListsAreOrders
<1>4. \A j \in StageJob : j.what \in AtStages!AllStages
  BY DEF StageJob
<1> QED
  BY <1>1, <1>2, <1>3, <1>4

LEMMA StagesAreKept == StagesInv => AtStages!NoStageIsLost /\ AtStages!OrderSettles
<1> SUFFICES ASSUME StagesInv PROVE AtStages!NoStageIsLost /\ AtStages!OrderSettles
  OBVIOUS
<1>1. AtStages!NoStageIsLost
  BY DEF StagesInv, ListsAreOrders, IsOrder, AtStages!NoStageIsLost
<1>2. ASSUME AtStages!AtRest
      PROVE  (~s12 => s2 = s1) /\ (~s10 /\ ~s11 => s1 = s9)
  <2>1. /\ AtStages!Idle.step = "idle" /\ s3.step = "idle" /\ ~s4
        /\ s7 = AtStages!Idle /\ s8 = AtStages!Idle /\ \A i \in Hands : s5[i] = AtStages!Idle
    BY <1>2 DEF AtStages!AtRest, AtStages!NoFetch, AtStages!Idle
  <2>2. ~WillBeRead /\ ~SomeoneWaits
    BY <2>1 DEF WillBeRead, SomeoneWaits, Waits
  <2> QED
    BY <2>1, <2>2 DEF StagesInv, ListIsCurrent, AskIsOnItsWay
<1> QED
  BY <1>1, <1>2 DEF AtStages!OrderSettles

LEMMA StagesStart == AtStages!StagesInit => StagesInv
<1> SUFFICES ASSUME AtStages!StagesInit PROVE StagesInv
  OBVIOUS
<1>1. GivenStages \in Seq(AtStages!Range(GivenStages)) /\ AtStages!IsInjective(GivenStages) /\ AtStages!Range(GivenStages) \subseteq AtStages!AllStages
  BY DealsAssumption DEF AtStages!StagesAssumption, AtStages!AllStages
<1>2. GivenStages \in Seq(AtStages!AllStages)
  BY <1>1
<1>3. AtStages!Idle.step = "idle" /\ AtStages!NoFetch.step = "idle"
  BY DEF AtStages!Idle, AtStages!NoFetch
<1>4. /\ s1 = GivenStages /\ s2 = GivenStages /\ s3 = AtStages!NoFetch /\ s5 = [i \in Hands |-> AtStages!Idle]
      /\ s6 = None /\ s7 = AtStages!Idle /\ s8 = AtStages!Idle /\ s9 = GivenStages /\ s13 = AtStages!Range(GivenStages) /\ s14 = {}
  BY DEF AtStages!StagesInit
<1>5. s12 = FALSE /\ s11 = FALSE /\ s10 = FALSE
  BY DEF AtStages!StagesInit
<1>6. ListsAreOrders
  BY <1>1, <1>2, <1>3, <1>4, <1>5 DEF ListsAreOrders, IsOrder
<1>7. ListIsCurrent
  BY <1>3, <1>4, <1>5 DEF ListIsCurrent
<1>8. OneAtATime
  BY <1>3, <1>4 DEF OneAtATime
<1>9. AskIsOnItsWay
  BY <1>3, <1>4 DEF AskIsOnItsWay, SomeoneWaits, Waits
<1> QED
  BY <1>6, <1>7, <1>8, <1>9 DEF StagesInv

\* The job of one slot changes, and no other.
LEMMA OneMoveChanges ==
  ASSUME ListsAreOrders, NEW i \in Hands, NEW job, s5' = [s5 EXCEPT ![i] = job]
  PROVE  /\ \A j \in Hands : s5'[j] = IF j = i THEN job ELSE s5[j]
         /\ job \in {AtStages!Idle} \cup MoveJob => s5' \in [Hands -> {AtStages!Idle} \cup MoveJob]
  BY DEF ListsAreOrders

LEMMA MoveAnswered ==
  ASSUME ListsAreOrders, NEW i \in Hands, s5[i].step # "idle", NEW how \in {"done", "refused"},
         s5' = [s5 EXCEPT ![i].step = how]
  PROVE  /\ s5' \in [Hands -> {AtStages!Idle} \cup MoveJob]
         /\ s5'[i].step = how /\ s5'[i].what = s5[i].what
         /\ \A j \in Hands \ {i} : s5'[j] = s5[j]
<1> DEFINE job == [s5[i] EXCEPT !.step = how]
<1>1. s5[i] \in MoveJob
  BY JobFields
<1>2. job \in MoveJob /\ job.step = how /\ job.what = s5[i].what
  BY <1>1 DEF MoveJob
<1>3. s5' = [s5 EXCEPT ![i] = job]
  BY DEF ListsAreOrders
<1> HIDE DEF job
<1> QED
  BY <1>2, <1>3, OneMoveChanges

LEMMA JobAnswered ==
  ASSUME NEW job \in StageJob, NEW how \in {"done", "refused", "settling"}
  PROVE  LET r == [job EXCEPT !.step = how] IN r \in StageJob /\ r.step = how /\ r.what = job.what
  BY DEF StageJob

LEMMA ListsStayOrders ==
  ASSUME ListsAreOrders, AtStages!StagesNext
  PROVE  ListsAreOrders'
<1> USE JobFields
<1>i. AtStages!Idle.step = "idle" /\ AtStages!NoFetch.step = "idle" /\ AtStages!AskedFor.step = "asked"
  BY DEF AtStages!Idle, AtStages!NoFetch, AtStages!AskedFor
<1>m. \A o : IsOrder(o) => AtStages!Sent(o) \in MoveJob /\ AtStages!Sent(o).what = o /\ AtStages!Sent(o).step = "sent"
  BY DEF AtStages!Sent, MoveJob, IsOrder
<1>s. \A s \in AtStages!AllStages : AtStages!Sent(s) \in StageJob /\ AtStages!Sent(s).what = s /\ AtStages!Sent(s).step = "sent"
  BY DEF AtStages!Sent, StageJob
<1>r. s13 \subseteq AtStages!AllStages /\ s14 \subseteq s13 /\ AtStages!Range(s1) = s13 \ s14 /\ IsOrder(s1) /\ IsOrder(s2)
  BY DEF ListsAreOrders
<1>o. /\ \A k \in 1 .. Len(s1) - 1 : IsOrder(AtStages!Swapped(s1, k)) /\ AtStages!Range(AtStages!Swapped(s1, k)) = AtStages!Range(s1)
      /\ \A k \in 1 .. Len(s2) - 1 : IsOrder(AtStages!Swapped(s2, k))
      /\ \A s : IsOrder(AtStages!Without(s1, s)) /\ AtStages!Range(AtStages!Without(s1, s)) = AtStages!Range(s1) \ {s}
      /\ \A s \in AtStages!AllStages : s \notin AtStages!Range(s1)
            => IsOrder(Append(s1, s)) /\ AtStages!Range(Append(s1, s)) = AtStages!Range(s1) \cup {s}
  BY <1>r, SwappedKeepsStages, WithoutDropsOne, AppendedAddsOne
<1> USE <1>i
<1>1. CASE AtStages!ServerReads
  <2>1. s3'.step = "read" /\ s3'.order = s1
    BY <1>1 DEF AtStages!ServerReads
  <2>2. UNCHANGED <<s1, s2, s5, s6, s7, s8, s13, s14, s10, s11>> /\ s12' = FALSE
    BY <1>1 DEF AtStages!ServerReads, AtStages!askVars, AtStages!pastVars
  <2> QED
    BY <2>1, <2>2 DEF ListsAreOrders
<1>2. CASE AtStages!ListArrives
  <2>1. s3'.step = "idle" /\ s2' = s3.order /\ s3.step = "read"
    BY <1>2 DEF AtStages!ListArrives
  <2>2. UNCHANGED <<s1, s5, s6, s7, s8, s13, s14, s10, s11, s12>>
    BY <1>2 DEF AtStages!ListArrives, AtStages!askVars, AtStages!pastVars, AtStages!otherVars
  <2> QED
    BY <2>1, <2>2 DEF ListsAreOrders
<1>3. CASE AtStages!ListFails \/ AtStages!Revisit
  <2>1. s3'.step \in {"idle", "asked"}
    BY <1>3 DEF AtStages!ListFails, AtStages!Revisit
  <2>2. UNCHANGED <<s1, s2, s5, s6, s7, s8, s13, s14, s10, s11, s12>>
    BY <1>3 DEF AtStages!ListFails, AtStages!Revisit, AtStages!askVars, AtStages!pastVars, AtStages!otherVars
  <2> QED
    BY <2>1, <2>2 DEF ListsAreOrders
<1>4. ASSUME NEW k \in 1 .. Len(s2), AtStages!Move(k) PROVE ListsAreOrders'
  <2>1. PICK i \in Hands : s5' = [s5 EXCEPT ![i] = AtStages!Sent(AtStages!Swapped(s2, k))]
    BY <1>4 DEF AtStages!Move
  <2>2. k \in 1 .. Len(s2) - 1 /\ IsOrder(AtStages!Swapped(s2, k))
    BY <1>4, <1>o DEF AtStages!Move
  <2>3. UNCHANGED <<s1, s2, s3, s6, s7, s8, s13, s14, s11, s12>>
    BY <1>4 DEF AtStages!Move, AtStages!listVars, AtStages!pastVars, AtStages!otherVars
  <2>4. s10' \in BOOLEAN
    BY <1>4 DEF AtStages!Move, AtStages!Asks, ListsAreOrders
  <2>5. s5' \in [Hands -> {AtStages!Idle} \cup MoveJob]
    BY <1>m, <2>1, <2>2, OneMoveChanges
  <2>6. \A j \in Hands : s5'[j].step # "idle" => IsOrder(s5'[j].what)
    <3>0. PICK job : job = AtStages!Sent(AtStages!Swapped(s2, k)) /\ s5' = [s5 EXCEPT ![i] = job]
      BY <2>1
    <3>3. \A j \in Hands : s5'[j] = IF j = i THEN job ELSE s5[j]
      BY <3>0 DEF ListsAreOrders
    <3>1. ASSUME NEW j \in Hands, j # i PROVE s5'[j] = s5[j]
      BY <3>1, <3>3
    <3>2. s5'[i] = AtStages!Sent(AtStages!Swapped(s2, k))
      BY <3>0, <3>3
    <3> QED
      BY <1>m, <2>2, <3>1, <3>2 DEF ListsAreOrders
  <2> QED
    BY <2>3, <2>4, <2>5, <2>6 DEF ListsAreOrders
<1>5. ASSUME NEW i \in Hands, AtStages!ServerOrders(i) PROVE ListsAreOrders'
  <2>0. PICK how \in {"done", "refused"} : s5' = [s5 EXCEPT ![i].step = how]
    BY <1>5 DEF AtStages!ServerOrders
  <2>1. s5[i].step # "idle" /\ s5[i] \in MoveJob /\ IsOrder(s5[i].what)
    BY <1>5 DEF AtStages!ServerOrders, ListsAreOrders
  <2>2. /\ s5' \in [Hands -> {AtStages!Idle} \cup MoveJob] /\ s5'[i].what = s5[i].what
        /\ \A j \in Hands \ {i} : s5'[j] = s5[j]
    BY <2>0, <2>1, MoveAnswered
  <2>3. IsOrder(s1') /\ AtStages!Range(s1') = AtStages!Range(s1)
    BY <1>5, <1>r, <2>1 DEF AtStages!ServerOrders, AtStages!Accepts
  <2>4. UNCHANGED <<s2, s3, s6, s7, s8, s13, s14, s10>>
    BY <1>5 DEF AtStages!ServerOrders, AtStages!listVars, AtStages!pastVars, AtStages!askVars
  <2>5. s12' \in BOOLEAN /\ s11' \in BOOLEAN
    BY <1>5 DEF AtStages!ServerOrders, AtStages!Unsure, AtStages!otherVars, ListsAreOrders
  <2>6. \A j \in Hands : s5'[j].step # "idle" => IsOrder(s5'[j].what)
    BY <2>1, <2>2 DEF ListsAreOrders
  <2> QED
    BY <2>2, <2>3, <2>4, <2>5, <2>6 DEF ListsAreOrders
<1>6. ASSUME NEW i \in Hands, AtStages!OrderConfirmed(i) \/ AtStages!OrderRefused(i) PROVE ListsAreOrders'
  <2>1. s5' = [s5 EXCEPT ![i] = AtStages!Idle]
    BY <1>6 DEF AtStages!OrderConfirmed, AtStages!OrderRefused
  <2>2. /\ s5' \in [Hands -> {AtStages!Idle} \cup MoveJob]
        /\ \A j \in Hands : s5'[j] = IF j = i THEN AtStages!Idle ELSE s5[j]
    BY <2>1, OneMoveChanges
  <2>3. UNCHANGED <<s1, s2, s6, s7, s8, s13, s14, s10, s11, s12>>
    BY <1>6 DEF AtStages!OrderConfirmed, AtStages!OrderRefused, AtStages!listVars, AtStages!pastVars,
       AtStages!askVars, AtStages!otherVars
  <2>4. s3'.step = "asked" \/ s3' = s3
    BY <1>6 DEF AtStages!OrderConfirmed, AtStages!OrderRefused, AtStages!Invalidates, AtStages!listVars
  <2>5. \A j \in Hands : s5'[j].step # "idle" => IsOrder(s5'[j].what)
    BY <2>2 DEF ListsAreOrders
  <2> QED
    BY <2>2, <2>3, <2>4, <2>5 DEF ListsAreOrders
<1>7. ASSUME NEW s \in AtStages!AllStages, AtStages!AskDelete(s) \/ AtStages!AddStage(s) PROVE ListsAreOrders'
  <2>1. UNCHANGED <<s1, s2, s3, s5, s7, s13, s14, s11, s12>>
    BY <1>7 DEF AtStages!AskDelete, AtStages!AddStage, AtStages!listVars, AtStages!pastVars, AtStages!otherVars
  <2>2. s6' \in {s6, s} /\ s8' \in {s8, AtStages!Sent(s)} /\ s10' \in BOOLEAN
    BY <1>7 DEF AtStages!AskDelete, AtStages!AddStage, AtStages!askVars, AtStages!Asks, ListsAreOrders
  <2> QED
    BY <1>s, <2>1, <2>2 DEF ListsAreOrders
<1>8. CASE AtStages!CancelDelete \/ AtStages!ConfirmDelete
  <2>1. UNCHANGED <<s1, s2, s3, s5, s8, s13, s14, s11, s12>>
    BY <1>8 DEF AtStages!CancelDelete, AtStages!ConfirmDelete, AtStages!listVars, AtStages!pastVars,
       AtStages!otherVars
  <2>2. s6 \in AtStages!AllStages
    BY <1>8 DEF AtStages!CancelDelete, AtStages!ConfirmDelete, ListsAreOrders
  <2>3. s6' \in {s6, None} /\ s7' \in {s7, AtStages!Sent(s6)} /\ s10' \in BOOLEAN
    BY <1>8 DEF AtStages!CancelDelete, AtStages!ConfirmDelete, AtStages!askVars, AtStages!Asks, ListsAreOrders
  <2> QED
    BY <1>s, <2>1, <2>2, <2>3 DEF ListsAreOrders
<1>9. CASE AtStages!ServerDeletes
  <2>1. UNCHANGED <<s2, s3, s5, s6, s8, s10>>
    BY <1>9 DEF AtStages!ServerDeletes, AtStages!listVars, AtStages!askVars
  <2>2. s7 \in StageJob
    BY <1>9 DEF AtStages!ServerDeletes
  <2>3. s7' \in StageJob
    <3>1. PICK how \in {"done", "refused"} : s7' = [s7 EXCEPT !.step = how]
      BY <1>9 DEF AtStages!ServerDeletes
    <3> QED
      BY <2>2, <3>1, JobAnswered
  <2>4. s12' \in BOOLEAN /\ s11' \in BOOLEAN
    BY <1>9 DEF AtStages!ServerDeletes, AtStages!Unsure, AtStages!otherVars, ListsAreOrders
  <2>5. IsOrder(s1') /\ AtStages!Range(s1') = s13' \ s14' /\ s13' \subseteq AtStages!AllStages /\ s14' \subseteq s13'
    <3>1. CASE UNCHANGED <<s1, AtStages!pastVars>>
      BY <1>r, <3>1 DEF AtStages!pastVars
    <3>2. CASE /\ s7.what \in AtStages!Range(s1) /\ s1' = AtStages!Without(s1, s7.what)
               /\ s14' = s14 \cup {s7.what} /\ s13' = s13
      BY <1>r, <1>o, <3>2
    <3> QED
      BY <1>9, <3>1, <3>2 DEF AtStages!ServerDeletes
  <2> QED
    BY <2>1, <2>3, <2>4, <2>5 DEF ListsAreOrders
<1>10. CASE AtStages!DeleteConfirmed \/ AtStages!DeleteEnds
  <2>1. UNCHANGED <<s1, s2, s5, s8, s13, s14, s10, s11, s12>>
    BY <1>10 DEF AtStages!DeleteConfirmed, AtStages!DeleteEnds, AtStages!listVars, AtStages!askVars,
       AtStages!pastVars, AtStages!otherVars
  <2>2. s7' \in {AtStages!Idle} \cup StageJob
    BY <1>10, JobAnswered DEF AtStages!DeleteConfirmed, AtStages!DeleteEnds
  <2>3. s6' \in {s6, None} /\ (s3'.step = "asked" \/ s3' = s3)
    BY <1>10 DEF AtStages!DeleteConfirmed, AtStages!DeleteEnds, AtStages!Invalidates, AtStages!listVars
  <2> QED
    BY <2>1, <2>2, <2>3 DEF ListsAreOrders
<1>11. CASE AtStages!ServerAdds
  <2>1. UNCHANGED <<s2, s3, s5, s6, s7, s10, s14>>
    BY <1>11 DEF AtStages!ServerAdds, AtStages!listVars, AtStages!askVars
  <2>2. s8 \in StageJob
    BY <1>11 DEF AtStages!ServerAdds
  <2>3. s8' \in StageJob
    <3>1. PICK how \in {"done", "refused"} : s8' = [s8 EXCEPT !.step = how]
      BY <1>11 DEF AtStages!ServerAdds
    <3> QED
      BY <2>2, <3>1, JobAnswered
  <2>4. s12' \in BOOLEAN /\ s11' \in BOOLEAN
    BY <1>11 DEF AtStages!ServerAdds, AtStages!Unsure, AtStages!otherVars, ListsAreOrders
  <2>5. IsOrder(s1') /\ AtStages!Range(s1') = s13' \ s14' /\ s13' \subseteq AtStages!AllStages /\ s14' \subseteq s13'
    <3>1. CASE UNCHANGED <<s1, s13>>
      BY <1>r, <2>1, <3>1
    <3>2. CASE /\ s8.what \notin s13 /\ s1' = Append(s1, s8.what)
               /\ s13' = s13 \cup {s8.what}
      <4>1. s8.what \in AtStages!AllStages
        BY <2>2 DEF StageJob
      <4>2. s8.what \notin AtStages!Range(s1)
        BY <1>r, <3>2
      <4>3. IsOrder(Append(s1, s8.what)) /\ AtStages!Range(Append(s1, s8.what)) = AtStages!Range(s1) \cup {s8.what}
        BY <1>o, <4>1, <4>2
      <4> QED
        BY <1>r, <2>1, <3>2, <4>1, <4>3
    <3> QED
      BY <1>11, <3>1, <3>2 DEF AtStages!ServerAdds
  <2> QED
    BY <2>1, <2>3, <2>4, <2>5 DEF ListsAreOrders
<1>12. CASE AtStages!AddConfirmed \/ AtStages!AddEnds
  <2>1. UNCHANGED <<s1, s2, s5, s7, s6, s13, s14, s10, s11, s12>>
    BY <1>12 DEF AtStages!AddConfirmed, AtStages!AddEnds, AtStages!listVars, AtStages!askVars,
       AtStages!pastVars, AtStages!otherVars
  <2>2. s8' \in {AtStages!Idle} \cup StageJob
    BY <1>12, JobAnswered DEF AtStages!AddConfirmed, AtStages!AddEnds
  <2>3. s3'.step = "asked" \/ s3' = s3
    BY <1>12 DEF AtStages!AddConfirmed, AtStages!AddEnds, AtStages!Invalidates, AtStages!listVars
  <2> QED
    BY <2>1, <2>2, <2>3 DEF ListsAreOrders
<1>13. CASE AtStages!OtherAdmin
  <2>1. ASSUME NEW order, NEW added, NEW deleted, AtStages!Meddles(order, added, deleted),
               IsOrder(order), AtStages!Range(order) = (s13 \cup added) \ (s14 \cup deleted),
               s13 \cup added \subseteq AtStages!AllStages, s14 \cup deleted \subseteq s13 \cup added
        PROVE  ListsAreOrders'
    <3>1. /\ s1' = order /\ s13' = s13 \cup added /\ s14' = s14 \cup deleted
          /\ s11' = TRUE /\ s12' = TRUE
          /\ UNCHANGED <<s2, s3, s5, s6, s7, s8, s10>>
      BY <2>1 DEF AtStages!Meddles, AtStages!listVars, AtStages!askVars
    <3>2. /\ s13' \subseteq AtStages!AllStages /\ s14' \subseteq s13'
          /\ IsOrder(s1') /\ AtStages!Range(s1') = s13' \ s14'
      BY <2>1, <3>1
    <3> QED
      BY <3>1, <3>2 DEF ListsAreOrders
  <2>2. CASE Len(s1) > 1 /\ AtStages!Meddles(AtStages!Swapped(s1, 1), {}, {})
    <3>1. Len(s1) \in Nat
      BY <1>r, OrderFields
    <3>2. 1 \in 1 .. Len(s1) - 1
      BY <2>2, <3>1
    <3>3. IsOrder(AtStages!Swapped(s1, 1)) /\ AtStages!Range(AtStages!Swapped(s1, 1)) = (s13 \cup {}) \ (s14 \cup {})
      BY <1>r, <1>o, <3>2
    <3> QED
      BY <1>r, <2>1, <2>2, <3>3
  <2>3. ASSUME NEW s \in Spare \ s13, AtStages!Meddles(Append(s1, s), {s}, {}) PROVE ListsAreOrders'
    <3>1. s \in AtStages!AllStages /\ s \notin AtStages!Range(s1)
      BY <1>r DEF AtStages!AllStages
    <3>2. IsOrder(Append(s1, s)) /\ AtStages!Range(Append(s1, s)) = (s13 \cup {s}) \ (s14 \cup {})
      BY <1>r, <1>o, <3>1
    <3> QED
      BY <1>r, <2>1, <2>3, <3>1, <3>2
  <2>4. ASSUME NEW s \in AtStages!Range(s1) \ Held, AtStages!Meddles(AtStages!Without(s1, s), {}, {s}) PROVE ListsAreOrders'
    <3>1. IsOrder(AtStages!Without(s1, s)) /\ AtStages!Range(AtStages!Without(s1, s)) = (s13 \cup {}) \ (s14 \cup {s})
      BY <1>r, <1>o
    <3> QED
      BY <1>r, <2>1, <2>4, <3>1
  <2> QED
    BY <1>13, <2>2, <2>3, <2>4 DEF AtStages!OtherAdmin
<1> QED
  BY <1>1, <1>2, <1>3, <1>4, <1>5, <1>6, <1>7, <1>8, <1>9, <1>10, <1>11, <1>12, <1>13 DEF AtStages!StagesNext

LEMMA ListStaysCurrent ==
  ASSUME ListsAreOrders, ListIsCurrent, AtStages!StagesNext
  PROVE  ListIsCurrent'
<1>i. AtStages!Idle.step = "idle" /\ AtStages!NoFetch.step = "idle" /\ AtStages!AskedFor.step = "asked" /\ \A w : AtStages!Sent(w).step = "sent"
  BY DEF AtStages!Idle, AtStages!NoFetch, AtStages!AskedFor, AtStages!Sent
<1>n. s12 => s11
  BY DEF ListIsCurrent
<1>a. ASSUME s3'.step = "asked", UNCHANGED <<s12, s11>> PROVE ListIsCurrent'
  BY <1>a, <1>n DEF ListIsCurrent, WillBeRead
\* The lists stay as they are, and so does what is confirmed and not yet read.
<1>k. ASSUME UNCHANGED <<s1, s2, s3, s4, s12, s11>>, WillBeRead => WillBeRead'
      PROVE  ListIsCurrent'
  BY <1>k DEF ListIsCurrent
<1>j. ASSUME NEW i \in Hands, NEW job, s5[i].step # "done", s5' = [s5 EXCEPT ![i] = job]
      PROVE  (\E j \in Hands : s5[j].step = "done") => \E j \in Hands : s5'[j].step = "done"
  BY <1>j, OneMoveChanges
<1>1. CASE AtStages!ServerReads
  <2>1. s3'.step = "read" /\ s3'.order = s1 /\ s1' = s1 /\ s12' = FALSE
    BY <1>1 DEF AtStages!ServerReads
  <2> QED
    BY <2>1 DEF ListIsCurrent
<1>2. CASE AtStages!ListArrives
  <2>1. s3'.step = "idle" /\ s2' = s3.order /\ s3.step = "read"
    BY <1>2, <1>i DEF AtStages!ListArrives
  <2>2. UNCHANGED <<s1, s5, s7, s8, s11, s12>>
    BY <1>2 DEF AtStages!ListArrives, AtStages!otherVars
  <2> QED
    BY <2>1, <2>2 DEF ListIsCurrent, WillBeRead
<1>3. CASE AtStages!ListFails
  <2>1. s3'.step = "idle" /\ s4' /\ UNCHANGED <<s11, s12>>
    BY <1>3, <1>i DEF AtStages!ListFails, AtStages!otherVars
  <2> QED
    BY <1>n, <2>1 DEF ListIsCurrent
<1>4. CASE AtStages!Revisit
  BY <1>4, <1>i, <1>a DEF AtStages!Revisit, AtStages!otherVars
<1>5. ASSUME NEW k \in 1 .. Len(s2), AtStages!Move(k) PROVE ListIsCurrent'
  <2>0. PICK i \in Hands : s5[i] = AtStages!Idle /\ s5' = [s5 EXCEPT ![i] = AtStages!Sent(AtStages!Swapped(s2, k))]
    BY <1>5 DEF AtStages!Move
  <2>1. PICK job : s5[i] = AtStages!Idle /\ s5' = [s5 EXCEPT ![i] = job]
    BY <2>0
  <2>2. UNCHANGED <<s1, s2, s3, s4, s7, s8, s11, s12>>
    BY <1>5 DEF AtStages!Move, AtStages!listVars, AtStages!otherVars
  <2>3. (\E j \in Hands : s5[j].step = "done") => \E j \in Hands : s5'[j].step = "done"
    BY <1>i, <1>j, <2>1
  <2> QED
    BY <1>k, <2>2, <2>3 DEF WillBeRead
<1>6. ASSUME NEW i \in Hands, AtStages!ServerOrders(i) PROVE ListIsCurrent'
  <2>1. PICK how \in {"done", "refused"} : /\ s5' = [s5 EXCEPT ![i].step = how]
                                           /\ how = "done" \/ AtStages!Unsure(how) \/ UNCHANGED <<s1, AtStages!otherVars>>
    BY <1>6 DEF AtStages!ServerOrders
  <2>2. UNCHANGED <<s2, s3, s4, s7, s8>> /\ s5[i].step = "sent"
    BY <1>6 DEF AtStages!ServerOrders, AtStages!listVars
  <2>3. s5'[i].step = how /\ \A j \in Hands \ {i} : s5'[j] = s5[j]
    BY <2>1, <2>2, MoveAnswered
  <2>4. (s12' => s11') /\ (UNCHANGED <<s1, AtStages!otherVars>> => UNCHANGED <<s1, s12, s11>>)
    BY <1>6, <1>n DEF AtStages!ServerOrders, AtStages!Unsure, AtStages!otherVars
  <2>5. CASE how = "done"
    BY <2>3, <2>4, <2>5 DEF ListIsCurrent, WillBeRead
  <2>6. CASE how = "refused" /\ AtStages!Unsure(how)
    BY <2>6 DEF AtStages!Unsure, ListIsCurrent
  <2>7. CASE UNCHANGED <<s1, AtStages!otherVars>>
    <3>1. WillBeRead => WillBeRead'
      BY <2>2, <2>3 DEF WillBeRead
    <3> QED
      BY <1>k, <2>2, <2>4, <2>7, <3>1
  <2> QED
    BY <2>1, <2>5, <2>6, <2>7
<1>7. ASSUME NEW i \in Hands, AtStages!OrderConfirmed(i) PROVE ListIsCurrent'
  BY <1>7, <1>i, <1>a DEF AtStages!OrderConfirmed, AtStages!Invalidates, AtStages!otherVars
<1>8. ASSUME NEW i \in Hands, AtStages!OrderRefused(i) PROVE ListIsCurrent'
  <2>1. s5[i].step # "done" /\ s5' = [s5 EXCEPT ![i] = AtStages!Idle]
    BY <1>8 DEF AtStages!OrderRefused
  <2>2. UNCHANGED <<s1, s2, s3, s4, s7, s8, s11, s12>>
    BY <1>8 DEF AtStages!OrderRefused, AtStages!listVars, AtStages!otherVars
  <2>3. (\E j \in Hands : s5[j].step = "done") => \E j \in Hands : s5'[j].step = "done"
    BY <1>j, <2>1
  <2> QED
    BY <1>k, <2>2, <2>3 DEF WillBeRead
<1>9. ASSUME NEW s \in AtStages!AllStages, AtStages!AskDelete(s) \/ AtStages!AddStage(s) PROVE ListIsCurrent'
  <2>1. UNCHANGED <<s1, s2, s3, s4, s5, s7, s11, s12>>
    BY <1>9 DEF AtStages!AskDelete, AtStages!AddStage, AtStages!listVars, AtStages!otherVars
  <2>2. s8.step = "done" => s8' = s8
    BY <1>9, <1>i DEF AtStages!AskDelete, AtStages!AddStage
  <2> QED
    BY <1>k, <2>1, <2>2 DEF WillBeRead
<1>10. CASE AtStages!CancelDelete \/ AtStages!ConfirmDelete
  <2>1. UNCHANGED <<s1, s2, s3, s4, s5, s8, s11, s12>>
    BY <1>10 DEF AtStages!CancelDelete, AtStages!ConfirmDelete, AtStages!listVars, AtStages!otherVars
  <2>2. s7.step = "done" => s7' = s7
    BY <1>10, <1>i DEF AtStages!CancelDelete, AtStages!ConfirmDelete
  <2> QED
    BY <1>k, <2>1, <2>2 DEF WillBeRead
<1>11. CASE AtStages!ServerDeletes
  <2>1. PICK how \in {"done", "refused"} : /\ s7' = [s7 EXCEPT !.step = how]
                                           /\ how = "done" \/ AtStages!Unsure(how) \/ UNCHANGED <<s1, AtStages!otherVars>>
    BY <1>11 DEF AtStages!ServerDeletes
  <2>2. UNCHANGED <<s2, s3, s4, s5, s8>> /\ s7.step = "sent"
    BY <1>11 DEF AtStages!ServerDeletes, AtStages!listVars
  <2>3. s7'.step = how
    BY <2>1, <2>2, JobFields, JobAnswered
  <2>4. (s12' => s11') /\ (UNCHANGED <<s1, AtStages!otherVars>> => UNCHANGED <<s1, s12, s11>>)
    BY <1>11, <1>n DEF AtStages!ServerDeletes, AtStages!Unsure, AtStages!otherVars
  <2>5. CASE how = "done"
    BY <2>3, <2>4, <2>5 DEF ListIsCurrent, WillBeRead
  <2>6. CASE how = "refused" /\ AtStages!Unsure(how)
    BY <2>6 DEF AtStages!Unsure, ListIsCurrent
  <2>7. CASE UNCHANGED <<s1, AtStages!otherVars>>
    <3>1. WillBeRead => WillBeRead'
      BY <2>2, <2>3 DEF WillBeRead
    <3> QED
      BY <1>k, <2>2, <2>4, <2>7, <3>1
  <2> QED
    BY <2>1, <2>5, <2>6, <2>7
<1>12. CASE AtStages!DeleteConfirmed \/ AtStages!AddConfirmed
  BY <1>12, <1>i, <1>a DEF AtStages!DeleteConfirmed, AtStages!AddConfirmed, AtStages!Invalidates,
     AtStages!otherVars
<1>13. CASE AtStages!DeleteEnds \/ AtStages!AddEnds
  <2>1. UNCHANGED <<s1, s2, s3, s4, s5, s11, s12>>
    BY <1>13 DEF AtStages!DeleteEnds, AtStages!AddEnds, AtStages!listVars, AtStages!otherVars
  <2>2. (s7.step = "done" => s7' = s7) /\ (s8.step = "done" => s8' = s8)
    BY <1>13 DEF AtStages!DeleteEnds, AtStages!AddEnds
  <2> QED
    BY <1>k, <2>1, <2>2 DEF WillBeRead
<1>14. CASE AtStages!ServerAdds
  <2>1. PICK how \in {"done", "refused"} : /\ s8' = [s8 EXCEPT !.step = how]
                                           /\ how = "done" \/ AtStages!Unsure(how) \/ UNCHANGED <<s1, AtStages!otherVars>>
    BY <1>14 DEF AtStages!ServerAdds
  <2>2. UNCHANGED <<s2, s3, s4, s5, s7>> /\ s8.step = "sent"
    BY <1>14 DEF AtStages!ServerAdds, AtStages!listVars
  <2>3. s8'.step = how
    BY <2>1, <2>2, JobFields, JobAnswered
  <2>4. (s12' => s11') /\ (UNCHANGED <<s1, AtStages!otherVars>> => UNCHANGED <<s1, s12, s11>>)
    BY <1>14, <1>n DEF AtStages!ServerAdds, AtStages!Unsure, AtStages!otherVars
  <2>5. CASE how = "done"
    BY <2>3, <2>4, <2>5 DEF ListIsCurrent, WillBeRead
  <2>6. CASE how = "refused" /\ AtStages!Unsure(how)
    BY <2>6 DEF AtStages!Unsure, ListIsCurrent
  <2>7. CASE UNCHANGED <<s1, AtStages!otherVars>>
    <3>1. WillBeRead => WillBeRead'
      BY <2>2, <2>3 DEF WillBeRead
    <3> QED
      BY <1>k, <2>2, <2>4, <2>7, <3>1
  <2> QED
    BY <2>1, <2>5, <2>6, <2>7
<1>15. CASE AtStages!OtherAdmin
  BY <1>15 DEF AtStages!OtherAdmin, AtStages!Meddles, ListIsCurrent
<1> QED
  BY <1>1, <1>2, <1>3, <1>4, <1>5, <1>6, <1>7, <1>8, <1>9, <1>10, <1>11, <1>12, <1>13, <1>14,
     <1>15 DEF AtStages!StagesNext

\* An ask of an admin who waited for everything before: nothing else is under way.
LEMMA AskAtRest ==
  ASSUME StagesInv, AtStages!AtRest, ~s11
  PROVE  /\ s2 = s1 /\ s3.step = "idle"
         /\ s7.step = "idle" /\ s8.step = "idle" /\ \A i \in Hands : s5[i].step = "idle"
<1>1. /\ AtStages!Idle.step = "idle" /\ s3.step = "idle" /\ ~s4
      /\ s7 = AtStages!Idle /\ s8 = AtStages!Idle /\ \A i \in Hands : s5[i] = AtStages!Idle
  BY DEF AtStages!AtRest, AtStages!NoFetch, AtStages!Idle
<1>2. ~WillBeRead /\ ~s12
  BY <1>1 DEF WillBeRead, StagesInv, ListIsCurrent
<1> QED
  BY <1>1, <1>2 DEF StagesInv, ListIsCurrent

LEMMA AskStaysOnItsWay ==
  ASSUME StagesInv, AtStages!StagesNext, ~s10', ~s11'
  PROVE  OneAtATime' /\ AskIsOnItsWay'
<1>i. AtStages!Idle.step = "idle" /\ AtStages!NoFetch.step = "idle" /\ AtStages!AskedFor.step = "asked" /\ \A w : AtStages!Sent(w).step = "sent" /\ AtStages!Sent(w).what = w
  BY DEF AtStages!Idle, AtStages!NoFetch, AtStages!AskedFor, AtStages!Sent
<1>j. ListsAreOrders
  BY DEF StagesInv
<1>p. ~s11
  <2>1. (s11' = s11) \/ s11'
    BY DEF AtStages!StagesNext, AtStages!ServerReads, AtStages!ListArrives, AtStages!ListFails,
       AtStages!Revisit, AtStages!Move, AtStages!ServerOrders, AtStages!OrderConfirmed, AtStages!OrderRefused,
           AtStages!AskDelete, AtStages!AddStage, AtStages!CancelDelete, AtStages!ConfirmDelete,
           AtStages!ServerDeletes, AtStages!DeleteConfirmed, AtStages!DeleteEnds, AtStages!ServerAdds,
           AtStages!AddConfirmed, AtStages!AddEnds, AtStages!OtherAdmin, AtStages!Meddles, AtStages!Unsure,
           AtStages!otherVars
  <2> QED
    BY <2>1
<1>h. ~s10
  <2>1. (s10' = s10) \/ s10' = (s10 \/ ~AtStages!AtRest)
    BY DEF AtStages!StagesNext, AtStages!ServerReads, AtStages!ListArrives, AtStages!ListFails,
       AtStages!Revisit, AtStages!Move, AtStages!ServerOrders, AtStages!OrderConfirmed, AtStages!OrderRefused,
           AtStages!AskDelete, AtStages!AddStage, AtStages!CancelDelete, AtStages!ConfirmDelete,
           AtStages!ServerDeletes, AtStages!DeleteConfirmed, AtStages!DeleteEnds, AtStages!ServerAdds,
           AtStages!AddConfirmed, AtStages!AddEnds, AtStages!OtherAdmin, AtStages!Meddles, AtStages!Asks,
           AtStages!askVars
  <2> QED
    BY <2>1
<1>o. OneAtATime /\ AskIsOnItsWay
  BY <1>p, <1>h DEF StagesInv
<1>t. ASSUME NEW w, AtStages!Asks(w) PROVE AtStages!AtRest /\ s9' = w
  BY <1>h, <1>t DEF AtStages!Asks
\* Nothing but the query moves.
<1>q. ASSUME UNCHANGED <<s5, s7, s8, s9, s1>>,
             SomeoneWaits => s2' = s1' /\ (s3'.step = "read" => s3'.order = s1')
      PROVE  OneAtATime' /\ AskIsOnItsWay'
  <2>1. OneAtATime' /\ (SomeoneWaits' <=> SomeoneWaits)
    BY <1>o, <1>q DEF OneAtATime, SomeoneWaits
  <2> QED
    BY <1>o, <1>q, <2>1 DEF AskIsOnItsWay
<1>a. AskIsOnItsWay
  BY <1>o
<1>1. CASE AtStages!ServerReads
  <2>1. UNCHANGED <<s5, s7, s8, s9, s1, s2>> /\ s3'.order = s1
    BY <1>1 DEF AtStages!ServerReads, AtStages!askVars
  <2> QED
    BY <1>a, <1>q, <2>1 DEF AskIsOnItsWay
<1>2. CASE AtStages!ListArrives
  <2>1. /\ UNCHANGED <<s5, s7, s8, s9, s1>>
        /\ s2' = s3.order /\ s3.step = "read" /\ s3'.step = "idle"
    BY <1>2, <1>i DEF AtStages!ListArrives, AtStages!askVars
  <2> QED
    BY <1>a, <1>q, <2>1 DEF AskIsOnItsWay
<1>3. CASE AtStages!ListFails \/ AtStages!Revisit
  <2>1. UNCHANGED <<s5, s7, s8, s9, s1, s2>> /\ s3'.step # "read"
    BY <1>3, <1>i DEF AtStages!ListFails, AtStages!Revisit, AtStages!askVars
  <2> QED
    BY <1>a, <1>q, <2>1 DEF AskIsOnItsWay
<1>4. ASSUME NEW k \in 1 .. Len(s2), AtStages!Move(k) PROVE OneAtATime' /\ AskIsOnItsWay'
  <2>0. PICK i \in Hands : s5' = [s5 EXCEPT ![i] = AtStages!Sent(AtStages!Swapped(s2, k))]
    BY <1>4 DEF AtStages!Move
  <2>1. PICK job : job = AtStages!Sent(AtStages!Swapped(s2, k)) /\ s5' = [s5 EXCEPT ![i] = job]
    BY <2>0
  <2>2. UNCHANGED <<s1, s2, s3, s7, s8>>
    BY <1>4 DEF AtStages!Move, AtStages!listVars
  <2>3. AtStages!AtRest /\ s9' = AtStages!Swapped(s2, k)
    BY <1>4, <1>t DEF AtStages!Move
  <2>4. /\ s2 = s1 /\ s3.step = "idle"
        /\ s7.step = "idle" /\ s8.step = "idle" /\ \A j \in Hands : s5[j].step = "idle"
    BY <1>p, <2>3, AskAtRest
  <2>5. \A j \in Hands : s5'[j] = IF j = i THEN job ELSE s5[j]
    BY <1>j, <2>1, OneMoveChanges
  <2>6. job.step = "sent" /\ job.what = s9'
    BY <1>i, <2>1, <2>3
  <2>7. /\ s5'[i].step = "sent" /\ s5'[i].what = s9'
        /\ \A j \in Hands : j # i => s5'[j].step = "idle"
    BY <2>4, <2>5, <2>6
  <2>8. OneAtATime'
    BY <2>2, <2>4, <2>7 DEF OneAtATime
  <2>9. SomeoneWaits'
    BY <2>7 DEF SomeoneWaits, Waits
  <2> QED
    BY <2>2, <2>4, <2>7, <2>8, <2>9 DEF AskIsOnItsWay
<1>5. ASSUME NEW i \in Hands, AtStages!ServerOrders(i) PROVE OneAtATime' /\ AskIsOnItsWay'
  <2>1. PICK how \in {"done", "refused"} :
             /\ s5' = [s5 EXCEPT ![i].step = how]
             /\ \/ how = "done" /\ s1' = s5[i].what
                \/ how = "refused" /\ (AtStages!Unsure(how) \/ s1' = s1)
    BY <1>5 DEF AtStages!ServerOrders
  <2>2. UNCHANGED <<s2, s3, s7, s8, s9>> /\ s5[i].step = "sent"
    BY <1>5 DEF AtStages!ServerOrders, AtStages!listVars, AtStages!askVars
  <2>3. /\ s5'[i].step = how /\ s5'[i].what = s5[i].what
        /\ \A j \in Hands \ {i} : s5'[j] = s5[j]
    BY <1>j, <2>1, <2>2, MoveAnswered
  <2>4. /\ \A j \in Hands : j # i => s5[j].step = "idle"
        /\ s7.step = "idle" /\ s8.step = "idle"
    BY <1>o, <2>2 DEF OneAtATime
  <2>5. SomeoneWaits
    BY <2>2 DEF SomeoneWaits, Waits
  <2>6. s5[i].what = s9 /\ s2 = s1 /\ (s3.step = "read" => s3.order = s1)
    BY <1>a, <2>2, <2>5 DEF AskIsOnItsWay
  <2>7. \A j \in Hands : j # i => s5'[j].step = "idle"
    BY <2>3, <2>4
  <2>8. OneAtATime'
    BY <2>2, <2>4, <2>7 DEF OneAtATime
  <2>9. CASE how = "done" /\ s1' = s5[i].what
    <3>1. ~SomeoneWaits'
      BY <2>2, <2>3, <2>4, <2>7, <2>9 DEF SomeoneWaits, Waits
    <3> QED
      BY <2>2, <2>3, <2>4, <2>6, <2>7, <2>8, <2>9, <3>1 DEF AskIsOnItsWay
  <2>10. CASE how = "refused" /\ s1' = s1
    <3>1. SomeoneWaits'
      BY <2>3, <2>10 DEF SomeoneWaits, Waits
    <3> QED
      BY <2>2, <2>3, <2>4, <2>6, <2>7, <2>8, <2>10, <3>1 DEF AskIsOnItsWay
  <2>11. CASE how = "refused" /\ AtStages!Unsure(how)
    BY <2>11 DEF AtStages!Unsure
  <2> QED
    BY <2>1, <2>9, <2>10, <2>11
<1>6. ASSUME NEW i \in Hands, AtStages!OrderConfirmed(i) \/ AtStages!OrderRefused(i) PROVE OneAtATime' /\ AskIsOnItsWay'
  <2>1. s5' = [s5 EXCEPT ![i] = AtStages!Idle] /\ UNCHANGED <<s1, s2, s7, s8>>
    BY <1>6 DEF AtStages!OrderConfirmed, AtStages!OrderRefused, AtStages!listVars
  <2>2. s5[i].step \in {"done", "refused"}
    BY <1>6 DEF AtStages!OrderConfirmed, AtStages!OrderRefused
  <2>3. \A j \in Hands : s5'[j] = IF j = i THEN AtStages!Idle ELSE s5[j]
    BY <1>j, <2>1, OneMoveChanges
  <2>4. /\ \A j \in Hands : j # i => s5[j].step = "idle"
        /\ s7.step = "idle" /\ s8.step = "idle"
    BY <1>o, <2>2 DEF OneAtATime
  <2>5. \A j \in Hands : s5'[j].step = "idle"
    BY <1>i, <2>3, <2>4
  <2>6. OneAtATime' /\ ~SomeoneWaits'
    BY <2>1, <2>4, <2>5 DEF OneAtATime, SomeoneWaits, Waits
  <2>7. s1' = s9'
    <3>1. CASE AtStages!OrderConfirmed(i)
      <4>1. s5[i].step = "done" /\ s9' = s9
        BY <3>1 DEF AtStages!OrderConfirmed, AtStages!askVars
      <4>2. ~SomeoneWaits
        BY <2>4, <4>1 DEF SomeoneWaits, Waits
      <4> QED
        BY <1>a, <2>1, <4>1, <4>2 DEF AskIsOnItsWay
    <3>2. CASE AtStages!OrderRefused(i)
      <4>1. s5[i].step = "refused" /\ s9' = s2
        BY <3>2 DEF AtStages!OrderRefused
      <4>2. SomeoneWaits
        BY <4>1 DEF SomeoneWaits, Waits
      <4> QED
        BY <1>a, <2>1, <4>1, <4>2 DEF AskIsOnItsWay
    <3> QED
      BY <1>6, <3>1, <3>2
  <2> QED
    BY <2>1, <2>4, <2>5, <2>6, <2>7 DEF AskIsOnItsWay
<1>7. ASSUME NEW s \in AtStages!AllStages, AtStages!AskDelete(s) PROVE OneAtATime' /\ AskIsOnItsWay'
  <2>1. UNCHANGED <<s5, s7, s8, s9, s1, s2, s3>>
    BY <1>7 DEF AtStages!AskDelete, AtStages!listVars, AtStages!askVars
  <2> QED
    BY <1>a, <1>q, <2>1 DEF AskIsOnItsWay
<1>8. CASE AtStages!CancelDelete
  <2>1. UNCHANGED <<s5, s7, s8, s9, s1, s2, s3>>
    BY <1>8 DEF AtStages!CancelDelete, AtStages!listVars, AtStages!askVars
  <2> QED
    BY <1>a, <1>q, <2>1 DEF AskIsOnItsWay
<1>9. CASE AtStages!ConfirmDelete
  <2>1. s7' = AtStages!Sent(s6) /\ UNCHANGED <<s1, s2, s3, s5, s8>>
    BY <1>9 DEF AtStages!ConfirmDelete, AtStages!listVars
  <2>2. AtStages!AtRest /\ s9' = AtStages!Without(s2, s6)
    BY <1>9, <1>t DEF AtStages!ConfirmDelete
  <2>3. /\ s2 = s1 /\ s3.step = "idle"
        /\ s8.step = "idle" /\ \A j \in Hands : s5[j].step = "idle"
    BY <1>p, <2>2, AskAtRest
  <2>4. s7'.step = "sent" /\ s7'.what = s6
    BY <1>i, <2>1
  <2>5. OneAtATime' /\ SomeoneWaits'
    BY <2>1, <2>3, <2>4 DEF OneAtATime, SomeoneWaits, Waits
  <2>6. AtStages!Without(s1', s7'.what) = s9'
    BY <2>1, <2>2, <2>3, <2>4
  <2> QED
    BY <2>1, <2>3, <2>5, <2>6 DEF AskIsOnItsWay
<1>10. ASSUME NEW s \in AtStages!AllStages, AtStages!AddStage(s) PROVE OneAtATime' /\ AskIsOnItsWay'
  <2>1. s8' = AtStages!Sent(s) /\ UNCHANGED <<s1, s2, s3, s5, s7>>
    BY <1>10 DEF AtStages!AddStage, AtStages!listVars
  <2>2. AtStages!AtRest /\ s9' = Append(s2, s)
    BY <1>10, <1>t DEF AtStages!AddStage
  <2>3. /\ s2 = s1 /\ s3.step = "idle"
        /\ s7.step = "idle" /\ \A j \in Hands : s5[j].step = "idle"
    BY <1>p, <2>2, AskAtRest
  <2>4. s8'.step = "sent" /\ s8'.what = s
    BY <1>i, <2>1
  <2>5. OneAtATime' /\ SomeoneWaits'
    BY <2>1, <2>3, <2>4 DEF OneAtATime, SomeoneWaits, Waits
  <2>6. Append(s1', s8'.what) = s9'
    BY <2>1, <2>2, <2>3, <2>4
  <2> QED
    BY <2>1, <2>3, <2>5, <2>6 DEF AskIsOnItsWay
<1>11. CASE AtStages!ServerDeletes
  <2>1. PICK how \in {"done", "refused"} :
             /\ s7' = [s7 EXCEPT !.step = how]
             /\ \/ how = "done" /\ s1' = AtStages!Without(s1, s7.what)
                \/ how = "refused" /\ (AtStages!Unsure(how) \/ s1' = s1)
    BY <1>11 DEF AtStages!ServerDeletes
  <2>2. UNCHANGED <<s2, s3, s5, s8, s9>> /\ s7.step = "sent"
    BY <1>11 DEF AtStages!ServerDeletes, AtStages!listVars, AtStages!askVars
  <2>3. s7'.step = how /\ s7'.what = s7.what
    BY <1>j, <2>1, <2>2, JobFields, JobAnswered
  <2>4. s8.step = "idle" /\ \A j \in Hands : s5[j].step = "idle"
    BY <1>o, <2>2 DEF OneAtATime
  <2>5. OneAtATime' /\ SomeoneWaits
    BY <2>2, <2>4 DEF OneAtATime, SomeoneWaits, Waits
  <2>6. AtStages!Without(s1, s7.what) = s9 /\ s2 = s1 /\ (s3.step = "read" => s3.order = s1)
    BY <1>a, <2>2, <2>5 DEF AskIsOnItsWay
  <2>7. CASE how = "done" /\ s1' = AtStages!Without(s1, s7.what)
    <3>1. ~SomeoneWaits'
      BY <2>2, <2>3, <2>4, <2>7 DEF SomeoneWaits, Waits
    <3> QED
      BY <2>2, <2>3, <2>4, <2>5, <2>6, <2>7, <3>1 DEF AskIsOnItsWay
  <2>8. CASE how = "refused" /\ s1' = s1
    <3>1. SomeoneWaits'
      BY <2>3, <2>8 DEF SomeoneWaits, Waits
    <3> QED
      BY <2>2, <2>3, <2>4, <2>5, <2>6, <2>8, <3>1 DEF AskIsOnItsWay
  <2>9. CASE how = "refused" /\ AtStages!Unsure(how)
    BY <2>9 DEF AtStages!Unsure
  <2> QED
    BY <2>1, <2>7, <2>8, <2>9
<1>12. CASE AtStages!DeleteConfirmed \/ AtStages!DeleteEnds
  <2>1. UNCHANGED <<s1, s2, s5, s8>> /\ s7.step \in {"done", "settling", "refused"}
    BY <1>12 DEF AtStages!DeleteConfirmed, AtStages!DeleteEnds, AtStages!listVars
  <2>2. s8.step = "idle" /\ \A j \in Hands : s5[j].step = "idle"
    BY <1>o, <2>1 DEF OneAtATime
  <2>3. s7'.step \in {"idle", "settling"}
    <3>1. s7 \in StageJob
      BY <1>j, <2>1, JobFields
    <3>2. s7' = [s7 EXCEPT !.step = "settling"] \/ s7' = AtStages!Idle
      BY <1>12 DEF AtStages!DeleteConfirmed, AtStages!DeleteEnds
    <3> QED
      BY <1>i, <3>1, <3>2, JobAnswered
  <2>4. OneAtATime' /\ ~SomeoneWaits' /\ (SomeoneWaits <=> s7.step = "refused")
    BY <2>1, <2>2, <2>3 DEF OneAtATime, SomeoneWaits, Waits
  <2>5. s1' = s9'
    <3>1. CASE s7.step = "refused"
      BY <1>12, <1>a, <2>1, <2>4, <3>1 DEF AtStages!DeleteConfirmed, AtStages!DeleteEnds, AskIsOnItsWay
    <3>2. CASE s7.step # "refused"
      BY <1>12, <1>a, <2>1, <2>4, <3>2 DEF AtStages!DeleteConfirmed, AtStages!DeleteEnds, AskIsOnItsWay,
         AtStages!askVars
    <3> QED
      BY <3>1, <3>2
  <2> QED
    BY <2>1, <2>2, <2>3, <2>4, <2>5 DEF AskIsOnItsWay
<1>13. CASE AtStages!ServerAdds
  <2>1. PICK how \in {"done", "refused"} :
             /\ s8' = [s8 EXCEPT !.step = how]
             /\ \/ how = "done" /\ s1' = Append(s1, s8.what)
                \/ how = "refused" /\ (AtStages!Unsure(how) \/ s1' = s1)
    BY <1>13 DEF AtStages!ServerAdds
  <2>2. UNCHANGED <<s2, s3, s5, s7, s9>> /\ s8.step = "sent"
    BY <1>13 DEF AtStages!ServerAdds, AtStages!listVars, AtStages!askVars
  <2>3. s8'.step = how /\ s8'.what = s8.what
    BY <1>j, <2>1, <2>2, JobFields, JobAnswered
  <2>4. s7.step = "idle" /\ \A j \in Hands : s5[j].step = "idle"
    BY <1>o, <2>2 DEF OneAtATime
  <2>5. OneAtATime' /\ SomeoneWaits
    BY <2>2, <2>4 DEF OneAtATime, SomeoneWaits, Waits
  <2>6. Append(s1, s8.what) = s9 /\ s2 = s1 /\ (s3.step = "read" => s3.order = s1)
    BY <1>a, <2>2, <2>5 DEF AskIsOnItsWay
  <2>7. CASE how = "done" /\ s1' = Append(s1, s8.what)
    <3>1. ~SomeoneWaits'
      BY <2>2, <2>3, <2>4, <2>7 DEF SomeoneWaits, Waits
    <3> QED
      BY <2>2, <2>3, <2>4, <2>5, <2>6, <2>7, <3>1 DEF AskIsOnItsWay
  <2>8. CASE how = "refused" /\ s1' = s1
    <3>1. SomeoneWaits'
      BY <2>3, <2>8 DEF SomeoneWaits, Waits
    <3> QED
      BY <2>2, <2>3, <2>4, <2>5, <2>6, <2>8, <3>1 DEF AskIsOnItsWay
  <2>9. CASE how = "refused" /\ AtStages!Unsure(how)
    BY <2>9 DEF AtStages!Unsure
  <2> QED
    BY <2>1, <2>7, <2>8, <2>9
<1>14. CASE AtStages!AddConfirmed \/ AtStages!AddEnds
  <2>1. UNCHANGED <<s1, s2, s5, s7>> /\ s8.step \in {"done", "settling", "refused"}
    BY <1>14 DEF AtStages!AddConfirmed, AtStages!AddEnds, AtStages!listVars
  <2>2. s7.step = "idle" /\ \A j \in Hands : s5[j].step = "idle"
    BY <1>o, <2>1 DEF OneAtATime
  <2>3. s8'.step \in {"idle", "settling"}
    <3>1. s8 \in StageJob
      BY <1>j, <2>1, JobFields
    <3>2. s8' = [s8 EXCEPT !.step = "settling"] \/ s8' = AtStages!Idle
      BY <1>14 DEF AtStages!AddConfirmed, AtStages!AddEnds
    <3> QED
      BY <1>i, <3>1, <3>2, JobAnswered
  <2>4. OneAtATime' /\ ~SomeoneWaits' /\ (SomeoneWaits <=> s8.step = "refused")
    BY <2>1, <2>2, <2>3 DEF OneAtATime, SomeoneWaits, Waits
  <2>5. s1' = s9'
    <3>1. CASE s8.step = "refused"
      BY <1>14, <1>a, <2>1, <2>4, <3>1 DEF AtStages!AddConfirmed, AtStages!AddEnds, AskIsOnItsWay
    <3>2. CASE s8.step # "refused"
      BY <1>14, <1>a, <2>1, <2>4, <3>2 DEF AtStages!AddConfirmed, AtStages!AddEnds, AskIsOnItsWay,
         AtStages!askVars
    <3> QED
      BY <3>1, <3>2
  <2> QED
    BY <2>1, <2>2, <2>3, <2>4, <2>5 DEF AskIsOnItsWay
<1>15. CASE AtStages!OtherAdmin
  BY <1>15 DEF AtStages!OtherAdmin, AtStages!Meddles
<1> QED
  BY <1>1, <1>2, <1>3, <1>4, <1>5, <1>6, <1>7, <1>8, <1>9, <1>10, <1>11, <1>12, <1>13, <1>14,
     <1>15 DEF AtStages!StagesNext

LEMMA StagesStay == StagesInv /\ [AtStages!StagesNext]_AtStages!stagesVars => StagesInv'
<1> SUFFICES ASSUME StagesInv, [AtStages!StagesNext]_AtStages!stagesVars PROVE StagesInv'
  OBVIOUS
<1>1. CASE AtStages!StagesNext
  BY <1>1, ListsStayOrders, ListStaysCurrent, AskStaysOnItsWay DEF StagesInv
<1>2. CASE UNCHANGED AtStages!stagesVars
  <2>1. UNCHANGED <<s1, s2, s3, s4, s5, s6, s7, s8, s9, s10, s11, s12, s13, s14>>
    BY <1>2 DEF AtStages!stagesVars
  <2>2. ListsAreOrders' /\ ListIsCurrent'
    BY <2>1 DEF StagesInv, ListsAreOrders, ListIsCurrent, WillBeRead
  <2>3. OneAtATime => OneAtATime'
    BY <2>1 DEF OneAtATime
  <2>4. AskIsOnItsWay => AskIsOnItsWay'
    BY <2>1 DEF AskIsOnItsWay, SomeoneWaits
  <2> QED
    BY <2>1, <2>2, <2>3, <2>4 DEF StagesInv
<1> QED
  BY <1>1, <1>2

\* The list is of stages that were made, wherever it is, and what the admin asked for is an order.
Asked == {AtStages!NoFetch, AtStages!AskedFor} \cup [step : {"read"}, order : AtStages!Orders]
StagesTyped ==
  /\ IsOrder(s9) /\ s3 \in Asked /\ s4 \in BOOLEAN /\ taps \in Nat
  /\ AtStages!Range(s2) \subseteq s13 /\ (s3.step = "read" => AtStages!Range(s3.order) \subseteq s13)

LEMMA OrdersAre == \A o : IsOrder(o) <=> o \in AtStages!Orders
  BY DEF IsOrder, AtStages!Orders

LEMMA StagesTypes == StagesInv /\ StagesTyped => AtStages!StagesTypeOK
<1> SUFFICES ASSUME StagesInv, StagesTyped PROVE AtStages!StagesTypeOK
  OBVIOUS
<1>1. {s1, s2, s9} \subseteq AtStages!Orders
  BY OrdersAre DEF StagesInv, StagesTyped, ListsAreOrders
<1>2. s3 \in [step : {"idle", "asked", "read"}, order : AtStages!Orders]
  <2>1. << >> \in AtStages!Orders
    BY EmptySeq DEF AtStages!Orders, AtStages!IsInjective
  <2> QED
    BY <2>1 DEF StagesTyped, Asked, AtStages!NoFetch, AtStages!AskedFor
<1>3. s5 \in [Hands -> {AtStages!Idle} \cup [step : {"sent", "done", "refused"}, what : AtStages!Orders]]
  <2> SUFFICES ASSUME NEW i \in Hands
               PROVE  s5[i] \in {AtStages!Idle} \cup [step : {"sent", "done", "refused"}, what : AtStages!Orders]
    BY DEF StagesInv, ListsAreOrders
  <2>1. CASE s5[i] = AtStages!Idle
    BY <2>1
  <2>2. CASE s5[i] \in MoveJob
    <3>1. s5[i].step \in {"sent", "done", "refused"} /\ s5[i] = [step |-> s5[i].step, what |-> s5[i].what]
      BY <2>2 DEF MoveJob
    <3>2. s5[i].what \in AtStages!Orders
      BY <3>1, OrdersAre DEF StagesInv, ListsAreOrders
    <3> QED
      BY <3>1, <3>2
  <2> QED
    BY <2>1, <2>2 DEF StagesInv, ListsAreOrders
<1>4. /\ s6 \in AtStages!AllStages \cup {None} /\ {s4, s10, s11, s12} \subseteq BOOLEAN /\ taps \in Nat
      /\ s13 \subseteq AtStages!AllStages /\ s14 \subseteq AtStages!AllStages
  BY DEF StagesInv, StagesTyped, ListsAreOrders
<1>5. {s7, s8} \subseteq {AtStages!Idle} \cup [step : {"sent", "done", "settling", "refused"}, what : AtStages!AllStages]
  BY DEF StagesInv, ListsAreOrders, StageJob
<1> QED
  BY <1>1, <1>2, <1>3, <1>4, <1>5 DEF AtStages!StagesTypeOK

LEMMA StagesTypesStart == AtStages!StagesInit => StagesTyped
<1> SUFFICES ASSUME AtStages!StagesInit PROVE StagesTyped
  OBVIOUS
<1>1. IsOrder(s9)
  BY StagesStart DEF AtStages!StagesInit, StagesInv, ListsAreOrders
<1>2. s2 = GivenStages /\ s3 = AtStages!NoFetch /\ s13 = AtStages!Range(GivenStages) /\ taps = 0
  BY DEF AtStages!StagesInit
<1>3. s4 \in BOOLEAN
  BY Zenon DEF AtStages!StagesInit
<1>4. s3.step # "read"
  BY <1>2 DEF AtStages!NoFetch
<1> QED
  BY <1>1, <1>2, <1>3, <1>4 DEF StagesTyped, Asked

LEMMA ListMoves == [AtStages!StagesNext]_AtStages!stagesVars => s2' = s2 \/ (s3.step = "read" /\ s2' = s3.order)
  BY DEF AtStages!StagesNext, AtStages!ServerReads, AtStages!ListArrives, AtStages!ListFails, AtStages!Revisit,
     AtStages!Move, AtStages!ServerOrders, AtStages!OrderConfirmed, AtStages!OrderRefused, AtStages!AskDelete,
     AtStages!CancelDelete, AtStages!ConfirmDelete, AtStages!ServerDeletes, AtStages!DeleteConfirmed,
     AtStages!DeleteEnds, AtStages!AddStage, AtStages!ServerAdds, AtStages!AddConfirmed, AtStages!AddEnds,
     AtStages!OtherAdmin, AtStages!Meddles, AtStages!Invalidates, AtStages!Asks, AtStages!Tap, AtStages!listVars,
     AtStages!askVars, AtStages!pastVars, AtStages!stagesVars

LEMMA FetchMoves ==
  [AtStages!StagesNext]_AtStages!stagesVars
    => \/ s3' = s3 \/ s3' = AtStages!NoFetch \/ s3' = AtStages!AskedFor
       \/ s3' = [step |-> "read", order |-> s1] /\ s13' = s13
  BY DEF AtStages!StagesNext, AtStages!ServerReads, AtStages!ListArrives, AtStages!ListFails, AtStages!Revisit,
     AtStages!Move, AtStages!ServerOrders, AtStages!OrderConfirmed, AtStages!OrderRefused, AtStages!AskDelete,
     AtStages!CancelDelete, AtStages!ConfirmDelete, AtStages!ServerDeletes, AtStages!DeleteConfirmed,
     AtStages!DeleteEnds, AtStages!AddStage, AtStages!ServerAdds, AtStages!AddConfirmed, AtStages!AddEnds,
     AtStages!OtherAdmin, AtStages!Meddles, AtStages!Invalidates, AtStages!Asks, AtStages!Tap, AtStages!listVars,
     AtStages!askVars, AtStages!pastVars, AtStages!stagesVars

LEMMA MadeGrows == [AtStages!StagesNext]_AtStages!stagesVars => s13 \subseteq s13'
  BY DEF AtStages!StagesNext, AtStages!ServerReads, AtStages!ListArrives, AtStages!ListFails, AtStages!Revisit,
     AtStages!Move, AtStages!ServerOrders, AtStages!OrderConfirmed, AtStages!OrderRefused, AtStages!AskDelete,
     AtStages!CancelDelete, AtStages!ConfirmDelete, AtStages!ServerDeletes, AtStages!DeleteConfirmed,
     AtStages!DeleteEnds, AtStages!AddStage, AtStages!ServerAdds, AtStages!AddConfirmed, AtStages!AddEnds,
     AtStages!OtherAdmin, AtStages!Meddles, AtStages!Invalidates, AtStages!Asks, AtStages!Tap, AtStages!listVars,
     AtStages!askVars, AtStages!pastVars, AtStages!stagesVars

LEMMA AskMoves ==
  [AtStages!StagesNext]_AtStages!stagesVars
    => \/ s9' = s9 \/ s9' = s2
       \/ \E k \in 1 .. Len(s2) - 1 : s9' = AtStages!Swapped(s2, k)
       \/ \E s : s9' = AtStages!Without(s2, s)
       \/ \E s \in Spare \ s13 : s9' = Append(s2, s)
  BY DEF AtStages!StagesNext, AtStages!ServerReads, AtStages!ListArrives, AtStages!ListFails, AtStages!Revisit,
     AtStages!Move, AtStages!ServerOrders, AtStages!OrderConfirmed, AtStages!OrderRefused, AtStages!AskDelete,
     AtStages!CancelDelete, AtStages!ConfirmDelete, AtStages!ServerDeletes, AtStages!DeleteConfirmed,
     AtStages!DeleteEnds, AtStages!AddStage, AtStages!ServerAdds, AtStages!AddConfirmed, AtStages!AddEnds,
     AtStages!OtherAdmin, AtStages!Meddles, AtStages!Invalidates, AtStages!Asks, AtStages!Tap, AtStages!listVars,
     AtStages!askVars, AtStages!pastVars, AtStages!stagesVars

LEMMA RestMoves ==
  [AtStages!StagesNext]_AtStages!stagesVars
    => (s4' = s4 \/ s4' = TRUE \/ s4' = FALSE) /\ (taps' = taps \/ taps' = taps + 1)
  BY DEF AtStages!StagesNext, AtStages!ServerReads, AtStages!ListArrives, AtStages!ListFails, AtStages!Revisit,
     AtStages!Move, AtStages!ServerOrders, AtStages!OrderConfirmed, AtStages!OrderRefused, AtStages!AskDelete,
     AtStages!CancelDelete, AtStages!ConfirmDelete, AtStages!ServerDeletes, AtStages!DeleteConfirmed,
     AtStages!DeleteEnds, AtStages!AddStage, AtStages!ServerAdds, AtStages!AddConfirmed, AtStages!AddEnds,
     AtStages!OtherAdmin, AtStages!Meddles, AtStages!Invalidates, AtStages!Asks, AtStages!Tap, AtStages!listVars,
     AtStages!askVars, AtStages!pastVars, AtStages!stagesVars

LEMMA StagesTypesStay == StagesInv /\ StagesTyped /\ [AtStages!StagesNext]_AtStages!stagesVars => StagesTyped'
<1> SUFFICES ASSUME StagesInv, StagesTyped, [AtStages!StagesNext]_AtStages!stagesVars PROVE StagesTyped'
  OBVIOUS
<1>1. /\ IsOrder(s1) /\ IsOrder(s2) /\ IsOrder(s9) /\ (s3.step = "read" => IsOrder(s3.order))
      /\ AtStages!Range(s1) \subseteq s13 /\ Spare \subseteq AtStages!AllStages
  BY DEF StagesInv, ListsAreOrders, StagesTyped, AtStages!AllStages
<1>2. IsOrder(s9')
  <2>1. CASE \E k \in 1 .. Len(s2) - 1 : s9' = AtStages!Swapped(s2, k)
    BY <1>1, <2>1, SwappedKeepsStages
  <2>2. CASE \E s : s9' = AtStages!Without(s2, s)
    BY <1>1, <2>2, WithoutDropsOne
  <2>3. CASE \E s \in Spare \ s13 : s9' = Append(s2, s)
    <3>1. PICK s \in Spare \ s13 : s9' = Append(s2, s)
      BY <2>3
    <3>2. s \in AtStages!AllStages /\ s \notin AtStages!Range(s2)
      BY <1>1 DEF StagesTyped
    <3> QED
      BY <1>1, <3>1, <3>2, AppendedAddsOne
  <2> QED
    BY <1>1, <2>1, <2>2, <2>3, AskMoves
<1>3. s3' \in Asked
  <2>1. [step |-> "read", order |-> s1] \in Asked
    BY <1>1, OrdersAre DEF Asked
  <2> QED
    BY <2>1, FetchMoves DEF StagesTyped, Asked
<1>4. s13 \subseteq s13'
  BY MadeGrows
<1>5. AtStages!Range(s2') \subseteq s13'
  BY <1>4, ListMoves DEF StagesTyped
<1>6. s3'.step = "read" => AtStages!Range(s3'.order) \subseteq s13'
  <2>1. AtStages!NoFetch.step # "read" /\ AtStages!AskedFor.step # "read"
    BY DEF AtStages!NoFetch, AtStages!AskedFor
  <2>2. CASE s3' = [step |-> "read", order |-> s1] /\ s13' = s13
    BY <1>1, <2>2
  <2> QED
    BY <1>4, <2>1, <2>2, FetchMoves DEF StagesTyped
<1>7. s4' \in BOOLEAN
  <2>1. s4' = s4 \/ s4' = TRUE \/ s4' = FALSE
    BY RestMoves
  <2> QED
    BY <2>1 DEF StagesTyped
<1>8. taps' \in Nat
  <2>1. taps' = taps \/ taps' = taps + 1
    BY RestMoves
  <2> QED
    BY <2>1 DEF StagesTyped
<1> QED
  BY <1>2, <1>3, <1>5, <1>6, <1>7, <1>8 DEF StagesTyped

-----------------------------------------------------------------------------
(***************************************************************************)
(* How a deal is won and lost.                                              *)
(***************************************************************************)
\* A reason that is on its way was told for the deal it goes to.
SentWasTold == \A f \in s6 : f.do.op = "lose" => f.do.reason \in s7[f.deal]

LifeInv ==
  /\ s2 \in [Deals -> AtLife!Deal] /\ s3 \in [Deals -> AtLife!Deal] /\ s7 \in [Deals -> SUBSET Reasons] /\ s6 \subseteq AtLife!Flight
  /\ s5 \in {None} \cup [deal : Deals, stage : AtLife!Stages] /\ s4 \in Deals \cup {None}
  /\ SentWasTold /\ AtLife!ReasonReachesItsDeal /\ AtLife!ClosedMeansDecided

\* What the API makes of a deal is a deal, closed exactly when it is decided, with a reason
\* it had or was given.
LEMMA AppliedIsDecided ==
  ASSUME NEW r \in AtLife!Deal, NEW do \in AtLife!Ops, r.closed <=> r.stage \in {Won, Lost} \/ r.reason # None
  PROVE  LET u == AtLife!Applied(r, do)
         IN  /\ u \in AtLife!Deal /\ (u.closed <=> u.stage \in {Won, Lost} \/ u.reason # None)
             /\ u.reason \in {r.reason, None} \/ (do.op = "lose" /\ u.reason = do.reason)
<1>1. Open1 # Open2 /\ Won # Lost /\ {Open1, Open2} \cap {Won, Lost} = {} /\ None \notin Reasons
  BY DealsAssumption DEF AtLife!LifeAssumption
<1>2. CASE do.op = "win"
  BY <1>1, <1>2 DEF AtLife!Applied, AtLife!MarkedWon, AtLife!Deal, AtLife!Stages
<1>3. CASE do.op = "lose"
  <2>1. do.reason \in Reasons
    BY <1>3 DEF AtLife!Ops
  <2> QED
    BY <1>1, <1>3, <2>1 DEF AtLife!Applied, AtLife!MarkedLost, AtLife!Deal, AtLife!Stages
<1>4. CASE do.op = "reopen"
  BY <1>1, <1>4 DEF AtLife!Applied, AtLife!Reopened, AtLife!Deal, AtLife!Stages
<1>5. CASE do.op = "pay"
  <2>1. do.paid \in BOOLEAN
    BY <1>5 DEF AtLife!Ops
  <2> QED
    BY <1>1, <1>5, <2>1 DEF AtLife!Applied, AtLife!Deal
<1>6. CASE do.op \in {"move", "put"}
  <2>1. do.stage \in AtLife!Stages
    BY <1>6 DEF AtLife!Ops
  <2>2. AtLife!Applied(r, do) = AtLife!Entered(r, do.stage)
    BY <1>6 DEF AtLife!Applied
  <2> DEFINE u == AtLife!Entered(r, do.stage)
  <2>3. /\ u.stage = do.stage /\ (u.closed <=> IF do.stage = r.stage THEN r.closed ELSE do.stage \in {Won, Lost})
        /\ u.reason = IF do.stage = Lost \/ do.stage = r.stage THEN r.reason ELSE None
    BY DEF AtLife!Entered
  <2>4. u \in AtLife!Deal
    <3>1. u.closed \in BOOLEAN /\ u.paid \in BOOLEAN
      <4>1. r.closed \in BOOLEAN
        BY DEF AtLife!Deal
      <4>2. (do.stage \in {Won, Lost}) \in BOOLEAN /\ (r.paid /\ ~(r.stage = Won /\ do.stage # Won)) \in BOOLEAN
        OBVIOUS
      <4>3. u.closed = IF do.stage = r.stage THEN r.closed ELSE do.stage \in {Won, Lost}
        BY DEF AtLife!Entered
      <4>4. u.paid = (r.paid /\ ~(r.stage = Won /\ do.stage # Won))
        BY DEF AtLife!Entered
      <4> QED
        BY <4>1, <4>2, <4>3, <4>4, Zenon
    <3>2. u.reason \in Reasons \cup {None} /\ u.stage \in AtLife!Stages
      BY <2>1, <2>3 DEF AtLife!Deal
    <3>3. u = [stage |-> u.stage, closed |-> u.closed, reason |-> u.reason, paid |-> u.paid]
      BY DEF AtLife!Entered
    <3> HIDE DEF u
    <3> QED
      BY <3>1, <3>2, <3>3 DEF AtLife!Deal
  <2> HIDE DEF u
  <2>5. (u.closed <=> u.stage \in {Won, Lost} \/ u.reason # None) /\ u.reason \in {r.reason, None}
    BY <1>1, <2>3, <2>1 DEF AtLife!Deal, AtLife!Stages
  <2> QED
    BY <2>2, <2>4, <2>5 DEF u
<1> QED
  BY <1>2, <1>3, <1>4, <1>5, <1>6 DEF AtLife!Ops

LEMMA LifeStarts == AtLife!LifeInit => LifeInv
<1> SUFFICES ASSUME AtLife!LifeInit PROVE LifeInv
  OBVIOUS
<1>1. {Open1, Open2} \cap {Won, Lost} = {} /\ Won \in AtLife!Stages /\ Open1 \in AtLife!Stages
  BY DealsAssumption DEF AtLife!LifeAssumption, AtLife!Stages
<1>2. ASSUME NEW s \in {Open1, Won}
      PROVE  [stage |-> s, closed |-> s = Won, reason |-> None, paid |-> FALSE] \in AtLife!Deal
  BY <1>1 DEF AtLife!Deal
<1>3. s2 \in [Deals -> AtLife!Deal] /\ s3 = s2
  <2> DEFINE S == {[stage |-> s, closed |-> s = Won, reason |-> None, paid |-> FALSE] : s \in {Open1, Won}}
  <2>1. S \subseteq AtLife!Deal
    BY <1>2
  <2>2. s2 \in [Deals -> S] /\ s3 = s2
    BY DEF AtLife!LifeInit
  <2> HIDE DEF S
  <2> QED
    BY <2>1, <2>2
<1>4. ASSUME NEW d \in Deals
      PROVE  s2[d].reason = None /\ (s2[d].closed <=> s2[d].stage \in {Won, Lost} \/ s2[d].reason # None)
  <2>1. PICK s \in {Open1, Won} : s2[d] = [stage |-> s, closed |-> s = Won, reason |-> None, paid |-> FALSE]
    BY DEF AtLife!LifeInit
  <2>2. s2[d].stage = s /\ s2[d].reason = None
    BY <2>1
  <2>3. s2[d].closed <=> s = Won
    <3>1. s2[d].closed = (s = Won)
      BY <2>1
    <3> QED
      BY <3>1, Zenon
  <2> QED
    BY <1>1, <2>2, <2>3
<1> QED
  BY <1>3, <1>4 DEF AtLife!LifeInit, LifeInv, SentWasTold, AtLife!ReasonReachesItsDeal,
     AtLife!ClosedMeansDecided

\* A request that leaves carries a reason that was told for its deal.
LEMMA SendingKeepsLife ==
  ASSUME LifeInv, NEW d \in Deals, NEW do \in AtLife!Ops, AtLife!Sends(d, do), UNCHANGED <<s2, s3, s4>>,
         s5' \in {None} \cup [deal : Deals, stage : AtLife!Stages],
         s7' \in [Deals -> SUBSET Reasons], \A e \in Deals : s7[e] \subseteq s7'[e],
         do.op = "lose" => do.reason \in s7'[d]
  PROVE  LifeInv'
<1> DEFINE f == [deal |-> d, do |-> do, step |-> "sent"]
<1>1. f \in AtLife!Flight /\ s6' = s6 \cup {f}
  BY DEF AtLife!Sends, AtLife!Flight
<1>2. SentWasTold'
  <2>1. ASSUME NEW g \in s6 PROVE g.do.op = "lose" => g.do.reason \in s7'[g.deal]
    BY DEF LifeInv, SentWasTold, AtLife!Flight
  <2> QED
    BY <1>1, <2>1 DEF SentWasTold
<1> QED
  BY <1>1, <1>2 DEF LifeInv, AtLife!ReasonReachesItsDeal, AtLife!ClosedMeansDecided

\* The API does what it is asked to a deal, and a reason it stores was told.
LEMMA ApplyingKeepsLife ==
  ASSUME LifeInv, NEW d \in Deals, NEW do \in AtLife!Ops, s2' = [s2 EXCEPT ![d] = AtLife!Applied(@, do)],
         do.op = "lose" => do.reason \in s7[d], UNCHANGED s7
  PROVE  (s2 \in [Deals -> AtLife!Deal] /\ AtLife!ReasonReachesItsDeal /\ AtLife!ClosedMeansDecided)'
<1>1. s2[d] \in AtLife!Deal /\ s2[d].reason \in s7[d] \cup {None}
      /\ (s2[d].closed <=> s2[d].stage \in {Won, Lost} \/ s2[d].reason # None)
  BY DEF LifeInv, AtLife!ReasonReachesItsDeal, AtLife!ClosedMeansDecided
<1> DEFINE u == AtLife!Applied(s2[d], do)
<1>2. /\ u \in AtLife!Deal /\ (u.closed <=> u.stage \in {Won, Lost} \/ u.reason # None)
      /\ u.reason \in s7[d] \cup {None}
  BY <1>1, AppliedIsDecided
<1>3. s2' = [s2 EXCEPT ![d] = u] /\ s2 \in [Deals -> AtLife!Deal]
  BY DEF LifeInv
<1> HIDE DEF u
<1> QED
  BY <1>2, <1>3 DEF LifeInv, AtLife!ReasonReachesItsDeal, AtLife!ClosedMeansDecided

LEMMA LifeStays == LifeInv /\ [AtLife!LifeNext]_AtLife!lifeVars => LifeInv'
<1> SUFFICES ASSUME LifeInv, [AtLife!LifeNext]_AtLife!lifeVars PROVE LifeInv'
  OBVIOUS
<1> USE DEF LifeInv
<1>0. [op |-> "win"] \in AtLife!Ops /\ [op |-> "reopen"] \in AtLife!Ops /\ None \notin Deals
  BY DealsAssumption DEF AtLife!Ops, AtLife!LifeAssumption
<1>1. ASSUME NEW d \in Deals, AtLife!WinDeal(d) PROVE LifeInv'
  <2> HIDE DEF LifeInv
  <2> QED
    BY <1>0, <1>1, SendingKeepsLife DEF AtLife!WinDeal, LifeInv
<1>2. ASSUME NEW d \in Deals, AtLife!TogglePayment(d) PROVE LifeInv'
  <2> DEFINE do == [op |-> "pay", paid |-> ~s3[d].paid]
  <2>1. do \in AtLife!Ops /\ do.op = "pay"
    BY DEF AtLife!Ops
  <2>2. AtLife!Sends(d, do)
    BY <1>2 DEF AtLife!TogglePayment
  <2> HIDE DEF LifeInv, do
  <2> QED
    BY <1>2, <2>1, <2>2, SendingKeepsLife DEF AtLife!TogglePayment, LifeInv
<1>3. ASSUME NEW why \in Reasons, AtLife!ConfirmLose(why) PROVE LifeInv'
  <2> DEFINE do == [op |-> "lose", reason |-> why]
  <2>1. do \in AtLife!Ops /\ do.op = "lose" /\ do.reason = why
    BY DEF AtLife!Ops
  <2>2. s4 \in Deals /\ AtLife!Sends(s4, do) /\ s7' = [s7 EXCEPT ![s4] = @ \cup {why}]
    BY <1>3 DEF AtLife!ConfirmLose
  <2>3. s7' \in [Deals -> SUBSET Reasons] /\ why \in s7'[s4] /\ \A e \in Deals : s7[e] \subseteq s7'[e]
    BY <2>2
  <2> HIDE DEF LifeInv, do
  <2> QED
    BY <1>3, <2>1, <2>2, <2>3, SendingKeepsLife DEF AtLife!ConfirmLose, LifeInv
<1>4. ASSUME NEW d \in Deals, AtLife!ReopenDeal(d) PROVE LifeInv'
  <2> HIDE DEF LifeInv
  <2> QED
    BY <1>0, <1>4, SendingKeepsLife DEF AtLife!ReopenDeal, LifeInv
<1>5. ASSUME NEW s \in AtLife!Board, AtLife!SaveEdit(s) PROVE LifeInv'
  <2> DEFINE do == [op |-> "put", stage |-> s]
  <2>1. do \in AtLife!Ops /\ do.op = "put" /\ s \in AtLife!Stages
    BY DEF AtLife!Ops, AtLife!Board
  <2>2. s5 \in [deal : Deals, stage : AtLife!Stages] /\ AtLife!Sends(s5.deal, do) /\ s5' \in [deal : Deals, stage : AtLife!Stages]
    BY <1>5, <2>1 DEF AtLife!SaveEdit
  <2> HIDE DEF LifeInv, do
  <2> QED
    BY <1>5, <2>1, <2>2, SendingKeepsLife DEF AtLife!SaveEdit, LifeInv
<1>6. ASSUME NEW f \in s6, AtLife!ServerAnswers(f) PROVE LifeInv'
  <2>1. f \in AtLife!Flight /\ f.deal \in Deals /\ f.do \in AtLife!Ops /\ (f.do.op = "lose" => f.do.reason \in s7[f.deal])
    BY DEF AtLife!Flight, SentWasTold
  <2>2. ASSUME NEW how \in {"ok", "refused"}, s6' = (s6 \ {f}) \cup {[f EXCEPT !.step = how]}
        PROVE  (s6 \subseteq AtLife!Flight /\ SentWasTold)'
    <3>1. [f EXCEPT !.step = how] \in AtLife!Flight /\ [f EXCEPT !.step = how].do = f.do /\ [f EXCEPT !.step = how].deal = f.deal
      BY <2>1 DEF AtLife!Flight
    <3>2. s7' = s7
      BY <1>6 DEF AtLife!ServerAnswers
    <3> QED
      BY <2>1, <2>2, <3>1, <3>2 DEF SentWasTold
  <2>3. CASE s2' = [s2 EXCEPT ![f.deal] = AtLife!Applied(@, f.do)]
             /\ s6' = (s6 \ {f}) \cup {[f EXCEPT !.step = "ok"]}
    <3>1. (s2 \in [Deals -> AtLife!Deal] /\ AtLife!ReasonReachesItsDeal /\ AtLife!ClosedMeansDecided)'
      <4> HIDE DEF LifeInv
      <4> QED
        BY <1>6, <2>1, <2>3, ApplyingKeepsLife DEF AtLife!ServerAnswers
    <3> QED
      BY <1>6, <2>2, <2>3, <3>1 DEF AtLife!ServerAnswers
  <2>4. CASE s2' = s2 /\ s6' = (s6 \ {f}) \cup {[f EXCEPT !.step = "refused"]}
    <3>1. UNCHANGED <<s7, s3, s4, s5>>
      BY <1>6 DEF AtLife!ServerAnswers
    <3> QED
      BY <2>2, <2>4, <3>1 DEF AtLife!ReasonReachesItsDeal, AtLife!ClosedMeansDecided
  <2> QED
    BY <1>6, <2>3, <2>4 DEF AtLife!ServerAnswers
<1>7. ASSUME NEW d \in Deals, AtLife!Colleague(d) PROVE LifeInv'
  <2>1. PICK do \in [op : {"win", "reopen"}] \cup [op : {"pay"}, paid : BOOLEAN] \cup [op : {"move"}, stage : AtLife!Board] :
          s2' = [s2 EXCEPT ![d] = AtLife!Applied(@, do)]
    BY <1>7 DEF AtLife!Colleague
  <2>2. do \in AtLife!Ops /\ do.op # "lose"
    BY DEF AtLife!Ops, AtLife!Board
  <2>3. (s2 \in [Deals -> AtLife!Deal] /\ AtLife!ReasonReachesItsDeal /\ AtLife!ClosedMeansDecided)'
    <3> HIDE DEF LifeInv
    <3> QED
      BY <1>7, <2>1, <2>2, ApplyingKeepsLife DEF AtLife!Colleague
  <2> QED
    BY <1>7, <2>3 DEF AtLife!Colleague, SentWasTold
\* The rest sends nothing and leaves the server alone.
<1>8. ASSUME s6' \subseteq s6, UNCHANGED <<s2, s7>>,
             s5' \in {None} \cup [deal : Deals, stage : AtLife!Stages], s4' \in Deals \cup {None},
             s3' \in {s3, s2}
      PROVE  LifeInv'
  BY <1>8 DEF SentWasTold, AtLife!ReasonReachesItsDeal, AtLife!ClosedMeansDecided
<1>9. ASSUME NEW d \in Deals, AtLife!AskReason(d) PROVE LifeInv'
  BY <1>8, <1>9 DEF AtLife!AskReason
<1>10. ASSUME NEW d \in Deals, AtLife!StartEditing(d) PROVE LifeInv'
  <2>1. s3[d].stage \in AtLife!Stages
    BY DEF AtLife!Deal
  <2> QED
    BY <1>8, <1>10, <2>1 DEF AtLife!StartEditing
<1>11. ASSUME NEW f \in s6, AtLife!Settles(f) PROVE LifeInv'
  BY <1>8, <1>11 DEF AtLife!Settles
<1>12. CASE AtLife!CancelReason \/ AtLife!CancelEdit \/ AtLife!Refetched \/ UNCHANGED AtLife!lifeVars
  BY <1>8, <1>12 DEF AtLife!CancelReason, AtLife!CancelEdit, AtLife!Refetched, AtLife!lifeVars
<1> QED
  BY <1>1, <1>2, <1>3, <1>4, <1>5, <1>6, <1>7, <1>9, <1>10, <1>11, <1>12 DEF AtLife!LifeNext

\* The rest of its state.
LifeTyped == s1 \in BOOLEAN /\ taps \in 0 .. TapsOf.life

LEMMA LifeTypes == LifeInv /\ LifeTyped => AtLife!LifeTypeOK
  BY DEF LifeInv, LifeTyped, AtLife!LifeTypeOK

LEMMA LifeTypesStart == AtLife!LifeInit => LifeTyped
<1>1. TapsOf.life \in Nat
  BY DealsAssumption DEF AtLife!LifeAssumption
<1> QED
  BY <1>1 DEF AtLife!LifeInit, LifeTyped

LEMMA LifeTypesStay == LifeTyped /\ [AtLife!LifeNext]_AtLife!lifeVars => LifeTyped'
<1> SUFFICES ASSUME LifeTyped, [AtLife!LifeNext]_AtLife!lifeVars PROVE LifeTyped'
  OBVIOUS
<1>1. TapsOf.life \in Nat
  BY DealsAssumption DEF AtLife!LifeAssumption
<1>2. UNCHANGED s1
  BY DEF AtLife!LifeNext, AtLife!WinDeal, AtLife!TogglePayment, AtLife!AskReason, AtLife!ReopenDeal, AtLife!StartEditing,
     AtLife!Colleague, AtLife!ConfirmLose, AtLife!SaveEdit, AtLife!CancelReason, AtLife!CancelEdit, AtLife!Refetched,
     AtLife!ServerAnswers, AtLife!Settles, AtLife!lifeVars
<1>3. UNCHANGED taps \/ (taps < TapsOf.life /\ taps' = taps + 1)
  BY DEF AtLife!LifeNext, AtLife!WinDeal, AtLife!TogglePayment, AtLife!AskReason, AtLife!ReopenDeal, AtLife!StartEditing,
     AtLife!Colleague, AtLife!ConfirmLose, AtLife!SaveEdit, AtLife!CancelReason, AtLife!CancelEdit, AtLife!Refetched,
     AtLife!ServerAnswers, AtLife!Settles, AtLife!lifeVars, AtLife!Sends
<1>4. taps' \in 0 .. TapsOf.life
  BY <1>1, <1>3 DEF LifeTyped
<1> QED
  BY <1>2, <1>4 DEF LifeTyped
=============================================================================
