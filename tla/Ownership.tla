------------------------------- MODULE Ownership -------------------------------
(***************************************************************************)
(* Who owns the companies of one organization, and until when: the requests of *)
(* api/v1/companies.py and api/v1/deals.py that move an owner or his clock, and *)
(* the nightly sweep (services/freeing.py, scheduler.py).  A request, and the    *)
(* sweep, reads and decides in one step and commits in another; no row is     *)
(* locked.  A session writes only the columns it gave a new value.            *)
(***************************************************************************)
EXTENDS Naturals, FiniteSets

CONSTANTS
  Companies, Owners,
  Cap,       \* max_owned_companies of each owner, or None
  Slots,     \* bound: requests at a time
  Sweep,     \* the sweep, of which an advisory lock lets one run
  None,
  MaxTaps    \* bound: requests, and clocks that run out

\* went: how the owner's time began and went on; he was given the company with a new clock,
\* or a deal gave him one, or update_company left him the clock of before, or it ran out.
Owned == [owner : Owners \cup {None}, ahead : BOOLEAN, went : {"given", "put", "ran"}]

OwnershipAssumption ==
  /\ IsFiniteSet(Companies) /\ None \notin Owners \cup Owned
  /\ Cap \in [Owners -> Nat \cup {None}] /\ Sweep \notin Slots /\ MaxTaps \in Nat

VARIABLES
  company,   \* companies, or None: the owner, whether his clock has time left, how it went
  open,      \* rows of ownership_history without a released_at
  reqs,      \* requests and the sweep between their reads and their commit
  stale,     \* those that another commit overtook
  taps

ownershipVars == <<company, open, reqs, stale, taps>>

Idle == [step |-> "idle"]
\* left: update_company or an overtaken commit changed the owner, and left the row.
Rows == [of : Companies, who : Owners, left : BOOLEAN]
Found == [Companies -> Owners \cup {None}]   \* the companies a query found, with the owner that was read
Requests ==
  [step : {"create"}, of : Companies, to : Owners \cup {None}]
    \cup [step : {"update", "reassign", "free"}, of : Companies, seen : Owners \cup {None}, to : Owners \cup {None}]
    \cup [step : {"listed", "found"}, found : Found]

OwnershipTypeOK ==
  /\ company \in [Companies -> {None} \cup Owned]
  /\ open \subseteq Rows
  /\ reqs \in [Slots \cup {Sweep} -> {Idle} \cup Requests]
  /\ stale \subseteq DOMAIN reqs /\ taps \in Nat

-----------------------------------------------------------------------------
There == {c \in Companies : company[c] # None}
OwnedBy(o) == {c \in There : company[c].owner = o}
OwnerOf(c) == company[c].owner

Tap == taps < MaxTaps /\ taps' = taps + 1

Ready(s) == reqs[s] = Idle /\ taps < MaxTaps
Reads(s, request) ==
  /\ Tap /\ reqs' = [reqs EXCEPT ![s] = request]
  /\ UNCHANGED <<company, open, stale>>

Ends(s) == reqs' = [reqs EXCEPT ![s] = Idle]
Overtaken(others) == stale' = {t \in others : reqs[t] # Idle}

\* The columns of an owner, and of his clock.
Goes(row, seen, to, how) == IF to = seen THEN row ELSE [row EXCEPT !.owner = to, !.went = how]
\* Mutant: the new owner inherits the clock.
SameClock(row) == [row EXCEPT !.went = "given"]
NewClock(row) == [row EXCEPT !.ahead = TRUE, !.went = "given"]

\* A commit of the companies now, and the open rows of history then; rows that do not name
\* the owner any more are marked, where the commit is not one that closes them.
Commits(s, now, rows, closes) ==
  /\ company' = now
  /\ open' = {[r EXCEPT !.left = @ \/ (~(closes /\ s \notin stale) /\ now[r.of].owner # r.who)] : r \in rows}
  /\ Ends(s) /\ Overtaken(DOMAIN reqs \ {s}) /\ UNCHANGED taps

\* One for a company that was deleted meanwhile fails as a whole.
Fails(s, needed) ==
  /\ needed \ There # {}
  /\ Ends(s) /\ stale' = stale \ {s} /\ UNCHANGED <<company, open, taps>>

-----------------------------------------------------------------------------
\* Mutant: one company too many.
MayOwnMore(o, c) == Cap[o] # None => Cardinality(OwnedBy(o) \ {c}) <= Cap[o]
\* _assert_owner_cap: the company that moves is not counted.
MayOwn(o, c) == Cap[o] # None => Cardinality(OwnedBy(o) \ {c}) < Cap[o]

\* create_company, for an owner or for the pool.
AsksToCreate(s, c, to) ==
  /\ Ready(s)
  /\ c \notin There /\ \A t \in Slots : reqs[t].step = "create" => reqs[t].of # c
  /\ to # None => MayOwn(to, c)
  /\ Reads(s, [step |-> "create", of |-> c, to |-> to])

Created(s) ==
  /\ reqs[s].step = "create"
  /\ Commits(s, [company EXCEPT ![reqs[s].of] = [owner |-> reqs[s].to, ahead |-> TRUE, went |-> "given"]],
             open, TRUE)

\* update_company: a claim from the pool, a transfer, or a way back; neither the clock
\* nor the history is touched.
AsksToUpdate(s, c, to) ==
  /\ Ready(s)
  /\ c \in There /\ to # OwnerOf(c)
  /\ to # None => MayOwn(to, c)
  /\ Reads(s, [step |-> "update", of |-> c, seen |-> OwnerOf(c), to |-> to])

Updated(s) ==
  /\ reqs[s].step = "update"
  /\ LET r == reqs[s] IN
     \/ r.of \in There /\ Commits(s, [company EXCEPT ![r.of] = Goes(@, r.seen, r.to, "put")], open, FALSE)
     \/ Fails(s, {r.of})

\* Mutant: the row of the former owner stays open.
KeepsRow(c, who) == open
\* _record_release
ClosesRow(c, who) == {r \in open : ~(r.of = c /\ r.who = who)}

\* free_single_company: a company of the pool is left alone.
AsksToFree(s, c) ==
  /\ Ready(s)
  /\ c \in There /\ OwnerOf(c) # None
  /\ Reads(s, [step |-> "free", of |-> c, seen |-> OwnerOf(c), to |-> None])

Freed(s) ==
  /\ reqs[s].step = "free"
  /\ LET r == reqs[s] IN
     \/ /\ r.of \in There
        /\ Commits(s, [company EXCEPT ![r.of] = Goes(@, r.seen, None, "given")], ClosesRow(r.of, r.seen), TRUE)
     \/ Fails(s, {r.of})

\* reassign_company, to the owner of before as well.
AsksToReassign(s, c, to) ==
  /\ Ready(s)
  /\ c \in There /\ MayOwn(to, c)
  /\ Reads(s, [step |-> "reassign", of |-> c, seen |-> OwnerOf(c), to |-> to])

Reassigned(s) ==
  /\ reqs[s].step = "reassign"
  /\ LET r == reqs[s] IN
     \/ /\ r.of \in There
        /\ Commits(s, [company EXCEPT ![r.of] = NewClock(Goes(@, r.seen, r.to, "given"))],
                   ClosesRow(r.of, r.seen) \cup {[of |-> r.of, who |-> r.to, left |-> FALSE]}, TRUE)
     \/ Fails(s, {r.of})

\* A deal of the company is won, by its button or by its stage.
Wins(c) ==
  /\ c \in There /\ Tap
  /\ company' = [company EXCEPT ![c] = NewClock(@)]
  /\ Overtaken(DOMAIN reqs) /\ UNCHANGED <<open, reqs>>

\* delete_company, and its history with it.
Deleted(c) ==
  /\ c \in There /\ Tap
  /\ company' = [company EXCEPT ![c] = None] /\ open' = {r \in open : r.of # c}
  /\ Overtaken(DOMAIN reqs) /\ UNCHANGED reqs

\* ownership_expires_at passes.
RunsOut(c) ==
  /\ c \in There /\ company[c].ahead /\ Tap
  /\ company' = [company EXCEPT ![c].ahead = FALSE, ![c].went = "ran"]
  /\ UNCHANGED <<open, reqs, stale>>

-----------------------------------------------------------------------------
Due == {c \in There : OwnerOf(c) # None /\ ~company[c].ahead}

\* run_freeing_sweep lists the companies for the mails,
SweepLists ==
  /\ Ready(Sweep) /\ Due # {}
  /\ Reads(Sweep, [step |-> "listed", found |-> [c \in Companies |-> IF c \in Due THEN OwnerOf(c) ELSE None]])

\* free_expired_companies asks again, in a session that keeps what it has read,
SweepFinds ==
  /\ reqs[Sweep].step = "listed"
  /\ LET listed == reqs[Sweep].found
         seen(c) == IF listed[c] # None THEN listed[c] ELSE OwnerOf(c)
     IN reqs' = [reqs EXCEPT ![Sweep] =
          [step |-> "found", found |-> [c \in Companies |-> IF c \in Due THEN seen(c) ELSE None]]]
  /\ UNCHANGED <<company, open, stale, taps>>

\* and commits all of them, or none.
SweepFrees ==
  /\ reqs[Sweep].step = "found"
  /\ LET found == reqs[Sweep].found
         taken == {c \in Companies : found[c] # None}
     IN \/ /\ taken \subseteq There
           /\ Commits(Sweep,
                [c \in Companies |-> IF c \in taken THEN Goes(company[c], found[c], None, "given") ELSE company[c]],
                open \ UNION {open \ ClosesRow(c, found[c]) : c \in taken}, TRUE)
        \/ Fails(Sweep, taken)

\* A request, or the sweep, that ends before its commit leaves nothing.
Dies(s) ==
  /\ reqs[s] # Idle /\ Ends(s) /\ stale' = stale \ {s}
  /\ UNCHANGED <<company, open, taps>>

-----------------------------------------------------------------------------
OwnershipInit ==
  /\ company \in [Companies -> {None} \cup [owner : Owners, ahead : {TRUE}, went : {"given"}]]
  /\ \A o \in Owners : Cap[o] # None => Cardinality(OwnedBy(o)) <= Cap[o]
  /\ open = {} /\ reqs = [s \in Slots \cup {Sweep} |-> Idle] /\ stale = {} /\ taps = 0

OwnershipNext ==
  \/ \E s \in Slots :
       \/ \E c \in Companies :
            \/ \E to \in Owners \cup {None} : AsksToCreate(s, c, to) \/ AsksToUpdate(s, c, to)
            \/ \E to \in Owners : AsksToReassign(s, c, to)
            \/ AsksToFree(s, c)
       \/ Created(s) \/ Updated(s) \/ Freed(s) \/ Reassigned(s) \/ Dies(s)
  \/ \E c \in Companies : Wins(c) \/ Deleted(c) \/ RunsOut(c)
  \/ SweepLists \/ SweepFinds \/ SweepFrees \/ Dies(Sweep)

OwnershipSpec == OwnershipInit /\ [][OwnershipNext]_ownershipVars

-----------------------------------------------------------------------------
\* "A Company whose ownership_expires_at has passed AND whose owner still holds it is
\* released": a sweep that no commit overtook takes a company only from an owner in whose
\* time the clock ran out, or who came by update_company, which leaves him the old clock.
TakenWhenDue ==
  reqs[Sweep].step = "found" /\ reqs'[Sweep] = Idle /\ Sweep \notin stale
    => \A c \in There : company'[c] # None /\ OwnerOf(c) # None /\ company'[c].owner = None
         => company[c].went \in {"ran", "put"}

\* No request but one that another commit overtook takes an owner above his cap.
CapIsKept ==
  \A o \in Owners :
    LET owns == {c \in Companies : company'[c] # None /\ company'[c].owner = o}
    IN Cap[o] # None /\ Cardinality(owns) > Cardinality(OwnedBy(o)) /\ Cardinality(owns) > Cap[o]
         => \E s \in stale : reqs'[s] # reqs[s]

\* An open row of the history names the owner, unless update_company or an overtaken
\* commit changed him behind it.
HistoryNamesOwner == \A r \in open : r.left \/ OwnerOf(r.of) = r.who

-----------------------------------------------------------------------------
(***************************************************************************)
(* Why the owners are kept: a request that was not overtaken finds the         *)
(* companies it read, and an owner whose clock stands came by update_company.  *)
(***************************************************************************)
FoundAsRead(r) ==
  /\ r.step \in {"create", "update", "reassign"} /\ r.to # None => MayOwn(r.to, r.of)
  /\ r.step \in {"update", "reassign", "free"} => r.of \in There /\ OwnerOf(r.of) = r.seen
  /\ r.step \in {"listed", "found"} =>
       \A c \in Companies : r.found[c] # None => c \in There /\ OwnerOf(c) = r.found[c]
  /\ r.step = "found" => \A c \in Companies : r.found[c] # None => ~company[c].ahead

StillAsRead == \A s \in (Slots \cup {Sweep}) \ stale : FoundAsRead(reqs[s])

GoesAsAsked(r) ==
  /\ r.step = "update" => r.to # r.seen
  /\ r.step = "reassign" => r.to # None
  /\ r.step = "free" => r.seen # None /\ r.to = None

OfTheirKind ==
  /\ reqs[Sweep].step \in {"idle", "listed", "found"}
  /\ \A s \in Slots : reqs[s].step \notin {"listed", "found"} /\ GoesAsAsked(reqs[s])

CreatesAreNew ==
  \A s, t \in Slots : reqs[s].step = "create" =>
    /\ reqs[s].of \notin There
    /\ reqs[t].step = "create" /\ reqs[t].of = reqs[s].of => t = s

ClocksRunOrRan == \A c \in There : OwnerOf(c) # None /\ ~company[c].ahead => company[c].went # "given"
RowsOfCompanies == \A r \in open : r.of \in There

OwnershipInv ==
  /\ OwnershipTypeOK /\ StillAsRead /\ OfTheirKind /\ CreatesAreNew
  /\ ClocksRunOrRan /\ RowsOfCompanies /\ HistoryNamesOwner

OwnershipIsKept == [][TakenWhenDue /\ CapIsKept]_ownershipVars /\ []HistoryNamesOwner
=============================================================================
