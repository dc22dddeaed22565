-------------------------------- MODULE Members --------------------------------
(***************************************************************************)
(* The people of one company and its seats: invitations, the settings of a    *)
(* user and the number of seats (services/invitations.py, api/v1/users.py, the *)
(* seat form of api/v1/subscription.py).  A request reads and decides in one   *)
(* step and commits in another; no row is locked, so other requests commit in  *)
(* between.  A session writes only the columns it gave a new value.           *)
(***************************************************************************)
EXTENDS Naturals, FiniteSets

CONSTANTS
  People, Founder, Helper,   \* the founder, and a member who may invite
  Roles,                     \* "admin", and others
  Invites,                   \* bound: invitations that may be sent
  Slots,                     \* bound: requests at a time
  MaxSeats,                  \* the seats the contract covers
  None,
  MaxTaps                    \* bound: requests, and what happens of itself

Gifts == [role : Roles, opens : BOOLEAN]
Invitation == [to : People, gives : Gifts, byAdmin : BOOLEAN, accepted : BOOLEAN, revoked : BOOLEAN, expired : BOOLEAN]
Downsize == [seats : 0..MaxSeats, victims : SUBSET People, by : People]

MembersAssumption ==
  /\ IsFiniteSet(People) /\ {Founder, Helper} \subseteq People /\ Founder # Helper
  /\ {"admin", "salesperson"} \subseteq Roles /\ MaxSeats \in Nat \ {0, 1} /\ MaxTaps \in Nat
  /\ IsFiniteSet(Invites) /\ None \notin Invitation /\ None \notin Downsize

VARIABLES
  person,    \* users: the company they belong to, and what is set of them
  invite,    \* invitations
  sub,       \* seat_count, and the queued downsize
  reqs,      \* requests between their reads and their commit
  stale,     \* those that another commit overtook
  given,     \* the people whom an admin gave rights, or who founded a company
  taps

membersVars == <<person, invite, sub, reqs, stale, given, taps>>

Idle == [step |-> "idle"]
Users == [at : {"nowhere", "unsettled", "ours", "theirs"}, active : BOOLEAN, role : Roles, opens : BOOLEAN]
Subs == [seats : 0..MaxSeats, queue : {None} \cup Downsize]

MembersTypeOK ==
  /\ person \in [People -> Users]
  /\ invite \in [Invites -> {None} \cup Invitation]
  /\ sub \in Subs
  /\ reqs \in [Slots -> {Idle} \cup [step : {"invite"}, to : People, gives : Gifts, byAdmin : BOOLEAN]
       \cup [step : {"revoke"}, of : Invites]
       \cup [step : {"accept"}, of : Invites, who : People, seen : Users, wanted : Users]
       \cup [step : {"found", "change"}, who : People, seen : Users, wanted : Users]
       \cup [step : {"seats"}, seen : Subs, wanted : Subs]]
  /\ stale \subseteq Slots /\ given \subseteq People /\ taps \in Nat

-----------------------------------------------------------------------------
Members == {p \in People : person[p].at = "ours"}
Active == {p \in Members : person[p].active}
Admins == {p \in Active : person[p].role = "admin"}
Open == {i \in Invites : invite[i] # None /\ ~invite[i].accepted /\ ~invite[i].revoked}
Unsent == {i \in Invites : invite[i] = None}
Used == Cardinality(Active) + Cardinality(Open)
HasRights(it) == it.role = "admin" \/ it.opens

Tap == taps < MaxTaps /\ taps' = taps + 1

\* What a commit leaves in a row: a column that was given the value it was read with is not written.
Flushed(now, seen, wanted) == [f \in DOMAIN now |-> IF wanted[f] = seen[f] THEN now[f] ELSE wanted[f]]

Ready(s) == reqs[s] = Idle /\ taps < MaxTaps
Reads(s, request) ==
  /\ Tap /\ reqs' = [reqs EXCEPT ![s] = request]
  /\ UNCHANGED <<person, invite, sub, stale, given>>

Overtaken(others) == stale' = {t \in others : reqs[t] # Idle}
Commits(s) == reqs' = [reqs EXCEPT ![s] = Idle] /\ Overtaken(Slots \ {s}) /\ UNCHANGED taps

-----------------------------------------------------------------------------
\* Mutant: one seat too many.
SeatLeftOrNone == Used <= sub.seats

\* create_invitation.
SeatLeft == Used < sub.seats
MayGrant(by, gives) == person[by].role = "admin" \/ ~HasRights(gives)

AsksToInvite(s, by, to, gives) ==
  /\ Ready(s)
  /\ by \in Active /\ HasRights(person[by]) /\ MayGrant(by, gives)
  /\ person[to].at \in {"nowhere", "unsettled"}
  /\ \A i \in Open : invite[i].to # to
  /\ SeatLeft
  /\ Reads(s, [step |-> "invite", to |-> to, gives |-> gives, byAdmin |-> person[by].role = "admin"])

\* uq_invitations_open_org_email: the second open invitation of an address is refused.
Invited(s) ==
  /\ reqs[s].step = "invite"
  /\ \/ /\ \A i \in Open : invite[i].to # reqs[s].to
        /\ Unsent # {}
        /\ invite' = [invite EXCEPT ![CHOOSE i \in Unsent : TRUE] = [to |-> reqs[s].to, gives |-> reqs[s].gives,
             byAdmin |-> reqs[s].byAdmin, accepted |-> FALSE, revoked |-> FALSE, expired |-> FALSE]]
        /\ Commits(s)
     \/ /\ \E i \in Open : invite[i].to = reqs[s].to
        /\ reqs' = [reqs EXCEPT ![s] = Idle] /\ stale' = stale \ {s}
        /\ UNCHANGED <<invite, taps>>
  /\ UNCHANGED <<person, sub, given>>

\* revoke_invitation: nothing happens to one that is no longer open.
AsksToRevoke(s, by, i) ==
  /\ Ready(s)
  /\ by \in Active /\ HasRights(person[by]) /\ i \in Open
  /\ Reads(s, [step |-> "revoke", of |-> i])

Revoked(s) ==
  /\ reqs[s].step = "revoke"
  /\ invite' = [invite EXCEPT ![reqs[s].of].revoked = TRUE]
  /\ Commits(s) /\ UNCHANGED <<person, sub, given>>

Expires(i) ==
  /\ i \in Open /\ ~invite[i].expired /\ Tap
  /\ invite' = [invite EXCEPT ![i].expired = TRUE]
  /\ UNCHANGED <<person, sub, reqs, stale, given>>

\* get_invitation_by_token, and the two ways to accept, which differ in how the
\* person proves who he is.
Usable(i) == i \in Open /\ ~invite[i].expired

AsksToAccept(s, i) ==
  /\ Ready(s)
  /\ Usable(i) /\ person[invite[i].to].at # "theirs"
  /\ LET p == invite[i].to IN
     Reads(s, [step |-> "accept", of |-> i, who |-> p, seen |-> person[p],
               wanted |-> [at |-> "ours", role |-> invite[i].gives.role, opens |-> invite[i].gives.opens,
                           active |-> person[p].active \/ person[p].at = "nowhere"]])

\* The e-mail of a user is unique: who was new to both of two requests is made by one.
Accepted(s) ==
  /\ reqs[s].step = "accept"
  /\ LET r == reqs[s] IN
     \/ /\ r.seen.at = "nowhere" => person[r.who].at = "nowhere"
        /\ person' = [person EXCEPT ![r.who] = Flushed(@, r.seen, r.wanted)]
        /\ invite' = [invite EXCEPT ![r.of].accepted = TRUE]
        /\ given' = IF invite[r.of].byAdmin /\ HasRights(r.wanted) THEN given \cup {r.who} ELSE given
        /\ Commits(s)
     \/ /\ r.seen.at = "nowhere" /\ person[r.who].at # "nowhere"
        /\ reqs' = [reqs EXCEPT ![s] = Idle] /\ stale' = stale \ {s}
        /\ UNCHANGED <<person, invite, given, taps>>
  /\ UNCHANGED sub

-----------------------------------------------------------------------------
\* A sign-up without an invitation: a user who belongs to no company yet,
SignsUp(p) ==
  /\ person[p].at = "nowhere" /\ Tap
  /\ person' = [person EXCEPT ![p] = [at |-> "unsettled", active |-> TRUE, role |-> "salesperson", opens |-> FALSE]]
  /\ UNCHANGED <<invite, sub, reqs, stale, given>>

\* and who may found his own.
AsksToFound(s, p) ==
  /\ Ready(s)
  /\ person[p].at = "unsettled"
  /\ Reads(s, [step |-> "found", who |-> p, seen |-> person[p],
               wanted |-> [person[p] EXCEPT !.at = "theirs", !.role = "admin"]])

Founded(s) ==
  /\ reqs[s].step = "found"
  /\ LET r == reqs[s] IN
     /\ person' = [person EXCEPT ![r.who] = Flushed(@, r.seen, r.wanted)]
     /\ given' = given \cup {r.who}
  /\ Commits(s) /\ UNCHANGED <<invite, sub>>

-----------------------------------------------------------------------------
\* Mutant: an admin who is switched off is not missed.
LosesByRole(p, wanted) == person[p].role = "admin" /\ wanted.role # "admin"

\* update_user.
LosesAdmin(p, wanted) == person[p].role = "admin" /\ (wanted.role # "admin" \/ ~wanted.active)

AsksToChange(s, by, p, wanted) ==
  /\ Ready(s)
  /\ by \in Admins /\ p \in Members /\ wanted # person[p]
  /\ LosesAdmin(p, wanted) => Admins \ {p} # {}
  /\ Reads(s, [step |-> "change", who |-> p, seen |-> person[p], wanted |-> wanted])

Changed(s) ==
  /\ reqs[s].step = "change"
  /\ LET r == reqs[s] IN
     /\ person' = [person EXCEPT ![r.who] = Flushed(@, r.seen, r.wanted)]
     /\ given' = IF HasRights(r.wanted) THEN given \cup {r.who} ELSE given
  /\ Commits(s) /\ UNCHANGED <<invite, sub>>

\* update_subscription, within the contract: more seats, or no fewer than there are
\* active users, at once; fewer, at the end of the period.  The list of those who go may
\* name one of them twice.
SeatsAsked(by, n) ==
  IF n = sub.seats \/ n >= Cardinality(Active)
  THEN {[seats |-> n, queue |-> None]}
  ELSE {[sub EXCEPT !.queue = [seats |-> n, victims |-> v, by |-> by]] :
          v \in {w \in SUBSET (Active \ {by}) : w # {} /\ Cardinality(w) <= Cardinality(Active) - n}}

AsksForSeats(s, by, n) ==
  /\ Ready(s)
  /\ by \in Admins
  /\ \E wanted \in SeatsAsked(by, n) : Reads(s, [step |-> "seats", seen |-> sub, wanted |-> wanted])

SeatsSet(s) ==
  /\ reqs[s].step = "seats"
  /\ sub' = Flushed(sub, reqs[s].seen, reqs[s].wanted)
  /\ Commits(s) /\ UNCHANGED <<person, invite, given>>

\* _apply_queued_downsize, when a period begins.
QueueLands ==
  /\ sub.queue # None /\ Tap
  /\ person' = [p \in People |->
       IF p \in Members \cap sub.queue.victims THEN [person[p] EXCEPT !.active = FALSE] ELSE person[p]]
  /\ sub' = [seats |-> sub.queue.seats, queue |-> None]
  /\ Overtaken(Slots) /\ UNCHANGED <<invite, reqs, given>>

\* A request that ends before its commit leaves nothing.
Dies(s) ==
  /\ reqs[s] # Idle /\ reqs' = [reqs EXCEPT ![s] = Idle] /\ stale' = stale \ {s}
  /\ UNCHANGED <<person, invite, sub, given, taps>>

-----------------------------------------------------------------------------
Nobody == [at |-> "nowhere", active |-> FALSE, role |-> "salesperson", opens |-> FALSE]

MembersInit ==
  /\ given = {Founder, Helper}
  /\ person = [p \in People |->
       IF p \notin given THEN Nobody
       ELSE [at |-> "ours", active |-> TRUE, opens |-> p = Helper,
             role |-> IF p = Founder THEN "admin" ELSE "salesperson"]]
  /\ invite = [i \in Invites |-> None]
  /\ sub \in {[seats |-> n, queue |-> None] : n \in 2..MaxSeats}
  /\ reqs = [s \in Slots |-> Idle] /\ stale = {} /\ taps = 0

MembersNext ==
  \/ \E s \in Slots :
       \/ \E by, to \in People, gives \in Gifts : AsksToInvite(s, by, to, gives)
       \/ \E by \in People, i \in Invites : AsksToRevoke(s, by, i)
       \/ \E i \in Invites : AsksToAccept(s, i)
       \/ \E p \in People : AsksToFound(s, p)
       \/ \E by, p \in People, role \in Roles : AsksToChange(s, by, p, [person[p] EXCEPT !.role = role])
       \/ \E by, p \in People, on \in BOOLEAN : AsksToChange(s, by, p, [person[p] EXCEPT !.active = on])
       \/ \E by, p \in People, may \in BOOLEAN : AsksToChange(s, by, p, [person[p] EXCEPT !.opens = may])
       \/ \E by \in People, n \in 1..MaxSeats : AsksForSeats(s, by, n)
       \/ Invited(s) \/ Revoked(s) \/ Accepted(s) \/ Founded(s) \/ Changed(s) \/ SeatsSet(s) \/ Dies(s)
  \/ \E i \in Invites : Expires(i)
  \/ \E p \in People : SignsUp(p)
  \/ QueueLands

MembersSpec == MembersInit /\ [][MembersNext]_membersVars

-----------------------------------------------------------------------------
\* "active users + still-open invitations must stay <= Subscription.seat_count": of the
\* steps that take a seat, only a request that another commit overtook, and the return of
\* a user, take one that is not there.
SeatWasFree ==
  Used' > Used /\ Used' > sub'.seats
    => \E s \in Slots : reqs'[s] # reqs[s] /\ (s \in stale \/ reqs[s].step = "change")

\* "Never strip the org of its last active admin": he goes only by a request that another
\* commit overtook, with a downsize whose author is no longer an admin, or by accepting
\* one more invitation to the company he is in, which brings its role along.
LastAdminStays ==
  Admins # {} /\ Admins' = {}
    => \/ \E s \in stale : reqs'[s] # reqs[s]
       \/ sub.queue # None /\ sub'.queue = None /\ sub.queue.by \notin Admins
       \/ \E s \in Slots : reqs[s].step = "accept" /\ reqs[s].seen.at = "ours" /\ reqs'[s] # reqs[s]

\* Whoever may invite, or is an admin, has it from an admin or founded a company.
RightsAreGiven == \A p \in Members : HasRights(person[p]) => p \in given

-----------------------------------------------------------------------------
(***************************************************************************)
(* Why the rules are kept: what a request decided upon is still so when it     *)
(* commits, unless it was overtaken; and rights are handed on only by those    *)
(* who have them.                                                          *)
(***************************************************************************)
FoundAsRead(r) ==
  /\ r.step = "invite" => SeatLeft
  /\ r.step = "accept" => r.of \in Open /\ (r.seen.at # "nowhere" => r.seen = person[r.who])
  /\ r.step \in {"found", "change"} => r.seen = person[r.who]
  /\ r.step = "change" /\ LosesAdmin(r.who, r.wanted) => Admins \ {r.who} # {}

StillAsRead == \A s \in Slots \ stale : FoundAsRead(reqs[s])

\* Where a request leaves the person it is about, and that a downsize spares its author.
GoesWhere(r) ==
  /\ r.step = "accept" => r.wanted.at = "ours" /\ r.seen.at # "theirs"
  /\ r.step = "found" => r.seen.at = "unsettled" /\ r.wanted.at = "theirs"
  /\ r.step = "change" => r.seen.at = "ours" /\ r.wanted.at = "ours"

SparesAuthor(it) == it.queue # None => it.queue.by \notin it.queue.victims

GoesAsAsked ==
  /\ SparesAuthor(sub)
  /\ \A s \in Slots :
       /\ GoesWhere(reqs[s])
       /\ reqs[s].step = "seats" => SparesAuthor(reqs[s].wanted)
       /\ reqs[s].step \in {"revoke", "accept"} => invite[reqs[s].of] # None

MayGive(it) == HasRights(it.gives) => it.byAdmin

RightsAreHandedOn ==
  /\ \A p \in People : HasRights(person[p]) => p \in given
  /\ \A i \in Invites : invite[i] # None => MayGive(invite[i])
  /\ \A s \in Slots :
       /\ reqs[s].step = "invite" => MayGive(reqs[s])
       /\ reqs[s].step = "accept" =>
            LET i == invite[reqs[s].of] IN
            reqs[s].wanted.role = i.gives.role /\ reqs[s].wanted.opens = i.gives.opens

MembersInv == MembersTypeOK /\ StillAsRead /\ GoesAsAsked /\ RightsAreHandedOn

MembersKeepTheRules == [][SeatWasFree /\ LastAdminStays]_membersVars /\ []RightsAreGiven
=============================================================================
