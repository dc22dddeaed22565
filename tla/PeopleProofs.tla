----------------------------- MODULE PeopleProofs -----------------------------
(***************************************************************************)
(* Theorems about the three parts of the server on the desk: the people of a  *)
(* company and its seats, how they get in, and who owns the companies they     *)
(* sell to.  They hold for any number of people, invitations, browsers,        *)
(* companies and requests at a time, whatever the bounds.                    *)
(***************************************************************************)
EXTENDS Desk, FiniteSetTheorems, TLAPS

\* A part of the desk moves by its own steps, or rests.
LEMMA OneAtATime ==
  ASSUME [DeskNext]_deskVars
  PROVE  /\ screen' = screen
         /\ screen = "members" => [AtMembers!MembersNext]_AtMembers!membersVars
         /\ screen = "tokens" => [AtTokens!TokensNext]_AtTokens!tokensVars
         /\ screen = "owners" => [AtOwnership!OwnershipNext]_AtOwnership!ownershipVars
<1>1. CASE UNCHANGED deskVars
  BY <1>1 DEF deskVars, screenVars, consoleVars, AtMembers!membersVars, AtTokens!tokensVars,
     AtOwnership!ownershipVars
<1>2. CASE DeskNext
  BY <1>2 DEF DeskNext, Stays
<1> QED
  BY <1>1, <1>2

LEMMA OneToBeginWith ==
  ASSUME DeskInit
  PROVE  /\ screen = "members" => AtMembers!MembersInit
         /\ screen = "tokens" => AtTokens!TokensInit
         /\ screen = "owners" => AtOwnership!OwnershipInit
  BY DEF DeskInit

-----------------------------------------------------------------------------
(***************************************************************************)
(* The people of a company.                                                *)
(***************************************************************************)
\* What a commit leaves in a row is made of what was there and what was wanted.
LEMMA FlushedUser ==
  ASSUME NEW now \in AtMembers!Users, NEW seen \in AtMembers!Users, NEW wanted \in AtMembers!Users
  PROVE  LET row == AtMembers!Flushed(now, seen, wanted) IN
         /\ row \in AtMembers!Users
         /\ row.at \in {now.at, wanted.at} /\ (wanted.at # seen.at => row.at = wanted.at)
         /\ row.role \in {now.role, wanted.role}
         /\ row.opens \in {now.opens, wanted.opens}
         /\ now = seen => row = wanted
  BY DEF AtMembers!Flushed, AtMembers!Users

LEMMA FlushedSub ==
  ASSUME NEW now \in AtMembers!Subs, NEW seen \in AtMembers!Subs, NEW wanted \in AtMembers!Subs
  PROVE  LET row == AtMembers!Flushed(now, seen, wanted) IN
         /\ row \in AtMembers!Subs
         /\ row.queue \in {now.queue, wanted.queue}
  BY DEF AtMembers!Flushed, AtMembers!Subs

\* A request of one form is not of another.
LEMMA RequestForms ==
  ASSUME AtMembers!MembersTypeOK, NEW s \in Hands
  PROVE  /\ s4[s].step = "invite" => s4[s] \in [step : {"invite"}, to : People, gives : AtMembers!Gifts, byAdmin : BOOLEAN]
         /\ s4[s].step = "revoke" => s4[s] \in [step : {"revoke"}, of : Invites]
         /\ s4[s].step = "accept" =>
              s4[s] \in [step : {"accept"}, of : Invites, who : People, seen : AtMembers!Users, wanted : AtMembers!Users]
         /\ s4[s].step \in {"found", "change"} =>
              s4[s] \in [step : {"found", "change"}, who : People, seen : AtMembers!Users, wanted : AtMembers!Users]
         /\ s4[s].step = "seats" => s4[s] \in [step : {"seats"}, seen : AtMembers!Subs, wanted : AtMembers!Subs]
  BY DEF AtMembers!MembersTypeOK, AtMembers!Idle

LEMMA MembersTypesStart == AtMembers!MembersInit => AtMembers!MembersTypeOK
<1> SUFFICES ASSUME AtMembers!MembersInit PROVE AtMembers!MembersTypeOK
  OBVIOUS
<1>1. AtMembers!MembersAssumption
  BY DeskAssumption
<1>2. s1 \in [People -> AtMembers!Users]
  BY <1>1 DEF AtMembers!MembersInit, AtMembers!MembersAssumption, AtMembers!Users, AtMembers!Nobody
<1>3. s3 \in AtMembers!Subs
  BY <1>1 DEF AtMembers!MembersInit, AtMembers!MembersAssumption, AtMembers!Subs
<1>4. s6 \subseteq People
  BY <1>1 DEF AtMembers!MembersInit, AtMembers!MembersAssumption
<1> QED
  BY <1>2, <1>3, <1>4 DEF AtMembers!MembersInit, AtMembers!MembersTypeOK

LEMMA MembersTypesStay ==
  ASSUME AtMembers!MembersTypeOK, AtMembers!GoesAsAsked, [AtMembers!MembersNext]_AtMembers!membersVars
  PROVE  AtMembers!MembersTypeOK'
<1> USE DEF AtMembers!Reads, AtMembers!Tap, AtMembers!Ready
<1>1. ASSUME NEW s \in Hands, NEW by \in People, NEW to \in People, NEW gives \in AtMembers!Gifts,
             AtMembers!AsksToInvite(s, by, to, gives)
      PROVE  AtMembers!MembersTypeOK'
  BY <1>1 DEF AtMembers!AsksToInvite, AtMembers!MembersTypeOK
<1>2. ASSUME NEW s \in Hands, NEW by \in People, NEW i \in Invites, AtMembers!AsksToRevoke(s, by, i)
      PROVE  AtMembers!MembersTypeOK'
  BY <1>2 DEF AtMembers!AsksToRevoke, AtMembers!MembersTypeOK
<1>3. ASSUME NEW s \in Hands, NEW i \in Invites, AtMembers!AsksToAccept(s, i)
      PROVE  AtMembers!MembersTypeOK'
  <2>1. s2[i] \in AtMembers!Invitation
    BY <1>3 DEF AtMembers!AsksToAccept, AtMembers!Usable, AtMembers!Open, AtMembers!MembersTypeOK
  <2>2. [at |-> "ours", role |-> s2[i].gives.role, opens |-> s2[i].gives.opens,
         active |-> s1[s2[i].to].active \/ s1[s2[i].to].at = "nowhere"] \in AtMembers!Users
    BY <2>1 DEF AtMembers!Users, AtMembers!Invitation, AtMembers!Gifts, AtMembers!MembersTypeOK
  <2> QED
    BY <1>3, <2>1, <2>2 DEF AtMembers!AsksToAccept, AtMembers!Invitation, AtMembers!MembersTypeOK
<1>4. ASSUME NEW s \in Hands, NEW p \in People, AtMembers!AsksToFound(s, p)
      PROVE  AtMembers!MembersTypeOK'
  <2>1. [s1[p] EXCEPT !.at = "theirs", !.role = "admin"] \in AtMembers!Users
    BY DeskAssumption DEF AtMembers!MembersAssumption, AtMembers!Users, AtMembers!MembersTypeOK
  <2> QED
    BY <1>4, <2>1 DEF AtMembers!AsksToFound, AtMembers!MembersTypeOK
<1>5. ASSUME NEW s \in Hands, NEW by \in People, NEW p \in People, NEW wanted \in AtMembers!Users,
             AtMembers!AsksToChange(s, by, p, wanted)
      PROVE  AtMembers!MembersTypeOK'
  BY <1>5 DEF AtMembers!AsksToChange, AtMembers!MembersTypeOK
<1>6. ASSUME NEW s \in Hands, NEW by \in People, NEW n \in 1..Contract, AtMembers!AsksForSeats(s, by, n)
      PROVE  AtMembers!MembersTypeOK'
  <2>1. PICK wanted \in AtMembers!SeatsAsked(by, n) :
          AtMembers!Reads(s, [step |-> "seats", seen |-> s3, wanted |-> wanted])
    BY <1>6 DEF AtMembers!AsksForSeats
  <2>2. n \in 0..Contract /\ s3 \in AtMembers!Subs
    BY DeskAssumption DEF AtMembers!MembersAssumption, AtMembers!MembersTypeOK
  <2>3. wanted \in AtMembers!Subs
    <3>1. CASE wanted = [seats |-> n, queue |-> None]
      BY <2>2, <3>1 DEF AtMembers!Subs
    <3>2. CASE \E v \in SUBSET People : wanted = [s3 EXCEPT !.queue = [seats |-> n, victims |-> v, by |-> by]]
      <4>1. PICK v \in SUBSET People : wanted = [s3 EXCEPT !.queue = [seats |-> n, victims |-> v, by |-> by]]
        BY <3>2
      <4>2. [seats |-> n, victims |-> v, by |-> by] \in AtMembers!Downsize
        BY <2>2 DEF AtMembers!Downsize
      <4> QED
        BY <2>2, <4>1, <4>2 DEF AtMembers!Subs
    <3> QED
      BY <2>1, <3>1, <3>2 DEF AtMembers!SeatsAsked, AtMembers!Active, AtMembers!Members
  <2> QED
    BY <2>1, <2>2, <2>3 DEF AtMembers!MembersTypeOK
<1> USE DEF AtMembers!Commits, AtMembers!Overtaken
<1>7. ASSUME NEW s \in Hands, AtMembers!Invited(s) PROVE AtMembers!MembersTypeOK'
  <2> DEFINE r == s4[s]
             new == [to |-> r.to, gives |-> r.gives, byAdmin |-> r.byAdmin, accepted |-> FALSE,
                     revoked |-> FALSE, expired |-> FALSE]
  <2>1. new \in AtMembers!Invitation
    BY <1>7, RequestForms DEF AtMembers!Invited, AtMembers!Invitation
  <2>2. s2' \in [Invites -> {None} \cup AtMembers!Invitation]
    BY <1>7, <2>1 DEF AtMembers!Invited, AtMembers!MembersTypeOK
  <2> QED
    BY <1>7, <2>2 DEF AtMembers!Invited, AtMembers!MembersTypeOK
<1>8. ASSUME NEW s \in Hands, AtMembers!Revoked(s) PROVE AtMembers!MembersTypeOK'
  <2>1. s4[s].of \in Invites /\ s2[s4[s].of] \in AtMembers!Invitation
    BY <1>8, RequestForms DEF AtMembers!Revoked, AtMembers!GoesAsAsked, AtMembers!MembersTypeOK
  <2>2. [s2[s4[s].of] EXCEPT !.revoked = TRUE] \in AtMembers!Invitation
    BY <2>1 DEF AtMembers!Invitation
  <2> QED
    BY <1>8, <2>1, <2>2 DEF AtMembers!Revoked, AtMembers!MembersTypeOK
<1>9. ASSUME NEW s \in Hands, AtMembers!Accepted(s) PROVE AtMembers!MembersTypeOK'
  <2> DEFINE r == s4[s]
  <2>1. r.who \in People /\ r.of \in Invites /\ s2[r.of] \in AtMembers!Invitation
    BY <1>9, RequestForms DEF AtMembers!Accepted, AtMembers!GoesAsAsked, AtMembers!MembersTypeOK
  <2>2. AtMembers!Flushed(s1[r.who], r.seen, r.wanted) \in AtMembers!Users
    BY <1>9, <2>1, RequestForms, FlushedUser DEF AtMembers!Accepted, AtMembers!MembersTypeOK
  <2>3. [s2[r.of] EXCEPT !.accepted = TRUE] \in AtMembers!Invitation
    BY <2>1 DEF AtMembers!Invitation
  <2> HIDE DEF r
  <2> QED
    BY <1>9, <2>1, <2>2, <2>3 DEF r, AtMembers!Accepted, AtMembers!MembersTypeOK
\* The others that write a person.
<1>10. ASSUME NEW s \in Hands, AtMembers!Founded(s) \/ AtMembers!Changed(s) PROVE AtMembers!MembersTypeOK'
  <2> DEFINE r == s4[s]
  <2>1. r.who \in People
    BY <1>10, RequestForms DEF AtMembers!Founded, AtMembers!Changed
  <2>2. AtMembers!Flushed(s1[r.who], r.seen, r.wanted) \in AtMembers!Users
    BY <1>10, <2>1, RequestForms, FlushedUser DEF AtMembers!Founded, AtMembers!Changed, AtMembers!MembersTypeOK
  <2> HIDE DEF r
  <2> QED
    BY <1>10, <2>1, <2>2 DEF r, AtMembers!Founded, AtMembers!Changed, AtMembers!MembersTypeOK
<1>11. ASSUME NEW p \in People, AtMembers!SignsUp(p) PROVE AtMembers!MembersTypeOK'
  <2>1. [at |-> "unsettled", active |-> TRUE, role |-> "salesperson", opens |-> FALSE] \in AtMembers!Users
    BY DeskAssumption DEF AtMembers!MembersAssumption, AtMembers!Users
  <2> QED
    BY <1>11, <2>1 DEF AtMembers!SignsUp, AtMembers!MembersTypeOK
<1>12. ASSUME NEW s \in Hands, AtMembers!SeatsSet(s) PROVE AtMembers!MembersTypeOK'
  BY <1>12, RequestForms, FlushedSub DEF AtMembers!SeatsSet, AtMembers!MembersTypeOK
<1>13. CASE AtMembers!QueueLands
  <2>1. s3.queue \in AtMembers!Downsize
    BY <1>13 DEF AtMembers!QueueLands, AtMembers!MembersTypeOK, AtMembers!Subs
  <2>2. s3' \in AtMembers!Subs
    BY <1>13, <2>1 DEF AtMembers!QueueLands, AtMembers!Subs, AtMembers!Downsize
  <2>3. \A p \in People : [s1[p] EXCEPT !.active = FALSE] \in AtMembers!Users
    BY DEF AtMembers!MembersTypeOK, AtMembers!Users
  <2> QED
    BY <1>13, <2>2, <2>3 DEF AtMembers!QueueLands, AtMembers!MembersTypeOK
<1>14. ASSUME NEW i \in Invites, AtMembers!Expires(i) PROVE AtMembers!MembersTypeOK'
  <2>1. [s2[i] EXCEPT !.expired = TRUE] \in AtMembers!Invitation
    BY <1>14 DEF AtMembers!Expires, AtMembers!Open, AtMembers!Invitation, AtMembers!MembersTypeOK
  <2> QED
    BY <1>14, <2>1 DEF AtMembers!Expires, AtMembers!MembersTypeOK
<1>15. ASSUME NEW s \in Hands, AtMembers!Dies(s) PROVE AtMembers!MembersTypeOK'
  BY <1>15 DEF AtMembers!Dies, AtMembers!MembersTypeOK
<1>16. CASE UNCHANGED AtMembers!membersVars
  BY <1>16 DEF AtMembers!membersVars, AtMembers!MembersTypeOK, AtMembers!Subs
<1>17. \A p \in People : /\ \A role \in Roles : [s1[p] EXCEPT !.role = role] \in AtMembers!Users
                        /\ \A on \in BOOLEAN : [s1[p] EXCEPT !.active = on] \in AtMembers!Users
                        /\ \A may \in BOOLEAN : [s1[p] EXCEPT !.opens = may] \in AtMembers!Users
  BY DEF AtMembers!MembersTypeOK, AtMembers!Users
<1> QED
  BY <1>1, <1>2, <1>3, <1>4, <1>5, <1>6, <1>7, <1>8, <1>9, <1>10, <1>11, <1>12, <1>13, <1>14, <1>15, <1>16, <1>17
     DEF AtMembers!MembersNext

-----------------------------------------------------------------------------
\* After a commit nothing that was read before counts as current.
LEMMA CommitOvertakes ==
  ASSUME NEW s \in Hands, AtMembers!MembersTypeOK, AtMembers!Commits(s), NEW t \in Hands \ s5'
  PROVE  s4'[t] = AtMembers!Idle
  BY DEF AtMembers!Commits, AtMembers!Overtaken, AtMembers!MembersTypeOK

\* A request that reads, and steps that leave what others read.
LEMMA MembersReads ==
  ASSUME NEW s \in Hands, AtMembers!MembersInv, NEW r, AtMembers!Reads(s, r),
         AtMembers!FoundAsRead(r), AtMembers!GoesWhere(r),
         r.step = "seats" => AtMembers!SparesAuthor(r.wanted),
         r.step \in {"revoke", "accept"} => s2[r.of] # None,
         r.step = "invite" => AtMembers!MayGive(r),
         r.step = "accept" => r.wanted.role = s2[r.of].gives.role /\ r.wanted.opens = s2[r.of].gives.opens
  PROVE  AtMembers!StillAsRead' /\ AtMembers!GoesAsAsked' /\ AtMembers!RightsAreHandedOn'
<1> USE DEF AtMembers!Reads, AtMembers!Tap
<1>1. \A t \in Hands : s4'[t] = IF t = s THEN r ELSE s4[t]
  BY DEF AtMembers!MembersInv, AtMembers!MembersTypeOK
<1>2. UNCHANGED <<s1, s2, s3, s5, s6>>
  OBVIOUS
<1>3. AtMembers!StillAsRead'
  <2> SUFFICES ASSUME NEW t \in Hands \ s5 PROVE AtMembers!FoundAsRead(s4[t])'
    BY <1>2 DEF AtMembers!StillAsRead
  <2>1. AtMembers!FoundAsRead(s4'[t])
    BY <1>1 DEF AtMembers!MembersInv, AtMembers!StillAsRead
  <2> QED
    BY <1>2, <2>1 DEF AtMembers!FoundAsRead, AtMembers!SeatLeft, AtMembers!Used, AtMembers!Open, AtMembers!Active,
       AtMembers!Members, AtMembers!Admins, AtMembers!LosesAdmin
<1>4. AtMembers!GoesAsAsked'
  BY <1>1, <1>2 DEF AtMembers!MembersInv, AtMembers!GoesAsAsked, AtMembers!GoesWhere, AtMembers!SparesAuthor
<1>5. AtMembers!RightsAreHandedOn'
  BY <1>1, <1>2 DEF AtMembers!MembersInv, AtMembers!RightsAreHandedOn, AtMembers!MayGive, AtMembers!HasRights
<1> QED
  BY <1>3, <1>4, <1>5

LEMMA MembersStarts == AtMembers!MembersInit => AtMembers!MembersInv
<1> SUFFICES ASSUME AtMembers!MembersInit PROVE AtMembers!MembersInv
  OBVIOUS
<1>1. AtMembers!MembersTypeOK
  BY MembersTypesStart
<1>2. AtMembers!StillAsRead /\ AtMembers!GoesAsAsked
  BY DEF AtMembers!MembersInit, AtMembers!StillAsRead, AtMembers!FoundAsRead, AtMembers!GoesAsAsked,
     AtMembers!GoesWhere, AtMembers!SparesAuthor, AtMembers!Idle
<1>3. AtMembers!RightsAreHandedOn
  BY DEF AtMembers!MembersInit, AtMembers!RightsAreHandedOn, AtMembers!HasRights, AtMembers!Nobody, AtMembers!Idle
<1> QED
  BY <1>1, <1>2, <1>3 DEF AtMembers!MembersInv

\* Every request of a member preserves the invariant when it reads.
LEMMA MembersAsk ==
  ASSUME AtMembers!MembersInv, NEW s \in Hands,
         \/ \E by, to \in People, gives \in AtMembers!Gifts : AtMembers!AsksToInvite(s, by, to, gives)
         \/ \E by \in People, i \in Invites : AtMembers!AsksToRevoke(s, by, i)
         \/ \E i \in Invites : AtMembers!AsksToAccept(s, i)
         \/ \E p \in People : AtMembers!AsksToFound(s, p)
         \/ \E by, p \in People : \E wanted \in AtMembers!Users :
              wanted.at = s1[p].at /\ AtMembers!AsksToChange(s, by, p, wanted)
         \/ \E by \in People, n \in 1..Contract : AtMembers!AsksForSeats(s, by, n)
  PROVE  AtMembers!StillAsRead' /\ AtMembers!GoesAsAsked' /\ AtMembers!RightsAreHandedOn'
<1> USE DEF AtMembers!FoundAsRead, AtMembers!GoesWhere
<1>1. ASSUME NEW by \in People, NEW to \in People, NEW gives \in AtMembers!Gifts,
             AtMembers!AsksToInvite(s, by, to, gives)
      PROVE  AtMembers!StillAsRead' /\ AtMembers!GoesAsAsked' /\ AtMembers!RightsAreHandedOn'
  <2> DEFINE r == [step |-> "invite", to |-> to, gives |-> gives, byAdmin |-> s1[by].role = "admin"]
  <2>1. AtMembers!Reads(s, r) /\ AtMembers!MayGive(r) /\ AtMembers!SeatLeft
    BY <1>1 DEF AtMembers!AsksToInvite, AtMembers!MayGrant, AtMembers!MayGive
  <2> QED
    BY <2>1, MembersReads
<1>2. ASSUME NEW by \in People, NEW i \in Invites, AtMembers!AsksToRevoke(s, by, i)
      PROVE  AtMembers!StillAsRead' /\ AtMembers!GoesAsAsked' /\ AtMembers!RightsAreHandedOn'
  <2>1. AtMembers!Reads(s, [step |-> "revoke", of |-> i]) /\ s2[i] # None
    BY <1>2 DEF AtMembers!AsksToRevoke, AtMembers!Open
  <2> QED
    BY <2>1, MembersReads
<1>3. ASSUME NEW i \in Invites, AtMembers!AsksToAccept(s, i)
      PROVE  AtMembers!StillAsRead' /\ AtMembers!GoesAsAsked' /\ AtMembers!RightsAreHandedOn'
  <2> DEFINE p == s2[i].to
             wanted == [at |-> "ours", role |-> s2[i].gives.role, opens |-> s2[i].gives.opens,
                        active |-> s1[p].active \/ s1[p].at = "nowhere"]
             r == [step |-> "accept", of |-> i, who |-> p, seen |-> s1[p], wanted |-> wanted]
  <2>1. AtMembers!Reads(s, r) /\ i \in AtMembers!Open /\ s2[i] # None /\ s1[p].at # "theirs"
    BY <1>3 DEF AtMembers!AsksToAccept, AtMembers!Usable, AtMembers!Open
  <2> QED
    BY <2>1, MembersReads
<1>4. ASSUME NEW p \in People, AtMembers!AsksToFound(s, p)
      PROVE  AtMembers!StillAsRead' /\ AtMembers!GoesAsAsked' /\ AtMembers!RightsAreHandedOn'
  <2> DEFINE wanted == [s1[p] EXCEPT !.at = "theirs", !.role = "admin"]
             r == [step |-> "found", who |-> p, seen |-> s1[p], wanted |-> wanted]
  <2>1. AtMembers!Reads(s, r) /\ s1[p].at = "unsettled" /\ s1[p] \in AtMembers!Users
    BY <1>4 DEF AtMembers!AsksToFound, AtMembers!MembersInv, AtMembers!MembersTypeOK
  <2>2. wanted.at = "theirs"
    BY <2>1 DEF AtMembers!Users
  <2> HIDE DEF wanted
  <2> QED
    BY <2>1, <2>2, MembersReads
<1>5. ASSUME NEW by \in People, NEW p \in People, NEW wanted \in AtMembers!Users, wanted.at = s1[p].at,
             AtMembers!AsksToChange(s, by, p, wanted)
      PROVE  AtMembers!StillAsRead' /\ AtMembers!GoesAsAsked' /\ AtMembers!RightsAreHandedOn'
  <2> DEFINE r == [step |-> "change", who |-> p, seen |-> s1[p], wanted |-> wanted]
  <2>1. AtMembers!Reads(s, r) /\ s1[p].at = "ours" /\ (AtMembers!LosesAdmin(p, wanted) => AtMembers!Admins \ {p} # {})
    BY <1>5 DEF AtMembers!AsksToChange, AtMembers!Members
  <2> QED
    BY <1>5, <2>1, MembersReads
<1>6. ASSUME NEW by \in People, NEW n \in 1..Contract, AtMembers!AsksForSeats(s, by, n)
      PROVE  AtMembers!StillAsRead' /\ AtMembers!GoesAsAsked' /\ AtMembers!RightsAreHandedOn'
  <2>1. PICK wanted \in AtMembers!SeatsAsked(by, n) :
          AtMembers!Reads(s, [step |-> "seats", seen |-> s3, wanted |-> wanted])
    BY <1>6 DEF AtMembers!AsksForSeats
  <2>2. AtMembers!SparesAuthor(wanted)
    <3>1. CASE wanted = [seats |-> n, queue |-> None]
      BY <3>1 DEF AtMembers!SparesAuthor
    <3>2. CASE \E v \in SUBSET (AtMembers!Active \ {by}) :
                 wanted = [s3 EXCEPT !.queue = [seats |-> n, victims |-> v, by |-> by]]
      BY <3>2 DEF AtMembers!SparesAuthor, AtMembers!MembersInv, AtMembers!MembersTypeOK, AtMembers!Subs
    <3> QED
      BY <2>1, <3>1, <3>2 DEF AtMembers!SeatsAsked
  <2> QED
    BY <2>1, <2>2, MembersReads
<1> QED
  BY <1>1, <1>2, <1>3, <1>4, <1>5, <1>6

\* A commit leaves nothing read before as current; of the other two parts it needs only
\* what it wrote.
LEMMA MembersCommit ==
  ASSUME NEW s \in Hands, AtMembers!MembersInv, AtMembers!Commits(s)
  PROVE  /\ AtMembers!StillAsRead'
         /\ \A t \in Hands : s4'[t] \in {s4[t], AtMembers!Idle}
<1>1. \A t \in Hands : s4'[t] \in {s4[t], AtMembers!Idle}
  BY DEF AtMembers!Commits, AtMembers!MembersInv, AtMembers!MembersTypeOK
<1>2. \A t \in Hands \ s5' : s4'[t] = AtMembers!Idle
  BY CommitOvertakes DEF AtMembers!MembersInv
<1> QED
  BY <1>1, <1>2 DEF AtMembers!StillAsRead, AtMembers!FoundAsRead, AtMembers!Idle

\* The commits of requests, each with what it writes.
LEMMA MembersWrite ==
  ASSUME AtMembers!MembersInv, NEW s \in Hands,
         \/ AtMembers!Invited(s) \/ AtMembers!Revoked(s) \/ AtMembers!Accepted(s)
         \/ AtMembers!Founded(s) \/ AtMembers!Changed(s) \/ AtMembers!SeatsSet(s),
         AtMembers!Commits(s)
  PROVE  AtMembers!StillAsRead' /\ AtMembers!GoesAsAsked' /\ AtMembers!RightsAreHandedOn'
<1> DEFINE r == s4[s]
<1> USE DEF AtMembers!MembersInv
<1>0. \A t \in Hands : s4'[t] \in {s4[t], AtMembers!Idle}
  BY MembersCommit
<1>1. AtMembers!StillAsRead'
  BY MembersCommit
\* An invitation changes only in being accepted, revoked or made.
<1>2. \A i \in Invites : s2[i] # None =>
        s2'[i] # None /\ s2'[i].gives = s2[i].gives /\ s2'[i].byAdmin = s2[i].byAdmin
  <2>1. AtMembers!MembersTypeOK
    OBVIOUS
  <2>2. \A i \in Invites : s2[i] # None =>
          s2[i] \in AtMembers!Invitation /\ None \notin AtMembers!Invitation
    BY <2>1, DeskAssumption DEF AtMembers!MembersTypeOK, AtMembers!MembersAssumption
  <2>3. CASE AtMembers!Invited(s)
    <3> DEFINE j == CHOOSE i \in AtMembers!Unsent : TRUE
    <3>1. CASE UNCHANGED s2
      BY <3>1
    <3>2. CASE AtMembers!Unsent # {} /\ \E v : s2' = [s2 EXCEPT ![j] = v]
      <4>1. s2[j] = None
        BY <3>2 DEF AtMembers!Unsent
      <4> HIDE DEF j
      <4> QED
        BY <2>1, <3>2, <4>1 DEF AtMembers!MembersTypeOK
    <3> QED
      BY <2>3, <3>1, <3>2 DEF AtMembers!Invited
  <2>4. CASE AtMembers!Revoked(s)
    <3>1. r.of \in Invites /\ s2[r.of] # None
      BY <2>1, <2>4, RequestForms DEF AtMembers!Revoked, AtMembers!GoesAsAsked
    <3>2. LET v == [s2[r.of] EXCEPT !.revoked = TRUE] IN
          v \in AtMembers!Invitation /\ v.gives = s2[r.of].gives /\ v.byAdmin = s2[r.of].byAdmin
      BY <2>2, <3>1 DEF AtMembers!Invitation
    <3>3. s2' = [s2 EXCEPT ![r.of] = [s2[r.of] EXCEPT !.revoked = TRUE]]
      BY <2>4 DEF AtMembers!Revoked
    <3> QED
      BY <2>1, <2>2, <3>1, <3>2, <3>3 DEF AtMembers!MembersTypeOK
  <2>5. CASE AtMembers!Accepted(s)
    <3>1. r.of \in Invites /\ s2[r.of] # None
      BY <2>1, <2>5, RequestForms DEF AtMembers!Accepted, AtMembers!GoesAsAsked
    <3>2. LET v == [s2[r.of] EXCEPT !.accepted = TRUE] IN
          v \in AtMembers!Invitation /\ v.gives = s2[r.of].gives /\ v.byAdmin = s2[r.of].byAdmin
      BY <2>2, <3>1 DEF AtMembers!Invitation
    <3>3. UNCHANGED s2 \/ s2' = [s2 EXCEPT ![r.of] = [s2[r.of] EXCEPT !.accepted = TRUE]]
      BY <2>5 DEF AtMembers!Accepted
    <3> QED
      BY <2>1, <2>2, <3>1, <3>2, <3>3 DEF AtMembers!MembersTypeOK
  <2> QED
    BY <2>3, <2>4, <2>5 DEF AtMembers!Founded, AtMembers!Changed, AtMembers!SeatsSet
<1>3. AtMembers!GoesAsAsked'
  <2>1. AtMembers!SparesAuthor(s3')
    <3>1. CASE AtMembers!SeatsSet(s)
      BY <3>1, RequestForms, FlushedSub DEF AtMembers!SeatsSet, AtMembers!GoesAsAsked, AtMembers!SparesAuthor,
         AtMembers!MembersTypeOK
    <3>2. CASE UNCHANGED s3
      BY <3>2 DEF AtMembers!GoesAsAsked
    <3> QED
      BY <3>1, <3>2 DEF AtMembers!Invited, AtMembers!Revoked, AtMembers!Accepted, AtMembers!Founded, AtMembers!Changed
  <2>2. \A t \in Hands : s4[t].step \in {"revoke", "accept"} => s4[t].of \in Invites
    BY RequestForms
  <2> QED
    BY <1>0, <1>2, <2>1, <2>2 DEF AtMembers!GoesAsAsked, AtMembers!GoesWhere, AtMembers!SparesAuthor, AtMembers!Idle
<1>4. AtMembers!RightsAreHandedOn'
  \* People: who gets rights was given them.
  <2> DEFINE Granted == \A p \in People : AtMembers!HasRights(s1[p]) => p \in s6
  <2>1. Granted'
    <3>1. CASE UNCHANGED <<s1, s6>>
      BY <3>1 DEF AtMembers!RightsAreHandedOn, AtMembers!HasRights
    <3>2. ASSUME r.who \in People, r.seen \in AtMembers!Users, r.wanted \in AtMembers!Users,
                 s1' = [s1 EXCEPT ![r.who] = AtMembers!Flushed(@, r.seen, r.wanted)],
                 s6 \subseteq s6', AtMembers!HasRights(r.wanted) => r.who \in s6'
          PROVE  Granted'
      <4>1. LET row == AtMembers!Flushed(s1[r.who], r.seen, r.wanted) IN
            AtMembers!HasRights(row) => AtMembers!HasRights(s1[r.who]) \/ AtMembers!HasRights(r.wanted)
        BY <3>2, FlushedUser DEF AtMembers!HasRights, AtMembers!MembersTypeOK
      <4> HIDE DEF r
      <4> QED
        BY <3>2, <4>1 DEF AtMembers!RightsAreHandedOn, AtMembers!MembersTypeOK
    <3>3. CASE AtMembers!Accepted(s)
      <4>1. r.who \in People /\ r.of \in Invites /\ r.seen \in AtMembers!Users /\ r.wanted \in AtMembers!Users
        BY <3>3, RequestForms DEF AtMembers!Accepted
      <4>2. AtMembers!HasRights(r.wanted) => s2[r.of].byAdmin
        BY <3>3, <4>1 DEF AtMembers!Accepted, AtMembers!RightsAreHandedOn, AtMembers!MayGive, AtMembers!HasRights,
           AtMembers!GoesAsAsked
      <4> QED
        BY <3>1, <3>2, <3>3, <4>1, <4>2 DEF AtMembers!Accepted
    <3>4. CASE AtMembers!Founded(s) \/ AtMembers!Changed(s)
      <4>1. r.who \in People /\ r.seen \in AtMembers!Users /\ r.wanted \in AtMembers!Users
        BY <3>4, RequestForms DEF AtMembers!Founded, AtMembers!Changed
      <4> QED
        BY <3>2, <3>4, <4>1 DEF AtMembers!Founded, AtMembers!Changed
    <3> QED
      BY <3>1, <3>3, <3>4 DEF AtMembers!Invited, AtMembers!Revoked, AtMembers!SeatsSet
  \* Invitations: a new one is as it was asked for.
  <2>2. ASSUME NEW i \in Invites, s2'[i] # None PROVE AtMembers!MayGive(s2'[i])
    <3>1. CASE s2[i] # None
      BY <1>2, <3>1 DEF AtMembers!RightsAreHandedOn, AtMembers!MayGive, AtMembers!HasRights
    <3>2. CASE s2[i] = None /\ AtMembers!Invited(s)
      <4>1. AtMembers!MayGive(r)
        BY <3>2 DEF AtMembers!Invited, AtMembers!RightsAreHandedOn
      <4>2. s2'[i].gives = r.gives /\ s2'[i].byAdmin = r.byAdmin
        <5> DEFINE j == CHOOSE k \in AtMembers!Unsent : TRUE
                   new == [to |-> r.to, gives |-> r.gives, byAdmin |-> r.byAdmin, accepted |-> FALSE,
                           revoked |-> FALSE, expired |-> FALSE]
        <5>1. s2' = [s2 EXCEPT ![j] = new]
          BY <2>2, <3>2 DEF AtMembers!Invited
        <5>2. new.gives = r.gives /\ new.byAdmin = r.byAdmin
          OBVIOUS
        <5> HIDE DEF j, new
        <5> QED
          BY <2>2, <3>2, <5>1, <5>2 DEF AtMembers!MembersTypeOK
      <4> QED
        BY <4>1, <4>2 DEF AtMembers!MayGive, AtMembers!HasRights
    <3>3. CASE s2[i] = None /\ ~AtMembers!Invited(s)
      <4>1. s2'[i] = None
        <5>1. CASE AtMembers!Revoked(s)
          BY <3>3, <5>1, RequestForms DEF AtMembers!Revoked, AtMembers!GoesAsAsked, AtMembers!MembersTypeOK
        <5>2. CASE AtMembers!Accepted(s)
          BY <3>3, <5>2, RequestForms DEF AtMembers!Accepted, AtMembers!GoesAsAsked, AtMembers!MembersTypeOK
        <5> QED
          BY <3>3, <5>1, <5>2 DEF AtMembers!Founded, AtMembers!Changed, AtMembers!SeatsSet
      <4> QED
        BY <2>2, <4>1
    <3> QED
      BY <3>1, <3>2, <3>3
  <2>3. \A t \in Hands : s4[t].step \in {"revoke", "accept"} => s4[t].of \in Invites
    BY RequestForms
  <2> QED
    BY <1>0, <1>2, <2>1, <2>2, <2>3 DEF AtMembers!RightsAreHandedOn, AtMembers!GoesAsAsked, AtMembers!MayGive,
       AtMembers!HasRights, AtMembers!Idle
<1> QED
  BY <1>1, <1>3, <1>4

\* Requests that end, and what happens of itself.
LEMMA MembersRest ==
  ASSUME AtMembers!MembersInv,
         \/ \E s \in Hands :
              /\ UNCHANGED <<s1, s2, s3, s6>> /\ s4' = [s4 EXCEPT ![s] = AtMembers!Idle] /\ s5' = s5 \ {s}
         \/ \E i \in Invites : AtMembers!Expires(i)
         \/ \E p \in People : AtMembers!SignsUp(p)
         \/ AtMembers!QueueLands
         \/ UNCHANGED AtMembers!membersVars
  PROVE  AtMembers!StillAsRead' /\ AtMembers!GoesAsAsked' /\ AtMembers!RightsAreHandedOn'
<1> USE DEF AtMembers!MembersInv
<1>0. AtMembers!MembersTypeOK /\ None \notin AtMembers!Invitation
  BY DeskAssumption DEF AtMembers!MembersAssumption
<1>1. ASSUME NEW s \in Hands, UNCHANGED <<s1, s2, s3, s6>>, s4' = [s4 EXCEPT ![s] = AtMembers!Idle],
             s5' = s5 \ {s}
      PROVE  AtMembers!StillAsRead' /\ AtMembers!GoesAsAsked' /\ AtMembers!RightsAreHandedOn'
  <2>1. \A t \in Hands : s4'[t] = IF t = s THEN AtMembers!Idle ELSE s4[t]
    BY <1>1 DEF AtMembers!MembersTypeOK
  <2>2. AtMembers!StillAsRead'
    BY <1>1, <2>1 DEF AtMembers!StillAsRead, AtMembers!FoundAsRead, AtMembers!SeatLeft, AtMembers!Used,
       AtMembers!Open, AtMembers!Active, AtMembers!Members, AtMembers!Admins, AtMembers!LosesAdmin, AtMembers!Idle
  <2>3. AtMembers!GoesAsAsked'
    BY <1>1, <2>1 DEF AtMembers!GoesAsAsked, AtMembers!GoesWhere, AtMembers!SparesAuthor, AtMembers!Idle
  <2>4. AtMembers!RightsAreHandedOn'
    BY <1>1, <2>1 DEF AtMembers!RightsAreHandedOn, AtMembers!MayGive, AtMembers!HasRights, AtMembers!Idle
  <2> QED
    BY <2>2, <2>3, <2>4
\* An invitation that expires stays open: its seat is taken until it is revoked.
<1>2. ASSUME NEW i \in Invites, AtMembers!Expires(i)
      PROVE  AtMembers!StillAsRead' /\ AtMembers!GoesAsAsked' /\ AtMembers!RightsAreHandedOn'
  <2> DEFINE new == [s2[i] EXCEPT !.expired = TRUE]
  <2>1. s2[i] \in AtMembers!Invitation
    BY <1>0, <1>2 DEF AtMembers!Expires, AtMembers!Open, AtMembers!MembersTypeOK
  <2>2. /\ new \in AtMembers!Invitation /\ new.gives = s2[i].gives /\ new.byAdmin = s2[i].byAdmin
        /\ new.accepted = s2[i].accepted /\ new.revoked = s2[i].revoked
    BY <2>1 DEF AtMembers!Invitation
  <2>3. s2' = [s2 EXCEPT ![i] = new] /\ UNCHANGED <<s1, s3, s4, s5, s6>>
    BY <1>2 DEF AtMembers!Expires
  <2> HIDE DEF new
  <2>4. \A j \in Invites : /\ s2'[j] = None <=> s2[j] = None
                           /\ s2[j] # None => /\ s2'[j].gives = s2[j].gives /\ s2'[j].byAdmin = s2[j].byAdmin
                                              /\ s2'[j].accepted = s2[j].accepted /\ s2'[j].revoked = s2[j].revoked
    BY <1>0, <2>1, <2>2, <2>3 DEF AtMembers!MembersTypeOK
  <2>5. UNCHANGED AtMembers!Open
    BY <2>4 DEF AtMembers!Open
  <2>6. AtMembers!StillAsRead'
    BY <2>3, <2>5 DEF AtMembers!StillAsRead, AtMembers!FoundAsRead, AtMembers!SeatLeft, AtMembers!Used,
       AtMembers!Active, AtMembers!Members, AtMembers!Admins, AtMembers!LosesAdmin
  <2>7. \A t \in Hands : s4[t].step \in {"revoke", "accept"} => s4[t].of \in Invites
    BY <1>0, RequestForms
  <2>8. AtMembers!GoesAsAsked'
    BY <2>3, <2>4, <2>7 DEF AtMembers!GoesAsAsked, AtMembers!GoesWhere, AtMembers!SparesAuthor
  <2>9. AtMembers!RightsAreHandedOn'
    BY <2>3, <2>4, <2>7 DEF AtMembers!RightsAreHandedOn, AtMembers!MayGive, AtMembers!HasRights, AtMembers!GoesAsAsked
  <2> QED
    BY <2>6, <2>8, <2>9
\* Who signs up was nowhere before, and no request has read otherwise.
<1>3. ASSUME NEW p \in People, AtMembers!SignsUp(p)
      PROVE  AtMembers!StillAsRead' /\ AtMembers!GoesAsAsked' /\ AtMembers!RightsAreHandedOn'
  <2>1. s1[p].at = "nowhere" /\ UNCHANGED <<s2, s3, s4, s5, s6>>
    BY <1>3 DEF AtMembers!SignsUp
  <2>2. \A q \in People \ {p} : s1'[q] = s1[q]
    BY <1>0, <1>3 DEF AtMembers!SignsUp, AtMembers!MembersTypeOK
  <2>3. s1'[p].at = "unsettled" /\ ~AtMembers!HasRights(s1'[p])
    BY <1>0, <1>3 DEF AtMembers!SignsUp, AtMembers!MembersTypeOK, AtMembers!HasRights
  <2>4. UNCHANGED <<AtMembers!Active, AtMembers!Admins, AtMembers!Open>>
    BY <2>1, <2>2, <2>3 DEF AtMembers!Active, AtMembers!Members, AtMembers!Admins, AtMembers!Open
  <2>5. AtMembers!StillAsRead'
    <3> SUFFICES ASSUME NEW t \in Hands \ s5 PROVE AtMembers!FoundAsRead(s4[t])'
      BY <2>1 DEF AtMembers!StillAsRead
    <3>1. AtMembers!FoundAsRead(s4[t]) /\ AtMembers!GoesWhere(s4[t])
      BY DEF AtMembers!StillAsRead, AtMembers!GoesAsAsked
    <3>2. s4[t].step \in {"accept", "found", "change"} => s4[t].who \in People
      BY <1>0, RequestForms
    <3>3. s4[t].step \in {"found", "change"} => s4[t].who # p
      BY <2>1, <3>1 DEF AtMembers!FoundAsRead, AtMembers!GoesWhere
    <3>4. s4[t].step = "accept" /\ s4[t].seen.at # "nowhere" => s4[t].who # p
      BY <2>1, <3>1 DEF AtMembers!FoundAsRead
    <3> QED
      BY <2>1, <2>2, <2>4, <3>1, <3>2, <3>3, <3>4 DEF AtMembers!FoundAsRead, AtMembers!SeatLeft, AtMembers!Used,
         AtMembers!LosesAdmin
  <2>6. AtMembers!GoesAsAsked'
    BY <2>1 DEF AtMembers!GoesAsAsked, AtMembers!GoesWhere, AtMembers!SparesAuthor
  <2>7. AtMembers!RightsAreHandedOn'
    BY <2>1, <2>2, <2>3 DEF AtMembers!RightsAreHandedOn, AtMembers!MayGive, AtMembers!HasRights
  <2> QED
    BY <2>5, <2>6, <2>7
<1>4. CASE AtMembers!QueueLands
  <2>1. \A t \in Hands \ s5' : s4'[t] = AtMembers!Idle
    BY <1>4 DEF AtMembers!QueueLands, AtMembers!Overtaken
  <2>2. AtMembers!StillAsRead'
    BY <2>1 DEF AtMembers!StillAsRead, AtMembers!FoundAsRead, AtMembers!Idle
  <2>3. AtMembers!GoesAsAsked'
    BY <1>4 DEF AtMembers!QueueLands, AtMembers!GoesAsAsked, AtMembers!GoesWhere, AtMembers!SparesAuthor
  <2>4. \A p \in People : AtMembers!HasRights(s1'[p]) <=> AtMembers!HasRights(s1[p])
    BY <1>0, <1>4 DEF AtMembers!QueueLands, AtMembers!HasRights, AtMembers!MembersTypeOK, AtMembers!Users
  <2>5. AtMembers!RightsAreHandedOn'
    BY <1>4, <2>4 DEF AtMembers!QueueLands, AtMembers!RightsAreHandedOn, AtMembers!MayGive, AtMembers!HasRights
  <2> QED
    BY <2>2, <2>3, <2>5
<1>5. CASE UNCHANGED AtMembers!membersVars
  <2>1. UNCHANGED <<s1, s2, s3, s4, s5, s6>>
    BY <1>5 DEF AtMembers!membersVars
  <2>2. AtMembers!StillAsRead'
    BY <2>1 DEF AtMembers!StillAsRead, AtMembers!FoundAsRead, AtMembers!SeatLeft, AtMembers!Used,
       AtMembers!Open, AtMembers!Active, AtMembers!Members, AtMembers!Admins, AtMembers!LosesAdmin
  <2>3. AtMembers!GoesAsAsked' /\ AtMembers!RightsAreHandedOn'
    BY <2>1 DEF AtMembers!GoesAsAsked, AtMembers!GoesWhere, AtMembers!SparesAuthor, AtMembers!RightsAreHandedOn,
       AtMembers!MayGive, AtMembers!HasRights
  <2> QED
    BY <2>2, <2>3
<1> QED
  BY <1>1, <1>2, <1>3, <1>4, <1>5

LEMMA MembersStay ==
  ASSUME AtMembers!MembersInv, [AtMembers!MembersNext]_AtMembers!membersVars
  PROVE  AtMembers!MembersInv'
<1>1. AtMembers!MembersTypeOK'
  BY MembersTypesStay DEF AtMembers!MembersInv
<1>2. AtMembers!StillAsRead' /\ AtMembers!GoesAsAsked' /\ AtMembers!RightsAreHandedOn'
  <2>1. ASSUME NEW s \in Hands, AtMembers!Invited(s) \/ AtMembers!Revoked(s) \/ AtMembers!Accepted(s) \/
               AtMembers!Founded(s) \/ AtMembers!Changed(s) \/ AtMembers!SeatsSet(s) \/ AtMembers!Dies(s)
        PROVE  <1>2
    <3>1. \/ AtMembers!Commits(s) /\ ~AtMembers!Dies(s)
          \/ UNCHANGED <<s1, s2, s3, s6>> /\ s4' = [s4 EXCEPT ![s] = AtMembers!Idle] /\ s5' = s5 \ {s}
      BY <2>1 DEF AtMembers!Invited, AtMembers!Revoked, AtMembers!Accepted, AtMembers!Founded, AtMembers!Changed,
         AtMembers!SeatsSet, AtMembers!Dies
    <3> QED
      BY <2>1, <3>1, MembersWrite, MembersRest
  <2>2. ASSUME NEW by \in People, NEW p \in People, NEW s \in Hands,
               \/ \E role \in Roles : AtMembers!AsksToChange(s, by, p, [s1[p] EXCEPT !.role = role])
               \/ \E on \in BOOLEAN : AtMembers!AsksToChange(s, by, p, [s1[p] EXCEPT !.active = on])
               \/ \E may \in BOOLEAN : AtMembers!AsksToChange(s, by, p, [s1[p] EXCEPT !.opens = may])
        PROVE  \E wanted \in AtMembers!Users : wanted.at = s1[p].at /\ AtMembers!AsksToChange(s, by, p, wanted)
    <3>1. s1[p] \in AtMembers!Users
      BY DEF AtMembers!MembersInv, AtMembers!MembersTypeOK
    <3>2. \A role \in Roles : LET w == [s1[p] EXCEPT !.role = role] IN w \in AtMembers!Users /\ w.at = s1[p].at
      BY <3>1 DEF AtMembers!Users
    <3>3. \A on \in BOOLEAN : LET w == [s1[p] EXCEPT !.active = on] IN w \in AtMembers!Users /\ w.at = s1[p].at
      BY <3>1 DEF AtMembers!Users
    <3>4. \A may \in BOOLEAN : LET w == [s1[p] EXCEPT !.opens = may] IN w \in AtMembers!Users /\ w.at = s1[p].at
      BY <3>1 DEF AtMembers!Users
    <3> QED
      BY <2>2, <3>2, <3>3, <3>4
  <2> QED
    BY <2>1, <2>2, MembersAsk, MembersRest DEF AtMembers!MembersNext
<1> QED
  BY <1>1, <1>2 DEF AtMembers!MembersInv

-----------------------------------------------------------------------------
\* Sets are counted there as they are here.
LEMMA Counted ==
  ASSUME NEW S, IsFiniteSet(S)
  PROVE  AtMembers!Cardinality(S) = Cardinality(S) /\ Cardinality(S) \in Nat
<1>1. AtMembers!Cardinality(S) = Cardinality(S)
  BY DEF AtMembers!Cardinality, Cardinality
<1> QED
  BY <1>1, FS_CardinalityType

\* What a step did to those who take a seat bounds what it did to the seats in use.
LEMMA SeatsCount ==
  ASSUME AtMembers!MembersTypeOK, AtMembers!MembersTypeOK', NEW S, NEW T,
         AtMembers!Active' \subseteq AtMembers!Active \cup S, AtMembers!Open' \subseteq AtMembers!Open \cup T,
         IsFiniteSet(S), IsFiniteSet(T)
  PROVE  /\ AtMembers!Used \in Nat /\ AtMembers!Used' \in Nat
         /\ AtMembers!Used' <= AtMembers!Used + Cardinality(S) + Cardinality(T)
         /\ \A i \in AtMembers!Open \ AtMembers!Open' :
              T = {} => AtMembers!Used' <= AtMembers!Used + Cardinality(S) - 1
<1> DEFINE A == AtMembers!Active
           O == AtMembers!Open
           B == AtMembers!Active'
           P == AtMembers!Open'
<1>1. IsFiniteSet(People) /\ IsFiniteSet(Invites)
  <2>1. AtMembers!IsFiniteSet(People) /\ AtMembers!IsFiniteSet(Invites)
    BY DeskAssumption DEF AtMembers!MembersAssumption
  <2> QED
    BY <2>1 DEF AtMembers!IsFiniteSet, IsFiniteSet
<1>2. IsFiniteSet(A) /\ IsFiniteSet(O) /\ IsFiniteSet(B) /\ IsFiniteSet(P)
  BY <1>1, FS_Subset DEF AtMembers!Active, AtMembers!Members, AtMembers!Open
<1>3. AtMembers!Used = Cardinality(A) + Cardinality(O) /\ AtMembers!Used' = Cardinality(B) + Cardinality(P)
  BY <1>2, Counted DEF AtMembers!Used
<1> HIDE DEF A, O, B, P
<1>4. ASSUME NEW U, NEW V, NEW W, IsFiniteSet(U), IsFiniteSet(V), IsFiniteSet(W), W \subseteq U \cup V
      PROVE  Cardinality(W) <= Cardinality(U) + Cardinality(V)
  <2>1. IsFiniteSet(U \cup V)
        /\ Cardinality(U \cup V) = Cardinality(U) + Cardinality(V) - Cardinality(U \cap V)
    BY <1>4, FS_Union
  <2>2. IsFiniteSet(U \cap V)
    BY <1>4, FS_Subset
  <2>3. Cardinality(W) <= Cardinality(U \cup V)
    BY <1>4, <2>1, FS_Subset
  <2>4. {Cardinality(U), Cardinality(V), Cardinality(W), Cardinality(U \cap V)} \subseteq Nat
    BY <1>4, <2>2, FS_CardinalityType
  <2> QED
    BY <2>1, <2>3, <2>4
<1>5. Cardinality(B) <= Cardinality(A) + Cardinality(S) /\ Cardinality(P) <= Cardinality(O) + Cardinality(T)
  BY <1>2, <1>4 DEF A, O, B, P
<1>6. {Cardinality(A), Cardinality(O), Cardinality(B), Cardinality(P), Cardinality(S), Cardinality(T)} \subseteq Nat
  BY <1>2, FS_CardinalityType
<1>7. ASSUME NEW i \in O \ P, T = {} PROVE Cardinality(P) <= Cardinality(O) - 1
  <2>1. P \subseteq O \ {i}
    BY <1>7 DEF O, P
  <2>2. IsFiniteSet(O \ {i}) /\ Cardinality(O \ {i}) = Cardinality(O) - 1
    BY <1>2, <1>7, FS_RemoveElement
  <2> QED
    BY <2>1, <2>2, FS_Subset
<1> QED
  BY <1>3, <1>5, <1>6, <1>7 DEF O, P

\* A seat is taken only where there was one: the request that takes it read, at its
\* commit still truly, that one was left, or that its invitation still held one.
LEMMA SeatStep ==
  ASSUME AtMembers!MembersInv, AtMembers!MembersTypeOK', [AtMembers!MembersNext]_AtMembers!membersVars
  PROVE  AtMembers!SeatWasFree
<1> SUFFICES ASSUME AtMembers!Used' > AtMembers!Used, AtMembers!Used' > s3'.seats
             PROVE  \E s \in Hands : s4'[s] # s4[s] /\ (s \in s5 \/ s4[s].step = "change")
  BY DEF AtMembers!SeatWasFree
<1> USE DEF AtMembers!MembersInv
<1>1. IsFiniteSet({}) /\ Cardinality({}) = 0
  BY FS_EmptySet
<1>2. ~(AtMembers!Active' \subseteq AtMembers!Active /\ AtMembers!Open' \subseteq AtMembers!Open)
  <2> SUFFICES ASSUME AtMembers!Active' \subseteq AtMembers!Active \cup {},
                      AtMembers!Open' \subseteq AtMembers!Open \cup {}
               PROVE  FALSE
    OBVIOUS
  <2>1. AtMembers!Used \in Nat /\ AtMembers!Used' \in Nat /\ AtMembers!Used' <= AtMembers!Used + 0 + 0
    BY <1>1, SeatsCount
  <2> QED
    BY <2>1
<1>3. s1' # s1 \/ s2' # s2
  BY <1>2 DEF AtMembers!Active, AtMembers!Members, AtMembers!Open
<1>4. ASSUME NEW s \in Hands, s4'[s] = AtMembers!Idle, s4[s] # AtMembers!Idle,
             s \notin s5 => FALSE
      PROVE  \E t \in Hands : s4'[t] # s4[t] /\ (t \in s5 \/ s4[t].step = "change")
  BY <1>4
<1>5. ASSUME NEW s \in Hands, AtMembers!Commits(s), s4[s].step \in {"invite", "revoke", "accept", "found", "change"}
      PROVE  s4'[s] = AtMembers!Idle /\ s4[s] # AtMembers!Idle
  BY <1>5 DEF AtMembers!Commits, AtMembers!Idle, AtMembers!MembersTypeOK
<1>6. ASSUME NEW s \in Hands, AtMembers!Invited(s)
      PROVE  \E t \in Hands : s4'[t] # s4[t] /\ (t \in s5 \/ s4[t].step = "change")
  <2> DEFINE j == CHOOSE i \in AtMembers!Unsent : TRUE
  <2>1. /\ AtMembers!Commits(s) /\ s4[s].step = "invite" /\ UNCHANGED <<s1, s3>>
        /\ \A i \in Invites \ {j} : s2'[i] = s2[i]
    BY <1>3, <1>6 DEF AtMembers!Invited, AtMembers!MembersTypeOK
  <2>2. CASE s \in s5
    BY <1>5, <2>1, <2>2
  <2>3. CASE s \notin s5
    <3>1. AtMembers!Used < s3.seats
      BY <2>1, <2>3 DEF AtMembers!StillAsRead, AtMembers!FoundAsRead, AtMembers!SeatLeft
    <3>2. AtMembers!Active' \subseteq AtMembers!Active \cup {} /\ AtMembers!Open' \subseteq AtMembers!Open \cup {j}
      BY <2>1 DEF AtMembers!Active, AtMembers!Members, AtMembers!Open
    <3> HIDE DEF j
    <3>3. IsFiniteSet({j}) /\ Cardinality({j}) = 1
      BY FS_Singleton
    <3>4. AtMembers!Used \in Nat /\ AtMembers!Used' \in Nat /\ AtMembers!Used' <= AtMembers!Used + 0 + 1
      BY <1>1, <3>2, <3>3, SeatsCount
    <3>5. s3.seats \in Nat
      BY DeskAssumption DEF AtMembers!MembersAssumption, AtMembers!MembersTypeOK, AtMembers!Subs
    <3> QED
      BY <2>1, <3>1, <3>4, <3>5
  <2> QED
    BY <2>2, <2>3
<1>7. ASSUME NEW s \in Hands, AtMembers!Revoked(s) PROVE FALSE
  <2>1. s4[s].of \in Invites /\ s2[s4[s].of] # None
    BY <1>7, RequestForms DEF AtMembers!Revoked, AtMembers!GoesAsAsked
  <2> QED
    BY <1>2, <1>7, <2>1 DEF AtMembers!Revoked, AtMembers!Open, AtMembers!Active, AtMembers!Members,
       AtMembers!MembersTypeOK
<1>8. ASSUME NEW s \in Hands, AtMembers!Accepted(s)
      PROVE  \E t \in Hands : s4'[t] # s4[t] /\ (t \in s5 \/ s4[t].step = "change")
  <2> DEFINE r == s4[s]
  <2>1. /\ AtMembers!Commits(s) /\ r.step = "accept" /\ UNCHANGED s3
        /\ s1' = [s1 EXCEPT ![r.who] = AtMembers!Flushed(s1[r.who], r.seen, r.wanted)]
        /\ s2' = [s2 EXCEPT ![r.of] = [s2[r.of] EXCEPT !.accepted = TRUE]]
    BY <1>3, <1>8 DEF AtMembers!Accepted
  <2>2. CASE s \in s5
    BY <1>5, <2>1, <2>2
  <2>3. CASE s \notin s5
    <3>1. r.of \in AtMembers!Open /\ r.who \in People
      BY <2>1, <2>3, RequestForms DEF AtMembers!StillAsRead, AtMembers!FoundAsRead
    <3>2. s2[r.of] \in AtMembers!Invitation
      BY <3>1 DEF AtMembers!Open, AtMembers!MembersTypeOK
    <3>3. AtMembers!Open' \subseteq AtMembers!Open \cup {} /\ r.of \notin AtMembers!Open'
      <4>1. [s2[r.of] EXCEPT !.accepted = TRUE].accepted
        BY <3>2 DEF AtMembers!Invitation
      <4> HIDE DEF r
      <4> QED
        BY <2>1, <3>1, <4>1 DEF AtMembers!Open, AtMembers!MembersTypeOK
    <3>4. AtMembers!Active' \subseteq AtMembers!Active \cup {r.who}
      <4> HIDE DEF r
      <4> QED
        BY <2>1 DEF AtMembers!Active, AtMembers!Members, AtMembers!MembersTypeOK
    <3> HIDE DEF r
    <3>5. IsFiniteSet({r.who}) /\ Cardinality({r.who}) = 1
      BY FS_Singleton
    <3>6. AtMembers!Used \in Nat /\ AtMembers!Used' \in Nat /\ AtMembers!Used' <= AtMembers!Used + 1 - 1
      BY <1>1, <3>1, <3>3, <3>4, <3>5, SeatsCount
    <3> QED
      BY <3>6
  <2> QED
    BY <2>2, <2>3
<1>9. ASSUME NEW s \in Hands, AtMembers!Founded(s) PROVE FALSE
  <2> DEFINE r == s4[s]
  <2>1. r.step = "found" /\ UNCHANGED s2 /\ s1' = [s1 EXCEPT ![r.who] = AtMembers!Flushed(s1[r.who], r.seen, r.wanted)]
    BY <1>9 DEF AtMembers!Founded
  <2>2. r.who \in People /\ r.seen \in AtMembers!Users /\ r.wanted \in AtMembers!Users
    BY <2>1, RequestForms
  <2>3. AtMembers!Flushed(s1[r.who], r.seen, r.wanted).at = "theirs"
    BY <2>1, <2>2, FlushedUser DEF AtMembers!GoesAsAsked, AtMembers!GoesWhere, AtMembers!MembersTypeOK
  <2> HIDE DEF r
  <2> QED
    BY <1>2, <2>1, <2>2, <2>3 DEF AtMembers!Open, AtMembers!Active, AtMembers!Members, AtMembers!MembersTypeOK
<1>10. ASSUME NEW s \in Hands, AtMembers!Changed(s)
       PROVE  \E t \in Hands : s4'[t] # s4[t] /\ (t \in s5 \/ s4[t].step = "change")
  BY <1>5, <1>10 DEF AtMembers!Changed
<1>11. ASSUME NEW i \in Invites, AtMembers!Expires(i) PROVE FALSE
  <2>1. s2[i] \in AtMembers!Invitation
    BY <1>11 DEF AtMembers!Expires, AtMembers!Open, AtMembers!MembersTypeOK
  <2>2. LET new == [s2[i] EXCEPT !.expired = TRUE] IN new.accepted = s2[i].accepted /\ new.revoked = s2[i].revoked
    BY <2>1 DEF AtMembers!Invitation
  <2> QED
    BY <1>2, <1>11, <2>2 DEF AtMembers!Expires, AtMembers!Open, AtMembers!Active, AtMembers!Members,
       AtMembers!MembersTypeOK
<1>12. ASSUME NEW p \in People, AtMembers!SignsUp(p) PROVE FALSE
  BY <1>2, <1>12 DEF AtMembers!SignsUp, AtMembers!Open, AtMembers!Active, AtMembers!Members, AtMembers!MembersTypeOK
<1>13. CASE AtMembers!QueueLands
  <2>1. AtMembers!Open' = AtMembers!Open
    BY <1>13 DEF AtMembers!QueueLands, AtMembers!Open
  <2>2. AtMembers!Active' \subseteq AtMembers!Active
    BY <1>13 DEF AtMembers!QueueLands, AtMembers!Active, AtMembers!Members, AtMembers!MembersTypeOK, AtMembers!Users
  <2> QED
    BY <1>2, <2>1, <2>2
<1>14. ASSUME NEW s \in Hands, AtMembers!SeatsSet(s) \/ AtMembers!Dies(s) \/ \E r : AtMembers!Reads(s, r) PROVE FALSE
  BY <1>3, <1>14 DEF AtMembers!SeatsSet, AtMembers!Dies, AtMembers!Reads
<1>15. ASSUME NEW s \in Hands, NEW by, NEW p,
              \/ \E gives : AtMembers!AsksToInvite(s, by, p, gives)
              \/ \E i : AtMembers!AsksToRevoke(s, by, i) \/ AtMembers!AsksToAccept(s, i)
              \/ AtMembers!AsksToFound(s, p)
              \/ \E wanted : AtMembers!AsksToChange(s, by, p, wanted)
              \/ \E n : AtMembers!AsksForSeats(s, by, n)
       PROVE  FALSE
  BY <1>14, <1>15 DEF AtMembers!AsksToInvite, AtMembers!AsksToRevoke, AtMembers!AsksToAccept, AtMembers!AsksToFound,
     AtMembers!AsksToChange, AtMembers!AsksForSeats
<1> QED
  BY <1>3, <1>6, <1>7, <1>8, <1>9, <1>10, <1>11, <1>12, <1>13, <1>14, <1>15
     DEF AtMembers!MembersNext, AtMembers!membersVars

\* The last admin goes only with a decision that another commit made stale, with a
\* downsize whose author is no longer an admin, or with an invitation he accepts.
LEMMA AdminStep ==
  ASSUME AtMembers!MembersInv, [AtMembers!MembersNext]_AtMembers!membersVars
  PROVE  AtMembers!LastAdminStays
<1> DEFINE Excused == \/ \E s \in s5 : s4'[s] # s4[s]
                      \/ s3.queue # None /\ s3'.queue = None /\ s3.queue.by \notin AtMembers!Admins
                      \/ \E s \in Hands : s4[s].step = "accept" /\ s4[s].seen.at = "ours" /\ s4'[s] # s4[s]
<1> SUFFICES ASSUME AtMembers!Admins # {}, AtMembers!Admins' = {} PROVE Excused
  BY DEF AtMembers!LastAdminStays
<1> HIDE DEF Excused
<1> USE DEF AtMembers!MembersInv
<1>1. s1' # s1
  BY DEF AtMembers!Admins, AtMembers!Active, AtMembers!Members
<1>2. ASSUME NEW s \in Hands, AtMembers!Commits(s), s4[s].step \in {"accept", "found", "change"}
      PROVE  s4'[s] # s4[s]
  BY <1>2 DEF AtMembers!Commits, AtMembers!Idle, AtMembers!MembersTypeOK
\* Of a single person who is written, it is he.
<1>3. ASSUME NEW p \in People, NEW row, s1' = [s1 EXCEPT ![p] = row]
      PROVE  AtMembers!Admins = {p} /\ ~(row.at = "ours" /\ row.active /\ row.role = "admin")
  <2>1. \A q \in People : s1'[q] = IF q = p THEN row ELSE s1[q]
    BY <1>3 DEF AtMembers!MembersTypeOK
  <2> QED
    BY <2>1 DEF AtMembers!Admins, AtMembers!Active, AtMembers!Members
<1>4. ASSUME NEW s \in Hands, AtMembers!Accepted(s) PROVE Excused
  <2> DEFINE r == s4[s]
             row == AtMembers!Flushed(s1[r.who], r.seen, r.wanted)
  <2>1. AtMembers!Commits(s) /\ r.step = "accept" /\ s1' = [s1 EXCEPT ![r.who] = row]
        /\ (r.seen.at = "nowhere" => s1[r.who].at = "nowhere")
    BY <1>1, <1>4 DEF AtMembers!Accepted
  <2>2. CASE s \in s5 \/ r.seen.at = "ours"
    BY <1>2, <2>1, <2>2 DEF Excused
  <2>3. CASE s \notin s5 /\ r.seen.at # "ours"
    <3>1. r.who \in People /\ s1[r.who].at # "ours"
      BY <2>1, <2>3, RequestForms DEF AtMembers!StillAsRead, AtMembers!FoundAsRead
    <3> HIDE DEF row
    <3>2. AtMembers!Admins = {r.who}
      BY <1>3, <2>1, <3>1
    <3> QED
      BY <3>1, <3>2 DEF AtMembers!Admins, AtMembers!Active, AtMembers!Members
  <2> QED
    BY <2>2, <2>3
<1>5. ASSUME NEW s \in Hands, AtMembers!Founded(s) \/ AtMembers!Changed(s) PROVE Excused
  <2> DEFINE r == s4[s]
             row == AtMembers!Flushed(s1[r.who], r.seen, r.wanted)
  <2>1. /\ AtMembers!Commits(s) /\ r.step \in {"found", "change"} /\ s1' = [s1 EXCEPT ![r.who] = row]
        /\ r.who \in People /\ r.seen \in AtMembers!Users /\ r.wanted \in AtMembers!Users
    BY <1>5, RequestForms DEF AtMembers!Founded, AtMembers!Changed
  <2>2. CASE s \in s5
    BY <1>2, <2>1, <2>2 DEF Excused
  <2>3. CASE s \notin s5
    <3>1. AtMembers!FoundAsRead(r) /\ AtMembers!GoesWhere(r)
      BY <2>3 DEF AtMembers!StillAsRead, AtMembers!GoesAsAsked
    <3>2. r.seen = s1[r.who]
      BY <2>1, <3>1 DEF AtMembers!FoundAsRead
    <3>3. row = r.wanted
      BY <2>1, <3>2, FlushedUser DEF AtMembers!MembersTypeOK
    <3> HIDE DEF row
    <3>4. AtMembers!Admins = {r.who} /\ ~(row.at = "ours" /\ row.active /\ row.role = "admin")
      BY <1>3, <2>1
    <3>5. s1[r.who].at = "ours" /\ s1[r.who].role = "admin"
      BY <3>4 DEF AtMembers!Admins, AtMembers!Active, AtMembers!Members
    <3>6. r.step = "change" /\ r.wanted.at = "ours"
      BY <2>1, <3>1, <3>2, <3>5 DEF AtMembers!GoesWhere
    <3>7. AtMembers!LosesAdmin(r.who, r.wanted)
      BY <3>3, <3>4, <3>5, <3>6 DEF AtMembers!LosesAdmin
    <3>8. AtMembers!Admins \ {r.who} # {}
      BY <3>1, <3>6, <3>7 DEF AtMembers!FoundAsRead
    <3> QED
      BY <3>4, <3>8
  <2> QED
    BY <2>2, <2>3
<1>6. ASSUME NEW p \in People, AtMembers!SignsUp(p) PROVE Excused
  <2>1. s1[p].at = "nowhere" /\ AtMembers!Admins = {p}
    BY <1>3, <1>6 DEF AtMembers!SignsUp
  <2> QED
    BY <2>1 DEF AtMembers!Admins, AtMembers!Active, AtMembers!Members
<1>7. CASE AtMembers!QueueLands
  <2>1. s3.queue # None /\ s3'.queue = None /\ s3.queue.by \notin s3.queue.victims
    BY <1>7 DEF AtMembers!QueueLands, AtMembers!GoesAsAsked, AtMembers!SparesAuthor
  <2>2. ASSUME NEW p \in AtMembers!Admins, p \notin s3.queue.victims PROVE FALSE
    BY <1>7, <2>2 DEF AtMembers!QueueLands, AtMembers!Admins, AtMembers!Active, AtMembers!Members
  <2> QED
    BY <2>1, <2>2 DEF Excused
<1>8. ASSUME NEW s \in Hands,
             AtMembers!Invited(s) \/ AtMembers!Revoked(s) \/ AtMembers!SeatsSet(s) \/ AtMembers!Dies(s) \/
             \E r : AtMembers!Reads(s, r)
      PROVE  FALSE
  BY <1>1, <1>8 DEF AtMembers!Invited, AtMembers!Revoked, AtMembers!SeatsSet, AtMembers!Dies, AtMembers!Reads
<1>9. ASSUME NEW s \in Hands, NEW by, NEW p,
             \/ \E gives : AtMembers!AsksToInvite(s, by, p, gives)
             \/ \E i : AtMembers!AsksToRevoke(s, by, i) \/ AtMembers!AsksToAccept(s, i)
             \/ AtMembers!AsksToFound(s, p)
             \/ \E wanted : AtMembers!AsksToChange(s, by, p, wanted)
             \/ \E n : AtMembers!AsksForSeats(s, by, n)
      PROVE  FALSE
  BY <1>8, <1>9 DEF AtMembers!AsksToInvite, AtMembers!AsksToRevoke, AtMembers!AsksToAccept, AtMembers!AsksToFound,
     AtMembers!AsksToChange, AtMembers!AsksForSeats
<1>10. ASSUME NEW i, AtMembers!Expires(i) PROVE FALSE
  BY <1>1, <1>10 DEF AtMembers!Expires
<1> QED
  BY <1>1, <1>4, <1>5, <1>6, <1>7, <1>8, <1>9, <1>10 DEF AtMembers!MembersNext, AtMembers!membersVars

\* The people of a company keep their invariant through every step of the desk.
THEOREM MembersInductive == DeskSpec => [](screen = "members" => AtMembers!MembersInv)
<1>1. DeskInit => (screen = "members" => AtMembers!MembersInv)
  BY OneToBeginWith, MembersStarts
<1>2. ASSUME screen = "members" => AtMembers!MembersInv, [DeskNext]_deskVars
      PROVE  (screen = "members" => AtMembers!MembersInv)'
  BY <1>2, OneAtATime, MembersStay
<1> QED
  BY <1>1, <1>2, PTL DEF DeskSpec

\* Requests that no other commit overtook keep a company within its seats and never take
\* its last admin, and rights come from an admin or with the founding of a company.
THEOREM MembersKeepTheirRules == DeskSpec => MembersKeepTheRules
<1>1. AtMembers!MembersInv => AtMembers!RightsAreGiven
  BY DEF AtMembers!MembersInv, AtMembers!RightsAreHandedOn, AtMembers!RightsAreGiven, AtMembers!Members
<1>2. ASSUME screen = "members" => AtMembers!MembersInv, [DeskNext]_deskVars
      PROVE  screen = "members" => AtMembers!SeatWasFree /\ AtMembers!LastAdminStays
  <2> SUFFICES ASSUME screen = "members" PROVE AtMembers!SeatWasFree /\ AtMembers!LastAdminStays
    OBVIOUS
  <2>1. AtMembers!MembersInv /\ [AtMembers!MembersNext]_AtMembers!membersVars
    BY <1>2, OneAtATime
  <2>2. AtMembers!MembersTypeOK'
    BY <2>1, MembersStay DEF AtMembers!MembersInv
  <2> QED
    BY <2>1, <2>2, SeatStep, AdminStep
<1> QED
  BY <1>1, <1>2, MembersInductive, PTL DEF DeskSpec, MembersKeepTheRules

-----------------------------------------------------------------------------
(***************************************************************************)
(* How one person gets in.                                                 *)
(***************************************************************************)
LEMMA TokensBounds == MaxLinks \in Nat /\ MaxTokens \in Nat
  BY DeskAssumption DEF AtTokens!TokensAssumption

LEMMA TokenRequestForms ==
  ASSUME AtTokens!TokensTypeOK, NEW s \in Hands
  PROVE  /\ s7[s].step = "link" => s7[s] \in [step : {"link"}, purpose : AtTokens!Purposes, olds : SUBSET (1..MaxLinks),
              makes : BOOLEAN, browser : SUBSET Browsers]
         /\ s7[s].step = "mail" => s7[s] \in [step : {"mail"}, of : 1..MaxLinks, browser : SUBSET Browsers]
         /\ s7[s].step = "session" => s7[s] \in [step : {"session"}, browser : Browsers, age : Nat]
         /\ s7[s].step = "refresh" => s7[s] \in [step : {"refresh"}, browser : Browsers, row : AtTokens!Rows]
         /\ s7[s].step \in {"verify", "reset"} =>
              s7[s] \in [step : {"verify", "reset"}, browser : Browsers, age : Nat, of : 1..MaxLinks]
         /\ s7[s].step = "erased" =>
              s7[s] \in [step : {"erased"}, browser : Browsers, of : 1..MaxLinks, gone : SUBSET (1..MaxTokens)]
  BY DEF AtTokens!TokensTypeOK, AtTokens!Idle, AtTokens!Requests

LEMMA TokensTypesStart == AtTokens!TokensInit => AtTokens!TokensTypeOK
<1> SUFFICES ASSUME AtTokens!TokensInit PROVE AtTokens!TokensTypeOK
  OBVIOUS
<1>1. s1 \in [known : BOOLEAN, password : BOOLEAN, verified : BOOLEAN, active : BOOLEAN]
  <2>1. /\ [known |-> FALSE, password |-> FALSE, verified |-> FALSE, active |-> FALSE]
             \in [known : BOOLEAN, password : BOOLEAN, verified : BOOLEAN, active : BOOLEAN]
        /\ [known |-> TRUE, password |-> FALSE, verified |-> FALSE, active |-> TRUE]
             \in [known : BOOLEAN, password : BOOLEAN, verified : BOOLEAN, active : BOOLEAN]
        /\ [known |-> TRUE, password |-> TRUE, verified |-> TRUE, active |-> TRUE]
             \in [known : BOOLEAN, password : BOOLEAN, verified : BOOLEAN, active : BOOLEAN]
    OBVIOUS
  <2> QED
    BY <2>1, Zenon DEF AtTokens!TokensInit
<1>2. s9 \in [links : 0..MaxLinks, tokens : 0..MaxTokens] /\ s6 \in [Browsers -> 0..MaxTokens]
  BY TokensBounds DEF AtTokens!TokensInit
<1>3. /\ s2 = {} /\ s3 = {} /\ s4 \in [1..MaxLinks -> Nat] /\ s5 = {} /\ s7 \in [Hands -> {AtTokens!Idle}]
      /\ s8 = {} /\ s10 = 0 /\ taps = 0
  BY DEF AtTokens!TokensInit
<1> QED
  BY <1>1, <1>2, <1>3 DEF AtTokens!TokensTypeOK

\* After a step of its own no request has changed, and after a commit one has.
LEMMA AtOnceKeeps ==
  ASSUME AtTokens!TokensTypeOK, AtTokens!AtOnce
  PROVE  s7' = s7 /\ s8' \subseteq Hands /\ \A t \in Hands \ s8' : s7'[t] = AtTokens!Idle
  BY DEF AtTokens!AtOnce

LEMMA CommitKeeps ==
  ASSUME AtTokens!TokensTypeOK, NEW s \in Hands, NEW next, AtTokens!Commits(s, next)
  PROVE  /\ s7' = [s7 EXCEPT ![s] = next] /\ s8' \subseteq Hands /\ UNCHANGED taps
         /\ s7'[s] = next /\ \A t \in Hands \ {s} : t \notin s8' => s7'[t] = AtTokens!Idle
  BY DEF AtTokens!Commits, AtTokens!TokensTypeOK

\* A new session adds its row to those that are kept.
LEMMA SessionRow ==
  ASSUME AtTokens!TokensTypeOK, NEW s \in Hands, s7[s].browser \in Browsers,
         NEW chain \in 0..MaxTokens, NEW age \in Nat, NEW late \in BOOLEAN, NEW kept \in SUBSET AtTokens!Rows,
         AtTokens!Session(s, chain, age, late, kept)
  PROVE  /\ s5' \subseteq AtTokens!Rows /\ s6' \in [Browsers -> 0..MaxTokens]
         /\ s9' \in [links : 0..MaxLinks, tokens : 0..MaxTokens]
         /\ s9'.links = s9.links /\ s9'.tokens = s9.tokens + 1
         /\ \E new \in AtTokens!Rows :
              /\ s5' = kept \cup {new} /\ new.jti = s9.tokens + 1 /\ new.age = age
              /\ new.chain = (IF chain = 0 THEN s9.tokens + 1 ELSE chain) /\ new.late = (late \/ s \in s8)
<1> DEFINE jti == s9.tokens + 1
           new == [jti |-> jti, chain |-> IF chain = 0 THEN jti ELSE chain, age |-> age, late |-> late \/ s \in s8]
<1>1. s9 \in [links : 0..MaxLinks, tokens : 0..MaxTokens] /\ s9.tokens < MaxTokens
  BY DEF AtTokens!Session, AtTokens!TokensTypeOK
<1>2. jti \in 1..MaxTokens
  BY <1>1, TokensBounds
<1>3. (late \/ s \in s8) \in BOOLEAN /\ (IF chain = 0 THEN jti ELSE chain) \in 1..MaxTokens
  BY <1>2, TokensBounds
<1>4. new \in AtTokens!Rows
  BY <1>2, <1>3 DEF AtTokens!Rows
<1>5. s5' = kept \cup {new}
  BY DEF AtTokens!Session
<1>6. s6' \in [Browsers -> 0..MaxTokens]
  <2>1. PICK to \in {jti, s6[s7[s].browser]} : s6' = [s6 EXCEPT ![s7[s].browser] = to]
    BY DEF AtTokens!Session
  <2>2. to \in 0..MaxTokens
    BY <1>2, <2>1, TokensBounds DEF AtTokens!TokensTypeOK
  <2> QED
    BY <2>1, <2>2 DEF AtTokens!TokensTypeOK
<1>7. s9' = [s9 EXCEPT !.tokens = jti]
  BY DEF AtTokens!Session
<1> QED
  BY <1>1, <1>2, <1>4, <1>5, <1>6, <1>7

\* The first token of a sign-in.
LEMMA FirstRow ==
  ASSUME AtTokens!TokensTypeOK, NEW s \in Hands, s7[s].browser \in Browsers,
         NEW age \in Nat, NEW kept \in SUBSET AtTokens!Rows, AtTokens!Session(s, 0, age, FALSE, kept)
  PROVE  /\ s9' \in [links : 0..MaxLinks, tokens : 0..MaxTokens]
         /\ s9'.links = s9.links /\ s9'.tokens = s9.tokens + 1
         /\ \E new \in AtTokens!Rows :
              /\ s5' = kept \cup {new} /\ new.jti = s9.tokens + 1 /\ new.age = age
              /\ new.chain = s9.tokens + 1 /\ new.late = (s \in s8)
<1>0. PICK chain \in 0..MaxTokens : chain = 0
  BY TokensBounds
<1>1. PICK late \in BOOLEAN : late = FALSE
  BY Zenon
<1>2. AtTokens!Session(s, chain, age, late, kept)
  BY <1>0, <1>1
<1>3. PICK new \in AtTokens!Rows :
        /\ s5' = kept \cup {new} /\ new.jti = s9.tokens + 1 /\ new.age = age
        /\ new.chain = (IF chain = 0 THEN s9.tokens + 1 ELSE chain) /\ new.late = (late \/ s \in s8)
  BY <1>2, SessionRow
<1>4. new.chain = s9.tokens + 1 /\ new.late = (s \in s8)
  BY <1>0, <1>1, <1>3
<1> QED
  BY <1>2, <1>3, <1>4, SessionRow

LEMMA TokensTypesStay ==
  ASSUME AtTokens!TokensTypeOK, [AtTokens!TokensNext]_AtTokens!tokensVars
  PROVE  AtTokens!TokensTypeOK'
<1> USE DEF AtTokens!Tap
<1>1. ASSUME NEW s \in Hands, NEW r \in AtTokens!Requests, AtTokens!Reads(s, r)
      PROVE  AtTokens!TokensTypeOK'
  BY <1>1 DEF AtTokens!Reads, AtTokens!TokensTypeOK
<1>2. ASSUME NEW s \in Hands, AtTokens!Fails(s) PROVE AtTokens!TokensTypeOK'
  BY <1>2 DEF AtTokens!Fails, AtTokens!TokensTypeOK
<1>3. ASSUME NEW s \in Hands, NEW purpose \in AtTokens!Purposes, NEW makes \in BOOLEAN, NEW browser \in SUBSET Browsers,
             AtTokens!AsksForLink(s, purpose, makes, browser)
      PROVE  AtTokens!TokensTypeOK'
  <2>1. {k.id : k \in AtTokens!OfPurpose(purpose)} \subseteq 1..MaxLinks
    BY DEF AtTokens!OfPurpose, AtTokens!Links, AtTokens!TokensTypeOK
  <2>2. [step |-> "link", purpose |-> purpose, olds |-> {k.id : k \in AtTokens!OfPurpose(purpose)},
         makes |-> makes, browser |-> browser] \in AtTokens!Requests
    BY <2>1 DEF AtTokens!Requests
  <2> QED
    BY <1>1, <1>3, <2>2 DEF AtTokens!AsksForLink
<1>4. ASSUME NEW s \in Hands,
             AtTokens!AsksToVerify(s) \/ AtTokens!AsksToReset(s) \/ (\E b \in Browsers : AtTokens!SignsUp(s, b))
      PROVE  AtTokens!TokensTypeOK'
  <2> {"verify_email", "reset_password"} \subseteq AtTokens!Purposes /\ FALSE \in BOOLEAN /\ {} \in SUBSET Browsers
    BY DEF AtTokens!Purposes
  <2>1. CASE AtTokens!AsksToVerify(s) \/ AtTokens!AsksToReset(s)
    <3>1. \E purpose \in AtTokens!Purposes : AtTokens!AsksForLink(s, purpose, FALSE, {})
      BY <2>1 DEF AtTokens!AsksToVerify, AtTokens!AsksToReset
    <3> QED
      BY <1>3, <3>1
  <2>2. ASSUME NEW b \in Browsers, AtTokens!SignsUp(s, b) PROVE AtTokens!TokensTypeOK'
    <3>1. (~s1.known) \in BOOLEAN /\ (IF s1.known THEN {} ELSE {b}) \in SUBSET Browsers
      OBVIOUS
    <3> QED
      BY <1>3, <2>2, <3>1 DEF AtTokens!SignsUp, AtTokens!Purposes
  <2> QED
    BY <1>4, <2>1, <2>2
<1>5. ASSUME NEW s \in Hands, NEW b \in Browsers, AtTokens!LogsIn(s, b) \/ AtTokens!Refreshes(s, b)
      PROVE  AtTokens!TokensTypeOK'
  <2>1. [step |-> "session", browser |-> b, age |-> s10] \in AtTokens!Requests
    BY DEF AtTokens!Requests, AtTokens!TokensTypeOK
  <2>2. \A r \in s5 : [step |-> "refresh", browser |-> b, row |-> r] \in AtTokens!Requests
    BY DEF AtTokens!Requests, AtTokens!TokensTypeOK
  <2> QED
    BY <1>1, <1>5, <2>1, <2>2 DEF AtTokens!LogsIn, AtTokens!Refreshes
<1>6. ASSUME NEW s \in Hands, NEW b \in Browsers, NEW k \in s2,
             AtTokens!OpensVerification(s, b, k) \/ AtTokens!OpensReset(s, b, k)
      PROVE  AtTokens!TokensTypeOK'
  <2>1. ASSUME NEW step \in {"verify", "reset"}
        PROVE  [step |-> step, browser |-> b, age |-> s10, of |-> k.id] \in AtTokens!Requests
    BY DEF AtTokens!Requests, AtTokens!Links, AtTokens!TokensTypeOK
  <2> QED
    BY <1>1, <1>6, <2>1 DEF AtTokens!OpensVerification, AtTokens!OpensReset, AtTokens!Opens
<1>7. ASSUME NEW s \in Hands, AtTokens!LinkIssued(s) PROVE AtTokens!TokensTypeOK'
  <2> DEFINE id == s9.links + 1
             new == [id |-> id, purpose |-> s7[s].purpose, fresh |-> TRUE, expired |-> FALSE, late |-> s \in s8]
             mail == [step |-> "mail", of |-> id, browser |-> s7[s].browser]
  <2>1. id \in 1..MaxLinks
    BY <1>7, TokensBounds DEF AtTokens!LinkIssued, AtTokens!TokensTypeOK
  <2>2. new \in AtTokens!Links /\ mail \in AtTokens!Requests
    BY <1>7, <2>1, TokenRequestForms DEF AtTokens!LinkIssued, AtTokens!Links, AtTokens!Requests
  <2>3. s2' \subseteq AtTokens!Links
    BY <1>7, <2>2 DEF AtTokens!LinkIssued, AtTokens!NewestLink, AtTokens!TokensTypeOK
  <2>4. s7' = [s7 EXCEPT ![s] = mail] /\ s8' \subseteq Hands
    BY <1>7 DEF AtTokens!LinkIssued, AtTokens!Commits
  <2>5. s9' = [s9 EXCEPT !.links = id]
    BY <1>7 DEF AtTokens!LinkIssued
  <2>6. s9' \in [links : 0..MaxLinks, tokens : 0..MaxTokens]
    BY <2>1, <2>5, TokensBounds DEF AtTokens!TokensTypeOK
  <2>7. s1' \in [known : BOOLEAN, password : BOOLEAN, verified : BOOLEAN, active : BOOLEAN]
    BY <1>7 DEF AtTokens!LinkIssued, AtTokens!TokensTypeOK
  <2> HIDE DEF new, mail, id
  <2> QED
    <3>1. UNCHANGED <<s3, s4, s5, s6, s10, taps>>
      BY <1>7 DEF AtTokens!LinkIssued, AtTokens!Commits
    <3> QED
      BY <2>2, <2>3, <2>4, <2>6, <2>7, <3>1 DEF AtTokens!TokensTypeOK
<1>8. ASSUME NEW s \in Hands, AtTokens!LinkMailed(s) PROVE AtTokens!TokensTypeOK'
  <2> DEFINE next == IF s7[s].browser = {} THEN AtTokens!Idle
                     ELSE [step |-> "session", browser |-> CHOOSE b \in s7[s].browser : TRUE, age |-> s10]
  <2>1. s7[s].of \in 1..MaxLinks /\ s7[s].browser \subseteq Browsers
    BY <1>8, TokenRequestForms DEF AtTokens!LinkMailed
  <2>2. next \in {AtTokens!Idle} \cup AtTokens!Requests
    <3> DEFINE b == CHOOSE b \in s7[s].browser : TRUE
    <3>1. s7[s].browser # {} => b \in Browsers
      BY <2>1
    <3> HIDE DEF b
    <3>2. s7[s].browser # {} => [step |-> "session", browser |-> b, age |-> s10] \in AtTokens!Requests
      BY <3>1 DEF AtTokens!Requests, AtTokens!TokensTypeOK
    <3> QED
      BY <3>2 DEF b
  <2>3. s7' = [s7 EXCEPT ![s] = next]
    BY <1>8 DEF AtTokens!LinkMailed
  <2> HIDE DEF next
  <2> QED
    <3>1. UNCHANGED <<s1, s2, s4, s5, s6, s9, s10, taps>> /\ s3' = s3 \cup {s7[s].of} /\ s8' = s8 \ {s}
      BY <1>8 DEF AtTokens!LinkMailed
    <3> QED
      BY <2>1, <2>2, <2>3, <3>1 DEF AtTokens!TokensTypeOK
<1>9. ASSUME NEW s \in Hands, NEW b \in Browsers, AtTokens!GoogleSignsIn(s, b) PROVE AtTokens!TokensTypeOK'
  <2>1. [step |-> "session", browser |-> b, age |-> s10] \in AtTokens!Requests
    BY DEF AtTokens!Requests, AtTokens!TokensTypeOK
  <2> QED
    BY <1>9, <2>1 DEF AtTokens!GoogleSignsIn, AtTokens!TokensTypeOK
<1>10. ASSUME NEW s \in Hands, AtTokens!SessionOpens(s) \/ AtTokens!Rotates(s) \/ AtTokens!Verifies(s) \/ AtTokens!ResetDone(s)
       PROVE  AtTokens!TokensTypeOK'
  <2> DEFINE Kept == {[r EXCEPT !.late = @ \/ s \in s8] : r \in AtTokens!Without(s7[s].gone)}
  <2>1. /\ s5' \subseteq AtTokens!Rows /\ s6' \in [Browsers -> 0..MaxTokens]
        /\ s9' \in [links : 0..MaxLinks, tokens : 0..MaxTokens]
    <3>1. 0 \in 0..MaxTokens /\ s5 \in SUBSET AtTokens!Rows
      BY TokensBounds DEF AtTokens!TokensTypeOK
    <3>2. CASE AtTokens!SessionOpens(s)
      BY <3>1, <3>2, SessionRow, TokenRequestForms DEF AtTokens!SessionOpens
    <3>3. CASE AtTokens!Rotates(s)
      <4>1. s7[s].row \in AtTokens!Rows /\ s7[s].browser \in Browsers
        BY <3>3, TokenRequestForms DEF AtTokens!Rotates
      <4>2. s7[s].row.chain \in 0..MaxTokens /\ s7[s].row.age \in Nat /\ s7[s].row.late \in BOOLEAN
        BY <4>1, TokensBounds DEF AtTokens!Rows
      <4>3. AtTokens!Without({s7[s].row.jti}) \in SUBSET AtTokens!Rows
        BY <3>1 DEF AtTokens!Without
      <4> QED
        BY <3>3, <4>1, <4>2, <4>3, SessionRow DEF AtTokens!Rotates
    <3>4. CASE AtTokens!Verifies(s)
      BY <3>1, <3>4, SessionRow, TokenRequestForms DEF AtTokens!Verifies
    <3>5. CASE AtTokens!ResetDone(s)
      <4>1. \A r \in AtTokens!Rows : [r EXCEPT !.late = @ \/ s \in s8] \in AtTokens!Rows
        BY DEF AtTokens!Rows
      <4>2. Kept \in SUBSET AtTokens!Rows
        BY <3>1, <4>1 DEF AtTokens!Without
      <4>3. s10 + 1 \in Nat
        BY DEF AtTokens!TokensTypeOK
      <4>4. AtTokens!Session(s, 0, s10 + 1, FALSE, Kept) /\ s7[s].browser \in Browsers
        BY <3>5, TokenRequestForms DEF AtTokens!ResetDone
      <4> HIDE DEF Kept
      <4> QED
        BY <3>1, <4>2, <4>3, <4>4, SessionRow
    <3> QED
      BY <1>10, <3>2, <3>3, <3>4, <3>5
  <2>2. /\ s7' = [s7 EXCEPT ![s] = AtTokens!Idle] /\ s8' \subseteq Hands
        /\ UNCHANGED s3 /\ s10' \in Nat
    <3>1. AtTokens!Commits(s, AtTokens!Idle) /\ UNCHANGED s3
      BY <1>10 DEF AtTokens!SessionOpens, AtTokens!Rotates, AtTokens!Verifies, AtTokens!ResetDone, AtTokens!Consumes
    <3>2. s10' \in {s10, s10 + 1}
      BY <1>10 DEF AtTokens!SessionOpens, AtTokens!Rotates, AtTokens!Verifies, AtTokens!ResetDone
    <3>3. s10' \in Nat
      BY <3>2 DEF AtTokens!TokensTypeOK
    <3> QED
      BY <3>1, <3>3, CommitKeeps
  <2>3. /\ UNCHANGED taps
        /\ UNCHANGED <<s1, s2, s4>> \/ AtTokens!Consumes(s)
    BY <1>10 DEF AtTokens!SessionOpens, AtTokens!Rotates, AtTokens!Verifies, AtTokens!ResetDone, AtTokens!Consumes,
       AtTokens!Commits
  <2>4. s1' \in [known : BOOLEAN, password : BOOLEAN, verified : BOOLEAN, active : BOOLEAN] /\ s2' \subseteq AtTokens!Links
    BY <2>3 DEF AtTokens!Consumes, AtTokens!LinkGone, AtTokens!TokensTypeOK
  <2>5. s4' \in [1..MaxLinks -> Nat]
    BY <2>3 DEF AtTokens!Consumes, AtTokens!TokensTypeOK
  <2> QED
    BY <2>1, <2>2, <2>3, <2>4, <2>5 DEF AtTokens!TokensTypeOK
<1>11. ASSUME NEW s \in Hands, AtTokens!ResetErases(s) PROVE AtTokens!TokensTypeOK'
  <2> DEFINE erased == [step |-> "erased", browser |-> s7[s].browser, of |-> s7[s].of,
                        gone |-> AtTokens!SessionsOf(s7[s].browser)]
  <2>1. AtTokens!SessionsOf(s7[s].browser) \subseteq 1..MaxTokens
    BY DEF AtTokens!SessionsOf, AtTokens!AllRows, AtTokens!Rows, AtTokens!TokensTypeOK
  <2>2. erased \in AtTokens!Requests
    BY <1>11, <2>1, TokenRequestForms DEF AtTokens!ResetErases, AtTokens!Requests
  <2>3. s7' = [s7 EXCEPT ![s] = erased]
    BY <1>11 DEF AtTokens!ResetErases
  <2> HIDE DEF erased
  <2> QED
    BY <1>11, <2>2, <2>3 DEF AtTokens!ResetErases, AtTokens!TokensTypeOK
\* Steps without a request.
<1>12. ASSUME NEW b \in Browsers, AtTokens!RefreshOfInactive(b) \/ AtTokens!LogsOut(b) PROVE AtTokens!TokensTypeOK'
  <2>1. /\ s5' \subseteq s5 /\ (UNCHANGED s6 \/ s6' = [s6 EXCEPT ![b] = 0]) /\ taps' = taps + 1 /\ AtTokens!AtOnce
        /\ UNCHANGED <<s1, s2, s3, s4, s9, s10>>
    BY <1>12 DEF AtTokens!RefreshOfInactive, AtTokens!LogsOut, AtTokens!Without
  <2>2. s7' = s7 /\ s8' \subseteq Hands
    BY <2>1, AtOnceKeeps
  <2>3. s6' \in [Browsers -> 0..MaxTokens] /\ s5' \subseteq AtTokens!Rows
    BY <2>1, TokensBounds DEF AtTokens!TokensTypeOK
  <2>4. taps' \in Nat
    BY <2>1 DEF AtTokens!TokensTypeOK
  <2> QED
    BY <2>1, <2>2, <2>3, <2>4 DEF AtTokens!TokensTypeOK
<1>13. ASSUME NEW k \in s2, AtTokens!LinkOfInactive(k) \/ AtTokens!LinkExpires(k) PROVE AtTokens!TokensTypeOK'
  <2> DEFINE new == [k EXCEPT !.expired = TRUE]
  <2>1. new \in AtTokens!Links
    BY DEF AtTokens!Links, AtTokens!TokensTypeOK
  <2>2. /\ s2' \subseteq s2 \cup {new} /\ taps' = taps + 1
        /\ AtTokens!AtOnce \/ UNCHANGED <<s7, s8>>
        /\ UNCHANGED <<s1, s3, s4, s5, s6, s9, s10>>
    BY <1>13 DEF AtTokens!LinkOfInactive, AtTokens!LinkExpires
  <2> HIDE DEF new
  <2>3. s7' = s7 /\ s8' \subseteq Hands
    BY <2>2, AtOnceKeeps DEF AtTokens!TokensTypeOK
  <2>4. s2' \subseteq AtTokens!Links /\ taps' \in Nat
    BY <2>1, <2>2 DEF AtTokens!TokensTypeOK
  <2> QED
    BY <2>2, <2>3, <2>4 DEF AtTokens!TokensTypeOK
<1>14. CASE AtTokens!UserSwitched \/ AtTokens!MinutePasses
  <2>1. \A k \in s2 : [k EXCEPT !.fresh = FALSE] \in AtTokens!Links
    BY DEF AtTokens!Links, AtTokens!TokensTypeOK
  <2>2. s1' \in [known : BOOLEAN, password : BOOLEAN, verified : BOOLEAN, active : BOOLEAN] /\ s2' \subseteq AtTokens!Links
    <3>1. CASE AtTokens!UserSwitched
      BY <3>1 DEF AtTokens!UserSwitched, AtTokens!TokensTypeOK
    <3>2. CASE AtTokens!MinutePasses
      BY <2>1, <3>2 DEF AtTokens!MinutePasses, AtTokens!TokensTypeOK
    <3> QED
      BY <1>14, <3>1, <3>2
  <2>3. /\ taps' = taps + 1 /\ UNCHANGED <<s3, s4, s5, s6, s9, s10>>
        /\ AtTokens!AtOnce \/ UNCHANGED <<s7, s8>>
    BY <1>14 DEF AtTokens!UserSwitched, AtTokens!MinutePasses
  <2>4. s7' = s7 /\ s8' \subseteq Hands
    BY <2>3, AtOnceKeeps DEF AtTokens!TokensTypeOK
  <2> QED
    BY <2>2, <2>3, <2>4 DEF AtTokens!TokensTypeOK
<1>15. CASE UNCHANGED AtTokens!tokensVars
  BY <1>15 DEF AtTokens!tokensVars, AtTokens!TokensTypeOK
<1> QED
  BY <1>2, <1>4, <1>5, <1>6, <1>7, <1>8, <1>9, <1>10, <1>11, <1>12, <1>13, <1>14, <1>15
     DEF AtTokens!TokensNext, AtTokens!SignUpFails, AtTokens!Dies

-----------------------------------------------------------------------------
\* Steps that take links and tokens away, or leave them, keep them single.
LEMMA TokensLess ==
  ASSUME AtTokens!TokensInv, s2' \subseteq s2, s5' \subseteq s5, UNCHANGED <<s9, s10>>,
         \A k \in s2' : s4'[k.id] = s4[k.id],
         \A id \in 1..MaxLinks : id > s9.links => s4'[id] = s4[id],
         \A t \in Hands : AtTokens!IsKnown(s7'[t])
  PROVE  AtTokens!IdsAreGivenOnce' /\ AtTokens!NewestIsKept' /\ AtTokens!ResetEndsSessions' /\ AtTokens!OneTokenPerSignIn'
<1> USE DEF AtTokens!TokensInv
<1>1. AtTokens!IdsAreGivenOnce'
  BY DEF AtTokens!IdsAreGivenOnce, AtTokens!IsKnown
<1>2. AtTokens!NewestIsKept' /\ AtTokens!ResetEndsSessions' /\ AtTokens!OneTokenPerSignIn'
  BY DEF AtTokens!NewestIsKept, AtTokens!ResetEndsSessions, AtTokens!OneTokenPerSignIn
<1> QED
  BY <1>1, <1>2

\* And so do those that add a token, of a new sign-in or in the place of the old one.
LEMMA TokensMore ==
  ASSUME AtTokens!TokensInv, s2' \subseteq s2, \A k \in s2' : s4'[k.id] = s4[k.id],
         \A id \in 1..MaxLinks : id > s9.links => s4'[id] = s4[id],
         \A t \in Hands : s7'[t] \in {s7[t], AtTokens!Idle},
         s9' \in [links : 0..MaxLinks, tokens : 0..MaxTokens], s9'.links = s9.links, s9'.tokens = s9.tokens + 1,
         NEW kept \in SUBSET AtTokens!Rows, NEW new \in AtTokens!Rows, s5' = kept \cup {new},
         kept \subseteq s5 \/ \A q \in kept : q.late,
         \A q \in kept : q.jti <= s9.tokens /\ q.chain <= s9.tokens /\ (q.age = s10' \/ q.late),
         new.jti = s9.tokens + 1, new.age = s10' \/ new.late,
         \/ new.chain = s9.tokens + 1
         \/ /\ new.chain <= s9.tokens
            /\ new.late \/ \A q \in kept : q.chain = new.chain => q.late
  PROVE  AtTokens!IdsAreGivenOnce' /\ AtTokens!NewestIsKept' /\ AtTokens!ResetEndsSessions' /\ AtTokens!OneTokenPerSignIn'
<1> USE DEF AtTokens!TokensInv
<1>0. s9.tokens \in Nat /\ \A q \in AtTokens!Rows : q.chain \in Nat /\ q.jti \in Nat
  BY TokensBounds DEF AtTokens!TokensTypeOK, AtTokens!Rows
<1>1. AtTokens!IdsAreGivenOnce'
  <2>1. \A k \in s2' : k.id <= s9'.links /\ s4'[k.id] = 0
    BY DEF AtTokens!IdsAreGivenOnce
  <2>2. \A k, l \in s2' : k.id = l.id => k = l
    BY DEF AtTokens!IdsAreGivenOnce
  <2>3. \A r \in s5' : r.jti <= s9'.tokens /\ r.chain <= s9'.tokens
    BY <1>0
  <2>4. \A t \in Hands : AtTokens!IsKnown(s7[t])'
    <3>1. \A t \in Hands : s7[t].step = "refresh" => s7[t].row.chain \in Nat /\ s7[t].row.chain <= s9.tokens
      BY <1>0, TokenRequestForms DEF AtTokens!IdsAreGivenOnce, AtTokens!IsKnown
    <3>2. \A t \in Hands : s7[t].step \in {"verify", "reset", "erased"} => s7[t].of <= s9.links
      BY DEF AtTokens!IdsAreGivenOnce, AtTokens!IsKnown
    <3> QED
      BY <1>0, <3>1, <3>2 DEF AtTokens!IsKnown, AtTokens!Idle
  <2>5. \A id \in 1..MaxLinks : id > s9'.links => s4'[id] = 0
    BY DEF AtTokens!IdsAreGivenOnce
  <2> QED
    BY <2>1, <2>2, <2>3, <2>4, <2>5 DEF AtTokens!IdsAreGivenOnce
<1>2. AtTokens!NewestIsKept' /\ AtTokens!ResetEndsSessions'
  BY DEF AtTokens!NewestIsKept, AtTokens!ResetEndsSessions
<1>3. AtTokens!OneTokenPerSignIn'
  <2> SUFFICES ASSUME NEW q \in s5', NEW r \in s5', q.chain = r.chain, ~q.late, ~r.late PROVE q = r
    BY DEF AtTokens!OneTokenPerSignIn
  <2>1. CASE q \in kept /\ r \in kept
    BY <2>1 DEF AtTokens!OneTokenPerSignIn
  <2>2. CASE q = new /\ r \in kept
    BY <1>0, <2>2
  <2>3. CASE q \in kept /\ r = new
    BY <1>0, <2>3
  <2> QED
    BY <2>1, <2>2, <2>3
<1> QED
  BY <1>1, <1>2, <1>3

LEMMA TokensStart == AtTokens!TokensInit => AtTokens!TokensInv
<1> SUFFICES ASSUME AtTokens!TokensInit PROVE AtTokens!TokensInv
  OBVIOUS
<1>1. s2 = {} /\ s5 = {} /\ \A s \in Hands : s7[s] = AtTokens!Idle
  BY DEF AtTokens!TokensInit
<1>2. AtTokens!IdsAreGivenOnce /\ AtTokens!NewestIsKept /\ AtTokens!ResetEndsSessions /\ AtTokens!OneTokenPerSignIn
  BY <1>1 DEF AtTokens!IdsAreGivenOnce, AtTokens!NewestIsKept, AtTokens!ResetEndsSessions, AtTokens!OneTokenPerSignIn,
     AtTokens!Idle, AtTokens!IsKnown, AtTokens!TokensInit
<1>3. AtTokens!NoneOvertaken
  BY <1>1 DEF AtTokens!NoneOvertaken, AtTokens!ReadIsThere, AtTokens!Idle
<1> QED
  BY <1>2, <1>3, TokensTypesStart DEF AtTokens!TokensInv

\* What a request finds as it read is left so by every step that is no commit.
LEMMA FoundStays ==
  ASSUME NEW t \in Hands, AtTokens!ReadIsThere(s7[t]), s7'[t] = s7[t], UNCHANGED <<s5, s10>>,
         {k.id : k \in s2} \subseteq {k.id : k \in s2'},
         \A k \in s2' : \E l \in s2 : l.id = k.id /\ l.purpose = k.purpose
  PROVE  AtTokens!ReadIsThere(s7[t])'
<1>1. AtTokens!LinkIsThere(s7[t].of) => AtTokens!LinkIsThere(s7[t].of)'
  BY DEF AtTokens!LinkIsThere
<1>2. (\A k \in AtTokens!OfPurpose(s7[t].purpose) : k.id \in s7[t].olds) =>
        (\A k \in AtTokens!OfPurpose(s7[t].purpose) : k.id \in s7[t].olds)'
  BY DEF AtTokens!OfPurpose
<1> QED
  BY <1>1, <1>2 DEF AtTokens!ReadIsThere, AtTokens!AllRows

\* So it is by a request that reads, goes on or fails.
LEMMA OneGoesOn ==
  ASSUME AtTokens!TokensInv, NEW s \in Hands, NEW r, s7' = [s7 EXCEPT ![s] = r],
         UNCHANGED <<s2, s4, s5, s9, s10>>, s8' = s8 \/ s8' = s8 \ {s},
         s \notin s8' => AtTokens!ReadIsThere(r), AtTokens!IsKnown(r)
  PROVE  AtTokens!IdsAreGivenOnce' /\ AtTokens!NewestIsKept' /\ AtTokens!NoneOvertaken'
         /\ AtTokens!ResetEndsSessions' /\ AtTokens!OneTokenPerSignIn'
<1> USE DEF AtTokens!TokensInv
<1>1. \A t \in Hands : s7'[t] = IF t = s THEN r ELSE s7[t]
  BY DEF AtTokens!TokensTypeOK
<1>2. AtTokens!NoneOvertaken'
  <2> SUFFICES ASSUME NEW t \in Hands \ s8' PROVE AtTokens!ReadIsThere(s7[t])'
    BY DEF AtTokens!NoneOvertaken
  <2>1. CASE t = s
    BY <1>1, <2>1 DEF AtTokens!ReadIsThere, AtTokens!OfPurpose, AtTokens!LinkIsThere, AtTokens!AllRows
  <2>2. CASE t # s
    BY <1>1, <2>2, FoundStays DEF AtTokens!NoneOvertaken
  <2> QED
    BY <2>1, <2>2
<1>3. \A t \in Hands : AtTokens!IsKnown(s7'[t])
  BY <1>1 DEF AtTokens!IdsAreGivenOnce
<1> QED
  BY <1>2, <1>3, TokensLess

\* After a commit nothing that was read before counts.
LEMMA NoneIsLeft ==
  ASSUME AtTokens!TokensTypeOK, \A t \in Hands \ s8' : s7'[t] = AtTokens!Idle \/ s7'[t].step = "mail"
  PROVE  AtTokens!NoneOvertaken'
  BY DEF AtTokens!NoneOvertaken, AtTokens!ReadIsThere, AtTokens!Idle

LEMMA TokensAsk ==
  ASSUME AtTokens!TokensInv, NEW s \in Hands,
         \/ AtTokens!AsksToVerify(s) \/ AtTokens!AsksToReset(s)
         \/ AtTokens!SignUpFails(s) \/ AtTokens!LinkMailed(s) \/ AtTokens!ResetErases(s) \/ AtTokens!Dies(s)
         \/ \E b \in Browsers :
              \/ AtTokens!SignsUp(s, b) \/ AtTokens!LogsIn(s, b) \/ AtTokens!Refreshes(s, b)
              \/ \E k \in s2 : AtTokens!OpensVerification(s, b, k) \/ AtTokens!OpensReset(s, b, k)
  PROVE  AtTokens!IdsAreGivenOnce' /\ AtTokens!NewestIsKept' /\ AtTokens!NoneOvertaken'
         /\ AtTokens!ResetEndsSessions' /\ AtTokens!OneTokenPerSignIn'
<1> DEFINE Goal == AtTokens!IdsAreGivenOnce' /\ AtTokens!NewestIsKept' /\ AtTokens!NoneOvertaken'
                   /\ AtTokens!ResetEndsSessions' /\ AtTokens!OneTokenPerSignIn'
<1> HIDE DEF Goal
<1>1. ASSUME NEW r, AtTokens!Reads(s, r), AtTokens!ReadIsThere(r), AtTokens!IsKnown(r) PROVE Goal
  <2>1. s7' = [s7 EXCEPT ![s] = r] /\ UNCHANGED <<s2, s4, s5, s8, s9, s10>>
    BY <1>1 DEF AtTokens!Reads
  <2> QED
    BY <1>1, <2>1, OneGoesOn DEF Goal
<1>2. ASSUME NEW purpose, NEW makes, NEW browser, AtTokens!AsksForLink(s, purpose, makes, browser) PROVE Goal
  <2> DEFINE r == [step |-> "link", purpose |-> purpose, olds |-> {k.id : k \in AtTokens!OfPurpose(purpose)},
                   makes |-> makes, browser |-> browser]
  <2>1. AtTokens!ReadIsThere(r) /\ AtTokens!IsKnown(r)
    BY DEF AtTokens!ReadIsThere, AtTokens!IsKnown
  <2>2. AtTokens!Reads(s, r)
    BY <1>2 DEF AtTokens!AsksForLink
  <2> HIDE DEF r
  <2> QED
    BY <1>1, <2>1, <2>2
<1>3. CASE AtTokens!SignUpFails(s) \/ AtTokens!Dies(s)
  <2>1. s7' = [s7 EXCEPT ![s] = AtTokens!Idle] /\ s8' = s8 \ {s} /\ UNCHANGED <<s2, s4, s5, s9, s10>>
    BY <1>3 DEF AtTokens!SignUpFails, AtTokens!Dies, AtTokens!Fails
  <2>2. AtTokens!ReadIsThere(AtTokens!Idle) /\ AtTokens!IsKnown(AtTokens!Idle)
    BY DEF AtTokens!ReadIsThere, AtTokens!Idle, AtTokens!IsKnown
  <2> QED
    BY <2>1, <2>2, OneGoesOn DEF Goal
<1>4. CASE AtTokens!LinkMailed(s)
  <2> DEFINE r == IF s7[s].browser = {} THEN AtTokens!Idle
                  ELSE [step |-> "session", browser |-> CHOOSE b \in s7[s].browser : TRUE, age |-> s10]
  <2>1. s7' = [s7 EXCEPT ![s] = r] /\ s8' = s8 \ {s} /\ UNCHANGED <<s2, s4, s5, s9, s10>>
    BY <1>4 DEF AtTokens!LinkMailed
  <2>2. AtTokens!ReadIsThere(r) /\ AtTokens!IsKnown(r)
    BY DEF AtTokens!ReadIsThere, AtTokens!Idle, AtTokens!IsKnown
  <2> HIDE DEF r
  <2> QED
    BY <2>1, <2>2, OneGoesOn DEF Goal
<1>5. CASE AtTokens!ResetErases(s)
  <2> DEFINE r == [step |-> "erased", browser |-> s7[s].browser, of |-> s7[s].of, gone |-> AtTokens!SessionsOf(s7[s].browser)]
  <2>1. s7' = [s7 EXCEPT ![s] = r] /\ UNCHANGED <<s2, s4, s5, s8, s9, s10>> /\ s7[s].step = "reset"
    BY <1>5 DEF AtTokens!ResetErases
  <2>2. s \notin s8' => AtTokens!ReadIsThere(r)
    BY <2>1 DEF AtTokens!TokensInv, AtTokens!NoneOvertaken, AtTokens!ReadIsThere, AtTokens!SessionsOf
  <2>3. AtTokens!IsKnown(r)
    BY <2>1 DEF AtTokens!TokensInv, AtTokens!IdsAreGivenOnce, AtTokens!IsKnown
  <2> HIDE DEF r
  <2> QED
    BY <2>1, <2>2, <2>3, OneGoesOn DEF Goal
<1>6. ASSUME NEW b \in Browsers, AtTokens!LogsIn(s, b) \/ AtTokens!Refreshes(s, b) PROVE Goal
  <2>1. LET r == [step |-> "session", browser |-> b, age |-> s10] IN AtTokens!ReadIsThere(r) /\ AtTokens!IsKnown(r)
    BY DEF AtTokens!ReadIsThere, AtTokens!IsKnown
  <2>2. \A row \in s5 : LET r == [step |-> "refresh", browser |-> b, row |-> row] IN
          AtTokens!ReadIsThere(r) /\ AtTokens!IsKnown(r)
    BY DEF AtTokens!ReadIsThere, AtTokens!IsKnown, AtTokens!TokensInv, AtTokens!IdsAreGivenOnce
  <2>3. CASE AtTokens!LogsIn(s, b)
    BY <1>1, <2>1, <2>3 DEF AtTokens!LogsIn
  <2>4. CASE AtTokens!Refreshes(s, b)
    BY <1>1, <2>2, <2>4 DEF AtTokens!Refreshes
  <2> QED
    BY <1>6, <2>3, <2>4
<1>7. ASSUME NEW b \in Browsers, NEW k \in s2, AtTokens!OpensVerification(s, b, k) \/ AtTokens!OpensReset(s, b, k)
      PROVE  Goal
  <2>1. ASSUME NEW step \in {"verify", "reset"}
        PROVE  LET r == [step |-> step, browser |-> b, age |-> s10, of |-> k.id] IN
               AtTokens!ReadIsThere(r) /\ AtTokens!IsKnown(r)
    BY DEF AtTokens!ReadIsThere, AtTokens!LinkIsThere, AtTokens!IsKnown, AtTokens!TokensInv, AtTokens!IdsAreGivenOnce
  <2> QED
    BY <1>1, <1>7, <2>1 DEF AtTokens!OpensVerification, AtTokens!OpensReset, AtTokens!Opens
<1>8. CASE AtTokens!AsksToVerify(s) \/ AtTokens!AsksToReset(s)
  BY <1>2, <1>8 DEF Goal, AtTokens!AsksToVerify, AtTokens!AsksToReset
<1>9. ASSUME NEW b \in Browsers, AtTokens!SignsUp(s, b) PROVE Goal
  BY <1>2, <1>9 DEF AtTokens!SignsUp
<1> QED
  BY <1>3, <1>4, <1>5, <1>6, <1>7, <1>8, <1>9 DEF Goal

\* Steps of no request, and a sign-in with Google.
LEMMA TokensRest ==
  ASSUME AtTokens!TokensInv,
         \/ \E s \in Hands, b \in Browsers : AtTokens!GoogleSignsIn(s, b)
         \/ \E b \in Browsers : AtTokens!RefreshOfInactive(b) \/ AtTokens!LogsOut(b)
         \/ \E k \in s2 : AtTokens!LinkOfInactive(k) \/ AtTokens!LinkExpires(k)
         \/ AtTokens!UserSwitched \/ AtTokens!MinutePasses
  PROVE  AtTokens!IdsAreGivenOnce' /\ AtTokens!NewestIsKept' /\ AtTokens!NoneOvertaken'
         /\ AtTokens!ResetEndsSessions' /\ AtTokens!OneTokenPerSignIn'
<1> USE DEF AtTokens!TokensInv
<1>1. ASSUME NEW s \in Hands, NEW b \in Browsers, AtTokens!GoogleSignsIn(s, b)
      PROVE  AtTokens!IdsAreGivenOnce' /\ AtTokens!NewestIsKept' /\ AtTokens!NoneOvertaken'
             /\ AtTokens!ResetEndsSessions' /\ AtTokens!OneTokenPerSignIn'
  <2> DEFINE r == [step |-> "session", browser |-> b, age |-> s10]
  <2>1. s7' = [s7 EXCEPT ![s] = r] /\ s8' = {t \in Hands : s7[t] # AtTokens!Idle} /\ UNCHANGED <<s2, s4, s5, s9, s10>>
    BY <1>1 DEF AtTokens!GoogleSignsIn
  <2>2. r.step = "session" /\ r.age = s10
    OBVIOUS
  <2> HIDE DEF r
  <2>3. \A t \in Hands : s7'[t] = IF t = s THEN r ELSE s7[t]
    BY <2>1 DEF AtTokens!TokensTypeOK
  <2>4. AtTokens!NoneOvertaken'
    BY <2>1, <2>2, <2>3 DEF AtTokens!NoneOvertaken, AtTokens!ReadIsThere, AtTokens!Idle
  <2>5. \A t \in Hands : AtTokens!IsKnown(s7'[t])
    BY <2>2, <2>3 DEF AtTokens!IdsAreGivenOnce, AtTokens!IsKnown
  <2> QED
    BY <2>1, <2>4, <2>5, TokensLess
<1>2. ASSUME AtTokens!AtOnce, s2' \subseteq s2, s5' \subseteq s5, UNCHANGED <<s4, s9, s10>>
      PROVE  AtTokens!IdsAreGivenOnce' /\ AtTokens!NewestIsKept' /\ AtTokens!NoneOvertaken'
             /\ AtTokens!ResetEndsSessions' /\ AtTokens!OneTokenPerSignIn'
  <2>1. s7' = s7 /\ \A t \in Hands \ s8' : s7'[t] = AtTokens!Idle
    BY <1>2, AtOnceKeeps
  <2>2. AtTokens!NoneOvertaken'
    BY <2>1, NoneIsLeft
  <2>3. \A t \in Hands : AtTokens!IsKnown(s7'[t])
    BY <2>1 DEF AtTokens!IdsAreGivenOnce
  <2> QED
    BY <1>2, <2>1, <2>2, <2>3, TokensLess
<1>3. ASSUME NEW b \in Browsers, AtTokens!RefreshOfInactive(b) \/ AtTokens!LogsOut(b)
      PROVE  AtTokens!IdsAreGivenOnce' /\ AtTokens!NewestIsKept' /\ AtTokens!NoneOvertaken'
             /\ AtTokens!ResetEndsSessions' /\ AtTokens!OneTokenPerSignIn'
  BY <1>2, <1>3 DEF AtTokens!RefreshOfInactive, AtTokens!LogsOut, AtTokens!Without
<1>4. ASSUME NEW k \in s2, AtTokens!LinkOfInactive(k)
      PROVE  AtTokens!IdsAreGivenOnce' /\ AtTokens!NewestIsKept' /\ AtTokens!NoneOvertaken'
             /\ AtTokens!ResetEndsSessions' /\ AtTokens!OneTokenPerSignIn'
  BY <1>2, <1>4 DEF AtTokens!LinkOfInactive
<1>5. CASE AtTokens!UserSwitched
  BY <1>2, <1>5 DEF AtTokens!UserSwitched
\* A link changes its looks; which one it is stays.
<1>6. ASSUME UNCHANGED <<s4, s5, s7, s8, s9, s10>>,
             \A k \in s2 : \E l \in s2' : l.id = k.id,
             \A l \in s2' : \E k \in s2 : l.id = k.id /\ l.purpose = k.purpose /\ l.late = k.late,
             \A k, l \in s2' : k.id = l.id => k = l
      PROVE  AtTokens!IdsAreGivenOnce' /\ AtTokens!NewestIsKept' /\ AtTokens!NoneOvertaken'
             /\ AtTokens!ResetEndsSessions' /\ AtTokens!OneTokenPerSignIn'
  <2>1. AtTokens!IdsAreGivenOnce'
    <3>1. \A l \in s2' : l.id <= s9.links /\ s4[l.id] = 0
      BY <1>6 DEF AtTokens!IdsAreGivenOnce
    <3> QED
      BY <1>6, <3>1 DEF AtTokens!IdsAreGivenOnce, AtTokens!IsKnown
  <2>2. AtTokens!NewestIsKept'
    <3> SUFFICES ASSUME NEW k \in s2', NEW l \in s2', k.purpose = l.purpose PROVE l.id <= k.id \/ l.late
      BY DEF AtTokens!NewestIsKept
    <3>1. PICK m \in s2 : k.id = m.id /\ k.purpose = m.purpose
      BY <1>6
    <3>2. PICK n \in s2 : l.id = n.id /\ l.purpose = n.purpose /\ l.late = n.late
      BY <1>6
    <3> QED
      BY <3>1, <3>2 DEF AtTokens!NewestIsKept
  <2>3. AtTokens!NoneOvertaken'
    <3> SUFFICES ASSUME NEW t \in Hands \ s8' PROVE AtTokens!ReadIsThere(s7[t])'
      BY DEF AtTokens!NoneOvertaken
    <3>1. AtTokens!ReadIsThere(s7[t]) /\ s7'[t] = s7[t]
      BY <1>6 DEF AtTokens!NoneOvertaken
    <3>2. {k.id : k \in s2} \subseteq {k.id : k \in s2'}
      BY <1>6
    <3>3. \A k \in s2' : \E l \in s2 : l.id = k.id /\ l.purpose = k.purpose
      BY <1>6
    <3> QED
      BY <1>6, <3>1, <3>2, <3>3, FoundStays
  <2>4. AtTokens!ResetEndsSessions' /\ AtTokens!OneTokenPerSignIn'
    BY <1>6 DEF AtTokens!ResetEndsSessions, AtTokens!OneTokenPerSignIn
  <2> QED
    BY <2>1, <2>2, <2>3, <2>4
<1>7. CASE AtTokens!MinutePasses
  <2> DEFINE f(k) == [k EXCEPT !.fresh = FALSE]
  <2>1. \A k \in s2 : f(k).id = k.id /\ f(k).purpose = k.purpose /\ f(k).late = k.late
    BY DEF AtTokens!TokensTypeOK, AtTokens!Links
  <2>2. s2' = {f(k) : k \in s2} /\ UNCHANGED <<s4, s5, s7, s8, s9, s10>>
    BY <1>7 DEF AtTokens!MinutePasses
  <2>3. \A k, l \in s2 : k.id = l.id => k = l
    BY DEF AtTokens!IdsAreGivenOnce
  <2> HIDE DEF f
  <2>4. /\ \A k \in s2 : \E l \in s2' : l.id = k.id
        /\ \A l \in s2' : \E k \in s2 : l.id = k.id /\ l.purpose = k.purpose /\ l.late = k.late
    BY <2>1, <2>2
  <2>5. \A k, l \in s2' : k.id = l.id => k = l
    BY <2>1, <2>2, <2>3
  <2> QED
    BY <1>6, <2>2, <2>4, <2>5
<1>8. ASSUME NEW k \in s2, AtTokens!LinkExpires(k)
      PROVE  AtTokens!IdsAreGivenOnce' /\ AtTokens!NewestIsKept' /\ AtTokens!NoneOvertaken'
             /\ AtTokens!ResetEndsSessions' /\ AtTokens!OneTokenPerSignIn'
  <2> DEFINE new == [k EXCEPT !.expired = TRUE]
  <2>1. new.id = k.id /\ new.purpose = k.purpose /\ new.late = k.late
    BY DEF AtTokens!TokensTypeOK, AtTokens!Links
  <2>2. s2' = (s2 \ {k}) \cup {new} /\ UNCHANGED <<s4, s5, s7, s8, s9, s10>>
    BY <1>8 DEF AtTokens!LinkExpires
  <2>3. \A m, l \in s2 : m.id = l.id => m = l
    BY DEF AtTokens!IdsAreGivenOnce
  <2> HIDE DEF new
  <2>4. /\ \A m \in s2 : \E l \in s2' : l.id = m.id
        /\ \A l \in s2' : \E m \in s2 : l.id = m.id /\ l.purpose = m.purpose /\ l.late = m.late
    BY <2>1, <2>2
  <2>5. \A m, l \in s2' : m.id = l.id => m = l
    BY <2>1, <2>2, <2>3
  <2> QED
    BY <1>6, <2>2, <2>4, <2>5
<1> QED
  BY <1>1, <1>3, <1>4, <1>5, <1>7, <1>8

\* The commit of a new link, which is the newest of its purpose unless it was overtaken.
LEMMA LinkStep ==
  ASSUME AtTokens!TokensInv, NEW s \in Hands, AtTokens!LinkIssued(s)
  PROVE  AtTokens!IdsAreGivenOnce' /\ AtTokens!NewestIsKept' /\ AtTokens!NoneOvertaken'
         /\ AtTokens!ResetEndsSessions' /\ AtTokens!OneTokenPerSignIn'
<1> USE DEF AtTokens!TokensInv
<1> DEFINE id == s9.links + 1
           new == [id |-> id, purpose |-> s7[s].purpose, fresh |-> TRUE, expired |-> FALSE, late |-> s \in s8]
           mail == [step |-> "mail", of |-> id, browser |-> s7[s].browser]
<1>1. s9.links \in Nat /\ s9.links < MaxLinks /\ s7[s].step = "link"
  BY TokensBounds DEF AtTokens!LinkIssued, AtTokens!TokensTypeOK
<1>2. /\ s2' = {k \in s2 : k.id \notin s7[s].olds} \cup {new} /\ UNCHANGED <<s4, s5, s10>>
      /\ AtTokens!Commits(s, mail)
  BY DEF AtTokens!LinkIssued, AtTokens!NewestLink
<1>3. s9'.links = id /\ s9'.tokens = s9.tokens
  BY DEF AtTokens!LinkIssued, AtTokens!TokensTypeOK
<1>4. new.id = id /\ new.purpose = s7[s].purpose /\ new.late = (s \in s8) /\ mail.step = "mail"
  OBVIOUS
<1>5. \A k \in s2 : k.id \in Nat /\ k.id <= s9.links
  BY TokensBounds DEF AtTokens!IdsAreGivenOnce, AtTokens!TokensTypeOK, AtTokens!Links
<1> HIDE DEF new, mail
<1>6. /\ \A t \in Hands : s7'[t] = s7[t] \/ s7'[t] = mail
      /\ \A t \in Hands \ s8' : s7'[t] = AtTokens!Idle \/ s7'[t].step = "mail"
  BY <1>2, <1>4, CommitKeeps DEF AtTokens!TokensTypeOK
<1>7. AtTokens!IdsAreGivenOnce'
  <2>1. s4[id] = 0
    BY <1>1, TokensBounds DEF AtTokens!IdsAreGivenOnce
  <2>2. \A k \in s2' : k.id <= id /\ s4'[k.id] = 0
    BY <1>1, <1>2, <1>4, <1>5, <2>1 DEF AtTokens!IdsAreGivenOnce
  <2>3. \A k, l \in s2' : k.id = l.id => k = l
    <3>1. \A k \in s2' : k = new \/ (k \in s2 /\ k.id # id)
      BY <1>1, <1>2, <1>5
    <3>2. \A k, l \in s2 : k.id = l.id => k = l
      BY DEF AtTokens!IdsAreGivenOnce
    <3> QED
      BY <1>4, <3>1, <3>2
  <2>4. \A r \in s5' : r.jti <= s9'.tokens /\ r.chain <= s9'.tokens
    BY <1>2, <1>3 DEF AtTokens!IdsAreGivenOnce
  <2>5. \A i \in 1..MaxLinks : i > s9'.links => s4'[i] = 0
    <3>1. \A i \in 1..MaxLinks : i > s9'.links => i > s9.links
      BY <1>1, <1>3, TokensBounds
    <3> QED
      BY <1>2, <3>1 DEF AtTokens!IdsAreGivenOnce
  <2>6. \A t \in Hands : AtTokens!IsKnown(s7[t])'
    <3>1. \A t \in Hands : s7[t].step \in {"verify", "reset", "erased"} => s7[t].of \in Nat
      BY TokenRequestForms
    <3>2. \A t \in Hands : AtTokens!IsKnown(s7[t])
      BY DEF AtTokens!IdsAreGivenOnce
    <3> QED
      BY <1>1, <1>3, <1>4, <1>6, <3>1, <3>2 DEF AtTokens!IsKnown
  <2> QED
    BY <1>3, <2>2, <2>3, <2>4, <2>5, <2>6 DEF AtTokens!IdsAreGivenOnce
<1>8. AtTokens!NewestIsKept'
  <2> SUFFICES ASSUME NEW k \in s2', NEW l \in s2', k.purpose = l.purpose PROVE l.id <= k.id \/ l.late
    BY DEF AtTokens!NewestIsKept
  <2>1. CASE k \in s2 /\ l \in s2
    BY <2>1 DEF AtTokens!NewestIsKept
  <2>2. CASE k = new
    BY <1>1, <1>2, <1>4, <1>5, <2>2
  <2>3. CASE k \in s2 /\ l = new
    <3>1. k.purpose = s7[s].purpose
      BY <1>4, <2>3
    <3>2. CASE s \in s8
      BY <1>4, <2>3, <3>2
    <3>3. CASE s \notin s8
      <4>1. k.id \in s7[s].olds
        BY <1>1, <2>3, <3>1, <3>3 DEF AtTokens!NoneOvertaken, AtTokens!ReadIsThere, AtTokens!OfPurpose
      <4>2. k = new
        BY <1>2, <4>1
      <4> QED
        BY <2>2, <4>2
    <3> QED
      BY <3>2, <3>3
  <2> QED
    BY <1>2, <2>1, <2>2, <2>3
<1>9. AtTokens!NoneOvertaken'
  BY <1>6, NoneIsLeft
<1>10. AtTokens!ResetEndsSessions' /\ AtTokens!OneTokenPerSignIn'
  BY <1>2 DEF AtTokens!ResetEndsSessions, AtTokens!OneTokenPerSignIn
<1> QED
  BY <1>7, <1>8, <1>9, <1>10

\* A commit that opens a session, or hands one on.
LEMMA SessionStep ==
  ASSUME AtTokens!TokensInv, NEW s \in Hands,
         AtTokens!SessionOpens(s) \/ AtTokens!Rotates(s) \/ AtTokens!Verifies(s) \/ AtTokens!ResetDone(s)
  PROVE  AtTokens!IdsAreGivenOnce' /\ AtTokens!NewestIsKept' /\ AtTokens!NoneOvertaken'
         /\ AtTokens!ResetEndsSessions' /\ AtTokens!OneTokenPerSignIn'
<1> USE DEF AtTokens!TokensInv
<1>1. AtTokens!Commits(s, AtTokens!Idle)
  BY DEF AtTokens!SessionOpens, AtTokens!Rotates, AtTokens!Verifies, AtTokens!ResetDone, AtTokens!Consumes
<1>2. \A t \in Hands : s7'[t] \in {s7[t], AtTokens!Idle}
  BY <1>1, CommitKeeps DEF AtTokens!TokensTypeOK
<1>3. AtTokens!NoneOvertaken'
  BY <1>1, CommitKeeps, NoneIsLeft
\* The link goes, and none that stays has been used.
<1>4. /\ s2' \subseteq s2 /\ \A k \in s2' : s4'[k.id] = s4[k.id]
      /\ \A id \in 1..MaxLinks : id > s9.links => s4'[id] = s4[id]
  <2>1. CASE UNCHANGED <<s2, s4>>
    BY <2>1
  <2>2. CASE AtTokens!Consumes(s) /\ s7[s].step \in {"verify", "erased"}
    <3>1. /\ s2' = {k \in s2 : k.id # s7[s].of} /\ s4' = [s4 EXCEPT ![s7[s].of] = @ + 1]
      BY <2>2 DEF AtTokens!Consumes, AtTokens!LinkGone
    <3>2. s7[s].of \in 1..MaxLinks /\ s7[s].of <= s9.links /\ s9.links \in Nat
      BY <2>2, TokensBounds, TokenRequestForms DEF AtTokens!IdsAreGivenOnce, AtTokens!IsKnown, AtTokens!TokensTypeOK
    <3>3. \A id \in 1..MaxLinks : id # s7[s].of => s4'[id] = s4[id]
      BY <3>1 DEF AtTokens!TokensTypeOK
    <3>4. \A k \in s2 : k.id \in 1..MaxLinks
      BY DEF AtTokens!Links, AtTokens!TokensTypeOK
    <3>5. \A id \in 1..MaxLinks : id > s9.links => id # s7[s].of
      BY <3>2, TokensBounds
    <3> QED
      BY <3>1, <3>3, <3>4, <3>5
  <2> QED
    BY <2>1, <2>2 DEF AtTokens!SessionOpens, AtTokens!Rotates, AtTokens!Verifies, AtTokens!ResetDone
<1>5. 0 \in 0..MaxTokens /\ s5 \in SUBSET AtTokens!Rows /\ s10 \in Nat
  BY TokensBounds DEF AtTokens!TokensTypeOK
<1>6. \A q \in s5 : q.jti <= s9.tokens /\ q.chain <= s9.tokens /\ (q.age = s10 \/ q.late)
  BY DEF AtTokens!IdsAreGivenOnce, AtTokens!ResetEndsSessions
\* A new sign-in, of which the request knew the last reset unless it was overtaken.
<1>7. CASE AtTokens!SessionOpens(s) \/ AtTokens!Verifies(s)
  <2>1. s7[s].browser \in Browsers /\ s7[s].age \in Nat /\ s7[s].step \in {"session", "verify"}
    BY <1>7, TokenRequestForms DEF AtTokens!SessionOpens, AtTokens!Verifies
  <2>2. AtTokens!Session(s, 0, s7[s].age, FALSE, s5) /\ s10' = s10
    BY <1>7 DEF AtTokens!SessionOpens, AtTokens!Verifies
  <2>3. s7[s].age = s10 \/ s \in s8
    BY <2>1 DEF AtTokens!NoneOvertaken, AtTokens!ReadIsThere
  <2>4. /\ s9' \in [links : 0..MaxLinks, tokens : 0..MaxTokens]
        /\ s9'.links = s9.links /\ s9'.tokens = s9.tokens + 1
        /\ \E new \in AtTokens!Rows : /\ s5' = s5 \cup {new} /\ new.jti = s9.tokens + 1 /\ new.age = s7[s].age
                                      /\ new.chain = s9.tokens + 1 /\ new.late = (s \in s8)
    BY <1>5, <2>1, <2>2, FirstRow
  <2>5. PICK new \in AtTokens!Rows : /\ s5' = s5 \cup {new} /\ new.jti = s9.tokens + 1 /\ new.age = s7[s].age
                                     /\ new.chain = s9.tokens + 1 /\ new.late = (s \in s8)
    BY <2>4
  <2>6. new.age = s10' \/ new.late
    BY <2>2, <2>3, <2>5
  <2> QED
    BY <1>2, <1>3, <1>4, <1>5, <1>6, <2>2, <2>4, <2>5, <2>6, TokensMore
\* A token in the place of another.
<1>8. CASE AtTokens!Rotates(s)
  <2> DEFINE old == s7[s].row
             kept == AtTokens!Without({old.jti})
  <2>1. s7[s].browser \in Browsers /\ old \in AtTokens!Rows /\ s7[s].step = "refresh"
    BY <1>8, TokenRequestForms DEF AtTokens!Rotates
  <2>2. old.chain \in 1..MaxTokens /\ old.age \in Nat /\ old.late \in BOOLEAN
    BY <2>1 DEF AtTokens!Rows
  <2>3. AtTokens!Session(s, old.chain, old.age, old.late, kept) /\ s10' = s10
    BY <1>8 DEF AtTokens!Rotates
  <2>4. kept \subseteq s5 /\ \A q \in kept : q.jti # old.jti
    BY DEF AtTokens!Without
  <2>5. old.chain \in 0..MaxTokens /\ old.chain # 0 /\ kept \in SUBSET AtTokens!Rows
    BY <1>5, <2>2, <2>4, TokensBounds
  <2> HIDE DEF kept
  <2>6. /\ s9' \in [links : 0..MaxLinks, tokens : 0..MaxTokens]
        /\ s9'.links = s9.links /\ s9'.tokens = s9.tokens + 1
        /\ \E new \in AtTokens!Rows : /\ s5' = kept \cup {new} /\ new.jti = s9.tokens + 1 /\ new.age = old.age
                                      /\ new.chain = old.chain /\ new.late = (old.late \/ s \in s8)
    BY <2>1, <2>2, <2>3, <2>5, SessionRow
  <2>7. PICK new \in AtTokens!Rows : /\ s5' = kept \cup {new} /\ new.jti = s9.tokens + 1 /\ new.age = old.age
                                     /\ new.chain = old.chain /\ new.late = (old.late \/ s \in s8)
    BY <2>6
  <2>8. old.chain <= s9.tokens
    BY <2>1 DEF AtTokens!IdsAreGivenOnce, AtTokens!IsKnown
  <2>9. ASSUME ~new.late
        PROVE  new.age = s10' /\ \A q \in kept : q.chain = new.chain => q.late
    <3>1. old \in s5 /\ ~old.late
      BY <2>1, <2>7, <2>9 DEF AtTokens!NoneOvertaken, AtTokens!ReadIsThere
    <3> QED
      BY <1>6, <2>3, <2>4, <2>7, <3>1 DEF AtTokens!OneTokenPerSignIn
  <2>10. \A q \in kept : q.jti <= s9.tokens /\ q.chain <= s9.tokens /\ (q.age = s10' \/ q.late)
    BY <1>6, <2>3, <2>4
  <2>11. new.chain <= s9.tokens /\ (new.late \/ \A q \in kept : q.chain = new.chain => q.late)
    BY <2>7, <2>8, <2>9
  <2> QED
    BY <1>2, <1>3, <1>4, <2>4, <2>5, <2>6, <2>7, <2>9, <2>10, <2>11, TokensMore
\* A reset leaves no token, but what came after it had erased them, and is as late as it is.
<1>9. CASE AtTokens!ResetDone(s)
  <2> DEFINE f(r) == [r EXCEPT !.late = @ \/ s \in s8]
             kept == {f(r) : r \in AtTokens!Without(s7[s].gone)}
  <2>1. s7[s].browser \in Browsers /\ s7[s].step = "erased"
    BY <1>9, TokenRequestForms DEF AtTokens!ResetDone
  <2>2. AtTokens!Session(s, 0, s10 + 1, FALSE, kept) /\ s10' = s10 + 1
    BY <1>9 DEF AtTokens!ResetDone
  <2>3. \A r \in AtTokens!Rows :
          f(r) \in AtTokens!Rows /\ f(r).jti = r.jti /\ f(r).chain = r.chain /\ (s \in s8 => f(r).late)
    BY DEF AtTokens!Rows
  <2> HIDE DEF f
  <2>4. kept \in SUBSET AtTokens!Rows
    BY <1>5, <2>3 DEF AtTokens!Without
  <2>5. \A q \in kept : q.late /\ q.jti <= s9.tokens /\ q.chain <= s9.tokens
    <3>1. CASE s \in s8
      BY <1>5, <1>6, <2>3, <3>1 DEF AtTokens!Without
    <3>2. CASE s \notin s8
      <4>1. AtTokens!AllRows \subseteq s7[s].gone
        BY <2>1, <3>2 DEF AtTokens!NoneOvertaken, AtTokens!ReadIsThere
      <4>2. AtTokens!Without(s7[s].gone) = {}
        BY <4>1 DEF AtTokens!Without, AtTokens!AllRows
      <4> QED
        BY <4>2
    <3> QED
      BY <3>1, <3>2
  <2>6. s10 + 1 \in Nat
    BY <1>5
  <2> HIDE DEF kept
  <2>7. /\ s9' \in [links : 0..MaxLinks, tokens : 0..MaxTokens]
        /\ s9'.links = s9.links /\ s9'.tokens = s9.tokens + 1
        /\ \E new \in AtTokens!Rows : /\ s5' = kept \cup {new} /\ new.jti = s9.tokens + 1 /\ new.age = s10 + 1
                                      /\ new.chain = s9.tokens + 1
    <3>1. PICK age \in Nat : age = s10 + 1
      BY <2>6
    <3>2. AtTokens!Session(s, 0, age, FALSE, kept)
      BY <2>2, <3>1
    <3>3. /\ s9' \in [links : 0..MaxLinks, tokens : 0..MaxTokens]
          /\ s9'.links = s9.links /\ s9'.tokens = s9.tokens + 1
          /\ \E new \in AtTokens!Rows : /\ s5' = kept \cup {new} /\ new.jti = s9.tokens + 1 /\ new.age = age
                                        /\ new.chain = s9.tokens + 1 /\ new.late = (s \in s8)
      BY <2>1, <2>4, <3>2, FirstRow
    <3> QED
      BY <3>1, <3>3
  <2>8. PICK new \in AtTokens!Rows : /\ s5' = kept \cup {new} /\ new.jti = s9.tokens + 1 /\ new.age = s10'
                                     /\ new.chain = s9.tokens + 1
    BY <2>2, <2>7
  <2> QED
    BY <1>2, <1>3, <1>4, <2>4, <2>5, <2>7, <2>8, TokensMore
<1> QED
  BY <1>7, <1>8, <1>9

LEMMA TokensStay ==
  ASSUME AtTokens!TokensInv, [AtTokens!TokensNext]_AtTokens!tokensVars
  PROVE  AtTokens!TokensInv'
<1>1. AtTokens!TokensTypeOK'
  BY TokensTypesStay DEF AtTokens!TokensInv
<1>2. CASE AtTokens!TokensNext
  <2>1. AtTokens!IdsAreGivenOnce' /\ AtTokens!NewestIsKept' /\ AtTokens!NoneOvertaken'
        /\ AtTokens!ResetEndsSessions' /\ AtTokens!OneTokenPerSignIn'
    BY <1>2, TokensAsk, TokensRest, LinkStep, SessionStep DEF AtTokens!TokensNext
  <2> QED
    BY <1>1, <2>1 DEF AtTokens!TokensInv
<1>3. CASE UNCHANGED AtTokens!tokensVars
  <2>1. UNCHANGED <<s2, s4, s5, s7, s8, s9, s10>>
    BY <1>3 DEF AtTokens!tokensVars
  <2>2. AtTokens!NoneOvertaken'
    BY <2>1 DEF AtTokens!TokensInv, AtTokens!NoneOvertaken, AtTokens!ReadIsThere, AtTokens!OfPurpose,
       AtTokens!LinkIsThere, AtTokens!AllRows
  <2>3. \A t \in Hands : AtTokens!IsKnown(s7'[t])
    BY <2>1 DEF AtTokens!TokensInv, AtTokens!IdsAreGivenOnce
  <2> QED
    BY <1>1, <2>1, <2>2, <2>3, TokensLess DEF AtTokens!TokensInv
<1> QED
  BY <1>2, <1>3

\* The link that a request consumes is there, is the newest, and was not used before.
LEMMA LinkUse ==
  ASSUME AtTokens!TokensInv, [AtTokens!TokensNext]_AtTokens!tokensVars
  PROVE  AtTokens!LinkIsNewAndNewest
<1> SUFFICES ASSUME NEW s \in Hands \ s8, NEW id \in 1..MaxLinks, s4'[id] > s4[id], s7'[s] # s7[s]
             PROVE  /\ s4[id] = 0
                    /\ \E k \in s2 : k.id = id /\ \A l \in AtTokens!OfPurpose(k.purpose) : l.id <= id \/ l.late
  BY DEF AtTokens!LinkIsNewAndNewest
<1> USE DEF AtTokens!TokensInv
<1>1. s4[id] \in Nat
  BY DEF AtTokens!TokensTypeOK
<1>2. PICK t \in Hands : AtTokens!Verifies(t) \/ AtTokens!ResetDone(t)
  <2>1. s4' # s4
    BY <1>1
  <2>2. ~UNCHANGED AtTokens!tokensVars
    BY <2>1 DEF AtTokens!tokensVars
  <2>3. ASSUME NEW t \in Hands, AtTokens!LinkIssued(t) \/ AtTokens!LinkMailed(t) \/ AtTokens!SessionOpens(t) \/
               AtTokens!Rotates(t) \/ AtTokens!ResetErases(t) \/ AtTokens!Fails(t)
        PROVE  FALSE
    BY <2>1, <2>3 DEF AtTokens!LinkIssued, AtTokens!LinkMailed, AtTokens!SessionOpens, AtTokens!Rotates,
       AtTokens!ResetErases, AtTokens!Fails
  <2>4. ASSUME NEW t \in Hands, NEW r, AtTokens!Reads(t, r) PROVE FALSE
    BY <2>1, <2>4 DEF AtTokens!Reads
  <2>5. ASSUME NEW t \in Hands, AtTokens!AsksToVerify(t) \/ AtTokens!AsksToReset(t) PROVE FALSE
    BY <2>4, <2>5 DEF AtTokens!AsksToVerify, AtTokens!AsksToReset, AtTokens!AsksForLink
  <2>6. ASSUME NEW t \in Hands, NEW b \in Browsers,
               AtTokens!SignsUp(t, b) \/ AtTokens!LogsIn(t, b) \/ AtTokens!Refreshes(t, b)
        PROVE  FALSE
    BY <2>4, <2>6 DEF AtTokens!SignsUp, AtTokens!LogsIn, AtTokens!Refreshes, AtTokens!AsksForLink
  <2>7. ASSUME NEW t \in Hands, NEW b \in Browsers, NEW k \in s2,
               AtTokens!OpensVerification(t, b, k) \/ AtTokens!OpensReset(t, b, k)
        PROVE  FALSE
    BY <2>4, <2>7 DEF AtTokens!OpensVerification, AtTokens!OpensReset, AtTokens!Opens
  <2>8. ASSUME NEW b \in Browsers, NEW t \in Hands,
               AtTokens!GoogleSignsIn(t, b) \/ AtTokens!RefreshOfInactive(b) \/ AtTokens!LogsOut(b)
        PROVE  FALSE
    BY <2>1, <2>8 DEF AtTokens!GoogleSignsIn, AtTokens!RefreshOfInactive, AtTokens!LogsOut
  <2>9. ASSUME NEW k \in s2, AtTokens!LinkOfInactive(k) \/ AtTokens!LinkExpires(k) PROVE FALSE
    BY <2>1, <2>9 DEF AtTokens!LinkOfInactive, AtTokens!LinkExpires
  <2>10. ~AtTokens!UserSwitched /\ ~AtTokens!MinutePasses
    BY <2>1 DEF AtTokens!UserSwitched, AtTokens!MinutePasses
  <2> QED
    BY <2>2, <2>3, <2>5, <2>6, <2>7, <2>8, <2>9, <2>10 DEF AtTokens!TokensNext, AtTokens!SignUpFails, AtTokens!Dies
<1>3. AtTokens!Consumes(t) /\ s7[t].step \in {"verify", "erased"}
  BY <1>2 DEF AtTokens!Verifies, AtTokens!ResetDone
<1>4. t = s
  BY <1>3 DEF AtTokens!Consumes, AtTokens!Commits, AtTokens!TokensTypeOK
<1>5. id = s7[t].of
  BY <1>1, <1>3 DEF AtTokens!Consumes, AtTokens!TokensTypeOK
<1>6. PICK k \in s2 : k.id = id
  BY <1>3, <1>4, <1>5 DEF AtTokens!NoneOvertaken, AtTokens!ReadIsThere, AtTokens!LinkIsThere
<1>7. \A l \in AtTokens!OfPurpose(k.purpose) : l.id <= id \/ l.late
  BY <1>6 DEF AtTokens!NewestIsKept, AtTokens!OfPurpose
<1> QED
  BY <1>6, <1>7 DEF AtTokens!IdsAreGivenOnce

\* Links and refresh tokens keep their invariant through every step of the desk.
THEOREM TokensInductive == DeskSpec => [](screen = "tokens" => AtTokens!TokensInv)
<1>1. DeskInit => (screen = "tokens" => AtTokens!TokensInv)
  BY OneToBeginWith, TokensStart
<1>2. ASSUME screen = "tokens" => AtTokens!TokensInv, [DeskNext]_deskVars
      PROVE  (screen = "tokens" => AtTokens!TokensInv)'
  BY <1>2, OneAtATime, TokensStay
<1> QED
  BY <1>1, <1>2, PTL DEF DeskSpec

\* Only the newest link works, and once; a reset of the password ends every session, and a
\* sign-in has one refresh token, but for what overtaken requests left.
THEOREM TokensStaySingle == DeskSpec => TokensAreSingle
<1>1. ASSUME screen = "tokens" => AtTokens!TokensInv, [DeskNext]_deskVars
      PROVE  screen = "tokens" => AtTokens!LinkIsNewAndNewest
  BY <1>1, OneAtATime, LinkUse
<1>2. (screen = "tokens" => AtTokens!TokensInv)
        => (screen = "tokens" => AtTokens!ResetEndsSessions /\ AtTokens!OneTokenPerSignIn)
  BY DEF AtTokens!TokensInv
<1> QED
  BY <1>1, <1>2, TokensInductive, PTL DEF DeskSpec, TokensAreSingle

-----------------------------------------------------------------------------
(***************************************************************************)
(* Whom they sell to.                                                      *)
(***************************************************************************)
LEMMA OwnersBounds ==
  /\ AtOwnership!IsFiniteSet(Companies) /\ None \notin Owners \cup AtOwnership!Owned
  /\ Cap \in [Owners -> Nat \cup {None}] /\ Sweep \notin Hands
  BY DeskAssumption DEF AtOwnership!OwnershipAssumption

LEMMA OwnerRequestForms ==
  ASSUME AtOwnership!OwnershipTypeOK, NEW s \in Hands \cup {Sweep}
  PROVE  /\ s3[s].step = "create" => s3[s].of \in Companies /\ s3[s].to \in Owners \cup {None}
         /\ s3[s].step \in {"update", "reassign", "free"} =>
              s3[s].of \in Companies /\ s3[s].to \in Owners \cup {None} /\ s3[s].seen \in Owners \cup {None}
         /\ s3[s].step \in {"listed", "found"} => s3[s].found \in [Companies -> Owners \cup {None}]
  BY DEF AtOwnership!OwnershipTypeOK, AtOwnership!Idle, AtOwnership!Requests, AtOwnership!Found

\* A request that reads, goes on, fails or dies.
LEMMA OwnersGoOn ==
  ASSUME AtOwnership!OwnershipInv, NEW s \in Hands \cup {Sweep}, NEW r \in {AtOwnership!Idle} \cup AtOwnership!Requests,
         s3' = [s3 EXCEPT ![s] = r], s4' = s4 \/ s4' = s4 \ {s}, UNCHANGED <<s1, s2>>, taps' \in Nat,
         s \notin s4' => AtOwnership!FoundAsRead(r), AtOwnership!GoesAsAsked(r),
         s = Sweep => r.step \in {"idle", "listed", "found"},
         s # Sweep => r.step \notin {"listed", "found"},
         r.step = "create" => /\ r.of \notin AtOwnership!There
                              /\ \A t \in Hands : s3[t].step = "create" => s3[t].of # r.of
  PROVE  AtOwnership!OwnershipInv'
<1> USE DEF AtOwnership!OwnershipInv
<1>1. \A t \in Hands \cup {Sweep} : s3'[t] = IF t = s THEN r ELSE s3[t]
  BY DEF AtOwnership!OwnershipTypeOK
<1>2. AtOwnership!OwnershipTypeOK'
  BY DEF AtOwnership!OwnershipTypeOK
<1>3. AtOwnership!StillAsRead'
  <2> SUFFICES ASSUME NEW t \in (Hands \cup {Sweep}) \ s4' PROVE AtOwnership!FoundAsRead(s3[t])'
    BY DEF AtOwnership!StillAsRead
  <2>1. AtOwnership!FoundAsRead(s3'[t])
    BY <1>1 DEF AtOwnership!StillAsRead
  <2> QED
    BY <2>1 DEF AtOwnership!FoundAsRead, AtOwnership!MayOwn, AtOwnership!OwnedBy, AtOwnership!There, AtOwnership!OwnerOf
<1>4. AtOwnership!OfTheirKind'
  BY <1>1, OwnersBounds DEF AtOwnership!OfTheirKind, AtOwnership!GoesAsAsked
<1>5. AtOwnership!CreatesAreNew'
  BY <1>1 DEF AtOwnership!CreatesAreNew, AtOwnership!There
<1>6. AtOwnership!ClocksRunOrRan' /\ AtOwnership!RowsOfCompanies' /\ AtOwnership!HistoryNamesOwner'
  BY DEF AtOwnership!ClocksRunOrRan, AtOwnership!RowsOfCompanies, AtOwnership!HistoryNamesOwner, AtOwnership!There,
     AtOwnership!OwnerOf
<1> QED
  BY <1>2, <1>3, <1>4, <1>5, <1>6

\* A step that commits: it keeps the clocks true and the rows of the history theirs.
LEMMA OwnersChange ==
  ASSUME AtOwnership!OwnershipInv, s1' \in [Companies -> {None} \cup AtOwnership!Owned], taps' \in Nat,
         s3' \in [Hands \cup {Sweep} -> {AtOwnership!Idle} \cup AtOwnership!Requests],
         \A t \in Hands \cup {Sweep} : s3'[t] \in {s3[t], AtOwnership!Idle},
         s4' \subseteq Hands \cup {Sweep}, \A t \in (Hands \cup {Sweep}) \ s4' : s3'[t] = AtOwnership!Idle,
         \A r \in s2' : r \in AtOwnership!Rows /\ s1'[r.of] # None /\ (r.left \/ s1'[r.of].owner = r.who),
         \A c \in Companies : s1'[c] # None /\ s1'[c].owner # None /\ ~s1'[c].ahead => s1'[c].went # "given",
         \A t \in Hands : s3'[t].step = "create" => s1'[s3'[t].of] = None
  PROVE  AtOwnership!OwnershipInv'
<1> USE DEF AtOwnership!OwnershipInv
<1>1. AtOwnership!OwnershipTypeOK'
  BY DEF AtOwnership!OwnershipTypeOK
<1>2. AtOwnership!StillAsRead'
  BY DEF AtOwnership!StillAsRead, AtOwnership!FoundAsRead, AtOwnership!Idle
<1>3. AtOwnership!OfTheirKind'
  BY DEF AtOwnership!OfTheirKind, AtOwnership!GoesAsAsked, AtOwnership!Idle
<1>4. AtOwnership!CreatesAreNew'
  BY DEF AtOwnership!CreatesAreNew, AtOwnership!There, AtOwnership!Idle
<1>5. AtOwnership!ClocksRunOrRan' /\ AtOwnership!HistoryNamesOwner'
  BY DEF AtOwnership!ClocksRunOrRan, AtOwnership!HistoryNamesOwner, AtOwnership!There, AtOwnership!OwnerOf
<1>6. AtOwnership!RowsOfCompanies'
  BY DEF AtOwnership!RowsOfCompanies, AtOwnership!There, AtOwnership!Rows
<1> QED
  BY <1>1, <1>2, <1>3, <1>4, <1>5, <1>6

\* The commit of a request, for the rows that it leaves: they name the owner, or are marked.
LEMMA RowsAreMarked ==
  ASSUME NEW s, NEW now, NEW rows \in SUBSET AtOwnership!Rows, NEW closes \in BOOLEAN,
         AtOwnership!Commits(s, now, rows, closes), \A r \in rows : now[r.of] # None,
         closes /\ s \notin s4 => \A r \in rows : r.left \/ now[r.of].owner = r.who
  PROVE  /\ s1' = now
         /\ \A r \in s2' : r \in AtOwnership!Rows /\ s1'[r.of] # None /\ (r.left \/ s1'[r.of].owner = r.who)
<1> DEFINE f(r) == [r EXCEPT !.left = @ \/ (~(closes /\ s \notin s4) /\ now[r.of].owner # r.who)]
<1>1. s1' = now /\ s2' = {f(r) : r \in rows}
  BY DEF AtOwnership!Commits
<1>2. \A r \in rows : /\ f(r) \in AtOwnership!Rows /\ f(r).of = r.of /\ f(r).who = r.who
                      /\ f(r).left = (r.left \/ (~(closes /\ s \notin s4) /\ now[r.of].owner # r.who))
  BY DEF AtOwnership!Rows
<1> HIDE DEF f
<1>3. SUFFICES ASSUME NEW q \in s2'
               PROVE  q \in AtOwnership!Rows /\ now[q.of] # None /\ (q.left \/ now[q.of].owner = q.who)
  BY <1>1
<1>4. PICK r \in rows : q = f(r)
  BY <1>1
<1>5. q \in AtOwnership!Rows /\ q.of = r.of /\ q.who = r.who
  BY <1>2, <1>4
<1>6. q.left = (r.left \/ (~(closes /\ s \notin s4) /\ now[r.of].owner # r.who))
  BY <1>2, <1>4
<1>7. now[r.of] # None
  OBVIOUS
<1>8. CASE closes /\ s \notin s4
  BY <1>5, <1>6, <1>7, <1>8
<1>9. CASE ~(closes /\ s \notin s4)
  BY <1>5, <1>6, <1>7, <1>9
<1> QED
  BY <1>8, <1>9

LEMMA CommitEnds ==
  ASSUME AtOwnership!OwnershipTypeOK, NEW s \in Hands \cup {Sweep}, NEW now, NEW rows, NEW closes,
         AtOwnership!Commits(s, now, rows, closes)
  PROVE  /\ s3' \in [Hands \cup {Sweep} -> {AtOwnership!Idle} \cup AtOwnership!Requests]
         /\ \A t \in Hands \cup {Sweep} : s3'[t] = IF t = s THEN AtOwnership!Idle ELSE s3[t]
         /\ s4' \subseteq Hands \cup {Sweep} /\ \A t \in (Hands \cup {Sweep}) \ s4' : s3'[t] = AtOwnership!Idle
         /\ taps' \in Nat
  BY DEF AtOwnership!Commits, AtOwnership!Ends, AtOwnership!Overtaken, AtOwnership!OwnershipTypeOK

\* What becomes of the columns of an owner.
LEMMA GoesTo ==
  ASSUME NEW row \in AtOwnership!Owned, NEW seen, NEW to \in Owners \cup {None}, NEW how \in {"given", "put"}
  PROVE  LET new == AtOwnership!Goes(row, seen, to, how) IN
         /\ new \in AtOwnership!Owned /\ new.ahead = row.ahead
         /\ to = seen => new = row
         /\ to # seen => new.owner = to /\ new.went = how
  BY DEF AtOwnership!Goes, AtOwnership!Owned

LEMMA NewClockOf ==
  ASSUME NEW row \in AtOwnership!Owned
  PROVE  LET new == AtOwnership!NewClock(row) IN
         new \in AtOwnership!Owned /\ new.owner = row.owner /\ new.ahead
  BY DEF AtOwnership!NewClock, AtOwnership!Owned

LEMMA OwnersStart == AtOwnership!OwnershipInit => AtOwnership!OwnershipInv
<1> SUFFICES ASSUME AtOwnership!OwnershipInit PROVE AtOwnership!OwnershipInv
  OBVIOUS
<1> USE DEF AtOwnership!OwnershipInit
<1>1. \A s \in Hands \cup {Sweep} : s3[s] = AtOwnership!Idle
  OBVIOUS
<1>2. AtOwnership!OwnershipTypeOK
  <2>1. s1 \in [Companies -> {None} \cup AtOwnership!Owned]
    BY DEF AtOwnership!Owned
  <2>2. s3 \in [Hands \cup {Sweep} -> {AtOwnership!Idle} \cup AtOwnership!Requests]
    BY <1>1
  <2> QED
    BY <2>1, <2>2 DEF AtOwnership!OwnershipTypeOK
<1>3. AtOwnership!StillAsRead /\ AtOwnership!OfTheirKind /\ AtOwnership!CreatesAreNew
  BY <1>1 DEF AtOwnership!StillAsRead, AtOwnership!FoundAsRead, AtOwnership!OfTheirKind, AtOwnership!GoesAsAsked,
     AtOwnership!CreatesAreNew, AtOwnership!Idle
<1>4. AtOwnership!ClocksRunOrRan
  BY OwnersBounds DEF AtOwnership!ClocksRunOrRan, AtOwnership!There
<1>5. AtOwnership!RowsOfCompanies /\ AtOwnership!HistoryNamesOwner
  BY DEF AtOwnership!RowsOfCompanies, AtOwnership!HistoryNamesOwner
<1> QED
  BY <1>2, <1>3, <1>4, <1>5 DEF AtOwnership!OwnershipInv

\* What is asked for, found or given up.
LEMMA OwnersAsk ==
  ASSUME AtOwnership!OwnershipInv, NEW s \in Hands, NEW c \in Companies, NEW to \in Owners \cup {None},
         \/ AtOwnership!AsksToCreate(s, c, to) \/ AtOwnership!AsksToUpdate(s, c, to)
         \/ to # None /\ AtOwnership!AsksToReassign(s, c, to)
         \/ AtOwnership!AsksToFree(s, c)
  PROVE  AtOwnership!OwnershipInv'
<1>0. /\ s \in Hands \cup {Sweep} /\ s # Sweep /\ AtOwnership!OwnershipTypeOK
      /\ c \in AtOwnership!There => AtOwnership!OwnerOf(c) \in Owners \cup {None}
  BY OwnersBounds DEF AtOwnership!OwnershipInv, AtOwnership!OwnershipTypeOK, AtOwnership!There, AtOwnership!OwnerOf,
     AtOwnership!Owned
<1>1. taps + 1 \in Nat
  BY <1>0 DEF AtOwnership!OwnershipTypeOK
<1> USE DEF AtOwnership!Reads, AtOwnership!Tap, AtOwnership!Requests
<1>2. CASE AtOwnership!AsksToCreate(s, c, to)
  <2> DEFINE r == [step |-> "create", of |-> c, to |-> to]
  <2>1. /\ r \in AtOwnership!Requests /\ AtOwnership!FoundAsRead(r) /\ AtOwnership!GoesAsAsked(r)
        /\ r.step = "create" /\ r.of = c
    BY <1>2 DEF AtOwnership!AsksToCreate, AtOwnership!FoundAsRead, AtOwnership!GoesAsAsked
  <2>2. /\ s3' = [s3 EXCEPT ![s] = r] /\ taps' = taps + 1 /\ UNCHANGED <<s1, s2, s4>>
        /\ c \notin AtOwnership!There /\ \A t \in Hands : s3[t].step = "create" => s3[t].of # c
    BY <1>2 DEF AtOwnership!AsksToCreate
  <2> HIDE DEF r
  <2> QED
    BY <1>0, <1>1, <2>1, <2>2, OwnersGoOn
<1>3. CASE AtOwnership!AsksToUpdate(s, c, to)
  <2> DEFINE r == [step |-> "update", of |-> c, seen |-> AtOwnership!OwnerOf(c), to |-> to]
  <2>1. /\ r \in AtOwnership!Requests /\ AtOwnership!FoundAsRead(r) /\ AtOwnership!GoesAsAsked(r)
        /\ r.step = "update"
    BY <1>0, <1>3 DEF AtOwnership!AsksToUpdate, AtOwnership!FoundAsRead, AtOwnership!GoesAsAsked
  <2>2. s3' = [s3 EXCEPT ![s] = r] /\ taps' = taps + 1 /\ UNCHANGED <<s1, s2, s4>>
    BY <1>3 DEF AtOwnership!AsksToUpdate
  <2> HIDE DEF r
  <2> QED
    BY <1>0, <1>1, <2>1, <2>2, OwnersGoOn
<1>4. CASE to # None /\ AtOwnership!AsksToReassign(s, c, to)
  <2> DEFINE r == [step |-> "reassign", of |-> c, seen |-> AtOwnership!OwnerOf(c), to |-> to]
  <2>1. /\ r \in AtOwnership!Requests /\ AtOwnership!FoundAsRead(r) /\ AtOwnership!GoesAsAsked(r)
        /\ r.step = "reassign"
    BY <1>0, <1>4 DEF AtOwnership!AsksToReassign, AtOwnership!FoundAsRead, AtOwnership!GoesAsAsked
  <2>2. s3' = [s3 EXCEPT ![s] = r] /\ taps' = taps + 1 /\ UNCHANGED <<s1, s2, s4>>
    BY <1>4 DEF AtOwnership!AsksToReassign
  <2> HIDE DEF r
  <2> QED
    BY <1>0, <1>1, <2>1, <2>2, OwnersGoOn
<1>5. CASE AtOwnership!AsksToFree(s, c)
  <2> DEFINE r == [step |-> "free", of |-> c, seen |-> AtOwnership!OwnerOf(c), to |-> None]
  <2>1. /\ r \in AtOwnership!Requests /\ AtOwnership!FoundAsRead(r) /\ AtOwnership!GoesAsAsked(r)
        /\ r.step = "free"
    BY <1>0, <1>5 DEF AtOwnership!AsksToFree, AtOwnership!FoundAsRead, AtOwnership!GoesAsAsked
  <2>2. s3' = [s3 EXCEPT ![s] = r] /\ taps' = taps + 1 /\ UNCHANGED <<s1, s2, s4>>
    BY <1>5 DEF AtOwnership!AsksToFree
  <2> HIDE DEF r
  <2> QED
    BY <1>0, <1>1, <2>1, <2>2, OwnersGoOn
<1> QED
  BY <1>2, <1>3, <1>4, <1>5

LEMMA OwnersEnd ==
  ASSUME AtOwnership!OwnershipInv, NEW s \in Hands \cup {Sweep},
         AtOwnership!Dies(s) \/ \E needed \in SUBSET Companies : AtOwnership!Fails(s, needed)
  PROVE  AtOwnership!OwnershipInv'
<1>1. /\ s3' = [s3 EXCEPT ![s] = AtOwnership!Idle] /\ s4' = s4 \ {s} /\ UNCHANGED <<s1, s2, taps>> /\ taps \in Nat
  BY DEF AtOwnership!Dies, AtOwnership!Fails, AtOwnership!Ends, AtOwnership!OwnershipInv, AtOwnership!OwnershipTypeOK
<1> DEFINE r == AtOwnership!Idle
<1>2. r \in {AtOwnership!Idle} \cup AtOwnership!Requests /\ AtOwnership!FoundAsRead(r) /\ AtOwnership!GoesAsAsked(r) /\ r.step = "idle"
  BY DEF AtOwnership!Idle, AtOwnership!FoundAsRead, AtOwnership!GoesAsAsked
<1> HIDE DEF r
<1>3. s3' = [s3 EXCEPT ![s] = r]
  BY <1>1 DEF r
<1> QED
  BY <1>1, <1>2, <1>3, OwnersGoOn

LEMMA SweepLooks ==
  ASSUME AtOwnership!OwnershipInv, AtOwnership!SweepLists \/ AtOwnership!SweepFinds
  PROVE  AtOwnership!OwnershipInv'
<1>0. /\ Sweep \in Hands \cup {Sweep} /\ AtOwnership!OwnershipTypeOK
      /\ \A c \in AtOwnership!There : AtOwnership!OwnerOf(c) \in Owners \cup {None}
  BY OwnersBounds DEF AtOwnership!OwnershipInv, AtOwnership!OwnershipTypeOK, AtOwnership!There, AtOwnership!OwnerOf,
     AtOwnership!Owned
<1>1. taps + 1 \in Nat /\ taps \in Nat
  BY <1>0 DEF AtOwnership!OwnershipTypeOK
<1>2. CASE AtOwnership!SweepLists
  <2> DEFINE g == [c \in Companies |-> IF c \in AtOwnership!Due THEN AtOwnership!OwnerOf(c) ELSE None]
             r == [step |-> "listed", found |-> g]
  <2>1. g \in AtOwnership!Found /\ \A c \in Companies : g[c] # None => c \in AtOwnership!There /\ AtOwnership!OwnerOf(c) = g[c]
    BY <1>0 DEF AtOwnership!Due, AtOwnership!Found
  <2>2. s3' = [s3 EXCEPT ![Sweep] = r] /\ taps' = taps + 1 /\ UNCHANGED <<s1, s2, s4>>
    BY <1>2 DEF AtOwnership!SweepLists, AtOwnership!Reads, AtOwnership!Tap
  <2> HIDE DEF g
  <2>3. r \in AtOwnership!Requests /\ AtOwnership!FoundAsRead(r) /\ AtOwnership!GoesAsAsked(r) /\ r.step = "listed"
    BY <2>1 DEF AtOwnership!Requests, AtOwnership!FoundAsRead, AtOwnership!GoesAsAsked
  <2> HIDE DEF r
  <2> QED
    BY <1>0, <1>1, <2>2, <2>3, OwnersGoOn
<1>3. CASE AtOwnership!SweepFinds
  <2> DEFINE listed == s3[Sweep].found
             g == [c \in Companies |-> IF c \in AtOwnership!Due
                                       THEN IF listed[c] # None THEN listed[c] ELSE AtOwnership!OwnerOf(c) ELSE None]
             r == [step |-> "found", found |-> g]
  <2>1. listed \in [Companies -> Owners \cup {None}] /\ s3[Sweep].step = "listed"
    BY <1>0, <1>3, OwnerRequestForms DEF AtOwnership!SweepFinds
  <2>2. s3' = [s3 EXCEPT ![Sweep] = r] /\ UNCHANGED <<s1, s2, s4, taps>>
    BY <1>3 DEF AtOwnership!SweepFinds
  <2>3. g \in AtOwnership!Found /\ \A c \in Companies : g[c] # None => c \in AtOwnership!Due
    BY <1>0, <2>1 DEF AtOwnership!Due, AtOwnership!Found
  <2>4. Sweep \notin s4 => \A c \in Companies : g[c] # None => AtOwnership!OwnerOf(c) = g[c]
    <3> SUFFICES ASSUME Sweep \notin s4, NEW c \in Companies, g[c] # None PROVE AtOwnership!OwnerOf(c) = g[c]
      OBVIOUS
    <3>1. AtOwnership!FoundAsRead(s3[Sweep])
      BY DEF AtOwnership!OwnershipInv, AtOwnership!StillAsRead
    <3>2. listed[c] # None => AtOwnership!OwnerOf(c) = listed[c]
      BY <2>1, <3>1 DEF AtOwnership!FoundAsRead
    <3> QED
      BY <3>2
  <2> HIDE DEF g, listed
  <2>5. r \in AtOwnership!Requests /\ AtOwnership!GoesAsAsked(r) /\ r.step = "found"
    BY <2>3 DEF AtOwnership!Requests, AtOwnership!GoesAsAsked
  <2>6. Sweep \notin s4 => AtOwnership!FoundAsRead(r)
    BY <2>3, <2>4 DEF AtOwnership!FoundAsRead, AtOwnership!Due, AtOwnership!OwnerOf
  <2> HIDE DEF r
  <2> QED
    BY <1>0, <1>1, <2>2, <2>5, <2>6, OwnersGoOn
<1> QED
  BY <1>2, <1>3

LEMMA OwnersCommit ==
  ASSUME AtOwnership!OwnershipInv, NEW s \in Hands \cup {Sweep}, NEW now \in [Companies -> {None} \cup AtOwnership!Owned],
         NEW rows \in SUBSET AtOwnership!Rows, NEW closes \in BOOLEAN, AtOwnership!Commits(s, now, rows, closes),
         \A r \in rows : now[r.of] # None,
         closes /\ s \notin s4 => \A r \in rows : r.left \/ now[r.of].owner = r.who,
         \A c \in Companies : now[c] # None /\ now[c].owner # None /\ ~now[c].ahead => now[c].went # "given",
         \A t \in Hands \ {s} : s3[t].step = "create" => now[s3[t].of] = None
  PROVE  AtOwnership!OwnershipInv'
<1>1. AtOwnership!OwnershipTypeOK
  BY DEF AtOwnership!OwnershipInv
<1>2. /\ s1' = now
      /\ \A r \in s2' : r \in AtOwnership!Rows /\ s1'[r.of] # None /\ (r.left \/ s1'[r.of].owner = r.who)
  BY RowsAreMarked
<1>3. /\ s3' \in [Hands \cup {Sweep} -> {AtOwnership!Idle} \cup AtOwnership!Requests]
      /\ \A t \in Hands \cup {Sweep} : s3'[t] = IF t = s THEN AtOwnership!Idle ELSE s3[t]
      /\ s4' \subseteq Hands \cup {Sweep} /\ \A t \in (Hands \cup {Sweep}) \ s4' : s3'[t] = AtOwnership!Idle
      /\ taps' \in Nat
  BY <1>1, CommitEnds
<1>4. \A t \in Hands \cup {Sweep} : s3'[t] \in {s3[t], AtOwnership!Idle}
  BY <1>3
<1>5. \A t \in Hands : s3'[t].step = "create" => s1'[s3'[t].of] = None
  BY <1>2, <1>3 DEF AtOwnership!Idle
<1>6. \A c \in Companies : s1'[c] # None /\ s1'[c].owner # None /\ ~s1'[c].ahead => s1'[c].went # "given"
  BY <1>2
<1>7. s1' \in [Companies -> {None} \cup AtOwnership!Owned]
  BY <1>2
<1> QED
  BY <1>2, <1>3, <1>4, <1>5, <1>6, <1>7, OwnersChange

\* What a commit starts from, and what it may leave to the companies that it does not touch.
LEMMA OwnersAreKnown ==
  ASSUME AtOwnership!OwnershipInv
  PROVE  /\ s1 \in [Companies -> {None} \cup AtOwnership!Owned] /\ s2 \in SUBSET AtOwnership!Rows
         /\ \A c \in Companies : c \in AtOwnership!There <=> s1[c] # None
         /\ \A c \in AtOwnership!There : s1[c] \in AtOwnership!Owned
         /\ \A r \in s2 : r.of \in Companies /\ s1[r.of] # None /\ (r.left \/ s1[r.of].owner = r.who)
         /\ \A c \in Companies : s1[c] # None /\ s1[c].owner # None /\ ~s1[c].ahead => s1[c].went # "given"
         /\ \A t \in Hands : s3[t].step = "create" => s3[t].of \in Companies /\ s1[s3[t].of] = None
         /\ \A w \in AtOwnership!Owned : w # None
<1>1. AtOwnership!OwnershipTypeOK
  BY DEF AtOwnership!OwnershipInv
<1>2. \A t \in Hands : s3[t].step = "create" => s3[t].of \in Companies
  BY <1>1, OwnerRequestForms
<1> QED
  BY <1>1, <1>2, OwnersBounds DEF AtOwnership!OwnershipInv, AtOwnership!OwnershipTypeOK, AtOwnership!There, AtOwnership!OwnerOf,
     AtOwnership!RowsOfCompanies, AtOwnership!HistoryNamesOwner, AtOwnership!ClocksRunOrRan, AtOwnership!CreatesAreNew,
     AtOwnership!Rows

LEMMA OwnersCreate ==
  ASSUME AtOwnership!OwnershipInv, NEW s \in Hands, AtOwnership!Created(s)
  PROVE  AtOwnership!OwnershipInv'
<1> DEFINE w == [owner |-> s3[s].to, ahead |-> TRUE, went |-> "given"]
           now == [s1 EXCEPT ![s3[s].of] = w]
<1>1. PICK closes \in BOOLEAN : closes = TRUE
  OBVIOUS
<1>2. s3[s].step = "create" /\ AtOwnership!Commits(s, now, s2, closes)
  BY <1>1 DEF AtOwnership!Created
<1>3. s3[s].of \in Companies /\ s3[s].to \in Owners \cup {None} /\ s1[s3[s].of] = None
  BY <1>2, OwnerRequestForms, OwnersAreKnown DEF AtOwnership!OwnershipInv
<1>4. w \in AtOwnership!Owned /\ w.ahead
  BY <1>3 DEF AtOwnership!Owned
<1> HIDE DEF w
<1>5. \A c \in Companies : now[c] = IF c = s3[s].of THEN w ELSE s1[c]
  BY OwnersAreKnown
<1>6. now \in [Companies -> {None} \cup AtOwnership!Owned]
  BY <1>4, OwnersAreKnown
<1>7. \A t \in Hands \ {s} : s3[t].step = "create" => now[s3[t].of] = None
  BY <1>2, <1>3, <1>5, OwnersAreKnown DEF AtOwnership!OwnershipInv, AtOwnership!CreatesAreNew
<1>8. \A r \in s2 : now[r.of] # None /\ (r.left \/ now[r.of].owner = r.who)
  BY <1>3, <1>5, OwnersAreKnown
<1>9. \A c \in Companies : now[c] # None /\ now[c].owner # None /\ ~now[c].ahead => now[c].went # "given"
  BY <1>4, <1>5, OwnersAreKnown
<1> HIDE DEF now
<1> QED
  BY <1>2, <1>6, <1>7, <1>8, <1>9, OwnersCommit, OwnersAreKnown

\* A commit for one company that is there.
LEMMA OwnersMove ==
  ASSUME AtOwnership!OwnershipInv, NEW s \in Hands \cup {Sweep}, NEW c \in AtOwnership!There, NEW w \in AtOwnership!Owned,
         NEW rows \in SUBSET AtOwnership!Rows, NEW closes \in BOOLEAN,
         AtOwnership!Commits(s, [s1 EXCEPT ![c] = w], rows, closes),
         \A r \in rows : r \in s2 \/ r.of = c,
         closes /\ s \notin s4 => \A r \in rows : r.of = c => r.left \/ w.owner = r.who,
         w.owner # None /\ ~w.ahead => w.went # "given"
  PROVE  AtOwnership!OwnershipInv'
<1> DEFINE now == [s1 EXCEPT ![c] = w]
<1>1. c \in Companies /\ \A d \in Companies : now[d] = IF d = c THEN w ELSE s1[d]
  BY OwnersAreKnown DEF AtOwnership!There
<1>2. now \in [Companies -> {None} \cup AtOwnership!Owned]
  BY OwnersAreKnown
<1>3. AtOwnership!Commits(s, now, rows, closes)
  OBVIOUS
<1> HIDE DEF now
<1>4. \A t \in Hands \ {s} : s3[t].step = "create" => now[s3[t].of] = None
  BY <1>1, OwnersAreKnown
<1>5. \A r \in rows : now[r.of] # None
  BY <1>1, OwnersAreKnown
<1>6. closes /\ s \notin s4 => \A r \in rows : r.left \/ now[r.of].owner = r.who
  BY <1>1, OwnersAreKnown
<1>7. \A d \in Companies : now[d] # None /\ now[d].owner # None /\ ~now[d].ahead => now[d].went # "given"
  BY <1>1, OwnersAreKnown
<1> QED
  BY <1>2, <1>3, <1>4, <1>5, <1>6, <1>7, OwnersCommit

LEMMA OwnersUpdate ==
  ASSUME AtOwnership!OwnershipInv, NEW s \in Hands, AtOwnership!Updated(s)
  PROVE  AtOwnership!OwnershipInv'
<1> DEFINE c == s3[s].of
           w == AtOwnership!Goes(s1[c], s3[s].seen, s3[s].to, "put")
<1>1. PICK closes \in BOOLEAN : closes = FALSE
  OBVIOUS
<1>2. /\ s3[s].step = "update" /\ c \in Companies /\ s3[s].to \in Owners \cup {None}
      /\ s3[s].to # s3[s].seen /\ s \in Hands \cup {Sweep}
  BY OwnerRequestForms DEF AtOwnership!Updated, AtOwnership!OwnershipInv, AtOwnership!OfTheirKind, AtOwnership!GoesAsAsked
<1>3. CASE AtOwnership!Fails(s, {c})
  BY <1>2, <1>3, OwnersEnd
<1>4. CASE c \in AtOwnership!There /\ AtOwnership!Commits(s, [s1 EXCEPT ![c] = w], s2, closes)
  <2>1. w \in AtOwnership!Owned /\ w.went = "put"
    BY <1>2, <1>4, GoesTo, OwnersAreKnown
  <2> HIDE DEF w, c
  <2> QED
    BY <1>1, <1>2, <1>4, <2>1, OwnersMove, OwnersAreKnown
<1> QED
  BY <1>1, <1>3, <1>4 DEF AtOwnership!Updated

\* The rows that are left when a company's owner is the one that was read: none of them is his.
LEMMA RowsAreClosed ==
  ASSUME AtOwnership!OwnershipInv, NEW c \in AtOwnership!There, NEW who
  PROVE  /\ AtOwnership!ClosesRow(c, who) \in SUBSET AtOwnership!Rows /\ AtOwnership!ClosesRow(c, who) \subseteq s2
         /\ s1[c].owner = who => \A r \in AtOwnership!ClosesRow(c, who) : r.of = c => r.left
  BY OwnersAreKnown DEF AtOwnership!ClosesRow

LEMMA OwnersFree ==
  ASSUME AtOwnership!OwnershipInv, NEW s \in Hands, AtOwnership!Freed(s)
  PROVE  AtOwnership!OwnershipInv'
<1> DEFINE c == s3[s].of
           seen == s3[s].seen
           w == AtOwnership!Goes(s1[c], seen, None, "given")
           rows == AtOwnership!ClosesRow(c, seen)
<1>1. PICK closes \in BOOLEAN : closes = TRUE
  OBVIOUS
<1>2. s3[s].step = "free" /\ c \in Companies /\ None # seen /\ s \in Hands \cup {Sweep}
  BY OwnerRequestForms DEF AtOwnership!Freed, AtOwnership!OwnershipInv, AtOwnership!OfTheirKind, AtOwnership!GoesAsAsked
<1>3. CASE AtOwnership!Fails(s, {c})
  BY <1>2, <1>3, OwnersEnd
<1>4. CASE c \in AtOwnership!There /\ AtOwnership!Commits(s, [s1 EXCEPT ![c] = w], rows, closes)
  <2>1. w \in AtOwnership!Owned /\ w.owner = None
    BY <1>2, <1>4, GoesTo, OwnersAreKnown
  <2>2. s \notin s4 => s1[c].owner = seen
    BY <1>2 DEF AtOwnership!OwnershipInv, AtOwnership!StillAsRead, AtOwnership!FoundAsRead, AtOwnership!OwnerOf
  <2>3. /\ rows \in SUBSET AtOwnership!Rows /\ rows \subseteq s2
        /\ s \notin s4 => \A r \in rows : r.of = c => r.left
    BY <1>4, <2>2, RowsAreClosed
  <2> HIDE DEF w, rows, c, seen
  <2> QED
    BY <1>1, <1>2, <1>4, <2>1, <2>3, OwnersMove
<1> QED
  BY <1>1, <1>3, <1>4 DEF AtOwnership!Freed

LEMMA OwnersReassign ==
  ASSUME AtOwnership!OwnershipInv, NEW s \in Hands, AtOwnership!Reassigned(s)
  PROVE  AtOwnership!OwnershipInv'
<1> DEFINE c == s3[s].of
           seen == s3[s].seen
           to == s3[s].to
           v == AtOwnership!Goes(s1[c], seen, to, "given")
           w == AtOwnership!NewClock(v)
           new == [of |-> c, who |-> to, left |-> FALSE]
           rows == AtOwnership!ClosesRow(c, seen) \cup {new}
<1>1. PICK closes \in BOOLEAN : closes = TRUE
  OBVIOUS
<1>2. s3[s].step = "reassign" /\ c \in Companies /\ to \in Owners /\ s \in Hands \cup {Sweep}
  BY OwnerRequestForms DEF AtOwnership!Reassigned, AtOwnership!OwnershipInv, AtOwnership!OfTheirKind, AtOwnership!GoesAsAsked
<1>3. CASE AtOwnership!Fails(s, {c})
  BY <1>2, <1>3, OwnersEnd
<1>4. CASE c \in AtOwnership!There /\ AtOwnership!Commits(s, [s1 EXCEPT ![c] = w], rows, closes)
  <2>1. v \in AtOwnership!Owned /\ (to = seen => v = s1[c]) /\ (to # seen => v.owner = to)
    BY <1>2, <1>4, GoesTo, OwnersAreKnown
  <2>2. s \notin s4 => s1[c].owner = seen
    BY <1>2 DEF AtOwnership!OwnershipInv, AtOwnership!StillAsRead, AtOwnership!FoundAsRead, AtOwnership!OwnerOf
  <2> HIDE DEF v
  <2>3. w \in AtOwnership!Owned /\ w.ahead /\ w.owner = v.owner
    BY <2>1, NewClockOf
  <2>4. s \notin s4 => w.owner = to
    BY <2>1, <2>2, <2>3
  <2>5. new \in AtOwnership!Rows /\ new.of = c /\ new.who = to
    BY <1>2 DEF AtOwnership!Rows
  <2>6. /\ AtOwnership!ClosesRow(c, seen) \in SUBSET AtOwnership!Rows /\ AtOwnership!ClosesRow(c, seen) \subseteq s2
        /\ s \notin s4 => \A r \in AtOwnership!ClosesRow(c, seen) : r.of = c => r.left
    BY <1>4, <2>2, RowsAreClosed
  <2> HIDE DEF new
  <2>7. /\ rows \in SUBSET AtOwnership!Rows /\ \A r \in rows : r \in s2 \/ r.of = c
        /\ s \notin s4 => \A r \in rows : r.of = c => r.left \/ r.who = to
    BY <2>5, <2>6
  <2> HIDE DEF w, rows, c, seen, to
  <2>8. closes /\ s \notin s4 => \A r \in rows : r.of = c => r.left \/ w.owner = r.who
    BY <2>4, <2>7
  <2>9. rows \in SUBSET AtOwnership!Rows /\ \A r \in rows : r \in s2 \/ r.of = c
    BY <2>7
  <2>10. w.owner # None /\ ~w.ahead => w.went # "given"
    BY <2>3
  <2>11. AtOwnership!Commits(s, [s1 EXCEPT ![c] = w], rows, closes) /\ c \in AtOwnership!There
    BY <1>4
  <2> QED
    BY <1>2, <2>3, <2>8, <2>9, <2>10, <2>11, OwnersMove
<1> QED
  BY <1>1, <1>3, <1>4 DEF AtOwnership!Reassigned

LEMMA SweepTakes ==
  ASSUME AtOwnership!OwnershipInv, AtOwnership!SweepFrees
  PROVE  AtOwnership!OwnershipInv'
<1> DEFINE found == s3[Sweep].found
           taken == {c \in Companies : found[c] # None}
           now == [c \in Companies |-> IF c \in taken THEN AtOwnership!Goes(s1[c], found[c], None, "given") ELSE s1[c]]
           rows == s2 \ UNION {s2 \ AtOwnership!ClosesRow(c, found[c]) : c \in taken}
<1>1. PICK closes \in BOOLEAN : closes = TRUE
  OBVIOUS
<1>2. s3[Sweep].step = "found" /\ Sweep \in Hands \cup {Sweep} /\ taken \in SUBSET Companies
  BY DEF AtOwnership!SweepFrees
<1>3. CASE AtOwnership!Fails(Sweep, taken)
  BY <1>2, <1>3, OwnersEnd
<1>4. CASE taken \subseteq AtOwnership!There /\ AtOwnership!Commits(Sweep, now, rows, closes)
  <2>1. \A c \in taken : /\ AtOwnership!Goes(s1[c], found[c], None, "given") \in AtOwnership!Owned
                         /\ AtOwnership!Goes(s1[c], found[c], None, "given").owner = None
    BY <1>4, GoesTo, OwnersAreKnown
  <2>2. \A c \in Companies : IF c \in taken THEN now[c] \in AtOwnership!Owned /\ now[c].owner = None ELSE now[c] = s1[c]
    BY <2>1
  <2>3. now \in [Companies -> {None} \cup AtOwnership!Owned]
    BY <2>1, OwnersAreKnown
  <2> HIDE DEF now
  <2>4. rows \in SUBSET AtOwnership!Rows /\ rows \subseteq s2
    BY OwnersAreKnown
  <2>5. \A r \in rows : now[r.of] # None
    BY <2>2, <2>4, OwnersAreKnown
  <2>6. Sweep \notin s4 => \A r \in rows : r.left \/ now[r.of].owner = r.who
    <3> SUFFICES ASSUME Sweep \notin s4, NEW r \in rows PROVE r.left \/ now[r.of].owner = r.who
      OBVIOUS
    <3>1. r \in s2 /\ r.of \in Companies /\ (r.left \/ s1[r.of].owner = r.who)
      BY <2>4, OwnersAreKnown
    <3>2. CASE r.of \in taken
      <4>1. s1[r.of].owner = found[r.of]
        BY <1>2, <3>2 DEF AtOwnership!OwnershipInv, AtOwnership!StillAsRead, AtOwnership!FoundAsRead, AtOwnership!OwnerOf
      <4>2. r \in AtOwnership!ClosesRow(r.of, found[r.of])
        BY <3>1, <3>2
      <4> QED
        BY <1>4, <3>1, <3>2, <4>1, <4>2, RowsAreClosed
    <3>3. CASE r.of \notin taken
      BY <2>2, <3>1, <3>3
    <3> QED
      BY <3>2, <3>3
  <2>7. \A c \in Companies : now[c] # None /\ now[c].owner # None /\ ~now[c].ahead => now[c].went # "given"
    BY <2>2, OwnersAreKnown
  <2>8. \A t \in Hands \ {Sweep} : s3[t].step = "create" => now[s3[t].of] = None
    BY <1>4, <2>2, OwnersAreKnown
  <2> HIDE DEF rows
  <2> QED
    BY <1>1, <1>2, <1>4, <2>3, <2>4, <2>5, <2>6, <2>7, <2>8, OwnersCommit
<1> QED
  BY <1>1, <1>3, <1>4 DEF AtOwnership!SweepFrees

\* A deal that is won, a company that is deleted, a clock that runs out.
LEMMA OwnersAtOnce ==
  ASSUME AtOwnership!OwnershipInv, NEW c \in Companies,
         AtOwnership!Wins(c) \/ AtOwnership!Deleted(c) \/ AtOwnership!RunsOut(c)
  PROVE  AtOwnership!OwnershipInv'
<1>1. /\ AtOwnership!OwnershipTypeOK /\ c \in AtOwnership!There /\ s1[c] \in AtOwnership!Owned
      /\ taps' = taps + 1 /\ taps' \in Nat /\ s3' = s3
      /\ s3 \in [Hands \cup {Sweep} -> {AtOwnership!Idle} \cup AtOwnership!Requests]
  BY OwnersAreKnown DEF AtOwnership!Wins, AtOwnership!Deleted, AtOwnership!RunsOut, AtOwnership!Tap,
     AtOwnership!OwnershipInv, AtOwnership!OwnershipTypeOK
<1>2. CASE AtOwnership!Wins(c)
  <2> DEFINE w == AtOwnership!NewClock(s1[c])
  <2>1. w \in AtOwnership!Owned /\ w.owner = s1[c].owner /\ w.ahead
    BY <1>1, NewClockOf
  <2>2. s1' = [s1 EXCEPT ![c] = w] /\ s2' = s2 /\ s4' = {t \in Hands \cup {Sweep} : s3[t] # AtOwnership!Idle}
    BY <1>1, <1>2 DEF AtOwnership!Wins, AtOwnership!Overtaken
  <2> HIDE DEF w
  <2>3. s1' \in [Companies -> {None} \cup AtOwnership!Owned] /\ \A d \in Companies : s1'[d] = IF d = c THEN w ELSE s1[d]
    BY <2>1, <2>2, OwnersAreKnown
  <2>4. \A r \in s2' : r \in AtOwnership!Rows /\ s1'[r.of] # None /\ (r.left \/ s1'[r.of].owner = r.who)
    BY <1>1, <2>1, <2>2, <2>3, OwnersAreKnown
  <2>5. \A d \in Companies : s1'[d] # None /\ s1'[d].owner # None /\ ~s1'[d].ahead => s1'[d].went # "given"
    BY <2>1, <2>3, OwnersAreKnown
  <2>6. \A t \in Hands : s3'[t].step = "create" => s1'[s3'[t].of] = None
    BY <1>1, <2>3, OwnersAreKnown
  <2> QED
    BY <1>1, <2>2, <2>3, <2>4, <2>5, <2>6, OwnersChange
<1>3. CASE AtOwnership!Deleted(c)
  <2>2. /\ s1' = [s1 EXCEPT ![c] = None] /\ s2' = {r \in s2 : r.of # c}
        /\ s4' = {t \in Hands \cup {Sweep} : s3[t] # AtOwnership!Idle}
    BY <1>1, <1>3 DEF AtOwnership!Deleted, AtOwnership!Overtaken
  <2>3. s1' \in [Companies -> {None} \cup AtOwnership!Owned] /\ \A d \in Companies : s1'[d] = IF d = c THEN None ELSE s1[d]
    BY <2>2, OwnersAreKnown
  <2>4. \A r \in s2' : r \in AtOwnership!Rows /\ s1'[r.of] # None /\ (r.left \/ s1'[r.of].owner = r.who)
    BY <2>2, <2>3, OwnersAreKnown
  <2>5. \A d \in Companies : s1'[d] # None /\ s1'[d].owner # None /\ ~s1'[d].ahead => s1'[d].went # "given"
    BY <2>3, OwnersAreKnown
  <2>6. \A t \in Hands : s3'[t].step = "create" => s1'[s3'[t].of] = None
    BY <1>1, <2>3, OwnersAreKnown
  <2> QED
    BY <1>1, <2>2, <2>3, <2>4, <2>5, <2>6, OwnersChange
<1>4. CASE AtOwnership!RunsOut(c)
  <2> DEFINE w == [s1[c] EXCEPT !.ahead = FALSE, !.went = "ran"]
  <2>1. w \in AtOwnership!Owned /\ w.owner = s1[c].owner /\ ~w.ahead /\ w.went = "ran"
    BY <1>1 DEF AtOwnership!Owned
  <2>2. s1' = [s1 EXCEPT ![c] = w] /\ s2' = s2 /\ s4' = s4
    BY <1>4 DEF AtOwnership!RunsOut
  <2> HIDE DEF w
  <2>3. s1' \in [Companies -> {None} \cup AtOwnership!Owned] /\ \A d \in Companies : s1'[d] = IF d = c THEN w ELSE s1[d]
    BY <2>1, <2>2, OwnersAreKnown
  <2>4. /\ AtOwnership!There' = AtOwnership!There /\ \A o : AtOwnership!OwnedBy(o)' = AtOwnership!OwnedBy(o)
        /\ \A d \in AtOwnership!There : s1'[d].owner = s1[d].owner /\ (~s1[d].ahead => ~s1'[d].ahead)
    BY <1>1, <2>1, <2>3, OwnersAreKnown DEF AtOwnership!There, AtOwnership!OwnedBy
  <2>5. AtOwnership!OwnershipTypeOK'
    BY <1>1, <2>2, <2>3 DEF AtOwnership!OwnershipTypeOK
  <2>6. AtOwnership!StillAsRead'
    <3> SUFFICES ASSUME NEW t \in (Hands \cup {Sweep}) \ s4 PROVE AtOwnership!FoundAsRead(s3[t])'
      BY <1>1, <2>2 DEF AtOwnership!StillAsRead
    <3>1. AtOwnership!FoundAsRead(s3[t])
      BY DEF AtOwnership!OwnershipInv, AtOwnership!StillAsRead
    <3> QED
      BY <1>1, <2>4, <3>1 DEF AtOwnership!FoundAsRead, AtOwnership!MayOwn, AtOwnership!OwnerOf
  <2>7. AtOwnership!OfTheirKind' /\ AtOwnership!CreatesAreNew'
    BY <1>1, <2>4 DEF AtOwnership!OwnershipInv, AtOwnership!OfTheirKind, AtOwnership!GoesAsAsked, AtOwnership!CreatesAreNew
  <2>8. AtOwnership!ClocksRunOrRan'
    BY <2>1, <2>3, <2>4 DEF AtOwnership!OwnershipInv, AtOwnership!ClocksRunOrRan, AtOwnership!OwnerOf, AtOwnership!There
  <2>9. AtOwnership!RowsOfCompanies' /\ AtOwnership!HistoryNamesOwner'
    BY <2>2, <2>4 DEF AtOwnership!OwnershipInv, AtOwnership!RowsOfCompanies, AtOwnership!HistoryNamesOwner, AtOwnership!OwnerOf
  <2> QED
    BY <2>5, <2>6, <2>7, <2>8, <2>9 DEF AtOwnership!OwnershipInv
<1> QED
  BY <1>2, <1>3, <1>4

LEMMA OwnersStay ==
  AtOwnership!OwnershipInv /\ [AtOwnership!OwnershipNext]_AtOwnership!ownershipVars => AtOwnership!OwnershipInv'
<1> SUFFICES ASSUME AtOwnership!OwnershipInv, [AtOwnership!OwnershipNext]_AtOwnership!ownershipVars
             PROVE  AtOwnership!OwnershipInv'
  OBVIOUS
<1>1. ASSUME NEW s \in Hands, NEW c \in Companies, NEW to \in Owners \cup {None},
             AtOwnership!AsksToCreate(s, c, to) \/ AtOwnership!AsksToUpdate(s, c, to)
      PROVE  AtOwnership!OwnershipInv'
  BY <1>1, OwnersAsk
<1>2. ASSUME NEW s \in Hands, NEW c \in Companies, NEW to \in Owners, AtOwnership!AsksToReassign(s, c, to)
      PROVE  AtOwnership!OwnershipInv'
  BY <1>2, OwnersAsk, OwnersBounds
<1>3. ASSUME NEW s \in Hands, NEW c \in Companies, AtOwnership!AsksToFree(s, c)
      PROVE  AtOwnership!OwnershipInv'
  <2>1. PICK to \in Owners \cup {None} : to = None
    OBVIOUS
  <2> QED
    BY <1>3, <2>1, OwnersAsk
<1>4. ASSUME NEW s \in Hands, AtOwnership!Created(s) \/ AtOwnership!Updated(s) \/ AtOwnership!Freed(s) \/ AtOwnership!Reassigned(s)
      PROVE  AtOwnership!OwnershipInv'
  BY <1>4, OwnersCreate, OwnersUpdate, OwnersFree, OwnersReassign
<1>5. ASSUME NEW s \in Hands \cup {Sweep}, AtOwnership!Dies(s)
      PROVE  AtOwnership!OwnershipInv'
  BY <1>5, OwnersEnd
<1>6. ASSUME NEW c \in Companies, AtOwnership!Wins(c) \/ AtOwnership!Deleted(c) \/ AtOwnership!RunsOut(c)
      PROVE  AtOwnership!OwnershipInv'
  BY <1>6, OwnersAtOnce
<1>7. CASE AtOwnership!SweepLists \/ AtOwnership!SweepFinds \/ AtOwnership!SweepFrees
  BY <1>7, SweepLooks, SweepTakes
<1>8. CASE UNCHANGED AtOwnership!ownershipVars
  BY <1>8 DEF AtOwnership!ownershipVars, AtOwnership!OwnershipInv, AtOwnership!OwnershipTypeOK, AtOwnership!StillAsRead,
     AtOwnership!FoundAsRead, AtOwnership!MayOwn, AtOwnership!OwnedBy, AtOwnership!There, AtOwnership!OwnerOf,
     AtOwnership!OfTheirKind, AtOwnership!GoesAsAsked, AtOwnership!CreatesAreNew, AtOwnership!ClocksRunOrRan,
     AtOwnership!RowsOfCompanies, AtOwnership!HistoryNamesOwner
<1> QED
  BY <1>1, <1>2, <1>3, <1>4, <1>5, <1>6, <1>7, <1>8 DEF AtOwnership!OwnershipNext

-----------------------------------------------------------------------------
\* A company changes hands to an owner at the commit of a request that asked for him, or
\* of one that was overtaken; everything else leaves the owner, or takes him away.
OwnersOnlyLose == \A c \in Companies : s1'[c] # None => s1[c] # None /\ s1'[c].owner \in {s1[c].owner, None}
OneIsGiven(s) ==
  /\ s3[s].step \in {"create", "update", "reassign"} /\ s3'[s] = AtOwnership!Idle
  /\ \A c \in Companies : c # s3[s].of => s1'[c] = s1[c]
  /\ s \notin s4 => s1'[s3[s].of].owner = s3[s].to

LEMMA OwnersAreGiven ==
  ASSUME AtOwnership!OwnershipInv, [AtOwnership!OwnershipNext]_AtOwnership!ownershipVars
  PROVE  OwnersOnlyLose \/ \E s \in Hands : OneIsGiven(s)
<1>0. AtOwnership!OwnershipTypeOK /\ \A s \in Hands \cup {Sweep} : AtOwnership!Ends(s) => s3'[s] = AtOwnership!Idle
  BY DEF AtOwnership!OwnershipInv, AtOwnership!OwnershipTypeOK, AtOwnership!Ends
<1>1. s1' = s1 => OwnersOnlyLose
  BY DEF OwnersOnlyLose
<1>2. ASSUME NEW s \in Hands, AtOwnership!Created(s) PROVE OneIsGiven(s)
  <2> DEFINE w == [owner |-> s3[s].to, ahead |-> TRUE, went |-> "given"]
  <2>1. /\ s3[s].step = "create" /\ s1' = [s1 EXCEPT ![s3[s].of] = w] /\ AtOwnership!Ends(s)
        /\ s3[s].of \in Companies /\ w.owner = s3[s].to
    BY <1>0, <1>2, OwnerRequestForms DEF AtOwnership!Created, AtOwnership!Commits
  <2> HIDE DEF w
  <2> QED
    BY <1>0, <2>1, OwnersAreKnown DEF OneIsGiven
<1>3. ASSUME NEW s \in Hands, AtOwnership!Updated(s) PROVE OneIsGiven(s) \/ s1' = s1
  <2> DEFINE c == s3[s].of
             w == AtOwnership!Goes(s1[c], s3[s].seen, s3[s].to, "put")
  <2> SUFFICES ASSUME ~AtOwnership!Fails(s, {c}) PROVE OneIsGiven(s)
    BY DEF AtOwnership!Fails
  <2>1. /\ s3[s].step = "update" /\ s1' = [s1 EXCEPT ![c] = w] /\ AtOwnership!Ends(s)
        /\ c \in AtOwnership!There /\ c \in Companies /\ s3[s].to \in Owners \cup {None} /\ s3[s].to # s3[s].seen
    BY <1>0, <1>3, OwnerRequestForms DEF AtOwnership!Updated, AtOwnership!Commits, AtOwnership!OwnershipInv,
       AtOwnership!OfTheirKind, AtOwnership!GoesAsAsked
  <2>2. w.owner = s3[s].to
    BY <2>1, GoesTo, OwnersAreKnown
  <2> HIDE DEF w
  <2> QED
    BY <1>0, <2>1, <2>2, OwnersAreKnown DEF OneIsGiven
<1>4. ASSUME NEW s \in Hands, AtOwnership!Reassigned(s) PROVE OneIsGiven(s) \/ s1' = s1
  <2> DEFINE c == s3[s].of
             v == AtOwnership!Goes(s1[c], s3[s].seen, s3[s].to, "given")
             w == AtOwnership!NewClock(v)
  <2> SUFFICES ASSUME ~AtOwnership!Fails(s, {c}) PROVE OneIsGiven(s)
    BY DEF AtOwnership!Fails
  <2>1. /\ s3[s].step = "reassign" /\ s1' = [s1 EXCEPT ![c] = w] /\ AtOwnership!Ends(s)
        /\ c \in AtOwnership!There /\ c \in Companies /\ s3[s].to \in Owners \cup {None}
    BY <1>0, <1>4, OwnerRequestForms DEF AtOwnership!Reassigned, AtOwnership!Commits
  <2>2. s \notin s4 => s1[c].owner = s3[s].seen
    BY <2>1 DEF AtOwnership!OwnershipInv, AtOwnership!StillAsRead, AtOwnership!FoundAsRead, AtOwnership!OwnerOf
  <2>3. (s3[s].to = s3[s].seen => v = s1[c]) /\ (s3[s].to # s3[s].seen => v.owner = s3[s].to)
    BY <2>1, GoesTo, OwnersAreKnown
  <2>4. v \in AtOwnership!Owned
    BY <2>1, GoesTo, OwnersAreKnown
  <2> HIDE DEF v
  <2>5. s \notin s4 => v.owner = s3[s].to
    BY <2>2, <2>3
  <2>6. s \notin s4 => w.owner = s3[s].to
    BY <2>4, <2>5, NewClockOf
  <2> HIDE DEF w
  <2> QED
    BY <1>0, <2>1, <2>6, OwnersAreKnown DEF OneIsGiven
<1>5. ASSUME NEW s \in Hands, AtOwnership!Freed(s) PROVE OwnersOnlyLose
  <2> DEFINE c == s3[s].of
             w == AtOwnership!Goes(s1[c], s3[s].seen, None, "given")
  <2> SUFFICES ASSUME ~AtOwnership!Fails(s, {c}) PROVE OwnersOnlyLose
    BY <1>1 DEF AtOwnership!Fails
  <2>1. s1' = [s1 EXCEPT ![c] = w] /\ c \in AtOwnership!There
    BY <1>5 DEF AtOwnership!Freed, AtOwnership!Commits
  <2>2. w.owner \in {s1[c].owner, None}
    BY <2>1, GoesTo, OwnersAreKnown
  <2> HIDE DEF w
  <2> QED
    BY <2>1, <2>2, OwnersAreKnown DEF OwnersOnlyLose, AtOwnership!There
<1>6. CASE AtOwnership!SweepFrees
  <2> DEFINE found == s3[Sweep].found
             taken == {c \in Companies : found[c] # None}
  <2> SUFFICES ASSUME ~AtOwnership!Fails(Sweep, taken) PROVE OwnersOnlyLose
    BY <1>1 DEF AtOwnership!Fails
  <2>1. /\ taken \subseteq AtOwnership!There
        /\ s1' = [c \in Companies |-> IF c \in taken THEN AtOwnership!Goes(s1[c], found[c], None, "given") ELSE s1[c]]
    BY <1>6 DEF AtOwnership!SweepFrees, AtOwnership!Commits
  <2>2. \A c \in taken : AtOwnership!Goes(s1[c], found[c], None, "given").owner \in {s1[c].owner, None}
    BY <2>1, GoesTo, OwnersAreKnown
  <2> QED
    BY <2>1, <2>2, OwnersAreKnown DEF OwnersOnlyLose
<1>7. ASSUME NEW c \in Companies, AtOwnership!Wins(c) \/ AtOwnership!Deleted(c) \/ AtOwnership!RunsOut(c)
      PROVE  OwnersOnlyLose
  <2>1. c \in AtOwnership!There /\ s1[c] \in AtOwnership!Owned
    BY <1>7, OwnersAreKnown DEF AtOwnership!Wins, AtOwnership!Deleted, AtOwnership!RunsOut
  <2>2. \A d \in Companies : d # c => s1'[d] = s1[d]
    BY <1>7, OwnersAreKnown DEF AtOwnership!Wins, AtOwnership!Deleted, AtOwnership!RunsOut
  <2>3. CASE AtOwnership!Wins(c)
    BY <2>1, <2>2, <2>3, NewClockOf, OwnersAreKnown DEF AtOwnership!Wins, OwnersOnlyLose
  <2>4. CASE AtOwnership!Deleted(c)
    BY <2>2, <2>4, OwnersAreKnown DEF AtOwnership!Deleted, OwnersOnlyLose
  <2>5. CASE AtOwnership!RunsOut(c)
    BY <2>1, <2>2, <2>5, OwnersAreKnown DEF AtOwnership!RunsOut, OwnersOnlyLose, AtOwnership!Owned
  <2> QED
    BY <1>7, <2>3, <2>4, <2>5
<1>8. ASSUME NEW s, NEW c, NEW to, \/ AtOwnership!AsksToCreate(s, c, to) \/ AtOwnership!AsksToUpdate(s, c, to)
                                   \/ AtOwnership!AsksToReassign(s, c, to) \/ AtOwnership!AsksToFree(s, c)
      PROVE  s1' = s1
  BY <1>8 DEF AtOwnership!AsksToCreate, AtOwnership!AsksToUpdate, AtOwnership!AsksToReassign, AtOwnership!AsksToFree,
     AtOwnership!Reads
<1>9. ASSUME NEW s, AtOwnership!Dies(s) PROVE s1' = s1
  BY <1>9 DEF AtOwnership!Dies
<1>10. CASE AtOwnership!SweepLists \/ AtOwnership!SweepFinds
  BY <1>1, <1>10 DEF AtOwnership!SweepLists, AtOwnership!SweepFinds, AtOwnership!Reads
<1>11. CASE UNCHANGED AtOwnership!ownershipVars
  BY <1>1, <1>11 DEF AtOwnership!ownershipVars
<1> QED
  BY <1>1, <1>2, <1>3, <1>4, <1>5, <1>6, <1>7, <1>8, <1>9, <1>10, <1>11 DEF AtOwnership!OwnershipNext

LEMMA OwnersCounted ==
  ASSUME NEW S, S \subseteq Companies
  PROVE  AtOwnership!Cardinality(S) = Cardinality(S) /\ Cardinality(S) \in Nat /\ IsFiniteSet(S)
<1>1. IsFiniteSet(Companies)
  BY OwnersBounds DEF AtOwnership!IsFiniteSet, IsFiniteSet
<1>2. IsFiniteSet(S)
  BY <1>1, FS_Subset
<1>3. AtOwnership!Cardinality(S) = Cardinality(S)
  BY DEF AtOwnership!Cardinality, Cardinality
<1> QED
  BY <1>2, <1>3, FS_CardinalityType

LEMMA CapStep ==
  ASSUME AtOwnership!OwnershipInv, [AtOwnership!OwnershipNext]_AtOwnership!ownershipVars
  PROVE  AtOwnership!CapIsKept
<1> SUFFICES ASSUME NEW o \in Owners, Cap[o] # None
             PROVE  LET owns == {c \in Companies : s1'[c] # None /\ s1'[c].owner = o} IN
                    \/ Cardinality(owns) <= Cardinality(AtOwnership!OwnedBy(o)) \/ Cardinality(owns) <= Cap[o]
                    \/ \E s \in s4 : s3'[s] # s3[s]
  <2> DEFINE owns(o) == {c \in Companies : s1'[c] # None /\ s1'[c].owner = o}
  <2>1. ASSUME NEW o \in Owners
        PROVE  /\ AtOwnership!Cardinality(owns(o)) = Cardinality(owns(o)) /\ Cardinality(owns(o)) \in Nat
               /\ AtOwnership!Cardinality(AtOwnership!OwnedBy(o)) = Cardinality(AtOwnership!OwnedBy(o))
               /\ Cardinality(AtOwnership!OwnedBy(o)) \in Nat
               /\ Cap[o] # None => Cap[o] \in Nat
    BY OwnersCounted, OwnersBounds DEF AtOwnership!OwnedBy, AtOwnership!There
  <2> QED
    BY <2>1 DEF AtOwnership!CapIsKept
<1> DEFINE owns == {c \in Companies : s1'[c] # None /\ s1'[c].owner = o}
           before == AtOwnership!OwnedBy(o)
<1>1. before = {c \in Companies : s1[c] # None /\ s1[c].owner = o} /\ before \subseteq Companies
  BY DEF AtOwnership!OwnedBy, AtOwnership!There
<1>2. CASE OwnersOnlyLose
  <2>1. owns \subseteq before
    BY <1>1, <1>2, OwnersBounds DEF OwnersOnlyLose
  <2> QED
    BY <1>1, <2>1, OwnersCounted, FS_Subset
<1>3. ASSUME NEW s \in Hands, OneIsGiven(s), s \in s4 PROVE s3'[s] # s3[s]
  BY <1>3 DEF OneIsGiven, AtOwnership!Idle
<1>4. ASSUME NEW s \in Hands, OneIsGiven(s), s \notin s4, s3[s].to # o
      PROVE  Cardinality(owns) <= Cardinality(before)
  <2>1. owns \subseteq before
    BY <1>1, <1>4 DEF OneIsGiven
  <2> QED
    BY <1>1, <2>1, OwnersCounted, FS_Subset
<1>5. ASSUME NEW s \in Hands, OneIsGiven(s), s \notin s4, s3[s].to = o
      PROVE  Cardinality(owns) <= Cap[o]
  <2> DEFINE c == s3[s].of
             rest == before \ {c}
  <2>1. c \in Companies /\ o # None
    BY <1>5, OwnerRequestForms, OwnersBounds DEF OneIsGiven, AtOwnership!OwnershipInv
  <2>2. AtOwnership!MayOwn(o, c)
    BY <1>5, <2>1 DEF OneIsGiven, AtOwnership!OwnershipInv, AtOwnership!StillAsRead, AtOwnership!FoundAsRead
  <2>3. rest \subseteq Companies /\ IsFiniteSet(rest)
    BY <1>1, OwnersCounted
  <2>4. Cardinality(rest) < Cap[o] /\ Cap[o] \in Nat
    BY <2>2, <2>3, OwnersCounted, OwnersBounds DEF AtOwnership!MayOwn
  <2>5. owns \subseteq rest \cup {c}
    BY <1>1, <1>5 DEF OneIsGiven
  <2>6. IsFiniteSet(rest \cup {c}) /\ Cardinality(rest \cup {c}) = Cardinality(rest) + 1
    BY <2>3, FS_AddElement
  <2>7. Cardinality(owns) <= Cardinality(rest \cup {c})
    BY <2>5, <2>6, FS_Subset
  <2>8. Cardinality(rest) \in Nat /\ Cardinality(owns) \in Nat
    BY <2>3, OwnersCounted
  <2> QED
    BY <2>4, <2>6, <2>7, <2>8
<1> QED
  BY <1>2, <1>3, <1>4, <1>5, OwnersAreGiven

\* The sweep takes an owner away where its last query found the clock stopped.
LEMMA DueStep ==
  ASSUME AtOwnership!OwnershipInv, [AtOwnership!OwnershipNext]_AtOwnership!ownershipVars
  PROVE  AtOwnership!TakenWhenDue
<1> SUFFICES ASSUME s3[Sweep].step = "found", s3'[Sweep] = AtOwnership!Idle, Sweep \notin s4,
                    NEW c \in AtOwnership!There, s1'[c] # None, AtOwnership!OwnerOf(c) # None, s1'[c].owner = None
             PROVE  s1[c].went \in {"ran", "put"}
  BY DEF AtOwnership!TakenWhenDue
<1>0. AtOwnership!OwnershipTypeOK /\ Sweep \notin Hands /\ c \in Companies /\ s1[c] \in AtOwnership!Owned /\ s1'[c] # s1[c]
  BY OwnersBounds, OwnersAreKnown DEF AtOwnership!OwnershipInv, AtOwnership!OwnerOf, AtOwnership!There
<1>1. s3'[Sweep] # s3[Sweep] /\ s3[Sweep].step # "listed" /\ s3[Sweep] # AtOwnership!Idle
  BY DEF AtOwnership!Idle
<1>2. ASSUME NEW s \in Hands, NEW r, s3' = [s3 EXCEPT ![s] = r] PROVE FALSE
  BY <1>0, <1>1, <1>2 DEF AtOwnership!OwnershipTypeOK
<1>3. CASE AtOwnership!SweepFrees
  <2> DEFINE found == s3[Sweep].found
             taken == {d \in Companies : found[d] # None}
  <2>1. s1' = [d \in Companies |-> IF d \in taken THEN AtOwnership!Goes(s1[d], found[d], None, "given") ELSE s1[d]]
    BY <1>0, <1>3 DEF AtOwnership!SweepFrees, AtOwnership!Commits, AtOwnership!Fails
  <2>2. found[c] # None
    BY <1>0, <2>1
  <2>3. ~s1[c].ahead
    BY <1>0, <2>2 DEF AtOwnership!OwnershipInv, AtOwnership!StillAsRead, AtOwnership!FoundAsRead
  <2> QED
    BY <1>0, <2>3 DEF AtOwnership!OwnershipInv, AtOwnership!ClocksRunOrRan, AtOwnership!Owned, AtOwnership!OwnerOf
<1>4. ASSUME NEW s \in Hands, NEW d, NEW to,
             \/ AtOwnership!AsksToCreate(s, d, to) \/ AtOwnership!AsksToUpdate(s, d, to)
             \/ AtOwnership!AsksToReassign(s, d, to) \/ AtOwnership!AsksToFree(s, d)
      PROVE  FALSE
  BY <1>2, <1>4 DEF AtOwnership!AsksToCreate, AtOwnership!AsksToUpdate, AtOwnership!AsksToReassign, AtOwnership!AsksToFree,
     AtOwnership!Reads
<1>5. ASSUME NEW s \in Hands, \/ AtOwnership!Created(s) \/ AtOwnership!Updated(s) \/ AtOwnership!Freed(s)
                              \/ AtOwnership!Reassigned(s) \/ AtOwnership!Dies(s)
      PROVE  FALSE
  BY <1>2, <1>5 DEF AtOwnership!Created, AtOwnership!Updated, AtOwnership!Freed, AtOwnership!Reassigned, AtOwnership!Dies,
     AtOwnership!Commits, AtOwnership!Fails, AtOwnership!Ends
<1>6. ASSUME NEW d, AtOwnership!Wins(d) \/ AtOwnership!Deleted(d) \/ AtOwnership!RunsOut(d) PROVE FALSE
  BY <1>1, <1>6 DEF AtOwnership!Wins, AtOwnership!Deleted, AtOwnership!RunsOut
<1>7. CASE AtOwnership!SweepLists \/ AtOwnership!SweepFinds
  BY <1>1, <1>7 DEF AtOwnership!SweepLists, AtOwnership!SweepFinds, AtOwnership!Ready
<1>8. ~AtOwnership!Dies(Sweep)
  BY <1>0 DEF AtOwnership!Dies
<1>9. CASE UNCHANGED AtOwnership!ownershipVars
  BY <1>1, <1>9 DEF AtOwnership!ownershipVars
<1> QED
  BY <1>3, <1>4, <1>5, <1>6, <1>7, <1>8, <1>9 DEF AtOwnership!OwnershipNext

\* The owners of the companies keep their invariant through every step of the desk.
THEOREM OwnersInductive == DeskSpec => [](screen = "owners" => AtOwnership!OwnershipInv)
<1>1. DeskInit => (screen = "owners" => AtOwnership!OwnershipInv)
  BY OneToBeginWith, OwnersStart
<1>2. ASSUME screen = "owners" => AtOwnership!OwnershipInv, [DeskNext]_deskVars
      PROVE  (screen = "owners" => AtOwnership!OwnershipInv)'
  BY <1>2, OneAtATime, OwnersStay
<1> QED
  BY <1>1, <1>2, PTL DEF DeskSpec

\* The sweep takes only companies whose clock ran out, an owner keeps within his cap, and
\* the history names him, but for overtaken commits and claims by update_company.
THEOREM OwnershipStaysKept == DeskSpec => OwnershipIsKept
<1>1. AtOwnership!OwnershipInv => AtOwnership!HistoryNamesOwner
  BY DEF AtOwnership!OwnershipInv
<1>2. ASSUME screen = "owners" => AtOwnership!OwnershipInv, [DeskNext]_deskVars
      PROVE  screen = "owners" => AtOwnership!TakenWhenDue /\ AtOwnership!CapIsKept
  BY <1>2, OneAtATime, DueStep, CapStep
<1> QED
  BY <1>1, <1>2, OwnersInductive, PTL DEF DeskSpec, OwnershipIsKept

================================================================================
