-------------------------------- MODULE Tokens --------------------------------
(***************************************************************************)
(* How one person gets into the system and stays in: the links that verify an  *)
(* address or reset a password (services/email_auth.py) and the refresh tokens  *)
(* of his browsers (api/v1/auth.py).  A request reads in one step and commits in *)
(* another; no row is locked.  A DELETE takes the rows that were there when it   *)
(* ran, and a row that another request deleted is no error.                    *)
(***************************************************************************)
EXTENDS Naturals

CONSTANTS
  Browsers,
  Slots,       \* bound: requests at a time
  MaxLinks,    \* bound: links ever issued
  MaxTokens,   \* bound: refresh tokens ever issued
  MaxTaps      \* bound: requests, and what happens of itself

TokensAssumption == {MaxLinks, MaxTokens, MaxTaps} \subseteq Nat

VARIABLES
  user,      \* the row of users
  links,     \* auth_action_tokens, by the order of their creation
  mailed,    \* the links in the mailbox
  uses,      \* how often each was consumed
  rows,      \* refresh_tokens
  cookie,    \* the token of each browser, or 0
  reqs,      \* requests between their reads and their commit
  stale,     \* those that another commit overtook
  issued,    \* how many links and refresh tokens there were
  resets,    \* how often the password was reset
  taps

tokensVars == <<user, links, mailed, uses, rows, cookie, reqs, stale, issued, resets, taps>>

Purposes == {"verify_email", "reset_password"}
Links == [id : 1..MaxLinks, purpose : Purposes, fresh : BOOLEAN, expired : BOOLEAN, late : BOOLEAN]
\* chain: the sign-in a token goes back to; age: the resets its sign-in knew of; late: a
\* request between that sign-in and the token was overtaken, or the one that made the link.
Rows == [jti : 1..MaxTokens, chain : 1..MaxTokens, age : Nat, late : BOOLEAN]
Idle == [step |-> "idle"]
Requests ==
  [step : {"link"}, purpose : Purposes, olds : SUBSET (1..MaxLinks), makes : BOOLEAN, browser : SUBSET Browsers]
    \cup [step : {"mail"}, of : 1..MaxLinks, browser : SUBSET Browsers]
    \cup [step : {"session"}, browser : Browsers, age : Nat]
    \cup [step : {"refresh"}, browser : Browsers, row : Rows]
    \cup [step : {"verify", "reset"}, browser : Browsers, age : Nat, of : 1..MaxLinks]
    \cup [step : {"erased"}, browser : Browsers, of : 1..MaxLinks, gone : SUBSET (1..MaxTokens)]

TokensTypeOK ==
  /\ user \in [known : BOOLEAN, password : BOOLEAN, verified : BOOLEAN, active : BOOLEAN]
  /\ links \subseteq Links /\ mailed \subseteq 1..MaxLinks /\ uses \in [1..MaxLinks -> Nat]
  /\ rows \subseteq Rows /\ cookie \in [Browsers -> 0..MaxTokens]
  /\ reqs \in [Slots -> {Idle} \cup Requests] /\ stale \subseteq Slots
  /\ issued \in [links : 0..MaxLinks, tokens : 0..MaxTokens] /\ {resets, taps} \subseteq Nat

AllRows == {r.jti : r \in rows}

Tap == taps < MaxTaps /\ taps' = taps + 1

Reads(s, request) ==
  /\ reqs[s] = Idle /\ Tap /\ reqs' = [reqs EXCEPT ![s] = request]
  /\ UNCHANGED <<user, links, mailed, uses, rows, cookie, stale, issued, resets>>

\* A commit, after which the request goes on as told, or ends.
Commits(s, next) ==
  /\ reqs' = [reqs EXCEPT ![s] = next]
  /\ stale' = {t \in Slots \ {s} : reqs[t] # Idle}
  /\ UNCHANGED taps

Fails(s) ==
  /\ reqs' = [reqs EXCEPT ![s] = Idle] /\ stale' = stale \ {s}
  /\ UNCHANGED <<user, links, mailed, uses, rows, cookie, issued, resets, taps>>

-----------------------------------------------------------------------------
OfPurpose(purpose) == {k \in links : k.purpose = purpose}

\* Mutant: the older links stay.
WithLink(olds, link) == links \cup {link}
\* _issue_action_token: of the same purpose, those that were seen are deleted.
NewestLink(olds, link) == {k \in links : k.id \notin olds} \cup {link}

\* _enforce_cooldown
IsCool(purpose) == \A k \in OfPurpose(purpose) : ~k.fresh

AsksForLink(s, purpose, makes, browser) ==
  /\ IsCool(purpose)
  /\ Reads(s, [step |-> "link", purpose |-> purpose, olds |-> {k.id : k \in OfPurpose(purpose)},
               makes |-> makes, browser |-> browser])

\* signup_email_user: a new user, or a Google user who wants a password.
SignsUp(s, b) ==
  /\ ~user.password
  /\ AsksForLink(s, "verify_email", ~user.known, IF user.known THEN {} ELSE {b})

\* resend_verification
AsksToVerify(s) == user.known /\ ~user.verified /\ AsksForLink(s, "verify_email", FALSE, {})

\* issue_password_reset
AsksToReset(s) == user.known /\ user.active /\ user.password /\ AsksForLink(s, "reset_password", FALSE, {})

\* The e-mail of a user is unique: of two sign-ups the second fails.
LinkIssued(s) ==
  /\ reqs[s].step = "link" /\ issued.links < MaxLinks
  /\ ~(reqs[s].makes /\ user.known)
  /\ links' = NewestLink(reqs[s].olds,
       [id |-> issued.links + 1, purpose |-> reqs[s].purpose, fresh |-> TRUE, expired |-> FALSE,
        late |-> s \in stale])
  /\ user' = IF reqs[s].makes
             THEN [known |-> TRUE, password |-> TRUE, verified |-> FALSE, active |-> TRUE] ELSE user
  /\ issued' = [issued EXCEPT !.links = @ + 1]
  /\ Commits(s, [step |-> "mail", of |-> issued.links + 1, browser |-> reqs[s].browser])
  /\ UNCHANGED <<mailed, uses, rows, cookie, resets>>

SignUpFails(s) == reqs[s].step = "link" /\ reqs[s].makes /\ user.known /\ Fails(s)

\* The mail goes out after the commit; the sign-up of a new user goes on with his session.
LinkMailed(s) ==
  /\ reqs[s].step = "mail" /\ mailed' = mailed \cup {reqs[s].of}
  /\ reqs' = [reqs EXCEPT ![s] =
       IF reqs[s].browser = {} THEN Idle
       ELSE [step |-> "session", browser |-> CHOOSE b \in reqs[s].browser : TRUE, age |-> resets]]
  /\ stale' = stale \ {s}
  /\ UNCHANGED <<user, links, uses, rows, cookie, issued, resets, taps>>

-----------------------------------------------------------------------------
\* _issue_and_record_refresh, with the answer that brings the cookie, or is lost.
Session(s, chain, age, late, kept) ==
  /\ issued.tokens < MaxTokens
  /\ LET jti == issued.tokens + 1 IN
     /\ rows' = kept \cup {[jti |-> jti, chain |-> IF chain = 0 THEN jti ELSE chain, age |-> age,
                            late |-> late \/ s \in stale]}
     /\ \E to \in {jti, cookie[reqs[s].browser]} : cookie' = [cookie EXCEPT ![reqs[s].browser] = to]
  /\ issued' = [issued EXCEPT !.tokens = @ + 1]

\* authenticate_email_user.
LogsIn(s, b) ==
  /\ user.known /\ user.active /\ user.password
  /\ Reads(s, [step |-> "session", browser |-> b, age |-> resets])

\* upsert_user_from_google_profile, committed before the session is; is_active is not asked.
GoogleSignsIn(s, b) ==
  /\ reqs[s] = Idle /\ Tap
  /\ user' = IF user.known THEN user
             ELSE [known |-> TRUE, password |-> FALSE, verified |-> FALSE, active |-> TRUE]
  /\ reqs' = [reqs EXCEPT ![s] = [step |-> "session", browser |-> b, age |-> resets]]
  /\ stale' = {t \in Slots : reqs[t] # Idle}
  /\ UNCHANGED <<links, mailed, uses, rows, cookie, issued, resets>>

SessionOpens(s) ==
  /\ reqs[s].step = "session"
  /\ Session(s, 0, reqs[s].age, FALSE, rows) /\ Commits(s, Idle)
  /\ UNCHANGED <<user, links, mailed, uses, resets>>

\* Mutant: the old token is left.
WithoutNone(jtis) == rows
Without(jtis) == {r \in rows : r.jti \notin jtis}

\* refresh: the token of the cookie must be on the list, and its user active.
Refreshes(s, b) ==
  /\ user.active
  /\ \E r \in rows : r.jti = cookie[b] /\
       Reads(s, [step |-> "refresh", browser |-> b, row |-> r])

Rotates(s) ==
  /\ reqs[s].step = "refresh"
  /\ LET old == reqs[s].row IN Session(s, old.chain, old.age, old.late, Without({old.jti}))
  /\ Commits(s, Idle)
  /\ UNCHANGED <<user, links, mailed, uses, resets>>

\* A commit of a single step.
AtOnce == stale' = {t \in Slots : reqs[t] # Idle} /\ UNCHANGED reqs

\* The token of a user who is not active goes with the attempt,
RefreshOfInactive(b) ==
  /\ ~user.active /\ cookie[b] \in AllRows /\ Tap /\ rows' = Without({cookie[b]}) /\ AtOnce
  /\ UNCHANGED <<user, links, mailed, uses, cookie, issued, resets>>

\* and anybody's with the sign-out.
LogsOut(b) ==
  /\ cookie[b] # 0 /\ Tap /\ rows' = Without({cookie[b]}) /\ cookie' = [cookie EXCEPT ![b] = 0] /\ AtOnce
  /\ UNCHANGED <<user, links, mailed, uses, issued, resets>>

-----------------------------------------------------------------------------
\* _resolve_action_token.
Opens(s, k, request) ==
  /\ k \in links /\ k.id \in mailed /\ ~k.expired /\ user.active
  /\ Reads(s, request)

OpensVerification(s, b, k) ==
  /\ k.purpose = "verify_email"
  /\ Opens(s, k, [step |-> "verify", browser |-> b, age |-> resets, of |-> k.id])

OpensReset(s, b, k) ==
  /\ k.purpose = "reset_password"
  /\ Opens(s, k, [step |-> "reset", browser |-> b, age |-> resets, of |-> k.id])

LinkOfInactive(k) ==
  /\ k \in links /\ k.id \in mailed /\ ~k.expired /\ ~user.active /\ Tap
  /\ links' = links \ {k} /\ AtOnce
  /\ UNCHANGED <<user, mailed, uses, rows, cookie, issued, resets>>

\* Mutant: the link is left.
LinkIsKept(id) == links
LinkGone(id) == {k \in links : k.id # id}

Consumes(s) ==
  /\ links' = LinkGone(reqs[s].of) /\ uses' = [uses EXCEPT ![reqs[s].of] = @ + 1]
  /\ user' = [user EXCEPT !.verified = TRUE, !.password = TRUE]
  /\ Commits(s, Idle) /\ UNCHANGED mailed

\* consume_verification_token; a Google user brings his first password along.
Verifies(s) ==
  /\ reqs[s].step = "verify" /\ Consumes(s)
  /\ Session(s, 0, reqs[s].age, FALSE, rows) /\ UNCHANGED resets

\* Mutant: only the session of the same browser ends.
OwnRow(b) == {cookie[b]}
SessionsOf(b) == AllRows

\* consume_password_reset: once the new password is hashed, every refresh token is deleted,
ResetErases(s) ==
  /\ reqs[s].step = "reset"
  /\ reqs' = [reqs EXCEPT ![s] = [step |-> "erased", browser |-> @.browser, of |-> @.of,
                                  gone |-> SessionsOf(@.browser)]]
  /\ UNCHANGED <<user, links, mailed, uses, rows, cookie, stale, issued, resets, taps>>

\* and a new one issued; what came in between is as late as the request.
ResetDone(s) ==
  /\ reqs[s].step = "erased" /\ Consumes(s) /\ resets' = resets + 1
  /\ Session(s, 0, resets + 1, FALSE, {[r EXCEPT !.late = @ \/ s \in stale] : r \in Without(reqs[s].gone)})

-----------------------------------------------------------------------------
\* An admin switches the user off or on, the minute of the cooldown passes, a link expires.
UserSwitched ==
  /\ user.known /\ Tap /\ user' = [user EXCEPT !.active = ~@] /\ AtOnce
  /\ UNCHANGED <<links, mailed, uses, rows, cookie, issued, resets>>

MinutePasses ==
  /\ \E k \in links : k.fresh
  /\ Tap /\ links' = {[k EXCEPT !.fresh = FALSE] : k \in links}
  /\ UNCHANGED <<user, mailed, uses, rows, cookie, reqs, stale, issued, resets>>

LinkExpires(k) ==
  /\ k \in links /\ ~k.fresh /\ ~k.expired /\ Tap
  /\ links' = (links \ {k}) \cup {[k EXCEPT !.expired = TRUE]}
  /\ UNCHANGED <<user, mailed, uses, rows, cookie, reqs, stale, issued, resets>>

\* A request that ends before its commit leaves nothing, or a link without its mail.
Dies(s) == reqs[s] # Idle /\ Fails(s)

TokensInit ==
  /\ user \in {[known |-> FALSE, password |-> FALSE, verified |-> FALSE, active |-> FALSE],
               [known |-> TRUE, password |-> FALSE, verified |-> FALSE, active |-> TRUE],
               [known |-> TRUE, password |-> TRUE, verified |-> TRUE, active |-> TRUE]}
  /\ links = {} /\ mailed = {} /\ uses = [k \in 1..MaxLinks |-> 0]
  /\ rows = {} /\ cookie = [b \in Browsers |-> 0]
  /\ reqs = [s \in Slots |-> Idle] /\ stale = {}
  /\ issued = [links |-> 0, tokens |-> 0] /\ resets = 0 /\ taps = 0

TokensNext ==
  \/ \E s \in Slots :
       \/ AsksToVerify(s) \/ AsksToReset(s) \/ LinkIssued(s) \/ SignUpFails(s) \/ LinkMailed(s)
       \/ SessionOpens(s) \/ Rotates(s) \/ Verifies(s) \/ ResetErases(s) \/ ResetDone(s) \/ Dies(s)
       \/ \E b \in Browsers :
            \/ SignsUp(s, b) \/ LogsIn(s, b) \/ GoogleSignsIn(s, b) \/ Refreshes(s, b)
            \/ \E k \in links : OpensVerification(s, b, k) \/ OpensReset(s, b, k)
  \/ \E b \in Browsers : RefreshOfInactive(b) \/ LogsOut(b)
  \/ \E k \in links : LinkOfInactive(k) \/ LinkExpires(k)
  \/ UserSwitched \/ MinutePasses

TokensSpec == TokensInit /\ [][TokensNext]_tokensVars

-----------------------------------------------------------------------------
\* "Only the newest link is honored", and once: a request that no other commit overtook
\* consumes a link that is there and was not consumed before, and after which none was
\* issued for the same purpose, but by a request that was itself overtaken.
LinkIsNewAndNewest ==
  \A s \in Slots \ stale, id \in 1..MaxLinks :
    uses'[id] > uses[id] /\ reqs'[s] # reqs[s]
      => /\ uses[id] = 0
         /\ \E k \in links : k.id = id /\ \A l \in OfPurpose(k.purpose) : l.id <= id \/ l.late

\* "Even if the original session was stolen, it can't outlive the reset": no refresh token
\* goes back to a sign-in before the last reset, but for those an overtaken request kept.
ResetEndsSessions == \A r \in rows : r.age = resets \/ r.late

\* "The old refresh JWT is server-side invalid": a sign-in has one token at a time, unless
\* two requests once rotated it at the same time.
OneTokenPerSignIn == \A q, r \in rows : q.chain = r.chain => q = r \/ q.late \/ r.late

-----------------------------------------------------------------------------
(***************************************************************************)
(* Why there is one of each: ids are given once, and a request that no commit  *)
(* overtook finds what it read.                                             *)
(***************************************************************************)
IsKnown(r) ==
  /\ r.step = "refresh" => r.row.chain <= issued.tokens
  /\ r.step \in {"verify", "reset", "erased"} => r.of <= issued.links

IdsAreGivenOnce ==
  /\ \A k \in links : k.id <= issued.links /\ uses[k.id] = 0
  /\ \A k, l \in links : k.id = l.id => k = l
  /\ \A r \in rows : r.jti <= issued.tokens /\ r.chain <= issued.tokens
  /\ \A id \in 1..MaxLinks : id > issued.links => uses[id] = 0
  /\ \A s \in Slots : IsKnown(reqs[s])

NewestIsKept == \A k, l \in links : k.purpose = l.purpose => l.id <= k.id \/ l.late

LinkIsThere(id) == \E k \in links : k.id = id

ReadIsThere(r) ==
  /\ r.step = "link" => \A k \in OfPurpose(r.purpose) : k.id \in r.olds
  /\ r.step \in {"verify", "reset", "erased"} => LinkIsThere(r.of)
  /\ r.step \in {"session", "verify"} => r.age = resets
  /\ r.step = "refresh" => r.row \in rows
  /\ r.step = "erased" => AllRows \subseteq r.gone

NoneOvertaken == \A s \in Slots \ stale : ReadIsThere(reqs[s])

TokensInv ==
  /\ TokensTypeOK /\ IdsAreGivenOnce /\ NewestIsKept /\ NoneOvertaken
  /\ ResetEndsSessions /\ OneTokenPerSignIn

TokensAreSingle == [][LinkIsNewAndNewest]_tokensVars /\ [](ResetEndsSessions /\ OneTokenPerSignIn)
=============================================================================
