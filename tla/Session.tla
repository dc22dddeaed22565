------------------------------- MODULE Session -------------------------------
(***************************************************************************)
(* Who is signed in to the web client.  The access token lives in memory, the  *)
(* refresh cookie in the browser; a reload exchanges the one for the other     *)
(* while the pages that sign in are already usable.  The profile of the user   *)
(* is one cached query, whoever's token asked for it, and the gate around the  *)
(* app decides by it where to lead.                                        *)
(***************************************************************************)
EXTENDS Naturals, FiniteSets

CONSTANTS
  Accounts,
  Root,        \* the super-admin, who may act as another
  None,
  MaxSeats,    \* most seats an organization starts with
  MaxTaps      \* bound: what the users do

SessionAssumption == Root \in Accounts /\ None \notin Accounts /\ MaxSeats \in Nat \ {0} /\ MaxTaps \in Nat

VARIABLES
  place,      \* "public", "login" (a page that signs in), "wizard" or "app"
  page,       \* which of those pages
  phase,      \* "checking", "form", "sent" or "dead"
  signing,    \* the sign-in under way, or None: of whom, from which page, and unasked
  token, spent,     \* the account the token is of; it has expired
  settled,    \* the exchange on loading is over, or was not needed
  refresh,    \* the account whose cookie is being exchanged, or None
  heeded,     \* the client still waits for that exchange
  cookie,
  me,         \* the cached profile
  asking,     \* the account whose token asks for the profile, or None
  step, draft,      \* the wizard that founds an organization, and what was entered
  founding,   \* the account that founds one, or None
  orgs,       \* accounts with an organization
  leaving,    \* the sign-out under way
  left,       \* the user signed out, and nobody signed in since
  lent,       \* the token changed hands with the cache left as it was
  taps

tokenVars == <<token, spent, settled, refresh, heeded>>
pageVars == <<page, phase, signing>>
meVars == <<me, asking>>
wizardVars == <<step, draft, founding, orgs>>
endVars == <<leaving, left, lent>>
sessionVars == <<place, pageVars, tokenVars, cookie, meVars, wizardVars, endVars, taps>>

Who == Accounts \cup {None}
Draft == [named : BOOLEAN, seats : 1..MaxSeats, plan : {"monthly", "annual"}]
EmptyDraft == [named |-> FALSE, seats |-> 1, plan |-> "monthly"]
Nobody == [of |-> None, org |-> FALSE, error |-> "no", old |-> TRUE]

\* The pages that sign in: what they check on opening and how the server may answer.
Page == [start : {"checking", "form"}, mails : BOOLEAN, dies : BOOLEAN, auto : BOOLEAN, session : BOOLEAN]

LoginPage        == [start |-> "form",     mails |-> FALSE, dies |-> FALSE, auto |-> FALSE, session |-> TRUE]
SignupPage       == [start |-> "form",     mails |-> TRUE,  dies |-> FALSE, auto |-> FALSE, session |-> TRUE]
VerifyEmailPage  == [start |-> "checking", mails |-> FALSE, dies |-> TRUE,  auto |-> TRUE, session |-> TRUE]
ResetPasswordPage == [start |-> "form",    mails |-> FALSE, dies |-> TRUE,  auto |-> FALSE, session |-> TRUE]
AcceptInvitePage == [start |-> "checking", mails |-> FALSE, dies |-> FALSE, auto |-> FALSE, session |-> TRUE]
ForgotPasswordPage == [start |-> "form",   mails |-> TRUE,  dies |-> FALSE, auto |-> FALSE, session |-> FALSE]

Pages == {LoginPage, SignupPage, VerifyEmailPage, ResetPasswordPage, AcceptInvitePage, ForgotPasswordPage}

SessionTypeOK ==
  /\ place \in {"public", "login", "wizard", "app"} /\ page \in Pages
  /\ phase \in {"checking", "form", "sent", "dead"}
  /\ {token, refresh, cookie, asking, founding} \subseteq Who
  /\ me \in [of : Who, org : BOOLEAN, error : {"no", "auth", "trial"}, old : BOOLEAN]
  /\ {spent, settled, heeded, leaving, left, lent} \subseteq BOOLEAN
  /\ signing \in {None} \cup [of : Accounts, page : Pages, auto : BOOLEAN]
  /\ step \in 1..3 /\ draft \in Draft /\ orgs \subseteq Accounts

Tap == taps < MaxTaps /\ taps' = taps + 1

-----------------------------------------------------------------------------
\* Going to a place behind the gate asks for the profile, unless a fresh one is there.
Mount(p, tok) ==
  LET asks == p \in {"wizard", "app"} /\ tok # None /\ asking = None /\ me.old
  IN  /\ asking' = IF asks THEN tok ELSE asking
      /\ me' = IF asks /\ me.of = None THEN [me EXCEPT !.error = "no"] ELSE me

GoTo(p) == place' = p /\ Mount(p, token)

\* A mutant of the next: the exchange goes on.
TokenKept(a) == token' = a /\ spent' = FALSE /\ UNCHANGED <<settled, heeded>>

\* A token in hand ends the exchange: its effect is cleaned up, and its answer not heeded.
TokenSet(a) == token' = a /\ spent' = FALSE /\ settled' = TRUE /\ heeded' = FALSE

OpenPage(k) ==
  /\ place \in {"public", "login"} /\ Tap
  /\ place' = "login" /\ page' = k /\ phase' = k.start
  /\ UNCHANGED <<signing, tokenVars, cookie, meVars, wizardVars, endVars>>

\* The link of a mail is checked: it may be dead, want a password, or sign in at once.
LinkIsChecked ==
  /\ place = "login" /\ phase = "checking" /\ signing = None
  /\ \/ phase' \in {"form", "dead"} /\ UNCHANGED signing
     \/ page.auto /\ UNCHANGED phase /\ 
        \E a \in Accounts : signing' = [of |-> a, page |-> page, auto |-> TRUE]
  /\ UNCHANGED <<place, page, tokenVars, cookie, meVars, wizardVars, endVars, taps>>

Refused(s) ==
  {IF s.auto THEN "dead" ELSE "form"} \cup (IF s.page.dies THEN {"dead"} ELSE {})
                                    \cup (IF s.page.mails THEN {"sent"} ELSE {})

SignIn(a) ==
  /\ place = "login" /\ phase = "form" /\ signing = None /\ Tap
  /\ signing' = [of |-> a, page |-> page, auto |-> FALSE]
  /\ UNCHANGED <<place, page, phase, tokenVars, cookie, meVars, wizardVars, endVars>>

\* A session leads to the app even from another page by then; only the check of a
\* link gives up when its page is left.
SignInAnswers ==
  /\ signing # None /\ signing' = None
  /\ LET stays == place = "login" /\ page = signing.page
     IN  \/ /\ signing.page.session /\ cookie' = signing.of
            /\ IF signing.auto /\ ~stays
               THEN UNCHANGED <<place, tokenVars, meVars, left>>
               ELSE /\ TokenSet(signing.of) /\ UNCHANGED refresh
                    /\ place' = "app" /\ Mount("app", signing.of) /\ left' = FALSE
            /\ UNCHANGED phase
         \/ /\ phase' \in IF stays THEN Refused(signing) ELSE {phase}
            /\ UNCHANGED <<place, tokenVars, cookie, meVars, left>>
  /\ UNCHANGED <<page, wizardVars, leaving, lent, taps>>

\* Another document: memory starts anew, the cookie stays.
Loaded(p, tok) ==
  /\ place' = p /\ page' = LoginPage /\ phase' = "form" /\ signing' = None
  /\ token' = tok /\ spent' = FALSE
  /\ settled' = (tok # None) /\ heeded' = (tok = None)
  /\ me' = Nobody /\ asking' = IF p \in {"wizard", "app"} THEN tok ELSE None
  /\ step' = 1 /\ draft' = EmptyDraft /\ founding' = None /\ leaving' = FALSE /\ lent' = FALSE

Reload ==
  /\ Tap /\ Loaded(place, None) /\ refresh' = cookie
  /\ UNCHANGED <<cookie, orgs, left>>

\* Google sends back to the app with a token in the address.
GoogleReturns(a) ==
  /\ place = "login" /\ Tap
  /\ Loaded("app", a) /\ cookie' = a /\ refresh' = None /\ left' = FALSE
  /\ UNCHANGED orgs

\* The cookie is exchanged for a token and a new cookie; an answer nobody waits for
\* still brings the cookie.
RefreshAnswers ==
  /\ heeded \/ refresh # None
  /\ refresh' = None /\ heeded' = FALSE
  /\ \/ /\ refresh # None /\ cookie' = refresh
        /\ IF heeded THEN token' = refresh /\ spent' = FALSE /\ Mount(place, refresh)
                     ELSE UNCHANGED <<token, spent, meVars>>
     \/ UNCHANGED <<token, spent, cookie, meVars>>
  /\ settled' = (settled \/ heeded)
  /\ UNCHANGED <<place, pageVars, wizardVars, endVars, taps>>

-----------------------------------------------------------------------------
Behind == place \in {"wizard", "app"}
ToLogin == Behind /\ IF token = None THEN settled ELSE me.error = "auth"
ToWizard == place = "app" /\ token # None /\ me.error = "no" /\ me.of # None /\ ~me.org
ToApp == place = "wizard" /\ token # None /\ me.of # None /\ me.org
OnPage == Behind /\ token # None /\ me.of # None /\ me.error = "no" /\ ~ToWizard /\ ~ToApp

GateRedirects ==
  /\ \/ ToLogin /\ place' = "login" /\ page' = LoginPage /\ phase' = "form" /\ lent' = (me # Nobody \/ asking # None)
        /\ UNCHANGED <<step, draft, meVars>>
     \/ ~ToLogin /\ ToWizard /\ GoTo("wizard") /\ step' = 1 /\ draft' = EmptyDraft /\ UNCHANGED <<page, phase, lent>>
     \/ ~ToLogin /\ ToApp /\ GoTo("app") /\ UNCHANGED <<page, phase, step, draft, lent>>
  /\ UNCHANGED <<signing, tokenVars, cookie, founding, orgs, leaving, left, taps>>

\* The answer goes to the one cached profile; an error keeps what was there.
MeAnswers ==
  /\ asking # None /\ asking' = None
  /\ \/ ~spent /\ me' = [of |-> asking, org |-> asking \in orgs, error |-> "no", old |-> FALSE]
     \/ \E e \in {"auth"} \cup (IF asking \in orgs THEN {"trial"} ELSE {}) :
          me' = [me EXCEPT !.error = e, !.old = TRUE]
  /\ UNCHANGED <<place, pageVars, tokenVars, cookie, wizardVars, endVars, taps>>

\* Half a minute passes, or a write invalidates the profile and it is asked for anew.
MeTurnsOld ==
  /\ OnPage /\ Tap
  /\ \/ me' = [me EXCEPT !.old = TRUE] /\ UNCHANGED asking
     \/ asking = None /\ asking' = token /\ me' = [me EXCEPT !.old = TRUE]
  /\ UNCHANGED <<place, pageVars, tokenVars, cookie, wizardVars, endVars>>

TokenExpires ==
  /\ token # None /\ ~spent /\ Tap /\ spent' = TRUE
  /\ UNCHANGED <<place, pageVars, token, settled, refresh, heeded, cookie, meVars, wizardVars, endVars>>

-----------------------------------------------------------------------------
Edit(d) ==
  /\ place = "wizard" /\ OnPage /\ founding = None /\ d # draft /\ Tap /\ draft' = d
  /\ UNCHANGED <<place, pageVars, tokenVars, cookie, meVars, step, founding, orgs, endVars>>

TypeName == step = 1 /\ Edit([draft EXCEPT !.named = ~draft.named])
TypeSeats(n) == step = 2 /\ Edit([draft EXCEPT !.seats = IF n < 1 THEN 1 ELSE IF n > MaxSeats THEN MaxSeats ELSE n])
PickPlan(p) == step = 3 /\ Edit([draft EXCEPT !.plan = p])

GoNext ==
  /\ place = "wizard" /\ OnPage /\ step < 3 /\ (step = 1 => draft.named) /\ Tap /\ step' = step + 1
  /\ UNCHANGED <<place, pageVars, tokenVars, cookie, meVars, draft, founding, orgs, endVars>>

GoBack ==
  /\ place = "wizard" /\ OnPage /\ step > 1 /\ founding = None /\ Tap /\ step' = step - 1
  /\ UNCHANGED <<place, pageVars, tokenVars, cookie, meVars, draft, founding, orgs, endVars>>

Found ==
  /\ place = "wizard" /\ OnPage /\ step = 3 /\ founding = None /\ Tap /\ founding' = token
  /\ UNCHANGED <<place, pageVars, tokenVars, cookie, meVars, step, draft, orgs, endVars>>

\* Founded, the profile is asked for anew and the user sent to the app, wherever they are.
FoundAnswers ==
  /\ founding # None /\ founding' = None
  /\ \/ /\ founding \notin orgs /\ ~spent /\ orgs' = orgs \cup {founding}
        /\ place' = "app" /\ asking' = IF token = None THEN asking ELSE token
        /\ me' = IF me.of = None THEN me ELSE [me EXCEPT !.old = TRUE]
     \/ UNCHANGED <<place, orgs, meVars>>
  /\ UNCHANGED <<pageVars, tokenVars, cookie, step, draft, endVars, taps>>

Cleared == token' = None /\ spent' = FALSE /\ settled' = TRUE /\ heeded' = FALSE

\* The wizard's way out forgets the token and nothing else.
SignOutOfWizard ==
  /\ place = "wizard" /\ OnPage /\ Tap
  /\ Cleared /\ left' = TRUE /\ lent' = TRUE
  /\ place' = "login" /\ page' = LoginPage /\ phase' = "form"
  /\ UNCHANGED <<signing, refresh, cookie, meVars, wizardVars, leaving>>

SignOut ==
  /\ place = "app" /\ OnPage /\ ~leaving /\ Tap /\ leaving' = TRUE
  /\ UNCHANGED <<place, pageVars, tokenVars, cookie, meVars, wizardVars, left, lent>>

ClearedCache == me' = Nobody /\ asking' = None

\* The app's way out ends the session on both sides, or on this one if the server is away.
SignOutSettles ==
  /\ leaving /\ leaving' = FALSE
  /\ Cleared /\ ClearedCache /\ left' = TRUE /\ lent' = FALSE
  /\ place' = "public" /\ cookie' \in {None, cookie}
  /\ UNCHANGED <<pageVars, refresh, wizardVars, taps>>

\* The organization is erased and its users with it, whatever cookie is left of them.
Erase ==
  /\ place = "app" /\ OnPage /\ token \in orgs /\ ~spent /\ Tap
  /\ orgs' = orgs \ {token}
  /\ Cleared /\ ClearedCache /\ left' = TRUE /\ lent' = FALSE
  /\ place' = "public" /\ cookie' = None
  /\ UNCHANGED <<pageVars, refresh, step, draft, founding, leaving>>

\* The super-admin takes a user's token and keeps the cookie.
Impersonate(a) ==
  /\ place = "app" /\ OnPage /\ me.of = Root /\ token = Root /\ a # Root /\ ~spent /\ Tap
  /\ TokenSet(a) /\ lent' = TRUE /\ GoTo("app")
  /\ UNCHANGED <<pageVars, refresh, cookie, wizardVars, leaving, left>>

SessionInit ==
  /\ place \in {"public", "app"} /\ page = LoginPage /\ phase = "form" /\ signing = None
  /\ token = None /\ spent = FALSE /\ settled = FALSE /\ heeded = TRUE
  /\ cookie \in Who /\ refresh = cookie
  /\ me = Nobody /\ asking = None
  /\ step = 1 /\ draft = EmptyDraft /\ founding = None /\ orgs \in {Accounts, {Root}}
  /\ leaving = FALSE /\ left = FALSE /\ lent = FALSE /\ taps = 0

SessionNext ==
  \/ LinkIsChecked \/ SignInAnswers \/ Reload \/ RefreshAnswers \/ GateRedirects \/ MeAnswers
  \/ MeTurnsOld \/ TokenExpires \/ TypeName
  \/ GoNext \/ GoBack \/ Found \/ FoundAnswers
  \/ SignOutOfWizard \/ SignOut \/ SignOutSettles \/ Erase
  \/ \E n \in 0..MaxSeats + 1 : TypeSeats(n)
  \/ \E p \in {"monthly", "annual"} : PickPlan(p)
  \/ \E k \in Pages : OpenPage(k)
  \/ \E a \in Accounts : SignIn(a) \/ GoogleReturns(a) \/ Impersonate(a)

SessionSpec == SessionInit /\ [][SessionNext]_sessionVars

-----------------------------------------------------------------------------
(***************************************************************************)
(* The exchange of the cookie on loading never takes over from a sign-in: by   *)
(* the time there is a token its answer is no longer waited for.              *)
(***************************************************************************)
SignInOutrunsRefresh == token # None => ~heeded

(***************************************************************************)
(* The app shows the profile of the account that is signed in, through         *)
(* reloads, expired tokens and sign-outs with requests under way, unless the    *)
(* token changed hands with the cache left as it was: by the wizard's way out,  *)
(* by acting as somebody else, or because the gate sent the user to sign in.     *)
(***************************************************************************)
ShownIsSignedIn == place = "app" /\ OnPage /\ ~lent => me.of = token

(***************************************************************************)
(* Who signed out is out: a reload does not sign them in again.               *)
(***************************************************************************)
SignOutEndsSession == left => token = None

-----------------------------------------------------------------------------
(***************************************************************************)
(* Why the profile is the signed-in user's: unless the token changed hands,     *)
(* without a token there is no profile, and none where somebody may sign in.    *)
(***************************************************************************)
NoProfile == me.of = None /\ asking = None

ProfileIsOfToken ==
  ~lent => IF token = None THEN NoProfile ELSE me.of \in {None, token} /\ asking \in {None, token}

NoProfileAtTheDoor == ~lent /\ (signing # None \/ place \notin {"wizard", "app"}) => NoProfile

\* A wizard's founding that is still under way found no other token to lead into the app.
FoundingIsAlone ==
  founding # None => ~heeded /\ (~lent /\ (signing # None \/ place \notin {"wizard", "app"}) => token = None)

ExchangeIsBeforeTheGate == heeded /\ signing # None => place \notin {"wizard", "app"}

SessionInv ==
  /\ SessionTypeOK /\ SignInOutrunsRefresh /\ ProfileIsOfToken /\ NoProfileAtTheDoor
  /\ FoundingIsAlone /\ ExchangeIsBeforeTheGate
=============================================================================
