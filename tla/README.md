# SimpleCRM: specification of billing, invoicing, membership, ownership and the web client

SimpleCRM is a multi-tenant CRM: a FastAPI backend over PostgreSQL
(`backend/app`), a React client (`frontend`), the ComGate payment gateway and a
handful of background sweeps that run inside the web workers. This directory
specifies two parts of it in TLA+. On the server, the parts where a wrong order of
steps costs money, locks a customer out or lets somebody in: the subscription, the charges and
renewals of the card rail, the numbered tax documents; invitations and seats, the links and refresh
tokens of a person, and who owns which company. In the browser, the
pages and dialogs whose behaviour depends on the order in which the user acts and
the server answers. TLC checks the specifications, and TLAPS proves the
properties that matter most.

Paths below are relative to the repository; a bare file name such as
`billing.py:744` is under `backend/app/services`, `payments.py`,
`subscription.py`, `admin.py`, `deals.py`, `companies.py`, `users.py`, `auth.py` and
`admin_invoices.py` under `backend/app/api/v1`, and a `.ts` or `.tsx` file under `frontend/src`.

- [1. The system](#1-the-system)
- [2. The modules](#2-the-modules)
- [3. How to read the models](#3-how-to-read-the-models)
- [4. The runs](#4-the-runs)
- [5. Fairness](#5-fairness)
- [6. The proofs](#6-the-proofs)
- [7. Findings](#7-findings)
- [8. Divergences no run checks](#8-divergences-no-run-checks)
- [9. What is not modelled](#9-what-is-not-modelled)
- [10. Plan](#10-plan)

## 1. The system

### 1.1 Components

| Component | State | Operations | Talks to |
|---|---|---|---|
| subscription and billing service (`billing.py`, `org_billing.py`) | one `subscriptions` row per organization: status, plan, queued plan, comp flag, seat cap, contracted seats, queued seats and the users to lose, period start and end, renewal date, cancellation, dunning counter | plan choice, self-service cancel and reactivate, super-admin activate / comp / enterprise / cancel / extend trial, and the funnels of payment outcomes: first payment, seat upgrade, renewal, manual payment, failed charge | called by every component below |
| customer payments API and webhook (`payments.py`, `comgate.py`) | `charges`, `payment_methods`, `webhook_events` | start a checkout, buy seats mid-period, receive ComGate's notification | ComGate over HTTP, billing service, invoicing |
| customer subscription API (`subscription.py`) | none of its own | choose a plan, set / keep / queue the seat count, queue the billing interval, cancel, reactivate | billing service, user rows |
| background sweeps (`scheduler.py`) | PostgreSQL advisory locks, one per job | hourly renewal charges; daily overdue sweep, renewal drafts, freeing, reminders, archive integrity; Google keep-alive | ComGate, billing, invoicing |
| super-admin billing API (`admin.py`) | audit rows | the manual operations on a subscription | billing service |
| invoicing service (`invoicing/service.py`, `numbering.py`, `admin_invoices.py`) | `invoices`, `invoice_counters`, `invoice_audit_log`, the numbering advisory lock | issue by hand or for a charge, draft, confirm, mark and unmark paid, void, credit | billing service (a paid linked invoice extends the period), archive |
| invoice archive (`invoicing/storage.py`, `renderer.py`, ...) | files or S3 objects | render, store, verify, export, mail | invoicing |
| onboarding, sessions, sign-up, password reset | users, refresh tokens, action tokens | sign up, log in, rotate, reset | mail |
| invitations and seats (`invitations.py`) | invitations, users | invite, resend, revoke, accept | the seat cap of the subscription |
| ownership and freeing (`freeing.py`, `companies.py`) | owner and expiry of a company | assign, release, nightly freeing | activity log |
| CRM data (pipelines, deals, activities, todos, events) | ordinary rows | CRUD, one transaction each | activity log |
| CSV import and undo (`imports/`) | import jobs and the rows they created | commit, undo | CRM data |
| outbound mail and campaigns, inbound mail | mail logs, campaigns, messages | send, track, receive | SMTP, the inbound provider |
| Google calendar and OAuth | encrypted grants, synced events | connect, refresh, sync, keep alive | Google |
| reports, search, business registry, erasure | read-only or one transaction | queries, deletion of an organization | – |
| web: session and routes (`auth/`, `onboarding/`, `App.tsx`, `lib/api.ts`) | access token in memory, refresh cookie, cached `/auth/me` | load, sign in and out, found an organization, impersonate, lead to the page the profile allows | `/auth`, `/onboarding` |
| web: pipeline board and deals (`app/pipeline`, `app/deals`) | the cached board per window, moves under way, dialogs | drag, win, lose, reopen, pay, edit | `/pipelines`, `/deals` |
| web: timeline (`app/deals/Timeline*`, `app/activities`) | text under edit, saves under way | log an entry, edit it in place | `/activities` |
| web: calendar and events (`app/events`, `app/calendar`) | the event form, the visible days | make, edit and delete an event; page and zoom | `/events`, Google's status |
| web: lists (`app/companies`, `app/contacts`, `app/emails`, `admin/`) | word, filters and page, partly in the URL; ticked rows | search, page, tick, act on what is ticked | list endpoints |
| web: forms | a draft per form, seeded from the cache | type, save, leave | `PATCH` and `POST` of the record |
| web: capture dialogs | fields of a company, contact and deal; the registry's answers | look up, pick or type, submit in several requests | `/companies`, `/contacts`, `/deals`, `/lookup` |
| web: stages (`app/settings/sections/PipelineSection.tsx`) | the order on screen, orders on their way | swap two stages, add, delete | `/pipelines` |
| web: to-do lists (`app/todos`, `HomeTodoWidget.tsx`, `DealTodosSection.tsx`) | cached lists and to-dos, the list a widget shows, boxes and pickers | pick, make, rename, delete and link a list; add and link a to-do | `/todo-lists` |
| web: global search (`app/search`) | word, answer, pointed hit | type, point, open | `/search` |
| web: import wizard (`app/settings/import`) | files, mappings, report | read, map, preview, import | `/imports` |
| web: checkout and plan settings | form, details and prices as cached | order, change seats or interval, end | the payments and subscription API |
| web: bulk e-mail wizard | filter, candidates, ticks | resolve, trim, write, send | `/bulk-email` |
| web: super-admin console (`admin/`) | selection, drawer, dialogs | act on an organization or an invoice | `/admin` |
| web: dashboards (`app/dashboard`, `app/reports`) | cached configuration, draft of edit mode | edit, save, reset, filter | preferences |
| web: guided tours (`app/tutorial`) | preferences, local cursor, two hook instances | step, close, replay | preferences |

`PROJECT.json` lists the components with their sources, the unmodelled ones too.

### 1.2 What is hard

The backend is asynchronous Python with several workers over one database at
READ COMMITTED. Four things make its billing hard to test, and four its client.

*State held across a call.* A checkout and an upgrade read the subscription,
insert a charge, commit, call ComGate and write again. The renewal sweep reads,
flushes a row, calls ComGate and commits once, after the last organization
(`scheduler.py:303-334`). Sessions are created with `expire_on_commit=False`
(`backend/app/db/session.py:23`), and SQLAlchemy's identity map returns the
object it already holds even from a `SELECT ... FOR UPDATE`, so a locked re-read
does not refresh anything unless it says `populate_existing`.

*A gateway that answers on its own schedule.* ComGate decides a payment at any
time, repeats a notification until it gets a 2xx, and may have carried out a
call whose answer was lost. The customer may pay two hosted pages in any order.

*Several writers of one row.* The subscription is written by the customer, by
super-admins, by three sweeps, by the webhook, and by flagging an invoice paid.
Most of these read some fields, decide, and write others. The reads are plain `SELECT`s
(`billing.py:80-95`, `subscription.py:259`) at READ COMMITTED: another transaction can commit between a
handler's read and its own commit, which in the webhook has rendering an invoice and mailing it in between
(`payments.py:672`). What the handler then writes is the columns it changed, computed from values that are gone.

*Numbers that must not have gaps.* Invoices of a year are numbered 1, 2, 3, ...
by law, whoever issues them and whatever fails afterwards.

*Answers to a page that moved on.* Every button of the client sends a request
and lets the user go on. Few dialogs stop the user from leaving, and the handler
that waits (`mutateAsync` followed by a `setState`, or `onSuccess` of a hook that
stays mounted) then works on whatever is open by the time of the answer.

*Caches that are written before the server answers.* The board, the home
configuration and todos are changed in the cache first, with a snapshot to go
back to. Two such changes and a refetch overlap in every order, and a snapshot
may hold another change that never took place.

*Forms filled in from a cache.* Queries are fresh for 30 seconds, are not read
again on focus and are retried once (`lib/queryClient.ts:5-13`); mutations are
not retried. A form seeded from a cached record sends old values back, and one
seeded again when the cache changes throws away what is being typed. Several
lists keep the previous answer on screen while the next is fetched.

*Debounces.* A word, a registry number, a filter or a note takes effect a moment after
the last key, whatever the user did in that moment.

### 1.3 What makes each part correct

- **Renewals**: a period has at most one renewal that is pending or paid; the
  card is captured at most once for it; what was charged is what is delivered;
  a renewal is eventually decided; three failures, and not fewer, give up.
- **Checkouts**: whatever ComGate knows can be matched to a committed row; an
  acknowledged outcome is a settled one; a paid charge stays paid; the saved card
  is the card of a checkout that was paid; a second payment buys nothing twice.
- **Periods**: days are added only by captured money (or an admin), and paying
  never takes days away.
- **Seats**: the contract stays within what some payment was computed for, and the cap within the
  contract, an upgrade never lowering either, as long as no handler writes over a commit it has not
  seen; the admin who operates the page is never deactivated.
- **Documents**: no gap and no duplicate in the series; a document never changes
  once written; its status follows the arrows of `InvoiceBook`; credits never
  exceed what they credit; one projection per period.
- **Membership**: active users and open invitations fit the seats, the last active admin stays,
  and rights come from somebody who has them.
- **Links and sessions**: a link works once and only the newest does, a reset ends what was
  before it, a sign-in has one token.
- **Ownership**: nobody loses a company in his time, owners keep within their caps, and the
  history names who owns.
- **Marking paid**: the period reaches exactly as far as renewals and invoices
  flagged paid account for.
- **Settling**: when nothing is under way, what the client shows is what the server
  has, and what the user dropped, typed or picked last is in it or visibly refused.
- **Typing**: no answer, refetch or colleague replaces what the user is typing, a form
  undoes nobody else's change, and one draft makes one record.
- **Aim**: what leaves the client is what was on the screen when it was confirmed, and goes
  to the record it was shown for: the deal of a loss, the organization of a dialog,
  the recipients of a campaign, the plan of a payment, the files of an import.
- **Identity**: the app never shows one account under the token of another, and an
  answer to an older session never replaces a newer one.

`PROJECT.json` lists every hazard with the line where it bites and the
properties that would catch it.

## 2. The modules

| Module | Kind | Content |
|---|---|---|
| `Billing` | vocabulary, no variables | the subscription record and every function of `billing.py` that writes it, as operators `record -> record` with their guards |
| `Payments` | state machine | checkout and upgrade requests, renewal sweep, ComGate, webhook, overdue sweep, customer and super-admin operations |
| `MCPayments` | instance | symmetry sets for TLC |
| `Invoicing` | state machine | numbering, drafts, issuing, confirming, marking, unmarking, voiding, crediting, and the renewals that race with them |
| `MCInvoicing` | instance | symmetry sets for TLC |
| `InvoiceBook` | abstract specification | the book of documents an accountant expects; `Invoicing` implements it |
| `BillingProofs` | lemmas | every operator of `Billing` yields a subscription |
| `PaymentsProofs` | theorems | type correctness of `Payments`, its inductive invariant and what follows from it; captures, seats, the contract, dunning and days |
| `InvoicingProofs` | theorems | type correctness of `Invoicing`, sums over a set, the series, projections, the book with its credits, the period and its days |
| `Members` | state machine | invitations, the settings of users, the number of seats |
| `Tokens` | state machine | action links and refresh tokens of one person |
| `Ownership` | state machine | owners, clocks and history of companies, and the nightly sweep |
| `Board`, `CardGestures`, `DealLife` | state machines | the pipeline board and its optimistic moves; one press on a card; winning, losing, paying and editing deals |
| `EntryRow`, `TimelineDraft` | state machines | an entry of a deal's timeline edited in place; the draft row with its kind picker |
| `EventForm`, `Reminders`, `Agenda` | state machines | the form of a calendar event; its rows of reminders; the calendar page |
| `Stages`, `Todos` | state machines | the order of the pipeline's stages; to-do lists, their links and the to-dos of a deal |
| `Search` | state machine | the search box of the header |
| `Lists`, `Forms` | state machines | nine paged lists and forty-two forms, each one machine with the choices of its components as records |
| `Capture`, `Autofill` | state machines | the dialogs that make a company, a contact and a deal; the fields the business registry fills in |
| `ImportWizard` | state machine | upload, mapping, preview, import |
| `Session` | state machine | token, cookie, profile, routes, onboarding, impersonation |
| `Checkout`, `PlanSettings` | state machines | the three doors to a payment; the cards of seats, interval and end |
| `BulkEmail`, `Console`, `Widgets`, `Tour` | state machines | the campaign wizard; the super-admin console; the two dashboards; the guided tours |
| `Screen` | composition | one part of the system per behaviour, its state in shared cells |
| `Pages` | composition | the import, and the forms, the timeline, the lists and the search as parts of the client |
| `Deals` | composition | these, the board and the rest of the client around deals, for any sets and bounds |
| `MCDeals` | instance | the sets and bounds of `Deals` for TLC |
| `Desk` | composition | the rest of the client, with `Members`, `Tokens` and `Ownership`, for any sets and bounds |
| `MCDesk` | instance | the sets and bounds of `Desk` for TLC |
| `WebProofs` | theorems | console, session, plan settings, checkout, bulk e-mail, tours, dashboards and to-do lists in `Desk`, and the types of all its parts |
| `PeopleProofs` | theorems | `Members`, `Tokens` and `Ownership` in `Desk` |
| `PagesProofs` | lemmas | the invariants of the forms, an entry of the timeline, its draft, the lists and the search |
| `BoardProofs` | lemmas | the invariants of the board, a card's gestures, the stages and how a deal is decided |
| `DealsProofs` | theorems | the calendar, the capture dialogs, the import, and with the two above the rest of `Deals`, and the types of all its parts |

`Payments` and `Invoicing` both EXTEND `Billing`, the way both parts of the
program call the same billing service; what a renewal does to the row is written
once. Each of them holds the subscription as its own variable `sub`: they are
two views of one system, and what one view leaves out the other has (the card
rail with all its failures is in `Payments`, the documents are in `Invoicing`).

### 2.1 Billing

The record `Subscription` has one field per column the code reads or writes to
decide something. `NextPlan` and `NextSeats` are `next_period_plan_and_seats`;
`AccessAllowed` is the pay gate `is_app_access_allowed`; `StartPeriod` is the
block of assignments the three successful funnels share; `ApplyQueuedDownsize`
is the helper of the same name, whose effect on the user rows is left to the
caller because the users are a variable of the state machines. A
`BillingError` is a guard (`RenewalAllowed`, `SeatChargeAllowed`, ...): the
transaction is rolled back, so the action is simply not enabled. `Overwrite` is the unit of work of
SQLAlchemy: a commit writes the columns whose value the handler changed, whatever the row holds by then, and
leaves the others as they are.

### 2.2 Payments

| Variable | In the program |
|---|---|
| `now` | the clock, in days |
| `sub` | the `subscriptions` row |
| `active` | users with `is_active` |
| `charge` | the `charges` table; `flushed` is a row only its own transaction sees, `lost` one that was rolled back |
| `gate` | ComGate's view of each payment: `hidden` (a hosted page whose address never reached the browser), `open`, `PAID`, `FAILED` |
| `seen` | charges whose transaction id has a `webhook_events` row |
| `card` | `payment_methods`: the checkout whose transaction registered the card |
| `req` | requests in flight: `checked` (reads done), `calling` (row committed, HTTP call about to leave), `called` (ComGate has acted, answer on its way) |
| `sweep` | the renewal sweep, with the row it flushed and the dunning counter it read |
| `tx` | for each of `Handlers`, a transaction between its read of the row and its commit: what it does, for which charge or seats, and the row as it read it |
| `overtaken` | history: some commit moved status or seats over seats it had not seen |

| Actions | Code |
|---|---|
| `CheckInitial`, `CheckSeatChange`, `CommitCharge`, `GatewayAccepts`, `RequestReturns`, `RequestFails`, `RequestCrashes` | `initial_payment_init`, `seat_change_init`, cut at the commit and around the call |
| `SweepBegins`, `SweepCalls`, `SweepCommits`, `SweepFails`, `SweepCrashes` | `run_recurring_charges` for this organization |
| `GatewaySettles` | ComGate (external) |
| `WebhookIgnored`, `WebhookReads`, `WebhookInitialPaid`, `WebhookSeatsPaid`, `WebhookRenewalPaid`, `WebhookFailed` | `comgate_webhook` with `_dispatch_success` and `_dispatch_failure`: the read of the row with the funnel's guards, then one commit per outcome; the row of `webhook_events`, the charge, the subscription, the users, the card and the invoice commit together |
| `HandlerCrashes` | a worker dies between read and commit |
| `OverdueSweep` | `run_overdue_invoice_sweep` |
| `CustomerReadsSeats`, `CustomerSetsSeats` | `update_seat_count` where it changes the cap at once: read and decision, then the commit |
| `AdminReadsInvoice`, `AdminMarksPaid` | `mark_paid` of the invoice a charge produced: read, then the commit with what `apply_manual_payment_success` made of it |
| the other `Customer...`, `Admin...` | the endpoints of `subscription.py` and `admin.py`, one step each |
| `Tick`, `WindowEnds` | the clock; the 15- and 10-minute windows in which a pending charge blocks another |

*What overlaps.* The webhook, the seat `PUT` and `mark_paid` compute the row from the row, and are two steps:
the first copies `sub` into `tx[h].read` and decides on the copy, the second applies `Overwrite` to the row as
it is by then. Webhooks of different payments overlap each other, the customer, the sweeps and the admins; those
of one payment do not, because the second waits for the unique key of `webhook_events`, and two `mark_paid` of one
invoice do not either (`InHand`; what they do to each other is finding 3, in `Invoicing`). `Tick` waits for open
transactions: they take seconds. What stays one step: operations that set columns to values of their own
(choosing a plan or an interval, queueing or dropping a downsize, cancelling, the grants, the overdue sweep), and
three that do depend on what they read, `Activate` with its queued victims, `ExtendTrial` and `Reactivate`, whose guard an
overlapping commit could outdate by the length of one request; the model leaves that out. The list of sibling checkouts a webhook
retires is taken at its commit too (section 8).

`Faults` chooses what the environment may do: `"crash"` (a worker dies between two
steps), `"timeout"` (ComGate carries a call out and the answer is lost),
`"early"` (a notification arrives before the sweep that caused it has
committed). Duplicate and reordered notifications need no fault: a settled payment
can be delivered at any later time, in any order, until it is acknowledged, and
what a redelivery after the acknowledgement does is a look at `webhook_events`
and nothing else.

### 2.3 Invoicing

| Variable | In the program |
|---|---|
| `counter`, `lock` | `invoice_counters.last_sequence` and the numbering advisory lock that is held to the end of the transaction |
| `inv` | the `invoices` table, indexed by the number in the series |
| `ext` | the latest `subscription_extended` audit row of an invoice: the subscription before and after |
| `kept` | unmarkings that left an extension in place |
| `inFlight`, `renewed` | the period of the renewal that waits for its webhook, and of those that were paid |
| `op` | the requests and the draft sweep, between their statements |
| `now`, `sub`, `active` | as above |

`AdminLoads` is the router's unlocked read of an invoice, with its early answers;
`AdminMarks` and `AdminVoids` are the service's locked part, which still sees the status
`AdminLoads` loaded. `unmark_paid` and `confirm_draft` load nothing first and are
one step. A document is issued in three steps (`Issues`, `TakesNumber`,
`CommitsIssue`) and any of them may be the last (`RollsBack`). A renewal's webhook
is one transaction that extends the subscription, voids the drafts it sees and
issues a document: `RenewalIssues` (`"draft"` when rendering fails and the
webhook swallows it), or `RenewalWithoutInvoice`.

### 2.4 InvoiceBook

The abstract specification has one variable, a sequence of documents. A step
may append a document, move statuses along the arrows

    draft -> issued -> paid        draft, issued -> voided        paid -> issued

and must leave kind, amount and credited document of everything already written
as they are, with the credit notes of a document adding up to no more than
it. Several documents may move in one step, because a renewal retires all drafts
at once. The refinement mapping is `book == [i \in 1 .. counter |-> ...]`: the
number of a document is its position, so `ImplementsBook` also says that nothing
is ever inserted before the end of the series, and that numbers never go back.

### 2.5 Members, Tokens, Ownership

Three machines of the server with one scheme. Nothing in these handlers locks a row: a request
reads and decides (`AsksTo...`, `Reads`), and commits later (`Invited`, `Changed`, `Freed`, ...), or
dies in between (`Dies`). `reqs` holds what it read and decided; `stale` are the requests during which
somebody else committed. A commit writes the columns whose value the request changed and no others, as
SQLAlchemy's unit of work does (`Flushed`, `Goes`): a form that sends back what it read undoes nothing, and
an owner of `None` who becomes `None` again is not written at all.

The promises of the code are stated for steps of requests that are not in `stale`, which any number of
requests can interleave with before they read and after they commit; the commits of overtaken requests are in the
model, and section 8 says what they break.

**Members** (`invitations.py`, `users.py`, `subscription.py`). `person` is the row of a user: the
company, whether active, role and the right to invite; `invite` the invitations; `sub` the seats and the queued downsize;
`given` who got rights from an admin. `AsksToInvite` has the guards of `create_invitation` (who may invite, what he may
grant, an open invitation, a free seat), `Invited` also the unique index on open invitations; `AsksToAccept` both ways to
accept, `AsksToFound` onboarding, `AsksToChange` `update_user`, `AsksForSeats` and `QueueLands` the slider and what it
queues. `SeatWasFree`: a seat is taken only when there is one, except by reactivation, which does not count.
`LastAdminStays`: the last active admin goes only with the commit of an overtaken request, a downsize whose author is no
longer one, or his own acceptance of one more invitation. `RightsAreGiven`.

**Tokens** (`email_auth.py`, `auth.py`). `links` are `auth_action_tokens`, `mailed` the mailbox, `uses` how often each
was consumed; `rows` are `refresh_tokens`, `cookie` what each browser holds. A token has its `chain`, the
sign-in it goes back to, its `age`, the resets the sign-in knew of, and whether it is `late`, issued by an overtaken request
or from a token that was. A reset deletes the refresh tokens in one statement
and commits later (`ResetErases`, `ResetDone`). An answer with a cookie may be lost (`Session`). `LinkIsNewAndNewest`,
`ResetEndsSessions`, `OneTokenPerSignIn`.

**Ownership** (`companies.py`, `deals.py`, `freeing.py`, `scheduler.py`). `company` has the owner and whether his clock has time
left, `open` the open rows of `ownership_history`, `went` how the owner's time began. The sweep lists (`SweepLists`), asks again
in the same session, which keeps the owners it has seen (`SweepFinds`), and commits all companies or, if one was deleted, none
(`SweepFrees`). `TakenWhenDue`: it takes a company only where the clock ran out, or where `update_company` put an owner under the
old clock. `CapIsKept`, `HistoryNamesOwner`.

### 2.6 The web client

Each module below is a part of the client and the endpoints it calls. A request and its
answer are separate steps, the server takes requests in any order the connection permits,
and the user acts in between as the page lets him; a colleague, another device or the
background changes the server's side where that matters. `Deals` and `Desk` instantiate
them on the cells of `Screen`.

**Board** (`useBoard.ts`, `PipelinePage.tsx`). `cache` has one query per "won" window, with
data, invalidation, error and the fetch under way; `moves` the mutations under way, each with
its snapshots of every window. `log` is the server's past, so that a cached board can be compared
with what the server once held. `MoveStage` is `onMutate` (cancel, snapshot, optimistic
write), `ServerMoves` / `ServerRefuses` the request, `Settle` `onError` and `onSettled`;
`ServerReads`, `BoardArrives`, `BoardFails` a refetch; `ChooseWindow`, `Revisit`, `Reload` what the user does to the page.
`BoardSettles`: when nothing is under way, the board is a state the server
held, no older than the last move it confirmed. `CardStaysWhereDropped`: a card stays where it
was dropped until that move is answered.

**CardGestures** (`PipelinePage.tsx`, `DealCardPreview.tsx`). A press is `Down`, `Stray`,
`Return`, `Hold`, `Up`, `Cancel` and the browser's `Click`, or a `Key`; each is seen by
dnd-kit, the long-press timer and the card's click handler. `OnePressOneEffect`: it has the one
effect its movement means.

**DealLife** (`useDealActions.ts`, `DealDetail.tsx`, `MarkLostDialog.tsx`, `deals.py`).
`server` and `shown` are a deal at the API and in the cache; `losing`, `editing`, `flights`
the dialogs and requests. A colleague works on the same deals. `ReasonReachesItsDeal`,
`ClosedMeansDecided`: a reason never lands on another deal, and a deal is closed exactly
when it sits in a closing stage or was given up in an open one.

**EntryRow** (`TimelineEntryRow.tsx`). The text saves itself after 800 ms, on blur and on unmount;
every save is a PATCH with the value to go back to. `LastWordIsStored`, `RefusalIsTakenBack`.

**TimelineDraft** (`TimelineDraftRow.tsx`, `ActivityKindPicker.tsx`). The draft row inside
a dialog whose focus trap takes Escape first. `OneEntryPerDraft`, `TypingIsKept`.

**EventForm** (`EventFormModal.tsx`, `timeOptions.ts`, `LabelPicker.tsx`). The form is filled in by an
effect that runs again when the Google status arrives. Times are quarter hours with the
clamping at the end of the day. `OwnTitleStays`, `PickedSlotIsValid`.

**Reminders** (`ReminderRows.tsx`). Each row has a key and, for a lead time that is none of the presets, a number box;
`customRowIds` are the keys of the rows whose box was opened by hand. `Open`, `Add`, `RemoveRow`, `PickPreset`, `PickCustom`,
`TypeMinutes`, and `Replace` when the form fills itself in again. `SwitchIsItsReminders`: the open boxes are those of the
reminders the user switched, whatever rows came and went before them (`swapped` excepts a list replaced by one as long).

**Stages** (`PipelineSection.tsx`, `usePipelineSettings.ts`, `pipelines.py`). `server` and `shown` are the order at the API and in the
cache; `moves`, `deleting` and `adding` the writes under way. Every press on an arrow sends the whole order. `NoStageIsLost`: no order
drops or revives a stage. `OrderSettles`: with nothing under way the section shows the server's order, and whoever waits
for each answer gets what was asked for.

**Todos** (`HomeTodoWidget.tsx`, `TodoListSwitcher.tsx`, `TodoDealPicker.tsx`, `DealTodosSection.tsx`, `todos.py`). `server` and `cache` hold the
order of the lists, their links and two to-dos; `config` is the list the widget shows; a write is a flight that carries the list it was
sent for and the one to fall back on. The switcher stays mounted when closed, so `renaming` and `asking` survive it.
`PagesFollowRule`: a to-do is on the page of the deal its row names. `OwnLinkSleeps`: a to-do's own link is untouched while
its list is linked. `TodosSettle`: with nothing under way the widget shows what the server holds.

**Search** (`GlobalSearch.tsx`, `useGlobalSearch.ts`). Word, debounced word, the answer kept while the next is fetched and
the index that is pointed at. `HitsAreOfTheWord`, `OpensWhatIsPointed`: the panel's hits are of a word that was typed, and Enter
opens the hit that was highlighted.

**Agenda** (`CalendarPage.tsx`, `calendarMath.ts`). Anchor, zoom, selected day and the
answer that is kept while the next is fetched. `NoFalseEmptyDay`: the panel calls no day empty that the
answer does not cover.

**Lists** (`CompaniesListPage.tsx`, `DealsListPage.tsx`, `ContactsPage.tsx`, ...). A list
is a record of choices (how it searches, whether it keeps its page, what may be ticked, how its
action reaches the rows); `TypeWord`, `Debounced`, `LandsInUrl`, `NextPage`, `Sidebar`, `SelectPage`,
`Confirm`, `Reaches` and a colleague who changes and deletes rows are the actions. `NotStranded`: a
settled list that shows nothing has nothing or offers the way back, unless rows went away under it.
`BasketSurvives`: what was ticked on other pages stays ticked.

**Forms** (the forty-two forms `Forms` lists with their files). A form is a record too: what fills it in
again, what it sends, whether it locks, how it is left, what an answer does to it. The draft has a
field of the user's and one a colleague writes. `FormKeepsTyping`, `OneRecordPerDraft`,
`ColleagueIsNotUndone`; the forms that do lose typing are the set `Forgetful`, and the third
property is claimed for the set `Careful` only.

**Capture** (`AddDealModal.tsx`, `AddCompanyModal.tsx`, `LinkEmailDialog.tsx`). One submit is a run of
requests, each of which may fail and be repeated by the next press. `FiledTogether`: a deal
is filed with a contact of its own company and a mail with a deal of it, whatever was picked, typed, hidden
and preset before.

**Autofill** (`useLookupRegistry.ts`, `OrgBillingFields.tsx`, the two company forms). `FieldsAreOfTheNumber`:
a filled-in name or VAT number is the registry's for the number in the form, for the forms that empty what no
longer fits.

**ImportWizard** (`ImportPage.tsx`). `AddFile`, `FileIsRead`, `MapFile`, `RunPreview`, `PreviewAnswers`,
`Commit` and the ways back. `ImportedIsPreviewed`: what the server imports is what the report on
screen was made of, unless an entry changed under the report (section 8).

**Session** (`AuthContext.tsx`, `ProtectedRoute.tsx`, `CreateOrgPage.tsx`, the pages that sign in). `token`,
`cookie`, `refresh` and `me` are of an account each. `SignInOutrunsRefresh`: the exchange on loading
never replaces a token the user obtained meanwhile. `ShownIsSignedIn`: the app shows the profile of
the token's account, unless the token changed hands with the cache left as it was (section 8).

**Checkout** (`BillingSection.tsx`, `TrialExpiredGate.tsx`, `ObjednavkaPage.tsx`). Three doors to a payment, each
`save details, then pay`. `GoesAsConfirmed`: the browser leaves for a payment only from the form
that asked for it, with that plan still selected, the consent still given and billing details stored.

**PlanSettings** (`OrganizationSection.tsx`). The cards of seats, interval and end over a subscription read
late. A request outlives the card that sent it. Cards of the seats are numbered (`visit`): the one that comes back after the
section was left is another card. `puts` and `charges` are what is under way, each with the card it is of. A refused
change is charged whether or not its card is still there (`PaymentIsRequired`; `OrganizationSection.tsx:118-128` are options of the
mutation, which react-query calls after unmounting too), for what the field shows by then or showed last; only a card on the screen is
locked, redirected or unlocked by it. `cancelQueue` is a bare request that no lock waits for. `OneUpgradePerCard`: of what one card
asked for, one request or charge is under way, also after the card was left.

**BulkEmail** (`BulkEmailWizard.tsx`, `recipientSelection.ts`). `MailedAsShown`: a campaign goes to nobody
who was unticked under the filter that is shown, and to nobody that filter leaves out.

**Console** (`OrgDetailDrawer.tsx`, `InvoiceDetailDrawer.tsx`, `CreditNoteModal.tsx`, `ManualInvoiceModal.tsx`).
`ActedForItsOrg`: a dialog acts for the organization it was filled in for.

**Widgets** (`useDashboardEditor.ts`, `useHomeDashboard.ts`, `ReportsPage.tsx`, `homeLayout.ts`).
`DashboardSettles`: with nothing under way, the cache is the server's configuration.
`NewWidgetIsLast`: a widget that is added takes the last place on a phone.

**Tour** (`useTutorial.ts`, `TourOverlay.tsx`, `TourReplayButton.tsx`). The overlay and the button each run an instance
of the hook. `TourStartsOver`: a tour that comes on screen begins with its first step.

## 3. How to read the models

These choices apply throughout, and each has a reason in the code.

- **Days.** The clock counts days, periods have `MonthLen` and `AnnualLen` days.
  Only the order of instants and the differences between them matter to the
  code. Two events of one day may share an instant that microsecond timestamps
  would separate; where that would create a behaviour the program does not have, a
  guard `sub.starts < now` says so: the sweep does not renew a period at the
  instant it began, two extensions of one subscription never carry the same
  instant. Only `Overwrite` has no such guard: an end that is computed to the day that was read counts as unchanged, and stays
  what an overlapping commit made of it. `billing.py`'s clamping at month ends is abstracted into the lengths.
- **Money.** An amount is a function of plan and seats. A charge keeps that pair,
  and the properties compare pairs: "charged is delivered" means the pair of the
  charge is the pair the subscription runs on.
- **Invoices in `Payments`** are reduced to `dueAt`, the due date of the issued and
  unpaid invoice of a charge, the only thing the overdue sweep reads.
- **`canceledAt`** is a Boolean: the code only asks whether it is set.
- **`Timestamp == Int`** rather than `Nat \cup {NoTime}`, because the
  back-off adds `2 ^ seen` days and the provers know of `2 ^ n` only that it is an
  integer.
- **`hidden`.** The customer of a checkout can pay only after the redirect
  arrives, so a page whose answer was lost expires unpaid. A recurring payment
  has no page and is `open` at once.
- **`SweepFails`** writes the subscription and commits in one step although the
  code commits later: the row is locked from the first write on, so nobody sees
  the difference. What is kept is that the counter it writes is the one read
  before the call.
- **A failure in the webhook** counts from the counter the webhook read, like the sweep's.
- **`disable_recurring`** (`billing.py:560`) clears columns nothing reads for a
  subscription afterwards and has no counterpart.
- **Users join** through invitations, which are in `Members`; in `Payments` the
  initial states contain every set of active users that fits the cap, and users
  only leave. In turn `Members` has the contract as a constant (`MaxSeats`), which `Payments` moves.
- **Admin `Activate`** leaves `renewAt` and `dunning` as they are, because the code
  does; see section 8.
- **Stale reads in `Invoicing`.** `mark_paid` says that `FOR UPDATE` makes the loser
  re-read the row. The lock does serialize, but the router has put the
  invoice into the session before (`admin_invoices.py:241`) and the identity map
  keeps the loaded attributes. `op[a].status` is what was loaded.
- **The supply date** of an invoice (`period`) is kept for renewals and drafts only; nothing
  reads it of the others.
- **`CHECK_DEADLOCK FALSE`** in every configuration: behaviours end when the clock and
  the pools of charges, numbers and failures are used up. Nothing in the program waits
  for another party without a timeout, except the two advisory locks, whose
  holder always releases in one more step (`CommitsIssue`, `RollsBack`).

For the web client:

- **One part per behaviour.** The pages and dialogs share nothing but the server, so a behaviour of
  `Deals` or `Desk` is about one of them, chosen at the start (`screen`) and for good; the state
  of a part is kept in the cells `s1 .. s24`. Twenty-six small machines, three of the server among them, are explored by two runs that way, and none is
  multiplied with another. What two parts do to each other through the server is in each part as a
  colleague's action.
- **react-query, dnd-kit, the grid library and the browser** are not under `src/`. They are modelled from how
  the hooks use them and marked external: `onMutate` cancels what is being fetched, an invalidated
  and mounted query is fetched again, a fetch under way is shared.
- **`Tap`** spends one of `MaxTaps`: it bounds what users do, and nothing else is bounded by it.
- **Choices of components are records.** `Lists`, `Forms`, `Capture` and `Autofill` describe each component by a
  record, in the code's order of conditions, and the machine reads the record. A record is mapped to its component's
  lines.
- **History variables** (`typed`, `told`, `meant`, `known`, `stored`, `muddled`, `meddled`, `lent`, ...) remember what the
  user meant or what went wrong before; what models code does not depend on them.
- **Exceptions are named.** Where the code breaks what a property says, the property excludes the
  smallest part of it that still holds (`lent`, `meddled`, `hurried`, `lost`, `Forgetful`), and section 8 says what happens there.
- **`XAssumption`** is a plain definition in a module that is instantiated with substitutions; the instance asserts it
  (`PagesAssumption`, `DealsAssumption`, `DeskAssumption`), and the theorems rest on that.
- **`CASE`** is used for conditions that exclude each other. Where the code asks in an order, the model says `IF ... ELSE`.

Definitions whose comment begins with "Mutant" are deliberate bugs. They are not part
of any specification; putting one in the place of the definition it mimics makes a
property fail, which shows that the property is about the code and not about the shape
of the model.

## 4. The runs

Each run asks one question; the constants it sets to more than one value, and the
faults it turns on, are those the question needs. State counts are of complete explorations.

| Run | Instance | Distinct states | Question |
|---|---|---|---|
| `PayRenewals` | a subscriber, monthly or annual, 6 days = 3 monthly periods, 4 charges, 1 request, 1 handler, early webhooks | 698 000 | does a chain of paid and failing renewals charge each period once, count its failures, and add days only for money? |
| `PayCheckout` | a trial, two tabs, 3 charges, 2 handlers, 2 days, plans chosen, crashes and lost answers | 439 000 | can the books always be reconciled with ComGate? |
| `PaySeats` | a subscriber, 2 users, up to 3 seats, 3 charges, 2 handlers, 2 days, crashes | 1 720 000 | do cap, contract and payments stay in order? |
| `PayLive` | a subscriber, 4 charges, 1 handler, 5 days, under `FairSpec` | 149 000 | is every renewal decided, and every lapsed organization? |
| `PayAdmin` | trial or subscriber, 3 charges, 2 handlers, 2 days, every admin operation, every fault | 900 000 | does anything an admin does break the card rail? |
| `InvBook` | one admin, 3 numbers, credit notes, a renewal, a hard cancellation, 2 days | 840 000 | is the table a book? |
| `InvPeriod` | one admin, 2 linked invoices, 2 renewals, cancel / reactivate / downsize, 3 days | 1 400 000 | is the period what was paid for? |
| `WebDeals` | fifteen parts of the client, 2 cards, 2 columns, 2 moves, 2 files; the other bounds below | 845 000 | is what was typed, picked and dropped what is stored and shown? |
| `WebDesk` | eight parts of the client and three of the server, 2 organizations, 2 invoices, 2 to-do lists, 2 requests to the server at a time; the other bounds below | 955 000 | does an answer that comes late act for anybody else than was shown, and does a request nobody overtakes keep the rules of seats, links and owners? |
| `Bug...` | the smallest instance that shows a finding | – | section 7 |

Two constants of `Payments` bound what overlaps: `Handlers`, the transactions between read and commit, and
`CustomerActions`, the customer's operations in play. Two handlers, in the runs about checkouts, seats and invoices, are the
least for one to overtake another; with one handler (`PayRenewals`, `PayLive`) a webhook is still overtaken by what is one step:
choosing a plan, queueing and dropping a downsize, cancelling, the sweeps. The theorems are for any number.

**PayRenewals** checks `RenewalCapturedOnce` (the card is captured once for a period),
`DunningIsFair` (`ThreeStrikes`: dunning gives up only once three renewal charges have failed, and `DunningKeepsAccess`: a failed renewal by itself does not change whether the
customer gets in) and `DaysFollowMoney` (`ExtensionIsPaid`: the period's end moves out only together with a
captured charge turning paid, and `PaymentNeverShortens`, of a webhook that commits over the end it read). Three monthly periods, or
one annual and one monthly, let a failure of one period meet a success of the next;
four charges are the first checkout, three failures, or two failures and a success. With `GraceLen = 4`
the third failure (day 5: renewal on day 2, back-off of 1 and 2 days) falls inside the
grace, as it does in production, where the grace is 7 days and the third failure comes
after 3. `TermLen = 20` keeps invoices from falling due: an organization
the overdue sweep has marked `past_due` may start a new checkout, whose period begins at once
and drops what was left of the old one, so `PaymentNeverShortens` does not hold there
(section 8). No crash and no lost answer: those break `RenewalCapturedOnce`, which
is finding 1.

**PayCheckout** checks `ReconcilableByRefId` (whatever ComGate knows has a committed row,
which is why the code commits before it calls), `AcknowledgedIsSettled` (a
`webhook_events` row and a pending charge never coexist: a redelivery would be
swallowed), `CardComesFromPaidCheckout` and `PaidIsFinal`. Two tabs and three
charges are enough for two pages to be opened, paid in either order, expire, and a
third to be started after a time window has ended, with the two webhooks overlapping. `TermLen = 1` makes
the invoice of the first payment overdue inside the run, so that a checkout of a
`past_due` organization is covered too. The run has no early webhook: `AcknowledgedIsSettled` is of notifications that
repeat, overlap, are rolled back or come long after, and the renewal whose notification outruns its commit breaks it (section 8).

**PaySeats** checks `SeatsWithinContract`, `ContractIsPaidFor`, `OwnerStaysActive` and
`UpgradeNeverLowers`, with two transactions overlapping: two upgrade webhooks, an upgrade and a renewal that lands a downsize, a
seat `PUT` and either. Such overlaps break the first and the last in the code, so each names the smallest set of histories it leaves
out: `SeatsWithinContract` those in which some commit wrote status or seats over seats it had not seen (`overtaken`, for good, as nothing repairs the
row afterwards), `UpgradeNeverLowers` the very commit whose contract moved after it was compared. `ContractIsPaidFor` holds in all of
them. Two users and three seats are the least for an upgrade, another one of a different size, and a downsize with a victim; three charges are
the first checkout and two more. A period of one day lets a renewal be due within the run. `"seats"` is the only group of the customer's operations, as
plans and cancellations do not move seats; seats set on trial are in the theorems (`SeatsInductive` begins with either).

**PayLive** checks `RenewalIsDecided` (flushed or pending leads to paid or failed) and
`LapseIsDecided` (an organization with a card and a renewal date does not stay
`active` past the end of its period). The escape `sub.renewAt > MaxTime \/ Unused = {}`
is the bound of the run and nothing else: the next attempt lies beyond the last day or has no
row left to be written to. No symmetry, because the properties are temporal.

**PayAdmin** checks `TypeOK`, `OneRenewalPerPeriod` and `ManualPaymentKeepsTail` with
every operation of an admin and every fault at once; two invoices may be flagged paid at a time, or one while a renewal's webhook is
open. `ManualPaymentKeepsTail` has two parts: the end that is computed lies past the end that was read, and nothing is taken back unless the end moved
between read and commit. `OneRenewalPerPeriod` is about
rows (at most one *pending or paid* renewal of a period), holds under every fault and is
proved; `RenewalCapturedOnce` is about the card.

**InvBook** checks `TypeOK`, `NumbersAreGapless`, `OneProjectionPerPeriod` and
`ImplementsBook`. Three writers race for numbers: the admin, the sweep and the webhook.
Three numbers suffice for a draft, a renewal document that retires it and a credit note,
or a document with two credit notes. With two admin requests `ImplementsBook` fails
(section 8); the race for numbers among any number of admins is covered by the proof of
`SeriesIsGapless`.

**InvPeriod** checks `PeriodIsPaidFor` (no day more than renewals and marked invoices
account for) and `PaidDaysAreKept` (and, without renewals, no day less), while two linked
invoices are marked and unmarked in any order between renewals, cancellations,
reactivations and queued downsizes. Two invoices are the least for one's unmark to meet
the other's extension. `MaxKept = 1` bounds the otherwise endless cycle of marking
and unmarking with an extension left behind each time.

**WebDeals** and **WebDesk** choose a part at the start and check one property per
concern, a conjunction over the parts it is about:

| Property | Parts | Claims of 2.5 and 2.6 |
|---|---|---|
| `BoardSettles` | board, stages | of that name; `NoStageIsLost`, `OrderSettles` |
| `CardObeysTheHand` | board, card | `CardStaysWhereDropped`, `OnePressOneEffect` |
| `DecisionReachesItsDeal` | life | `ReasonReachesItsDeal`, `ClosedMeansDecided` |
| `CalendarIsTrue` | event, reminders, agenda | `OwnTitleStays`, `PickedSlotIsValid`, `SwitchIsItsReminders`, `NoFalseEmptyDay` |
| `FormsKeepTyping` | form, entry, draft | `FormKeepsTyping`, `OneRecordPerDraft`, `ColleagueIsNotUndone`; `LastWordIsStored`, `RefusalIsTakenBack`, `OneEntryPerDraft`, `TypingIsKept` |
| `ListsKeepTheirPlace` | list, search | `NotStranded`, `BasketSurvives`, `HitsAreOfTheWord`, `OpensWhatIsPointed` |
| `FiledTogether` | capture, autofill | of that name; `FieldsAreOfTheNumber` |
| `ImportedIsPreviewed` | import | of that name |
| `SessionIsItsOwn` | session | `SignInOutrunsRefresh`, `ShownIsSignedIn` |
| `ScreenKeepsItsWord` | checkout, bulk, widgets, tour | `GoesAsConfirmed`, `MailedAsShown`, `NewWidgetIsLast`, `TourStartsOver` |
| `DashboardSettles` | widgets, todos | of that name; `PagesFollowRule`, `OwnLinkSleeps`, `TodosSettle` |
| `OneUpgradePerCard`, `ActedForItsOrg` | plan, console | of those names |
| `MembersKeepTheRules` | members | `SeatWasFree`, `LastAdminStays`, `RightsAreGiven` |
| `TokensAreSingle` | tokens | `LinkIsNewAndNewest`, `ResetEndsSessions`, `OneTokenPerSignIn` |
| `OwnershipIsKept` | owners | `TakenWhenDue`, `CapIsKept`, `HistoryNamesOwner` |

Their bounds are the definitions of `MCDeals` and `MCDesk` and the values in the two configurations, and what they allow
is the shortest history in which two things can go wrong at once:

- *board*: two cards, two columns, two moves awaiting answers over two cached windows, three states of the server: an
  overlap, a rollback of one of the two and a refetch that began before either. Cards, columns and slots for moves are
  interchangeable and used for symmetry.
- *entry, draft*: three texts and three edits, so that a save is overtaken and another one refused; two notes, one kind
  to pick and one to make.
- *card*: three presses, on either device: a tap after a long press after a drag.
- *life*: four stages, two deals, two requests, one of them a colleague's.
- *form*: three words (one of them blank) and five taps: open, type, save, leave, open again before the answer.
- *list*: three rows of which the word finds two, one row per page, six taps: three pages, one tick on each, and the action.
- *event*: a day of three quarter hours, the last of which starts at the last option, so that every clamp of
  `timeOptions.ts` is met; four taps.
- *agenda*: weeks of three and months of four days in a calendar of twelve: weeks that straddle two months.
- *capture*: two companies, both with a main contact, five taps and every answer lost, refused or late.
- *stages*: three stages, of which one cannot be deleted, one more to add, two orders on their way and three acts of the two admins: an
  order that is computed before and arrives after a deletion, an addition or another order.
- *search*: the words "", "no" and "nov", one of them too short to ask for; six keys.
- *reminders*: three rows for the code's five, so that the limit is met, and five acts.
- *todos*: a user with two lists or with none, one list to be made, two deals, and three acts in the two tabs: link, open a picker
  and send from it in either order, with a read in between. Lists and to-dos are read as one answer, as every write invalidates both.
- *autofill*: three numbers: known with a VAT number, known without, unknown.
- *import*: two files, two mappings, seven taps: a file read late joins a report that is on screen.
- *session*: a user and the super-admin who acts as the other, six taps; *checkout*: two plans, two runs; *plan*: two people
  besides the admin and four seats, so that an upgrade and a downsize both fit, two requests under way and six taps: type, ask, leave, come back,
  type and ask again while the first is charged; *bulk*: two companies, one of them with an
  address of its own and one of a person, a typed and a picked filter; *console*: two organizations and two invoices; *widgets*: three widgets,
  two saves under way; *tour*: two tours of two and three steps, one of which waits for its target.
- *members*: a founder, a member who may invite and somebody outside, two invitations, two or three seats of a contract of three, two
  requests at a time and four acts: the least for an invitation to take the last seat, be accepted while another request runs, and
  make somebody who changes the first two.
- *tokens*: two browsers, two requests, two links, three refresh tokens and four acts, from three users (none, one by Google, one
  with a password): a link that is replaced while it is used, a rotation in each browser, a reset between two sign-ins.
- *owners*: two companies, two owners of whom one may own one, two requests beside the sweep and four acts: the clock runs out, the
  sweep looks, and the owner or the clock changes before it commits.

Symmetry is used in the safety runs of `Payments` (charge ids, requests, handlers, users other than
the owner) and in the two-admin run of `Invoicing`, in `WebDeals` for cards, columns and slots, and in `WebDesk` for the requests to the
server (`Hands`): no action or property tells members of these sets apart.

## 5. Fairness

`FairSpec` assumes weak fairness of

- `Tick`: the clock runs;
- `SweepStep`: `_PeriodicRunner` runs the job every hour, catches what it raises and
  runs it again, and a call to ComGate has a client timeout;
- `GatewaySettles` for each payment: ComGate settles or expires every payment;
- `Webhook` for each payment, its read and its commit: ComGate repeats a notification until it is answered 2xx, and
  a handler that has read commits unless its worker dies.

Nothing is assumed of the customer, of an administrator or of a request in flight: they
may stop at any point. `PayLive` has no faults: weak fairness of `SweepStep` would not
exclude a sweep that crashes every time.

## 6. The proofs

All theorems are for every value of the constants allowed by the assumptions of their modules: for the server a
finite set of users that contains the owner, positive
period lengths with the monthly one not longer, natural bounds, distinct "null" values; for `Desk` and `Deals` what `DeskAssumption`,
`PagesAssumption` and `DealsAssumption` list part by part: finite sets, distinct values for what is shown and what is not, an
order of stages in which none occurs twice, at least one company to pick, a step of the times of day no longer than the day. The lists,
texts and forms of the parts no theorem is about are in them too, because a composition is instantiated as a whole.
The bounds are constants like any other: the theorems do not depend on their size. What a theorem assumes beyond that
is in its row, and each such assumption excludes a case in which the program breaks the property (sections 7 and 8).

| Theorem | Statement | Assuming |
|---|---|---|
| `PaymentsProofs!TypeCorrect` | `Spec => []TypeOK` | |
| `PaymentsProofs!Inductive` | `Spec => []IInv` | |
| `PaymentsProofs!RenewalsAreSingle` | `Spec => []OneRenewalPerPeriod` | |
| `PaymentsProofs!AlwaysReconcilable` | `Spec => []ReconcilableByRefId` | |
| `PaymentsProofs!AcknowledgedIsFinal` | `Spec => []AcknowledgedIsSettled` | `"early" \notin Faults` |
| `PaymentsProofs!OwnerNeverLockedOut` | `Spec => []OwnerStaysActive` | |
| `PaymentsProofs!CapturesInductive` | `Spec => [](IInv /\ CaptureInv)` | |
| `PaymentsProofs!PaidStaysPaid` | `Spec => PaidIsFinal` | |
| `PaymentsProofs!CardIsOfAPaidCheckout` | `Spec => []CardComesFromPaidCheckout` | |
| `PaymentsProofs!RenewalIsCapturedOnce` | `Spec => []RenewalCapturedOnce` | no `"crash"`, no `"timeout"` |
| `PaymentsProofs!SeatsInductive` | `Spec => [](IInv /\ SeatsInv)` | no grants by a super-admin |
| `PaymentsProofs!CapIsContracted` | `Spec => []SeatsWithinContract` | no grants (and, in the property, no commit over unseen seats) |
| `PaymentsProofs!UpgradesOnlyRaise` | `Spec => UpgradeNeverLowers` | no grants (likewise) |
| `PaymentsProofs!ContractsArePaidFor` | `Spec => []ContractIsPaidFor` | a subscriber, no grants, no `"timeout"` |
| `PaymentsProofs!AlwaysAnEnd` | `Spec => []ActiveHasAnEnd` | no complimentary access |
| `PaymentsProofs!DunningFair` | `Spec => DunningIsFair` | finitely many charges, no complimentary access |
| `PaymentsProofs!DaysArePaid` | `Spec => ExtensionIsPaid` | super-admins only cancel |
| `PaymentsProofs!ManualPaymentExtendsPeriod` | `Spec => ManualPaymentKeepsTail` | |
| `InvoicingProofs!TypeCorrect` | `Spec => []TypeOK` | |
| `InvoicingProofs!SeriesIsGapless` | `Spec => []NumbersAreGapless` | |
| `InvoicingProofs!ProjectionsAreUnique` | `Spec => []OneProjectionPerPeriod` | |
| `InvoicingProofs!BookIsKept` | `Spec => ImplementsBook` | `OneAdmin` |
| `InvoicingProofs!PeriodIsPaid` | `Spec => []PeriodIsPaidFor` | `OneAdmin` |
| `InvoicingProofs!PaidDaysStay` | `Spec => []PaidDaysAreKept` | `OneAdmin` (and, in the property, nothing renewed yet) |
| `PeopleProofs!MembersInductive` | `DeskSpec => [](screen = "members" => MembersInv)` | |
| `PeopleProofs!MembersKeepTheirRules` | `DeskSpec => MembersKeepTheRules` | |
| `PeopleProofs!TokensInductive` | `DeskSpec => [](screen = "tokens" => TokensInv)` | |
| `PeopleProofs!TokensStaySingle` | `DeskSpec => TokensAreSingle` | |
| `PeopleProofs!OwnersInductive` | `DeskSpec => [](screen = "owners" => OwnershipInv)` | |
| `PeopleProofs!OwnershipStaysKept` | `DeskSpec => OwnershipIsKept` | |
| `WebProofs!DialogsActOnTheirOrg` | `DeskSpec => []ActedForItsOrg` | |
| `WebProofs!SessionStaysItsOwn` | `DeskSpec => []SessionIsItsOwn` | |
| `WebProofs!CardIsNotChargedTwice` | `DeskSpec => []OneUpgradePerCard` | |
| `WebProofs!LeavesAsShown` | `DeskSpec => ScreenKeepsItsWord` | |
| `WebProofs!DeskIsTyped` | `DeskSpec => []DeskTypeOK` | |
| `WebProofs!DashboardsSettle` | `DeskSpec => []DashboardSettles` | |
| `DealsProofs!BoardsSettle` | `DealsSpec => []BoardSettles` | |
| `DealsProofs!CardsObey` | `DealsSpec => []CardObeysTheHand` | |
| `DealsProofs!DecisionsReach` | `DealsSpec => []DecisionReachesItsDeal` | |
| `DealsProofs!CalendarStaysTrue` | `DealsSpec => []CalendarIsTrue` | |
| `DealsProofs!CapturesAreTogether` | `DealsSpec => []FiledTogether` | |
| `DealsProofs!FormsKeep` | `DealsSpec => []FormsKeepTyping` | |
| `DealsProofs!ListsKeep` | `DealsSpec => []ListsKeepTheirPlace` | |
| `DealsProofs!DealsAreTyped` | `DealsSpec => []DealsTypeOK` | |
| `DealsProofs!ImportIsPreviewed` | `ImportSpec => []ImportedIsPreviewed` | |

`TypeOK` of each machine of the server is proved first and is a conjunct of the invariants. The lemmas of
`BillingProofs`, one or two per operator of the vocabulary (the type of what it returns, and which fields it changes), serve both
machines.

### 6.1 The card rail

**Renewals are single.** The per-period guard counts committed rows, and the row of the
running sweep is not committed, so the guard alone says nothing about the moment of the
commit. `IInv` adds `SweepHolds`: while a sweep runs, its row is a flushed renewal and no
live renewal has its period. That is preserved because only the sweep creates renewals
(the advisory lock admits one sweep), and because everything else only moves rows forward:
`Evolves`, one lemma per group of actions, says that a row keeps its kind and period and
goes to `paid` only from `pending`. `RequestsHold` is needed for it: a request that fails
overwrites the status of *its* row, so one must know that row is committed and not a renewal.

**Handlers.** `HandlersHold` says of a webhook between read and commit that its charge is not acknowledged, in no other webhook's hands,
and pending, or failed by the request it came from or a checkout paid first. That the commit of a renewal makes no
second live row of a period follows: it moves its own pending row to `paid`.

**Reconcilable.** The request commits before it calls; `RequestsHold` says that from the
call on the row is committed, and `Evolves` that rows never leave the table. It is conjunct of `IInv`
because the two support each other.

**Acknowledged is final.** `AcknowledgedForGood` strengthens "not pending" to "paid, failed
or lost": an acknowledged row that was merely *flushed* would become pending when the sweep
commits. A webhook is acknowledged without effect only for a row in one of these three states,
or for a flushed one when the notification may be early, which is where the assumption on
`Faults` enters; and by `Evolves` and `SweepHolds` no row leaves these states.

**The owner.** Victims are deactivated a period after they were chosen. `OwnerIsSafe` adds
that the owner is not among the victims *now*, nor among those a handler has read and may deactivate when it
commits; each funnel that removes victims also empties the queue or leaves it untouched (`PaymentVictims`, `OperationVictims`).

**Captures.** `CaptureInv` ties the charges to ComGate: what was never called is unknown there, what is paid was
captured, no two holders (requests, the sweep) share a row, a row somebody still holds before the call is not captured, and the outcome a
webhook asked ComGate for is still what ComGate says (`HandlersConfirmed`). A checkout or renewal
that is paid can then be overwritten by nobody: siblings are pending, and a request fails only its own row
(`PaidStaysPaid`). The card is written by one webhook, together with the status of its checkout
(`CardIsOfAPaidCheckout`). For `RenewalIsCapturedOnce` the link goes the other way: `CapturableIsLive` says that
a renewal ComGate may still capture, or has captured, is live on the books or is about to be committed by the sweep
that called for it. Two captures of one period would be two live rows of it. A lost answer records a captured
renewal as failed, and a crash rolls its row back: exactly the faults the theorem excludes.

**Seats and contract.** The handlers decide on copies, so the invariant is about what they decided: `PutsAllowed` and
`UpgradesAllowed` say that the seats a handler is about to write fitted the contract it read, and `NeverComp` that no copy is complimentary.
Beside these, either the organization has not paid yet, and then has no card, no upgrade, no invoice and no reader who saw it active
(`BeforeFirstPayment`), or its cap is within the contract, or it was overtaken. `CommittedSeats` carries the step: a commit that is not over unseen seats
writes what it would have written had it been alone. `CoverInv` needs no such escape: a paid charge covers the contract, the queue and the users who are active, and
likewise *every copy an open transaction decides on*; the row after a commit mixes columns of the two, each of which is covered. `MoneyStays` adds that no
payment is overwritten.

**Dunning and days.** `FailuresCounted`: the counter of the row, the copy the sweep read before its call and those the webhooks read never
exceed the failed renewal charges. Proving it showed that the property could not be stated per period: a charge of an older period that fails late counts
too. `DaysArePaid` and `ManualPaymentExtendsPeriod` rest on the types and on which fields each operator changes. `EndIsKnown`, of the row and of what is
read of it, gives `ActiveHasAnEnd`, which makes "the unused tail" a number. The assumption is the price of a clock in days: a grant of
complimentary access clears the end, and an overlapping webhook that computes the very end it had read does not write it (`Overwrite`).

### 6.2 The documents

**The series.** `NumberIsNext` says that a transaction which took a number holds the lock and
its number is `counter + 1`; `WritesDocuments` that what it will insert is a document. With
them, a commit extends `1 .. counter` by one and a rollback leaves it alone.

**Projections.** The sweep checks before it takes a number. `ProjectionsAreSingle` says that the draft it holds is of a period without one,
which no other step can spoil, since nobody else makes projections (`NoNewProjection`).

**The book.** With one administrator `LoadedIsCurrent` holds: what a request read is still so when it writes. Then every step maps to
`Recorded` of `InvoiceBook` or to a stutter. That the credit notes of a document add up to no more than it is `CreditInv`: they do
(`CreditsFit`), the note a request is about to write would still fit (`NotesWillFit`), and what a note refers to exists (`OriginalsExist`).
The service adds up the notes when it *checks*, and inserts after it has waited for its number; in between only the
request of another admin could raise the sum, so `OneAdmin` carries the proof exactly where the code holds no lock
(section 8). TLC checked `CreditInv` as an invariant first.

**Sums.** The sum is `MapThenSumSet` of the community modules, a recursive function over the subsets of a set that takes the element CHOOSE names
first. The library's induction takes an operator as parameter, so the lemmas argue by a smallest counterexample instead: `LeastOf` takes the least
of a set of numbers from the well-foundedness of `<`, `SmallestOf` the subset with the fewest elements at which something fails. From
these follow that there is such a function (`SumsAreDefined`), that the order does not matter (`SumsOfAnyFirst`), and what the proof
needs: one note more adds its amount (`SumOfOneMore`), and fewer notes never add up to more (`SumOfFewer`).

**The period and its days.** `PaidFor` counts: the period is at most as long as the finitely many renewals, the
invoices that are flagged paid and the extensions left in place. `ExtensionsRecorded` ties an `ext` row to the subscription
before and after it. For the other direction the extensions that are live are a stack while no renewal interferes (`StackInv`): they lie on each other in the order of
their marks (`StackInOrder`), and what was there before a mark holds the days of all that are live below it (`BeforeIsBelow`), so taking one
back takes one month. A dead one of a paid invoice belongs to a subscription that was cancelled (`DeadIsCanceled`).

### 6.3 People, links and owners

`Desk` is one part per behaviour, and the invariant of a part is proved under `screen`; `OneAtATime` says that a step of `Desk` is
a step of the part on screen and of no other.

**Members.** `MembersInv` has four parts: types; `StillAsRead`, what a request that nobody overtook decided upon is still so; `GoesAsAsked`, where a request
leaves its person, and that a downsize spares its author; `RightsAreHandedOn`, which extends `RightsAreGiven` to open invitations and to
requests under way. The steps of `SeatWasFree` and `LastAdminStays` then read the state that was decided upon. The attempt showed that `LastAdminStays`
had an exception the bounds of the run do not reach, his own acceptance of an invitation.

**Tokens.** Identifiers are given once and in order (`IdsAreGivenOnce`), `NewestIsKept` says that an older link is there only next to one an overtaken request made, and `NoneOvertaken` that a
request which nobody overtook finds the rows it read. `OneTokenPerSignIn` did not survive the proof as it was: a chain two requests rotated at once
keeps two tokens for good, beyond the three tokens of the run. Lateness is therefore inherited along the chain.

**Owners.** `OwnershipInv`: what a request found is as it found it (`StillAsRead`), requests fit their kind, a clock that is out once ran, and an
open row of the history is of a company that is there and names its owner.

### 6.4 The client

**Dialogs of the console.** `ModalIsOfTheRow` says that an open dialog was filled in for the organization the drawer
shows: selecting another row, which the keyboard can do from under a dialog, closes it. With that, what a dialog
sends goes to the row it was filled in for.

**The session.** `ProfileIsOfToken` (the profile that is read or asked for is that of the token, unless the token changed hands with the
cache left as it was), `NoProfileAtTheDoor`, `FoundingIsAlone` and `ExchangeIsBeforeTheGate` support each other: together they say that where two
requests about the account may be under way at once, neither can answer for the other's token.

**One upgrade per card.** Requests and charges outlive their card, so the argument is about cards by number. `CardsSoFar`: what is under way is of
a card there was. `ChargeLocksCard`: a charge of the card on the screen holds its lock. `OneOfEach`: of each card at most one request or charge is under
way. Only the form sends (`CardIsLocked`: it is locked while anything of that card is under way), a refusal turns the
request of a card into its charge (whether the card is there or not), and everything else sends nothing new (`NothingNewIsSent`); a card that
comes back has a new number, of which nothing is under way. Types come first, since the number of seats needed is a cardinality.

**Leaves as shown.** For the checkout `OwnRunIsShown`: a submission that still has its form finds it as it was submitted, with
its plan and the consent; closing the form takes the submission from it, and the doors that pay for a subscription lock their form
while they save. For the campaign `TickedAreListed`, `TickedAreWanted` and `AwaitedIsShown`: the awaited resolution is of the
filter on screen, and with nobody dropped since. A tour comes on screen in two actions, and each puts the cursor on its first step.
A new widget is the last on the phone because the order shown there, computed from the stored order and the grid, shows just what the grid
holds, however far the two have come apart (`PhoneShowsTheGrid`); `LayoutsAreSound` is the type invariant of the editor with that
of what is stored, cached, read and sent. Both orders are filtered sequences, and the filter (`Only`) is a fold of the community modules,
a recursive function on the subsets of the places of the sequence: `FoldIsDefined` shows that the function
exists, by well-foundedness on the number of places (`LeastOf`), and `FoldByPlaces` that it takes them one by one.

**Types.** `DeskTypeOK` collects the types of the parts. Each is a conjunct of the invariant its part already has, or, for the console, the campaign,
the tours and the to-dos, inductive with a few types more: what is asked for, read or on its way has the form of the data,
and a list that is made, deleted or renumbered occurs once in the order. The types of members, links and owners are those of `PeopleProofs`.

**Dashboards settle.** `ReadIsStored`: with no save on its way, a read that was taken, and a cache that is valid, are what is stored;
every save that could make it false invalidates. `OnScreenIsStored` says the same of the to-do lists; `Kept` says what
an answer is made of, and `OwnLinkSleeps` is itself preserved.

**The import.** `ReportIsOfEntries` (unless an entry changed under it, a report on screen is of the entries as they are),
`PreviewIsOfEntries` (the same of the preview under way) and `ReportIsAlone` (there is no preview under way while the third
step is open) support each other: a preview that answers becomes the report, and every change of an
entry throws the report away, leaves the step or is recorded (`ChangesAreNoticed`). The wizard commits from the report.

### 6.5 The pages around deals

As in `Desk`, an invariant is proved under `screen`: `EachBegins` and `EachByItself` say that `Deals` starts in, and steps by, the part on
screen. `Deals` keeps its parts in the cells `s1 .. s24`, and the lemmas speak of the cells; the paragraphs of 2.6 name the variable of each.

**The board.** `BoardInv` has two halves, one for each thing a stale answer can spoil. `AloneMovesShow`: since a move that had no other
under way was made, nothing is being fetched, because `onMutate` cancels it and only the end of the last move starts a fetch; so the variants it
was written to still show it, unless a second move is of the same deal. That is `CardStaysWhereDropped`. For `BoardSettles` three conjuncts support each
other: `VersionsAreOfLog` (what is read or confirmed is a version the server had), `OnlyOneIsRead` (nothing but the variant on
screen is fetched, and what a fetch read is no older than what is confirmed, as every answer starts it anew), and `GoodToShow(w) => IsOfServer(w)`
once no move is pending. The variant on screen is good without having failed, another one only if it was not invalidated: the rollback
that leaves a variant with something the server never had is a rollback that marks it. The last two, like the property, hold until the user changes
the range while a request is under way (`s6`).

**A card.** `GestureInv` ties what a press has done (`did`) to what the handlers know of it: while the finger is down (`PressSoFar`) and while the
click is still to come (`ClickToCome`).

**The stages.** `ListsAreOrders`: every list there is, shown, read, on its way or stored, has each stage at most once, and the server has those made and not deleted.
It needs lemmas on sequences: swapping two neighbours, taking one out and appending a new one keep a list free of repetitions
(`SwappedKeepsStages`, `WithoutDropsOne`, `AppendedAddsOne`) and change its stages by none, that one and that one. `ListIsCurrent` says that what the section shows is the
server's order, or will be read, or somebody else has changed it. `OneAtATime` and `AskIsOnItsWay` are about the admin who waits for each answer:
he has one request on its way, and it asks for the order he meant.

**Decisions, the calendar, reminders.** `SentWasTold` extends `ReasonReachesItsDeal` to requests under way. `EventInv` and `AgendaInv` add types to their properties:
every clamp of `timeOptions.ts` yields a slot, for every step and length of the day, and the grid of the agenda is recomputed with each step and contains the day
selected. `RowsInv` says that the keys of the rows, and the reminders they stand for, are apart and numbered below the next one; otherwise a new row could take over the box
of one that was removed.

**Capture and autofill.** `Together` is the set of submits that may be under way: what is still to be done follows the company, and what a clean one is filed with is of
it. `FormIsTogether` says the same of the form before the submit. `AutofillInv` says that what was filled in goes with its number, in the form and in the
lookup; leaving the number clears it. Of the forms, only those that clear make the promise.

**Elements of a sequence.** Saves under way are a sequence that loses an element wherever an answer arrives. What the proofs need of
that is in six lemmas about `TakenOut(s, i)` (`SubSeq(s, 1, i - 1) \o SubSeq(s, i + 1, Len(s))`, as the models spell it) and `Places(s, P)`, the places
whose element is in `P`: an element that stays moves down by at most one place and none is new (`LeftWithout`); the places are one more when an element of `P` is appended
(`OnePlaceMore`), one fewer when one is answered and is in `P` no more (`OnePlaceLess`), and as many as before when an element outside `P` is taken out (`SamePlaces`). The models spell the removal out instead of
calling `RemoveAt`, because every instance of a module that extends SequencesExt makes every later obligation dearer.

**The forms.** One invariant for forty-two components: `FormsInv` is about the record of choices `s1`, whatever it is, and only `FormsAreKnown` looks at
the forty-two. It derives from each what the invariant rests on: a form that creates locks or empties itself (`MakesOnce`), one that is not in `Forgetful` is
not seeded anew while the user types (`KeepsDraft`), and one in `Careful` sends only the fields it changed, or its own (`IsCareful`).
`SavesWhatWasTyped` and `TypedIsKept` say where the last word typed may be: in the draft, in a save under way, or stored. `DraftsAreNotSpent` counts: records made and
creating saves under way together are no more than the drafts begun, and fewer as long as the draft on screen is not sent. With the bare `OneRecordPerDraft` the answer of the
second of two creating saves would break it. `OthersFieldIsNotSent` keeps the colleague's field out of every save under way.

**An entry of the timeline.** Saves are answered in any order, but sent in order: `LastWordIsOnItsWay` says that the last text typed is the one waiting for its debounce, the
last save under way, or, with nothing under way, the one stored, as long as the user and the network leave the row untroubled (`Untroubled`). `AloneIsClear` is the other half,
for a save that never had another beside it: the row shows what it sent, and what a refusal restores is what the server has.

**The draft of an entry.** As for the forms, entries made plus commits under way are at most the drafts begun (`NotesAreNotSpent`); the lock that the row takes when it
sends (`RowIsLocked`) is what makes the second Enter harmless. `RowHoldsWhatItSent` and `MadeIsOnTimeline` carry `TypingIsKept` over the answer.

**The lists.** A page is cut by the order of the rows, so the page holds the rows whose rank lies between two multiples of its size. That such a page is empty only
if all rows come before it needs that the ranks of a finite set have no gap; the proof takes the least row with at least so many below it, by well-foundedness of `<` on `Nat`. With it
`PageIsThere` (a page turned to begins before the last row of what is asked, unless rows went away or the page was turned before the answer) gives `NotStranded`. `SeenIsCounted` is what
the buttons of the pager go by.

**The search.** `PointedIsActive`: the highlight is a number, and it is the number of the hit the user pointed at, so each action that changes the hits has
to reset or keep both. `WordIsShown`: once the answer for the word in the field is known it is on screen, whether it came from the cache, from the network or from a
colleague's change; the hits of the word before stay only while it is being fetched.

TLC checked each of these invariants, in place of the property, on the instance of `MCDeals` before it was proved.

**Types.** `TypedPages` puts beside the invariant of each part the types that it leaves out, and `DealsTypeOK` follows. Most are inductive
by themselves; three are not. What a capture files has a company only because a submit makes its company first (`HasCompany`: past that
request there is one). The reminders a user switched to the free box are among those there were because they are counted from one (`RemindersCounted`).
And what the admin asks for is an order of stages only because each list in flight is one, of whatever length: `Orders` are the
sequences without repetition, since the section may add stages until the spare ones are used up. The import is no page of its own in
this argument: it rests, typed, while another is looked at (`ImportByItself`).

### 6.6 Only model-checked

- Liveness (`RenewalIsDecided`, `LapseIsDecided`): fairness and ENABLED are beyond the prover.
- `PaymentNeverShortens`, the other conjunct of `DaysFollowMoney`: it is not true of every instance (section 8).

## 7. Findings

Each has a run whose only property states what the repository says, and TLC's
counterexample shows what the code does.

1. **A crash of the sweep loses the charge row, and the card is charged again**
   (`BugSweepCrash`, `RenewalCapturedOnce`, `scheduler.py:303`). The docstring
   calls the pending charge a breadcrumb (`scheduler.py:221`), but it is only flushed before the
   card is charged; the commit comes after the whole loop. Trace: due, flushed, ComGate
   captures, the worker dies, the row is rolled back, the next sweep finds no charge for the
   period.
2. **A change of the queue between charge and webhook changes what is delivered**
   (`BugQueueMoved`, `ChargedIsDelivered`, `billing.py:763`). `billing.py:112-114` asks that
   charge and delivery read the same values; nothing freezes them in between.
3. **Two clicks on "mark paid" extend the subscription twice** (`BugDoubleClickPaid`,
   `PeriodIsPaidFor`, `invoicing/service.py:388`). The comment at
   `invoicing/service.py:385-386` says the loser re-reads a paid row; it keeps the object the
   router loaded.

## 8. Divergences no run checks

The models contain these behaviours too; properties are stated so that they hold with them, and say so where
they have to make room for one. Those marked with a property can be reproduced: the property is defined
beside the others and fails in the instance given.

Card rail:

- A **checkout without a chosen plan** is captured and never booked (`Payments!PlanChosenBeforeWebhook`, `payments.py:710`; the
  constants of `PayCheckout` and one tab). The plan in the checkout's payload is priced
  and not stored; the webhook expects one chosen by `choose_plan`
  (`payments.py:689-690`), the client says the checkout replaced that call
  (`components/billing/usePayments.ts:59`).
- A **customer who paid by card becomes past due** (`Payments!OverdueMeansUnpaid`, `scheduler.py:512`; the constants of
  `PayCheckout`). The invoice of a card payment is `issued`, never `paid`, and the overdue sweep, which
  `scheduler.py:459` calls the "bank-transfer / non-Comgate flow", counts it.
- A **lost answer to a renewal** is recorded as a failure and retried after the back-off,
  although ComGate captured the first one (`scheduler.py:316`): the same double capture as finding 1.
- The same for an **upgrade** (`payments.py:428-432`, "no money moved"): captured, recorded as failed,
  and the webhook then finds a terminal row. If the webhook came first, the request overwrites `paid` with
  `failed`, because its session kept the row it inserted (`db/session.py:23`). `PaidIsFinal` leaves upgrades out.
- An **early webhook** of a renewal finds no row, is acknowledged, and the charge the sweep then
  commits stays pending for ever; the per-period guard keeps the period from being
  charged again (`payments.py:627`).
- **Seats on trial are not billed as set.** The checkout is priced from the seats at its start;
  the slider is free until the webhook (`billing.py:686`), and the contract becomes what the slider says then.
- **Two tabs** may both pass the check for an upgrade in progress (`payments.py:376`): both are charged.
- A **downsize list** may name one user twice (`subscription.py:331`): it is long enough and loses fewer users
  than the cap requires.
- **Two upgrades that overlap** may lower the contract and the cap (hazard of `billing.py:718-724`). Trace: both charged, both webhooks
  read the old contract and pass the guard, the larger commits at `payments.py:672`, the smaller waits for the row, then writes its
  smaller number over it. `UpgradeNeverLowers` names that commit (`tx[h].read.contracted # sub.contracted`).
- **A seat change overtaken by a renewal** that lands a queued downsize leaves the cap above the contract (`subscription.py:259`, decided at `:292`,
  committed at `:305`; `billing.py:282-286`): the change fitted the contract it read. A checkout's webhook that commits over such a
  change, or the other way round, does the same. `overtaken` marks these histories.
- **A manual payment overtaken by a renewal** with a queued swap to annual computes the end from the old end and plan and writes it over the
  new one (`billing.py:832-853`): the customer loses most of a year. `ManualPaymentKeepsTail` speaks of the end that was read. Any two
  webhooks that overlap overwrite each other's end in the same way, which `PaymentNeverShortens` names.
- **A renewal undoes an upgrade** that commits between its read of the queue and its commit: the seats of the queue it read
  are written over those just paid for.
- **Three checkouts in flight, two of them duplicates**: a webhook selects pending siblings without a lock and fails them at its flush
  (`payments.py:713-752`, `billing.py:247`), so one paid meanwhile may be overwritten with `failed`. In the model the siblings are
  those of the commit; `PaidIsFinal` is checked, and proved, of that.
- **An upgrade may lower the cap** after an admin has activated the organization with a
  contract below the cap; `UpgradeNeverLowers` is checked without admin operations.
- A **cancelled customer is re-armed** by a failure that arrives later (`billing.py:909` sets the renewal date
  again), and a **hard-cancelled organization is revived** by a success (`billing.py:775`).
- A customer who **lapses after cancelling** and chooses a plan again becomes
  `pending_activation` (`billing.py:337`); having a paid checkout, they are refused another one
  until somebody activates them by hand.
- **Choosing a plan while a checkout is open** changes what the payment buys: the webhook reads the plan
  of the subscription, not of the charge.
- **Activation by hand** moves the period and not the renewal date (`billing.py:384`): the card is
  charged on the old date, that is early. It does not reset dunning either.
- **`pending_activation` keeps access** until the end of the trial, whether a payment is under way or not.
- A **checkout of a past-due organization** starts its period at once, whatever was left of the old one; so does
  a renewal in flight that lands after that checkout.

Invoicing:

- **Two admins** void and flag paid the same invoice (the void's in-service guard is as stale as that
  of finding 3 and the void wins, `invoicing/service.py:550`), or write two credit notes that only
  together exceed the document (`invoicing/service.py:602`): `ImplementsBook` is checked with one.
- **A late draft.** The sweep checks, the renewal retires the drafts it sees, the sweep commits
  (`invoicing/service.py:179`): a projection of a period that is already paid.
- **Confirmed drafts are not retired**, so a draft confirmed before the card renewal and the automatic
  invoice bill one period twice (`invoicing/service.py:171`).
- **Unmarking** restores dates and status, not the seats of an executed downsize nor the users it
  deactivated (`invoicing/service.py:512`).

Web client, deals and calendar:

- **A board read before a write stays on screen** (`Board!NoPreWriteSnapshot`, `app/deals/cache.ts:6-13`): a fetch that
  began before the write may land after the invalidation that should have replaced it, in a window that is not on screen.
- **Escape in the kind picker throws the note away** (`TimelineDraft!NoteSurvivesPicker`, `TimelineDraftRow.tsx:16`): the
  dialog's focus trap sees Escape first and closes the dialog.
- **A reopened or moved deal may stay paid** (`DealLife!PaidOnlyWhileWon`, `deals.py:603-605`).
- **Two quick presses on an arrow of the stages**: the second order is computed from the list before the first and undoes it, and a
  refused order is not followed by a read, so the next one is refused too (`PipelineSection.tsx:231-239`). `hasty` and `meddled`
  mark the histories for which `OrderSettles` does not promise what was asked for.
- **A number box of a reminder vanishes while it is typed into** (`Reminders!BoxStaysWhileTyping`, against the comment at
  `ReminderRows.tsx:47-48`): an emptied box is 0, a preset, for a lead time that came with the event. Reminders filled in again keep
  the keys of the rows, and an open box then belongs to another reminder.
- **Enter in the list of attendees** takes the first match even when the list is closed, and Escape in a picker closes the
  whole form, as the focus trap sees it first (not modelled).
- **Editing an event moves it to the deal that was picked last** (`EventForm!UntouchedDealStays`,
  `EventFormModal.tsx:396-397`). A turn of the Google status fills the form in again; labels picked
  while a new one is made are undone.
- **"Mark as lost" in bulk reaches deals that were won meanwhile** (`Lists!OnlyOpenAreLost`, `DealsListPage.tsx:246`).
- **A contact of another company** (`Capture!ContactOfItsCompany`, `AddDealModal.tsx:258-259`, `485-488`): a company picked while the panel for a
  new one is open is ignored, and its main contact goes to the new company's deal; a contact may be picked from the
  former company's list. A retry after a failed contact or deal makes the company again.
- **Billing fields keep the name of the former number** (`OrgBillingFields.tsx`): `FieldsAreOfTheNumber` excludes them.
- **A file that is read late joins under the report** and is imported unpreviewed (`ImportPage.tsx`): `meddled`.

Web client, accounts and money:

- **Signing out does not always end the session** (`Session!SignOutEndsSession`): the wizard's way out keeps cookie and
  cache (`CreateOrgPage.tsx:137-140`), a late exchange brings the old cookie back, a failed `/auth/logout` leaves it.
  Acting as somebody else keeps the cache.
- **The upgrade is charged for the number in the field**, not the one that was refused
  (`PlanSettings!ChargedAsRefused`, `OrganizationSection.tsx:118-128`, `usePayments.ts:73-76`): instance `MCDesk` with `Screens = {"plan"}`, as PROPERTY.
- **A customer who leaves the section and comes back is charged twice** (`PlanSettings!OneChargeAtATime`, `OrganizationSection.tsx:118-128`, `:316-323`; the same
  instance, as INVARIANT): the lock is a state of the card, the charge that answers a refusal starts all the same, for the draft
  shown last and without a redirect, and the new card knows nothing of it. Trace: type, ask, refused and charged, leave, return, type, ask,
  refused, charged. The server refuses an upgrade while another one is pending (`payments.py:376-389`), but two requests may both pass that
  check (above).
- **The preview of a new seat count is not the next bill** (`PlanSettings!PreviewIsTheBill`, `OrganizationSection.tsx:363-366`,
  `scheduler.py:287`): it multiplies the price of a year by twelve.
- **Consent given for one plan stays ticked for another** (`BillingSection.tsx`), a refetch of the organization
  fills the details in again, and Escape while the details are saved still creates the payment.
- **A reason typed for one invoice voids the next** (`Console!VoidReasonIsItsOwn`), and **a credit note keeps the lines** of the
  invoice it was opened for when the selection moves (`Console!NoteFitsItsInvoice`).

Web client, the rest:

- **A replayed tour does not reopen** (`Tour!ReplayReopens`, `useTutorial.ts:7-9`, `:48`): instance `MCDesk` with `Screens = {"tour"}`. The
  button and the overlay run the hook once each, and the overlay still believes the tour closed.
- **A refetch replaces a filter that is being saved** (`Widgets!RefetchKeepsChoice`, `ReportsPage.tsx:125`). Edits made during a save
  are dropped when it answers; an answer closes whatever editing session is open by then.
- **Dialogs that were closed while saving and opened again** are closed by the earlier answer, throughout
  (`mutateAsync`, then `onClose`): the set `Forgetful` of `Forms`.
- **The search opens a hit of the word before** when Enter comes within the debounce (`Search!OpensWhatIsTyped`), and says "no results"
  after a request that failed.
- **The boxes of the list switcher act on another list** (`Todos!HandledAsAsked`): a name box or a question that was open when the switcher
  closed is still there when it opens for another list, and sends for that one. Two Enters in the box for a new list make two lists
  (`Repeatable` of `Forms`).
- **A to-do's row on a deal's page names the to-do's own deal** although its list's link decides (`Todos!ChipIsTheDeal`,
  `effectiveDeal.ts:25-29`): the row does not know its list. A to-do added there goes to the oldest list, which may be linked to another deal, and
  then is not on that page.
- **Unticking a recipient within the debounce** of the industry is lost, and the report of a campaign shows up in a wizard opened
  since (`BulkEmailWizard.tsx`).

Seats, sessions and ownership (`stale`, and the exceptions in `TakenWhenDue` and `HistoryNamesOwner`, mark these):

- **Two invitations read one free seat** and both are committed (`invitations.py:195`): one seat too many. **Reactivating** a user asks for
  no seat at all (`users.py:100`), and lowering the seats does not count open invitations (`subscription.py:289`).
- **No admin may be left** (`users.py:61-66`): two demotions at once each count the other admin, a queued downsize
  deactivates an admin if its author is demoted before it lands, and an admin who accepts an open invitation to his own company
  takes its role (`invitations.py:386-389`), with nobody counting.
- **An acceptance overtaken by onboarding** moves the founder of one company into the other and leaves him the role of an admin
  where the invitation gives none: the column he was read with is not written (`invitations.py:386-389`).
- **Two requests for a link** leave two that work (`email_auth.py:152`), against "only the newest link is honored". **Two tabs** that
  refresh at once leave two live tokens (`auth.py:340`), and a sign-in during a reset survives it.
- **An inactive user gets a session by Google** (`auth.py:144-201` asks only at refresh, `auth.py:331`). `db/models/user.py:64-66` says
  that unverified logins are rejected; `email_auth.py:390` says, and does, otherwise.
- **A company claimed from the pool keeps the old clock**: `update_company` sets the owner and not the expiry (`companies.py:575-576`), so a
  company the sweep has freed is freed again the next night. `freeing.py:137-140` names that hazard and cures it for reassignment only; the
  guides have others claim from the pool (`docs/manager-task.md:123`).
- **The history has no row** for a company that was created or claimed, and a release closes a row only if a reassignment opened it
  (`freeing.py:53-61`; its docstring, `freeing.py:6-7`, says that a release writes one).
- **A deal won while the sweep runs** does not keep the company (`freeing.py:101-105`): the clock is fresh and the owner gone. A company
  deleted meanwhile makes the sweep of that night fail as a whole, and one that runs out between the two reads is freed without a mail to
  its owner (`scheduler.py:119-139`).

Server code outside the models where the same hazards show, none of them checked here: an undo deletes by the ids of what it read
before (`imports/undo.py:192`); two refreshes of one Google grant (`google_calendar.py:436`); a campaign sends, then records
(`bulk_email.py:571`); concurrent delivery of one mail (`inbound_email.py:697`).

## 9. What is not modelled

- **Signatures, rate limits, authentication, the HTML and the wording** of the gateway and the mails.
- **VAT, rounding, line items, rendering** (PDF, ISDOC) and the **archive**: arithmetic on decimals and
  I/O; a failure to render is modelled by what it does to the transaction.
- **Several years** in `Invoicing`: the counter and the lock are per year, the years do not interact.
- **Several organizations**: tenant rows are disjoint, except that the sweep commits all of them
  together, which lengthens the window of finding 1 and changes nothing else.
- **The read-only endpoints**, CRUD, reports, search, the business registry and erasure on the server: one
  transaction each and no protocol.
- **The import runner, mail and Google** on the server: in the plan. Of the parts that are modelled: resending an invitation and its mail,
  teams, access tokens, the handshake with Google and impersonation; who sees which company, the owners an import assigns, changes of a
  cap, contacts, and the mails of the sweep.
- **Of the client**: marketing pages and their demos, legal texts, charts, shortcuts, installing as
  an app, look and wording; the generated API types (`types/api.generated.ts`, 15 373 lines of declarations
  without behaviour); ticking to-dos; the pages of the Google
  connection and of privacy exports; attendees of an event; sorting, columns and export
  of the lists.
- **Two parts of the client at once.** Each part is checked alone: they share the server and the query cache, and what a part
  does to the cached data of another is in that other part a refetch or a colleague's write.
- **Rendering.** A component is mounted or not; effects run in the step that causes them, in the order of the source,
  except where a property is about what happens between two renders (`Lists`, `EventForm`).

## 10. Plan

The order is by what a mistake costs. Done: `Billing`, `Payments`, `Invoicing`, `InvoiceBook`,
the web client, `Members`, `Tokens`, `Ownership` and the theorems of section 6. What is left, in this order:

1. **Import and undo** (`Imports`): commit with the owners it assigns, edits, undo (`imports/undo.py`). Property: undo removes what
   nobody touched and nothing else.
2. **Inbound mail, campaigns, calendar grants**: one small module each for deduplication under concurrent
   delivery (`inbound_email.py:697`), send-then-record (`bulk_email.py:571`), and rotation of a refresh token by
   two requests (`google_calendar.py:436`).
3. **An abstract specification of the card rail**: an account with periods, of which each is paid once,
   and `Payments` without faults shown to implement it; then one composition of `Payments` with `Invoicing` that drops
   `dueAt` in favour of the documents.
4. **The rest**: attendees of an event; a composition of `PlanSettings` with `Payments`, whose upgrade it asks for, and of `Members` with
   `Payments`, which moves the contract; an `Ownership` under fairness (an owner whose clock ran out is released).
