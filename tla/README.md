# Harbourstay in TLA+

A verification project for the Harbourstay booking platform: the API in
`apps/api` (NestJS, Prisma, PostgreSQL, Stripe) and the web application in
`apps/web` (Next.js, TanStack Query). Its subject is the part of the program
where a mistake costs nights, money, mails or accounts: what happens when
requests, webhooks, scheduled jobs, browser tabs and lost calls meet.

Paths are relative to the repository; `apps/api/src/` is written `api/` and
`apps/web/` is written `web/`.

1. [The system](#1-the-system) - 2. [Modules](#2-modules) -
3. [What TLC checks](#3-what-tlc-checks) - 4. [Findings](#4-findings) -
5. [What is proved](#5-what-is-proved) - 6. [Not modelled, and the plan](#6-not-modelled-and-the-plan)

## 1. The system

| Component | State it keeps | Operations | What is hard | Module |
|---|---|---|---|---|
| Booking (`api/booking`) | table `booking`: status, refund, price | create, cancel; confirm and expire driven by the saga | cancel reads the row before its transaction; every save is a blind upsert | `ReservationCore` |
| Cancellation policy (`api/booking/domain/policies`) | none | `evaluate(status, checkIn, now, price)` | the edges of its tiers, the copy it is given | `StayRules` |
| Holds (`api/inventory`, `Hold`) | table `hold`, constraint `no_overlapping_holds` | create, commit, release | the invariant spans rows and is enforced by the database only | `ReservationCore`, `NightCalendar` |
| Checkout saga (`api/payment/application/booking-checkout.saga.ts`) | none | onPaymentSucceeded, onPaymentFailed, onHoldExpired | reads without locks, two writes, in-process trigger | `ReservationCore`, `Checkout` |
| Hold-expiry job | ids of the running sweep | sweep once a minute | overlaps with itself and with the payment it races | `ReservationCore` |
| Payments (`api/payment`) | tables `payment`, `processed_webhook_event` | create intent, handle webhook | redelivery, a crash after the ledger row, a second card | `Checkout` |
| Listings and blocks (`api/inventory`, `Listing`) | tables `listing`, `availability_block` | create, update, publish, unpublish, block, unblock | read-modify-write without a lock; a booking checks them on another connection | `ListingWrites` |
| Outbox (`api/shared/outbox`) | table `outbox_event` | enqueue in a transaction; relay every 5 s | publish, stamp and consume are three steps; ticks overlap | `ReservationCore`, `Outbox`, `Delivery` |
| Notifications (`api/notifications`) | table `notification_log` | a mail for each booking event | log read before and written after sending | `Outbox` |
| Transactions (`api/shared/transaction`) | open transactions, connection pool | run | lock order, deadlocks, second connections | `ReservationCore`, `ConnectionPool` |
| Pricing (`api/inventory/domain/services`) | frozen price of a booking | quote, intent amount, refund | rounding; a rate that changes between page and charge | `Quotes` |
| Identity (`api/identity`) | table `user`, two cookies | register, login, refresh | the address is read before it is saved; tokens outlive accounts | `Accounts` |
| Catalog (`api/catalog`) | none | search, detail | four conversions between form and card | `Catalog` |
| Throttling (`api/shared/throttler`) | counters per task | guard of the auth routes | counted by the address the API sees | `Throttle` |
| Host console (`web/app/host`, `web/components`) | lists and flags of a page | block, unblock, publish, unpublish, create, edit | stale cards, lost answers, a full-replace form | `HostBridge`, `HostConsole`, `HostDashboard` |
| Reserve widget | query cache, selection | page, pick, reserve | windows fetched, invalidated and paged at once | `BookingWidget` |
| Pay and confirmation pages | panel, card form, poll | pay, retry, poll | bounded polls, retries, a booking that settles meanwhile | `GuestBridge`, `PayPage` |
| Cancel dialog | preview, phase | preview, confirm | a second implementation of the policy, computed earlier | `CancelDialog` |
| Session on the web | cookie jar, header, forms | log in, sign up, log out, guards | tabs share cookies; a layout is not rendered again | `WebSession` |

How they interact. `POST /bookings` creates a hold and a booking in one
transaction, after two checks on another connection. A payment intent is opened
at Stripe; Stripe calls the webhook, whose transaction marks the payment and then
publishes an in-process event; the event runs the saga, whose own transaction
confirms or expires the booking and commits or releases the hold.
`POST /bookings/:id/cancel` releases the hold and records the refund. The job
expires bookings nobody paid. Confirm and cancel append a row to the outbox, the
relay publishes it on the event bus, and the notification handlers send mail.
Every browser call goes through a bridge route of the web server, whose typed
client turns statuses into errors and whose route turns errors into statuses
again; pages are rendered on the server from the cookies of each request.

Nothing synchronises the API's handlers but PostgreSQL, at READ COMMITTED: no
version column, no `SELECT ... FOR UPDATE`, no advisory lock.

What makes each component correct:

* Booking and hold: no night is sold twice; the two rows agree; a cancelled or
  expired booking gives its nights back; a refund follows the tier of the booking
  that is really cancelled and is never paid for nothing.
* Saga and job: a booking that is not paid in time is settled; no handler waits
  for ever.
* Payments: nobody pays an intent the tables do not know; a redelivered event
  changes nothing; a recorded event reaches the saga; a charge is recorded.
* Outbox and notifications: every row is published, in order, and mailed; a
  second mail has a crash, a failed call or an overlap to explain it.
* Listings: blocks never overlap; a host's listing is changed by its host only;
  a booking never stands on nights that were blocked when it was requested.
* Pricing: the price is the nights and a tenth of them, and what was shown is
  what is charged, whatever the host does to the rate.
* Identity and session: one account for an address, none taken over; a page is
  rendered for a session that is good at that moment; nobody is caught in a loop.
* Pages: what is shown is so, busy controls come back, promises are kept, news
  arrives.

## 2. Modules

One module for each component, three kinds beside them: `MC*` modules give TLC
the instances, `*Proofs` modules hold the theorems (section 5), and
`NightCalendar` and `Delivery` are abstract specifications that a detailed one
implements. `MCPages` and `MCApi` are sums of modules, described in section 3.

### Booking, hold, saga and job: `ReservationCore`, `StayRules`, `NightCalendar`

`StayRules` has the two status enums, which holds count, when two stays clash and
the cancellation policy, as operators.

A booking and its hold are created by one transaction with fresh ids, so one
element of `Reservation` names both rows. `booking[r]` is the status and the
refund (`Absent` before the insert), `hold[r]` the status of the hold,
`outbox[r]` its outbox rows in the order of their commits, `stay[r]` listing and
dates, which no handler changes. A `Worker` is one running handler: `job[w]` has
its kind, the database call it is waiting in (`pc`), the aggregates it has in
memory and the tables in which its transaction has an uncommitted row (`wrote`).
Every `await` of a database call is a step boundary. The tables change in
`Commit` only, which is what READ COMMITTED shows to the others.

| Action | Code |
|---|---|
| `StartCreate`, `WriteHold`, `PassExclusion` / `FailExclusion`, `WriteBooking`, `Commit` | `CreateBookingHandler.execute` |
| `StartCancel`, `ReadHoldInCancel`, `WriteHold`, `WriteBooking`, `Commit` | `CancelBookingHandler.execute`; `StartCancel` is everything before the transaction |
| `StartOutcome`, `ReadBooking`, `ReadHoldInSaga`, `WriteBooking`, `WriteHold`, `PassExclusion`, `Commit` | `onPaymentSucceeded` (kind `confirm`) and `onPaymentFailed` (kind `fail`) |
| `Lapse`, `Sweep`, `StartExpire`, then as above | `HoldExpiryJob.sweep` and `onHoldExpired` (kind `expire`) |
| `DeadlockVictim`, `Fault` | PostgreSQL aborts a transaction of a waiting cycle; a timeout, lost connection or crash rolls one back |

An upsert that passes its row lock (`RowFree`) writes what the handler has in
memory whatever the row has become, as `BookingRepository.save` and
`HoldRepository.save` do. A hold written with a live status goes through
`checkHold`: it passes when no clashing row is live in any version that is or may
become visible (`ExclusionHolds`), fails with 23P01 when a clashing row is
committed and nobody is changing it (`ExclusionViolated`), and waits otherwise.

Abstractions: the TTL is a set of reservations that have passed it (`lapsed`);
the notice of a cancellation is a number of hours; payments are reduced to what
reaches the saga, any number of outcomes for a booking that exists, at any time;
a request that is refused before it touches a row is not a step; the two queries
of the sweep's scan are one step, which `PairsAgree` justifies.

`NightCalendar` is the promise to a host: each night belongs to one reservation
or to nobody. `ReservationCore` implements it under `OwnerOf`, the reservation
whose live hold covers a night: each commit takes all nights of a stay while they
are free, gives all of them back, or changes nothing.

### Payments: `Checkout`

The tables are `booking` (its status: `PairsAgree` says the hold goes with it),
`payment` and `ledger`; Stripe's side is `payFor`, `tries`, `charged`, `emitted`
and `acked`; `bus` holds the in-process events whose saga handler has not run.

| Action | Code |
|---|---|
| `StartPay`, `CreateIntent`, `SavePayment` | `CreatePaymentIntentHandler.execute`, around its call to Stripe |
| `TryCard` | the guest and Stripe: a decline leaves the intent open |
| `Deliver`, `Exists`, `Find`, `Save`, `Record`, `Publish` | `HandleStripeWebhookHandler.execute`, one step for each call |
| `StartSaga`, `StartExpire`, `StartCancel`, `SaveBooking`, `NightsTaken` | the handlers of `ReservationCore`, as a read and a blind write |
| `Fault`, `Crash` | a call fails and rolls back; the process dies with its bus |

### Listings: `ListingWrites`

A host's command is `StartUpdate` / `StartPublish` / ..., `LoadListing`,
`LoadBlocks` (the two queries of `ListingRepository.findById` and the domain
method on the copy), `SaveListing` (the upsert of every column and the difference
of the blocks, by id). A booking is `StartBook`, `Snapshot`, `CheckBlocks`,
`PlaceHold`: `CreateBookingHandler` at the seam. A capacity stands for all
editable columns. The writes of one transaction are a single step, because the
upsert takes the lock of the listing row that every writer of its blocks needs.
`job[w].seen` is a history variable: the blocks that have stood without a break
since a booking request came in.

### Outbox and notifications: `Outbox`, `Delivery`

`Enqueue` is the commit of a row; `StartTick`, `Publish`, `Stamp`, `StampFails`
are `OutboxRelay.publishPending`; `Look`, `Send`, `Mark` are a notification
handler, which the bus starts and does not wait for; `HandlerFails` is what the
bus swallows, `Crash` takes ticks and handlers. Rows are numbered by `occurredAt`
and need not commit in that order. `Delivery` has no table, relay or log: which
events are owed, how many mails went out, what went wrong. `Outbox` implements it.

### Identity and session: `Accounts`, `WebSession`

`Accounts` is the API: `Register`, `CheckEmail`, `SaveUser` around the hashing of
`RegisterUserHandler`; `Login`, `Compare`; `Refresh`; answers with their cookies
(`Receive`), lost ones (`Lose`), refusals (`Refuse`), time (`Tick`, `Evict`), and
an operator who removes an account (`Delete`, external). Tokens are stateless
records with an expiry; the unit of the clock is the access token's 15 minutes.
Typed addresses are normalised by `Normal`, as `Email.create` does.

`WebSession` adds the tabs: `Visit` and `Pushed` render a page from the cookies of
that moment (`Landing`: `requireUser`, `requireHost`, the pages that skip their
form), the forms and bridges (`SubmitLogin`, `SubmitSignup`, `SettleForm`), the
header that only a refresh renders again, and the logout button. A tab has one
request of its form in flight, since the submit button is disabled meanwhile.

### Pages: `HostBridge`, `HostConsole`, `HostDashboard`, `BookingWidget`, `GuestBridge`, `PayPage`, `CancelDialog`

The bridges are operators: exception to status (the API's filters), status to
error (typed client), error to status (bridge route). A page's actions are the
clicks its component enables, the API's answer (`Load`/`Save`, `Serve...`), a lost
or failed call before or after the commit, and the branch of the handler that
settles it.

* `HostConsole`: the availability page with one addition and any removals under
  way; every answer replaces the whole list.
* `HostDashboard`: the cards with their publish toggle, and the editor form, which
  is filled from the row and replaces every field on save.
* `BookingWidget`: one query-cache entry per visible month, each a window of two
  months; clicks on days; the reservation and its conflict branch, or the way to the
  login page; rivals who take and give back nights. `Refetched` is what TanStack
  Query makes of an invalidation: a fetch under way is abandoned for a new one where
  the entry has data, and left to finish where it has none. `owed` is a history
  variable: the stays a month's calendar led the guest into and was refused for.
* `PayPage`: the pay page with countdown, panel and card form; the booking, which the
  saga, the job and a cancel overwrite in any order (`Settle`); Stripe (external);
  the confirmation page with its poll, client retries and cap. `Fields` is what
  `GET /bookings/:id` answers with (see section 4).
* `CancelDialog`: the booking's page, the preview, the confirmation, and the
  server's decision at a later hour. The saga's transactions read the pending
  booking (`SagaReads`) and save their copy over whatever has become of it
  (`SagaSaves`), so a cancelled booking can be shown as confirmed again; the refresh
  of the page arrives, or ends on the error page or at the login. The cancel handler
  is one step here (`ServeCancel`); `ReservationCore` has what comes between its
  steps.

### Catalog, prices, connections and limits: `Catalog`, `Quotes`, `ConnectionPool`, `Throttle`

* `Catalog`: form to address (`Pushed`), address to query (`ParseSearchParams`),
  query to rows (`Matches`, `Sorted`), rows to cards (`SummaryParses`), and the
  detail page. The search's dates are parsed and never filter, as in the code.
  `Windows` are the dates a client may ask a hint for; the API does not require
  that the first comes before the second.
* `Quotes`: the rate, the quote a booking freezes, what the pay page shows, the
  intent asks and the card is charged. Amounts are minor units, `MaxInt` is the
  edge of the 32-bit column. `MinCharge` is Stripe's.
* `ConnectionPool`: requests that hold the connection of their transaction and ask
  for a second one; `MaxWait`, `Refused` and `TxTimeout` are the library's limits.
  `InUse` is the set of connections taken.
* `Throttle`: the auth tier as pages meet it; `Hit`, `OverLimit` and `Unblocked`
  are the semantics of the library's in-memory storage, one for each API task;
  `Timers` are the hits that still count.

## 3. What TLC checks

Twelve runs; nine pass, three show a disagreement (section 4). `MaxFaults`,
`MaxCrashes`, `MaxFailures`, `MaxTries`, `MaxOutcomes`, `MaxRateChanges`,
`MaxWrites`, `MaxRivalry`, `MaxTime`, `MaxAccounts` and `MaxIntents`, and of the
widget `MonthLength`, `LastMonth` and `Clicks` (the days a guest clicks on), are bounds of
the models, named in the modules that declare them; everything else is finite.

| Run | Instance | Checked | Shows |
|---|---|---|---|
| `core_nights` | 2 reservations, 2 workers, stays `[0,1) [1,2) [0,2)` | `TypeOK`, `NoOverbooking`, `ImplementsCalendar` | no double booking; touching stays do not collide |
| `core_settles` | 1 reservation, 2 workers, 2 outcomes, 1 fault, notices of 168, 48 and 47 hours, fairness | `PairsAgree`, `OutboxTellsStatus`, `RefundOnlyAfterConfirm`, `NightsReturned`, `LapsedIsSettled` | tables agree; two handlers cannot leak nights; an unpaid booking is settled |
| `core_handlers_end` | 2 reservations of the same night, 2 workers, fairness | `HandlersEnd` | every deadlock is broken, nobody waits for ever |
| `pay_webhooks` | 1 intent, 2 cards, 2 workers, 1 failing call, 1 crash, fairness | `TypeOK`, `PublishedOnce`, `ChargedIsKnown`, `ConfirmedIsPaid`, `LedgerReachesSaga`, `FirstCardIsRecorded` | redelivery and reordering are harmless; only a crash keeps an event from the saga; a charge that no decline preceded is recorded |
| `listings` | 2 hosts, 1 listing, 2 block ids, 2 workers, three ranges, 1 fault | `TypeOK`, `BlocksDisjoint`, `OwnerOnly`, `StandingBlockHolds` | copies written back never make blocks overlap, and blocks that stand throughout a request are not booked over |
| `outbox` | 2 rows, 2 ticks, batches of 2 or of 1, 1 failure, fairness | `PublishedInOrder`, `NothingFabricated`, `EveryRowStamped`, `ImplementsDelivery` | no row is passed over, also one that a full batch leaves behind; no stamp or log row is ahead of the truth, a second mail has an excuse |
| `visitor` | two tabs of one browser, or one tab with a fault and time, or two API clients; fairness | `OneAccountPerEmail`, `AccountsKept`, `SessionIsEarned`, `PageFitsVisitor`, `GetsIn` | accounts survive races; pages fit the session; no login loop |
| `pages` | each of five pages with its faults (two for payment), notices of 168, 167, 48 and 47 hours, a price of 101, fairness | `PagesTypeOK`, `ScreenIsTrue`, `RefundAsPromised`, `UntouchedFieldsKept`, `ControlsComeBack`, `ScreenCatchesUp` | what the pages show and promise holds through lost calls, failed refreshes, sagas that save over a cancelled booking and conflicts met while a window is being fetched |
| `api` | quotes with 3 rate changes; 2 listings, 4 host writes, hints for stays and for no night; 3 requests on 2 connections; 2 visitors behind one address, 2 tasks | `PriceIsAllIn`, `ChargedAsShown`, `HintTellsNights`, `LimitsHold`, `AnswersTheGuest`, `EveryRequestEnds` | prices are exact and kept, searches answer what was asked, starving creates end |
| `core_paid_cancel` | 1 reservation, 2 workers | `PaidCancelRefunds` fails | finding 1 |
| `core_leaked_nights` | 1 reservation, 3 workers | `NightsReturned` fails | finding 2 |
| `pay_lost_charge` | 1 intent, 2 cards, 1 worker, no faults | `ChargeIsRecorded` fails | finding 3 |

`pages` and `api` are sums: a behaviour picks one page or one subject in its
initial state, the others stay as they were mounted, so a state of the run is a
state of one of them and the cost is their sum and not their product. A property
of `MCPages` or `MCApi` is a conjunction of properties of the parts (`ScreenIsTrue`,
for instance, is five of them); the modules of the parts have them one by one.
`visitor` is the same kind of sum over three kinds of client.

Two properties of `pages` leave out an edge by name. `ControlsComeBack`
is not about the state `Stuck` of the cancel dialog (`DialogComesBack` in section 4).
`ScreenCatchesUp` is about a month that has been drawn (`ConflictRefetches` there has
the first fetch), and about a booking that settles while the confirmation page has a
poll to come whose answer arrives (`PollToCome`, `LastPollFailed`).

Why the bounds are enough. An overbooking needs two reservations, and a conflict
in the constraint is between two transactions; three stays over two nights give
every relation of two half-open ranges. The races inside one booking need the
handlers that read it, the one that overtakes them, and one more. A webhook's race
is between two deliveries of one event or of a decline and a success: two workers,
two cards. A lost update of a listing needs two commands, and an overlap of blocks
two block ids and ranges that nest and touch. Two rows and two ticks give every
order of commit, publication and stamp, and a failure at each of their steps; with
batches of one (`narrow` in `MCOutbox`) a tick leaves the later row to the next. Two
months, one rival stay across both and clicks on the first two days are enough for a
window fetched, paged away from, refused and invalidated in any order; the hours and
the odd price are both sides of each tier and the half that is rounded. The
registration race is between two callers; the first tab follows every link. A pool
of two with two creates is the smallest where all connections are held by requests
that wait for another one. What the bounds leave out, any number of reservations,
workers, listings, rows, callers, tabs or faults, is what the theorems cover: every
safety property of these runs has one (section 5).

`CHECK_DEADLOCK` stays on in every run: where a system may rest, a named step
(`Quiet`, `Drained`, `Rest`, `Settled`) says in which states, and waiting that
nobody can end would be reported. Symmetry is used with safety properties only.

### Fairness

* `ReservationCore.HandlerFairness`: a running handler goes on, and PostgreSQL's
  deadlock detector aborts one transaction of a cycle. Strong fairness of
  `Proceed(w)`, because a transaction that waits for a row is queued and gets it.
  `SweepFairness`: the sweep runs once a minute and handles each id it has
  scanned; `StartExpire` gets strong fairness because the number of workers is a
  bound of the model; the writes of a booking's expiry and cancels are granted
  before those of transactions that come later, as PostgreSQL queues lockers.
* `Checkout`: handlers go on (weak); Stripe delivers an event until it is answered
  with 200, and the bus starts the saga (strong, since both wait for one of the
  model's workers).
* `Outbox`: the interval fires and the event loop resumes what waits.
* `WebSession`: the API answers, the page reacts, and a visitor with an account who
  stays at the login form submits it again.
* Pages: a call that was sent is answered or fails, and the answer is handled; a
  refresh arrives or fails (a router that gets no answer navigates to the page); a
  poll's timer fires; Stripe answers a card. Weak fairness of the steps that are due
  on the page that is open; strong for a window of the calendar, because a conflict
  may restart its fetch.
* `ConnectionPool`: a query ends, and every wait has a limit.

Guests, hosts, Stripe's cards, rivals, the clock and faults owe nothing.

## 4. Findings

Each of the three is a run that expects a violation.

1. **A paid booking is cancelled with refund 0** (`core_paid_cancel`). The policy
   judges the copy read before the transaction; the payment is confirmed in
   between. `api/booking/domain/policies/cancellation-policy.ts:16` promises the
   whole price.
2. **A cancelled booking keeps its nights** (`core_leaked_nights`). Two cancels
   and a confirm of one booking: the second cancel sees the hold the first has
   released and leaves it, the confirm commits it again, the second cancel then
   writes the booking only. `docs/DESIGN.md:73` says cancel "releases the held
   nights". With two handlers at a time it cannot happen (`core_settles`).
3. **A charge is never recorded** (`pay_lost_charge`). A declined card makes the
   payment `Failed`, the panel leaves the intent open for another card, and
   `markSucceeded` throws on a failed payment: every retry of Stripe is answered
   with 400. `api/payment/presenters/http/webhook.controller.ts:23` says
   "handling failure → 400 (Stripe will retry). The dedup ledger makes retries
   safe."

The modules state further sentences of the repository that the code does not keep.
No run checks them; adding the property to the configuration named (as `PROPERTY`,
or as `INVARIANT` where marked I) makes TLC print the behaviour.

| Property | Add to | What the code does | What the repository says |
|---|---|---|---|
| `StateGraph` | `core_settles.cfg` | cancel reads a pending booking, the saga expires it, cancel writes `Cancelled` over `Expired` (`cancel-booking.command.handler.ts:88`) | `api/booking/domain/models/booking.model.ts:45` "State graph (no state may be skipped...)" has no such edge |
| `PaymentFinal` | `pay_webhooks.cfg` | webhooks of a decline and of a success both see `Pending`, the later upsert wins (`handle-stripe-webhook.command.handler.ts:53`) | `payment.model.ts:38` "CONFLICTING transitions throw" |
| `ChargedIsNotExpired` | `pay_webhooks.cfg` | the decline expires the booking while the intent is open for a good card (`booking-checkout.saga.ts:115`) | `web/components/payment-panel.tsx:199` "Please check the details and try again." |
| `RecordedIsConfirmed` | `pay_webhooks.cfg` | a crash between the ledger's commit and the publication loses the confirmation, the redelivery is skipped (`handle-stripe-webhook.command.handler.ts:79`) | line 28 there: "so exactly one confirm / one Payment succeeded / one outbox row results" |
| `OtherEditsKeepBlocks` | `listings.cfg` | an edit deletes a block that was committed after it loaded, and inserts again one that was removed since (`listing.repository.ts:52`) | line 66 there: a "save that changed no blocks writes nothing." |
| `EditsKeepStatus` | `listings.cfg` | an edit writes the status it has loaded and undoes an unpublish (`listing.repository.ts:47`) | `listing.model.ts:17` "ownership, status and timestamps: those are NOT host-editable through this seam." |
| `BlockedIsNotBooked` | `listings.cfg` | blocks are read on another connection and may change before the hold commits (`create-booking.command.handler.ts:71`) | `web/components/availability-manager.tsx:166` "Guests can’t book nights you block." |
| `MailedOnce` (I) | `outbox.cfg` | overlapping ticks publish a row twice, both handlers look before either writes the log (`outbox-relay.ts:29`) | `notification-log.repository.ts:12` "cannot double-record (and therefore cannot double-send)" |
| `NeverLost` | `outbox.cfg` | the row is stamped while its handler still waits; a crash then loses the mail (`outbox-relay.ts:46`) | `adr/0009-transactional-outbox-for-booking-confirmed.md:60` "`BookingConfirmed` is never lost and never fabricated" |
| `TakenIsConflict` | `visitor.cfg` | the loser of a registration race meets the unique index and gets 500 (`register-user.command.handler.ts:41`) | `auth.controller.ts:67` describes the 409 "Email already in use." |
| `RefusedRefreshClears` | `visitor.cfg` | an invalid token or a deleted account leaves both cookies (`auth.controller.ts:109`) | `auth-cookies.ts:39` "Clear both session cookies (logout / invalid refresh)." |
| `LogoutSignsOut` | `visitor.cfg` | when the call fails the cookies stay and the button stays disabled (`web/components/logout-button.tsx:19`) | lines 7-9 there: "navigates home and refreshes so the server components ... re-render as signed-out." |
| `ShownIsServers` (I) | `pages.cfg` | answers of an addition and a removal under way together may arrive in the other order, the older list stays (`availability-manager.tsx:106`) | line 39 there: "and the server (not our optimistic guess) stays the source of truth." |
| `PickedIsFree` | `pages.cfg` | a stay across two months is checked against the window of the visible month only (`booking-widget.tsx:101`) | lines 63-64 there: "so a stay that crosses the month boundary still validates against taken nights on both sides." |
| `ConflictRefetches` | `pages.cfg` | a first fetch that is under way when the conflict comes is left to finish, so its answer may be older than the conflict (`booking-widget.tsx:160`, TanStack Query cancels a fetch only where there is data) | line 157 there: "We refreshed the calendar — please pick again." |
| `ConflictIsTold` | `pages.cfg` | the conflict branch sets the notice and then `resetSelection` clears it (`booking-widget.tsx:159`) | `web/lib/api/bookings.ts:35` "the client shows a "just taken" message and refetches availability." |
| `LapsedIsRefused` | `pages.cfg` | only the status is looked at, a lapsed hold not yet swept is payable (`create-payment-intent.command.handler.ts:41`) | `web/lib/api/payments.ts:32-33` 409 when "... or the hold has lapsed" |
| `SpinnerEnds` | `pages.cfg` | the cap is read while rendering, and the last poll that changes nothing renders nothing (`payment-confirmation.tsx:152`) | line 18 there: "Cap the wait so the page never spins forever" |
| `DialogComesBack` | `pages.cfg` | after a 200 the busy flag stays set and the refresh is expected to unmount the dialog; the saga saves its copy over the cancelled booking, the refreshed page shows it confirmed and keeps the dialog, which is busy for good (`cancel-booking-dialog.tsx:154`, `booking-checkout.saga.ts:95`) | lines 151-152 there: "the refreshed page renders the cancelled state + refund." |
| `CancelIsShown` | `pages.cfg` | after a lost answer neither the error branch nor the refused retry refreshes (`cancel-booking-dialog.tsx:156`) | lines 71-72 there: "after a successful cancel the page re-fetches and re-renders in its Cancelled state." |
| `PagesLoad` (I) | `pages.cfg` with `Fields <- Actual` | `GET /bookings/:id` answers with a detail that lacks `holdExpiresAt`, the client parses a summary that requires it (`web/lib/api/bookings.ts:167`) | line 149 there: "ASSUMPTION: the API exposes `GET /bookings/:id` returning `BookingSummary`" |
| `StableOrder` | `api.cfg` | price and title may tie, and ties come in any order (`listing.query.ts:36`) | line 35 there: "Deterministic ordering keeps search cards stable across requests." |
| `BadParamAlone` | `api.cfg` | one malformed parameter drops all (`web/app/listings/page.tsx:29`) | line 13 there: "Unknown or malformed params are dropped (partial parse)" |
| `FormReflectsSearch` | `api.cfg` | default values are read once, after Back the form keeps the later search (`listing-search-form.tsx:117`) | line 116 there: "Seed from the current URL so the form reflects the active search." |
| `PayloadConforms` (I) | `api.cfg` | an image that is no URL passes the upsert contract and fails the whole search page (`listing.query.ts:51`) | `packages/shared/src/contracts/listing.ts:5` "The API validates inbound query params and its response payloads against these" |
| `HintIsOverlap` (I) | `api.cfg` | `from` and `to` need not be in order (`packages/shared/src/contracts/listing.ts:31`), and a window of no night inside a block counts as overlapping it (`listing.query.ts:104`) | line 102 there: "Overlap is `[from, to) && [checkIn, checkOut)`", which is empty for `from = to` |
| `PerClient` | `api.cfg` | `GET /auth/me` is counted by the web server's address, and 429 is taken for signed out (`web/lib/auth/session.ts:33`) | `throttler.config.ts:15-16` "so they get ~10/min/IP." |
| `RetryHeals` | `HostDashboard` with `SPECIFICATION Retries`, one listing, two texts, one fault | the button repeats what is already done and gets 409 for ever (`publish-toggle.tsx:79`) | line 77 there: "Network error (fetch rejected) — re-enable so they can retry." |

The payment pages are otherwise checked as if the summary were complete
(`Fields <- Assumed`), since with `Actual` no page of theirs gets past its error
page.

## 5. What is proved

Eight modules, checked by TLAPS to the last leaf. Every safety property that a
passing run checks, invariant or action property, is a theorem here, for every
value of the constants.

| Module | Theorem | States |
|---|---|---|
| `ReservationProofs` | `TypeCorrect` | `Spec => []TypeOK` |
| | `InductiveCorrect` | `Spec => []Inductive` |
| | `NeverOverbooked` | `Spec => []NoOverbooking` |
| | `PairsAlwaysAgree` | `Spec => []PairsAgree` |
| | `OutboxIsTruthful` | `Spec => []OutboxTellsStatus` |
| | `RefundsArePaidFor` | `Spec => []RefundOnlyAfterConfirm` |
| | `CoreImplementsCalendar` | `Spec => ImplementsCalendar`, that is `Spec => Cal!Calendar` |
| | `NightsComeBack` | `Spec /\ []AtMostTwo => []NightsReturned` |
| `CheckoutProofs` | `PaymentsAreTyped` | `Spec => []TypeOK` |
| | `ChargesAreKnown` | `Spec => []ChargedIsKnown` |
| | `EventsArePublishedOnce` | `Spec => []PublishedOnce` |
| | `ConfirmationsArePaid` | `Spec => []ConfirmedIsPaid` |
| | `SuccessesAreCharged` | `Spec => []SucceededIsCharged` |
| | `LedgerReachesTheSaga` | `Spec => []LedgerReachesSaga` |
| `ListingProofs` | `ListingsAreTyped` | `Spec => []TypeOK` |
| | `BlocksNeverOverlap` | `Spec => []BlocksDisjoint` |
| | `OnlyItsHostWrites` | `Spec => OwnerOnly` |
| | `StandingBlocksHold` | `Spec => StandingBlockHolds` |
| `OutboxProofs` | `OutboxIsTyped` | `Spec => []TypeOK` |
| | `NothingIsFabricated` | `Spec => []NothingFabricated` |
| | `RowsArePublishedInOrder` | `Spec => []PublishedInOrder` |
| | `OutboxDelivers` | every step is one of `Delivery` or a stutter: the safety part of `ImplementsDelivery` |
| `AccountsProofs` | `AccountsAreTyped`, `TabsAreTyped` | `ASpec => []TypeOK`, `WSpec => []WTypeOK` |
| | `AddressesAreUnique` | `ASpec \/ WSpec => []OneAccountPerEmail` |
| | `AccountsAreKept` | `ASpec \/ WSpec => AccountsKept` |
| | `SessionsAreEarned` | `ASpec \/ WSpec => SessionIsEarned` |
| | `PagesFitVisitors` | `WSpec => PageFitsVisitor` |
| `PagesProofs` | `PagesAreTyped` | `Spec => []PagesTypeOK` |
| | `ScreensAreTrue` | `Spec => []ScreenIsTrue` |
| | `RefundsAsPromised` | `Spec => RefundAsPromised` |
| | `UntouchedFieldsStay` | `Spec => UntouchedFieldsKept` |
| `QuotesProofs` | `ChargesAreAsShown` | `Spec => []ChargedAsShown` |
| | `PricesAreAllIn` | `Spec => []PriceIsAllIn` |
| | `RefundsAreWithinCharges` | `Spec => []RefundWithinCharge` |
| | `DoublesRoundTheFee` | multiplying by the double nearest to 0.1 and rounding gives the fee, for every 32-bit subtotal |
| | `SplittingChangesOneUnit` | a stay booked in two parts costs at most one unit more or less |
| `ApiProofs` | `HintsTellNights` | `ApiSpec => []HintTellsNights` |
| | `GuestsAreAnswered` | `ApiSpec => AnswersTheGuest` |
| | `LimitsAreKept` | `ApiSpec => []LimitsHold` |
| | `QuotesAreKept` | `ApiSpec => Spec`, so the three of `QuotesProofs` hold of the run's specification |

What they assume of the constants is named in the modules, and evaluated by TLC in
the runs: stays and blocks end after they begin; prices, capacities, limits, bounds
and time to live are natural numbers; the values for "nothing" are none of the real
ones; rows of the outbox are numbered and finitely many, like its ticks, the
listings, the connections' requests and the API's tasks; every visitor types
something and goes to pages of the application; and the hours left to a stay
(`CancelDialog.Notices`) only become fewer.

`ReservationProofs`. `NoOverbooking` speaks of committed rows and is not inductive:
a transaction that has passed the check and not committed yet could commit into a
conflict. `SecuredOnce` adds those: a night is *secured* by a live hold or by a
transaction past its check. The step that matters is `PassExclusion`, where
`ExclusionHolds` says that no rival has secured the night; every other step
secures nothing new (`NothingSecured`), and `Commit` turns one form of securing
into the other. `PairsAgree` needs to know what a handler carries at each step
(`HandlersInShape`): the saga writes the two statuses that belong together, a
create is alone with its pair of ids, and a cancel that left the hold alone did so
because it was no longer active, and an active hold never comes back. With that
each commit writes an agreeing pair, although nobody has looked at the rows since
they were read. `OutboxTellsStatus` holds because the row is appended by the commit
that writes the status. `RefundOnlyAfterConfirm` needs the refunds in the handlers'
memory as well (`RefundsBacked`): a positive one is computed from a booking seen
`Confirmed`, whose last outbox row is then `BookingConfirmed`, and no row is ever
removed. `CoreImplementsCalendar` follows from `NoOverbooking` before and after a
step: with it the `CHOOSE` in `OwnerOf` has one candidate (`OwnerIsUnique`), so a
commit that makes a hold live finds its nights owned by nobody, and one that ends
it leaves them to nobody.

`CheckoutProofs`. None of the properties is inductive alone: `PublishedOnce` needs
that a handler about to publish is the only one with that event and that the event
is in the ledger and unpublished; `ConfirmedIsPaid` that a handler about to confirm
works for a charged intent; `ChargedIsKnown` that an intent being opened is nobody
else's and not yet open. `CInv` is `Typing`, `Books` (what Stripe's objects and the
tables say of one another), `JobOk` of every handler, `Apart` of every two, and
`LedgerReachesSaga`. There is one lemma for each action; the steps that only change
a handler share `GoKeeps`, those that change a table `JobKept`.

`NightsComeBack` is what finding 2 leaves of `NightsReturned`. A cancel that finds
the hold settled leaves it alone and writes the booking later, so nobody may revive
the hold in between (`NightsKept`). Only a confirm that had read the hold while it
was active could, and then a third handler must have released it. With `AtMostTwo`,
no three handlers of one booking at a time, there is none; `core_leaked_nights` has
three and shows the leak, so the hypothesis cannot be dropped.

`ListingProofs`. An id is minted once, so a block row that turns up in the table and
in several copies is the same row everywhere (`OneRowPerId`); a copy about to be
saved is free of overlaps (`CopyOk`), and the difference applied by id makes the
table's blocks exactly that copy (`SyncedIsCopy`), whoever has written since. The
owner of a listing never changes, so the owner a command has checked is still the
owner when it saves (`EditOk`). The attempt to prove `StandingBlockHolds` for any
number of workers found a behaviour that two do not have: a block is removed, a booking's
check passes, a save of an older copy inserts the block again, and the hold is
placed over it (`OtherEditsKeepBlocks` in section 4 is the half of it that needs no
booking). The promise is therefore about a block that has stood all the time since
the request came in (`job[w].seen`).

`OutboxProofs`. `PublishedInOrder` needs that a batch is closed downwards: with a
row it holds each earlier row that is not published yet (`BatchClosed`), which
holds because a tick reads the oldest rows and drops them from the front. The
refinement of `Delivery` needs a bound on mails that no single step shows
(`Explained`): the mails of a row, the handlers on their way to send one and the
ticks that may still publish it (`Owing`) never exceed one more than the failures,
crashes and overlaps so far.

`AccountsProofs`. Only `SaveUser` and `Delete` write the table
(`WhoWritesUsers`), and `SaveUser` adds at most one account with an address no
other has (`SaveAddsOne`); `FaultsAreCounted` tells a deletion from the rest. The
pages rest on `AInv`: ids are not used again, so the subject of a cookie never
becomes somebody else, and the role a cookie claims is its account's for good; and
on `TabInv`, which says where a redirect under way leads.

`PagesProofs`. One invariant for each page, `TabInv` their conjunction; a step of the
tab is a step of the page it has open. `ConsoleInv`: a busy flag and its call come
and go together, for each slot, through every answer and loss. `DashboardInv`: what
nobody has touched is in the form, and in the body under way, what it is in the
table, although the body replaces every field. `PayInv`: "Confirmed" has been
charged wherever it has got to (row, poll, screen), and a poll counts at most the
cap and the retries. `CancelInv`: as long as the amount on the screen can be
confirmed or its call is under way, it is the policy's at a moment since the page was
rendered (a refresh under the open dialog comes after the answer only,
`DialogWaits`), and since notices only become fewer and the policy's tiers fall with
them, the server grants no more.

`QuotesProofs`. `QInv` ties the amounts of a visit together: the price is the quote
of the rate it was made from, what is shown, asked and charged is the price, the
refund is at most the price. `FeeIsNearest` is the arithmetic of the rounding;
`DoublesRoundTheFee` shows that the code's multiplication by 0.1 in floating point,
which TLC's integers cannot follow, rounds to the same fee.

`ApiProofs`. `SearchInv` says that a tab's address is what was asked for, that rows
are saved drafts and that a hint was computed from the blocks it names;
`ArrangedIsAll` that a sorted answer loses no card and invents none. The attempt to
prove `HintTellsNights` found the window without a night (`HintIsOverlap` in section
4). `PoolInv` accounts for each connection by the request that holds it. For the
rate limit `GuardInv` numbers the pages: as long as a task has not blocked an
address, the pages it has served are matched one to one with hits of the same age
that still count (`Matched`); once it has blocked it, no page is younger than the
block is long, and the pages it has served can be numbered up to the limit, so they
are gone before the block is.

Only model-checked: the liveness properties (`LapsedIsSettled`, `HandlersEnd`,
`FirstCardIsRecorded`, `EveryRowStamped`, `GetsIn`, `ControlsComeBack`,
`ScreenCatchesUp`, `EveryRequestEnds`, and the liveness part of
`ImplementsDelivery`), since fairness and `ENABLED` are beyond the prover.
`NightsReturned` is proved under its hypothesis only.

## 6. Not modelled, and the plan

Not modelled, and why:

* Deployment, CI, bootstrap, logging, the readiness ping: configuration of
  libraries, no behaviour of the program's own.
* Password hashing, signing and verifying of tokens and of Stripe's signatures:
  library calls; the models keep their outcome (a match, a valid token).
* Components that only render (gallery, layout, error pages, skeletons), the lists
  of a guest's and a host's bookings, wording and styles.
* The contracts of `packages/shared` but for the shapes that decide whether a page
  loads; the type checker holds the two sides to the others.
* `Booking.complete`, `Booking.markNoShow` and `Hold.expire` have no caller.
* `Email.create`'s plain `Error` is out of reach behind the Zod schema.
* Currencies (every price is in one), dollars and cents in the editor form, party
  size in the widget, the widget's indicative total, which leaves the fee out.
* The "Try again" button of the error boundary; a reload of the same page is modelled.
* `POST /auth/refresh` is called by no page; it is in `Accounts` as a client of the
  API may call it.

The plan:

| Module | Contents |
|---|---|
| `BookingSeam` | `ReservationCore`'s create and `ListingWrites` in one module, row by row |
| `CheckoutProofs`, continued | what a declined card leaves of `RecordedIsConfirmed` and `ChargeIsRecorded`, as safety properties under a hypothesis |
| `ReservationProofs`, continued | the statuses a booking can go through, with the one edge that finding 1 adds |
