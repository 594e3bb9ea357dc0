# RoadCruise server: a TLA+ verification project

RoadCruise is the API of a cab-booking business: one Node process (Express 5,
run by pm2 with one instance) that takes bookings, collects money through
Razorpay, PhonePe or a mock gateway, and tells customers and staff what happened
by email, SMS and WhatsApp. Bookings, coupons, users and vehicles are in SQLite,
whose calls are synchronous; payments, notifications, sessions and audit rows are
in JSON files behind `JsonStore`, whose calls are not.

Most of the program is a synchronous handler around a few SQL statements. It is
hard in three places. Where an `await` splits a handler, a gateway, a provider, another
request, a webhook, a failing write or the end of the process comes between a
check and the write that relies on it. Where handlers share a store that outlives
them (coupons, caches, codes, consent), a long sequence of legal calls has to leave
it sound. And where money is computed, rounding and boundaries decide whether the
parts add up. The project models these three.

## 1. Inventory

Paths are relative to `src/src/`.

| Component | State | Operations | Interacts with | What makes it correct |
|---|---|---|---|---|
| **Payments** (`payments/core`, `payments/repository`, `payments/api`) | payment records: status, booking, open-order key, refunds; claimed webhook ids; audit and ledger rows | create order, verify and capture, webhook (claim, route, release), confirm by status (PhonePe), refund, refund completion | gateway, JSON store, booking bridge, notifications | one open order and one live payment per booking, and another after they have ended; paid only for captured money; confirmed and announced once; an event routed by one activation; recorded refunds are real; captured money ends up somewhere |
| **Gateways** (`payments/gateways`) | none of their own; orders, payments and refunds at the provider | createOrder, capturePayment, fetch status, refund; webhooks back | payments | an answer may be lost although the call took effect |
| **Booking bridge** (`payments/integration`) | booking status | confirm, fail, notify | bookings, event bus | a paid booking is approved, whatever became of it meanwhile |
| **Notification intake** (`notifications/core/EventBus`, `NotificationService`, `idempotency`, `workflows`) | emissions in memory | emit, handle an event channel by channel, insert if absent | every business module, repository, queue | one record per event, channel, recipient and business key |
| **Notification queue and dispatcher** (`notifications/queue`, `core/Dispatcher`) | the in-flight set; status, attempts, backoff of each record; dead letters | poll, drain, sweep stale records, send, retry, give up | repository, providers | one worker per record, no duplicate, budget kept, every record settles |
| **Notification repository, audit, admin API** | `notifications.json`, `audit.json` | insert, update, find due and stale; manual retry, resend | queue, service | a retry requeues with a larger budget |
| **Notification providers** (`notifications/providers`, `config/msg91Templates`) | SMTP: one cached transport | configure, send, read the answer, own retries | dispatcher | sent means taken; what is settled is not repeated; a broken transport is dropped |
| **JSON store** (`notifications/repository/store.js`) | one file per store, one promise chain per file | read, serialized read-modify-write, rename over | payments, notifications, auth | mutators one at a time, in call order; a failed write changes nothing |
| **Templates** | none | render | dispatcher | formatting |
| **Trip reminders** (`notifications/scheduler`) | last swept date, in memory | the evening's sweep | bookings, event bus | each trip announced the evening before, once |
| **Broadcasts, consent export** (`notifications/broadcast`, `services/consentExport`) | emissions; promos; consent on the accounts | announce, consent, withdraw, export | accounts, event bus | an offer once per address text, and per person but for landlines; nobody against their answer |
| **BullMQ queue** | in Redis | enqueue | dispatcher | used only with `REDIS_URL` |
| **Sessions and tokens** (`auth/core/AuthService`, `sessionStore`, `token`) | sessions with the current refresh id and version; the tokens handed out | login, migration, Google and phone sign-in, refresh (rotate), logout, revoke, logout everywhere | accounts, JSON store | a refresh token is dead once its exchange was answered; nothing older than a sign-out-everywhere survives it |
| **Accounts** (`auth/core/userService`) | password, token version, failed logins and lock, reset and verification tokens, linked identities | register, verify, forgot and reset, link | sessions | a link is good once; verified means proved; a lock stops guessing |
| **OTP, nonces, rate limits** (`auth/core/otpStore`, `nonceStore`, `rateLimiter`) | three in-memory maps with size limits, one shared sweep time | request and verify a code, issue and consume a nonce, admit or refuse a request | sign-in, reviews | a code or nonce is good once; guesses and messages bounded; windows hold |
| **Bookings** (`controllers/booking.controller`) | bookings, invoice, hold | create, retry payment, modify, update, cancel, close, delete | pricing, coupons, payments, notifications, vehicles | a booking is never replaced by another; a cancelled one holds nothing |
| **Coupons** (`controllers/coupon.controller`) | coupons, redemptions | create, change, remove; check, redeem, release | bookings | uses within the limit, each use a live booking's |
| **Pricing and billing** (`services/pricing`, `services/billing`) | none | fares per trip type, tax, coupon, advance, closing bill, invoice rows | bookings | parts add up; rounding; longer costs no less |
| **Routing** (`services/routing`) | a cache with age and size limits | look up, fall back to an estimate | pricing | the price shown is the price booked while the route is fresh |
| **Vehicles** | vehicles and the units held | record keeping, holds | bookings | a hold is released |
| **Places, packages, gallery, contact; backups, uploads, server start** | records, files | create, read, update, delete | | record keeping and I/O |

Hard behaviour, by where it comes from:

- *two activations around an await*: two order creations, two refunds, verify and
  webhooks for one payment, two drains of the queue, two registrations, two refreshes,
  a login against a reset, a booking's order against its cancellation, two sends on one transport;
- *order*: webhooks late, repeated and swapped; a status read, then a queued write; a
  session created behind the revocation that should have covered it; consent changed
  from three places;
- *failure*: a store write that throws, an answer lost after the effect, a capture
  that fails, an answer that cannot be read, an outage of the routing service, a restart
  between two steps;
- *time and limits*: a backoff, a stale sweep that hits a live send, windows and codes
  that expire, stores that evict, an evening that is swept or missed;
- *numbers*: halves of a paisa, minimum distances, a coupon that covers everything.

`PROJECT.json` lists each of them at its line, with the property that would catch it or, where the
code falls short and none can hold, with a note.

## 2. Modules

| Module | What it is |
|---|---|
| `Payments` | the payment service, its store, the bridge and the gateway around it |
| `PaymentsProofs` | type correctness; money, open orders, webhooks, approvals, confirmations and refunds of `Payments` |
| `Outbox` | what the notification engine promises, on its own |
| `Delivery` | the notification engine: intake, queue, dispatcher, repository, retry |
| `DeliveryProofs` | type correctness, one worker per record, sent means accepted; `Delivery` implements `Outbox` while nothing fails around it, and keeps to the budget while no write fails |
| `Providers`, `ProvidersProofs` | the adapters under the dispatcher: configuration, answers, own retries, SMTP's transport; its three properties |
| `Auth`, `AuthProofs` | accounts, passwords, sessions, tokens; its five safety properties |
| `Limits`, `LimitsProofs` | rate limits, one-time codes and nonces over time; its four properties |
| `Bookings`, `BookingsProofs` | the life of a booking with coupon, vehicle and payment; its five properties and the reminders' |
| `Reminders` | the evening sweep, composed with `Bookings` |
| `Fares` | every amount, as functions |
| `Quotes`, `QuotesProofs` | quote, route cache, booking and closing bill, over `Fares`; lemmas about each amount, and its three properties |
| `Offers`, `OffersProofs` | consent, phone numbers, promos and their broadcast, over the engine's intake; its two properties |
| `MC*`, `*.cfg` | the instances for TLC |

Composition: `Reminders` extends `Bookings`, `Quotes` extends `Fares`, `Delivery`
instantiates `Outbox`. The other components meet at an interface that each side models
for itself: `Payments` approves a booking, which in `Bookings` is the action
`ConfirmBooking` on a record in any state; what `Offers` emits passes through an intake of
its own that keeps one record per key, which is what `Delivery` shows of the engine;
`Providers` stands for the provider call that is one step of `Delivery`.

In every module except `Limits`, `Fares` and `Offers`, whose handlers do not wait, a
*thread* (worker, requester, job) is one activation of the code, `pc` or its record says
at which await it stands, and the code between two awaits is one action.

### 2.1 Payments

`pc[t]` is the await a thread stands at, `task[t]` its locals: the order, the
booking, the event, an amount.

- An await on the store appends the thread to `writeQ`, the promise chain of
  `JsonStore.update`: `Turn(t, p)` runs the mutator of the thread at the head. So a
  mutator runs alone, in call order, but later than the code that chose to call it,
  which is where stale reads come from. The order of the action's parts is that of the code:
  `RouteWebhook` tests the status, and the write it chose (`UpdateFailed`,
  `UpdateAuthorized`, ...) happens at its turn.
- An await on the gateway is a `gw...` place. The gateway's answer, its failure, or
  its effect without an answer (`RefundAnswerLost`, `CaptureFails`) are the ways on.
- Audit and ledger rows are the `...Tail` steps. Nobody reads them, so their content
  is left out; that they delay the code behind them and may throw (`TailThrows`) is kept.
- `Throw` is what an exception does: an HTTP call ends, `handleWebhook` gives its
  claim back first. `Abandon` is an exception outside that try.
- `StoreThrows` is a write that fails and changes nothing; `Restart` ends every
  thread and empties the chain, and leaves files and gateway alone.
- The Status API answers with the transaction's state, with an error body about the request,
  or with a body nothing can be read from (`Answers`); `Parsed` is `parseStatus`, to which an
  error body is a failed payment. The history `misread` keeps the orders one came for.
- A payment and the gateway order it was made for share one identity, an element of
  `Orders`. A booking's amount is `Amount`, refunds come in units of it. What was paid back
  for an order is the set of those units (`PaidBack`), its size the sum of the refunds.

The gateway (external) captures, fails and refunds as the code in `src/` expects of it.
An event is deliverable whenever what it reports has happened (`Emitted`), any number of
times and in any order. The model does not let the gateway cap refunds.

Correspondence: `ReuseOrder`, `CreateOrderForBooking`, `GatewayCreatesOrder`,
`CreateIfAbsent`, `OrderTail` are `createOrderForBooking`; `VerifyAndCapture`,
`VerifyBadSignature`, `CaptureSucceeds`, `CaptureFails`, `UpdateAuthorized` are
`verifyAndCapture`; `TransitionToPaid`, `ConfirmBooking`, `PaidTail` are `_markPaid`;
`UpdateFailed`, `OutcomeTail` are `_fail`; `HandleWebhook`, `ClaimWebhook`,
`RouteWebhook`, `ReleaseWebhook` are `handleWebhook`; `ConfirmByStatus`,
`StatusAnswers` with `Parsed` are `confirmByStatus`; `Refund` to `UpdateRefundCompleted` are
`refund` and `_completeRefund`. `PROJECT.json` names the lines of each.

### 2.2 Delivery and Outbox

A *note* is an idempotency key on a channel, the identity of a notification record.
`rec[n]` is its record: status, attempts, budget, and whether its next attempt is due.

- `EmitEvent`, `CreateIfAbsent`, `NextChannel` are `handleEvent`, run from
  `setImmediate` for each emission, channel by channel: insert, audit, next. An
  exception or a restart loses the channels that are left (`hpc = "lost"`).
- `FindDue`, `StartNext`, `BreakDrain` are the drain. `due` is what `findDue` returned.
  `InFlight` is the queue's `inFlight` set: the notes of the busy workers. The
  model lets other steps fall between the records of a drain, which the code's loop
  does not; it only has more behaviours for it. The hint of `enqueue` is a drain like a tick's.
- `MarkProcessing`, `ProviderAccepts`, `ProviderRefuses`, `AnswerLost`,
  `RecordSent`, `AuditOutcome` are `Dispatcher.process`; `ScheduleRetry`, `GiveUp`,
  `PushDeadLetter` are `_handleFailure`, which decides on the record as `process()`
  read it (`job[w]`), not on the one on file.
- `SuccessThrows` is an exception inside `process()`'s try after the provider
  accepted: the code treats it like a refusal. `ProcessRejects` is one outside of it.
- `RecoverStale` and `BackoffEnds` are the clocks: a backoff ends at any time; with
  `SlowSends` the sweep may also find a record stale while it is being sent.
- `RetryRead`, `RetryWrite` are the admin's retry, with its read and its write apart.
- `submitted` and `delivered` count as `sent`, as they do for the engine.
- `tries`, `sends` and `created` are not in the code: they are what the providers
  were asked and accepted, and which emissions made a record. No guard reads them.

`Outbox` is the promise: each notification is posted once, accepted at most once,
and ends as sent exactly if it was accepted, as dead exactly if it was not. `Delivery`
maps its records to phases (`Phase`) and the providers' count to `accepted`; the
property is `ExactlyOnce`. It holds under `Calm`: no failing write, no lost answer, no
restart and no admin requeue. Each of the four breaks it in the code (section 3.1).

### 2.3 Providers

A *job* is a record's message or the alert an admin is mailed about a dead one. Its
record in `send` says where its send stands; `status` and `attempts` are the notification's.

- `Start` is `Dispatcher.process` up to the provider's call, with `getProvider` and the
  adapter's own checks: an adapter without what it needs (`Configured`: account, sender,
  number, template) refuses before it calls. Which setting is asked for when differs from
  adapter to adapter, and so do the tests for acceptance (`Msg91Takes`, `AirtelTakes`,
  `TwilioTakes`) and the `retryable` flag of the error thrown (`Retryable`).
- `Post` is one HTTP call with any status of `Statuses`, an acknowledgement, an error
  body or none, or silence. `TriedAgain` is WhatsApp's own loop of tries.
- `MayTake` says what an answer tells of the message: a gateway may answer 2xx (`Ok`) and
  refuse, and after silence or a body that cannot be read it may have been taken or not. `Settles` says after which
  answers another try is pointless; `final` and `unheard` are the history the properties read.
- `Imported`, `MailTaken`, `MailRefused`, `ConnectionBreaks` are the SMTP adapter with its
  cached transport, made by `_tx` when there is none, dropped by `_resetTransport`.
- `Outcome` is the dispatcher's verdict: sent, submitted, retry while budget and flag
  allow, or dead, with `AlertAdmin` after it.

### 2.4 Auth

A thread is a request. Users are in SQLite and written synchronously, so a user's record
changes in the action that decides about it, unless an await (a password hash or its
comparison, Google's answer) lies between; then the action behind the await works on what
was read before it, as the code does (`RightPasswordStale`, `Registered`, `PasswordReset`).
Sessions are in `sessions.json`: every update goes to the end of `chain` and
`ApplyUpdate` applies its head together with the code that awaits it.

Tokens are records in `issued` (kind, account, version, session, jti), links are in
`mailed`; a request may present any of them at any later time. A random identifier is the
next `serial`. Expiry is a token nobody presents any more. Of the clock there remain the
end of a lock and of the window failed logins are counted in, at any time. The history
variables are `spent` (reset links accepted), `exchanged` (refresh ids exchanged, each with the id it was exchanged for), `late`
(wrong passwords judged on a locked account) and `proved` (addresses shown to be somebody's).

Correspondence: `Login`, `LoginWhenLocked`, `WrongPassword`, `RightPassword`,
`RightPasswordStale`, `Migrate`, `Migrated` are `login` with `migrateLegacyPassword`;
`GoogleLogin` to `GoogleRejected` are `oauthLogin` with `linkOrCreateOAuthUser`; `PhoneLogin`
is `phoneLogin`; `Register`, `Registered`, `ResendVerification`, `VerifyEmail`,
`ForgotPassword`, `ResetPassword`, `PasswordReset`, `Refresh`, `Logout`, `RevokeSession`,
`LogoutAll` are the methods of those names.

### 2.5 Limits

Each handler is one action at a time `now` that `Tick` moves. A code, a nonce or an
admission is the number of its issue. `otp` maps a phone to its code, the attempts at it
and its place in the `Map`, which a code set again under its key takes over; `nonces` is the
set of the numbers outstanding, which come in the order of the `Map`. Eviction drops what has the
lowest place (`Newest` is what stays). `buckets` holds the admissions still counted per
limiter and address; it and `lastSweep` are shared by all limiters, so a limiter with a short
window prunes what one with a long window still counts (section 3.1). Guesses name any
code ever issued or none.

### 2.6 Bookings and Reminders

`createBooking` is the only handler that waits: for the route (pc `route`) and for the
payment order (pc `order`). Between them it checks the coupon, chooses the reference
(`NewBookingId`: one more than the highest number on file), writes the booking, takes the
use and the hold in one turn. Every other handler is one action: `RetryPayment`,
`CancelBooking`, `UpdateBooking`, `CloseTrip`, `ModifyBooking`, `DeleteBooking`,
`ReleaseHold`, and the admin's coupon actions. `ConfirmBooking` and `PaymentFails` are the
bridge's calls: they find whatever record stands under the reference of the order. Of the
payment module only `orders` is left, the order it would hand out for a reference.

Records behind one reference are told apart by `serial`, a history. The clock counts half
days; an odd one is an evening. `Reminders` adds the sweep (`Sweep`, `SweepThrows`), the
date it remembers in memory and loses in a restart (`Reboot`), and the dedupe keys of what it
announced. The timer fires often, so an evening does not end before the sweep that is due
(`ClockAdvances`). `late` names the bookings that a handler made, moved or brought back
after the sweep, and those of a sweep that threw: the code does not announce them.

### 2.7 Fares and Quotes

`Fares` is `pricing.js` and the amounts of `billing.js`, `bookingView.js` and the invoice
in integers of paise; `Rounded` is `round2`, halves up. It covers the four trip types with
their minimum distances and driver allowances, hourly packages, tour packages, a vehicle's
card and the client's estimate, tax, coupons with cap and minimum, the advance, the closing
bill and the invoice's rows.

`Quotes` puts time around it. A request waits for the routing service, which answers
(`RouteFound`, the cache keeps it) or fails (`RouteEstimated`, the cache does not).
`QuoteTrip` shows a price, `CreateBooking` prices the trip again, an admin changes the
rates between (`UpdateVehicle`), another visitor's requests fill the cache, `BookListed` is
a booking without a route, `LegacyBooking` one from before prices were itemised, `CloseTrip`
the final bill. `cache` maps a route to its distance, its time and its place in the `Map`
(`nth`); a request that finds an entry too old drops it and asks the service. The `pricing` of
a booking is the record of amounts the code stores with it.

### 2.8 Offers

An account is an address: a mailbox, or a number whose owner signed in by phone and who has
no mailbox. A phone is the text on file: a mobile with or without its prefix, a landline,
junk, or the default number every account is created with. `SetMarketingConsent`,
`AttachPhoneIfMissing` and the audience (`SmsOf`, `EmailOf`) are translated as they are.
`AnnouncePromo` puts one emission per person on `bus`; `HandleEmail` and `HandleSms` are the
engine's intake in any order, with its key; `Restart` loses what is on the bus. `ConsentRows`
are the accounts the consent export uploads.

## 3. Runs

| Run | Asks | Bounds |
|---|---|---|
| `PaymentsCheckout` | one open order, no money that is not on record, one confirmation, one live payment, an approved booking | mock gateway, 2 orders of 1 booking, 2 activations, captured and order.paid events, 1 failing write |
| `PaymentsWebhooks` | types; money states only for captured money; one activation per event | Razorpay, 1 order, 2 activations, 4 event types, failing captures, 1 refund, 1 failing write |
| `PaymentsPhonePe` | recorded refunds are real; paid is left by refund only, unless an error body came; an ended payment leaves room for another | PhonePe, 2 orders of amount 2, 2 refunds in all, 1 failing write or restart, error bodies about 1 order, unreadable answers at any time |
| `PaymentsSettle` | captured money is confirmed or finds its payment ended | 1 order, captured, failed and order.paid events, redelivery of payment.captured, no fault |
| `DeliveryExactlyOnce` | implements `Outbox`; one worker per record; the budget is kept | 1 key emitted twice, 2 channels, 2 workers, 3 attempts, sweeps during sends |
| `DeliveryRecovers` | types; sent means accepted; every record settles | 1 event, 2 channels (one without a recipient), 2 workers, 2 attempts, 1 failing write, 1 restart, lost answers, 1 admin retry |
| `Auth` | sign-out is everywhere; exchanged tokens and used links are dead; the lock stops guessing; verified was proved | a mailbox and a phone account, 2 passwords, 2 concurrent requests of 5, a lock after 2 failures |
| `Limits` | windows hold; codes and nonces work once; messages are spaced; the newest nonces survive a full store | 1 address, 2 numbers, 5 requests in 5 instants, stores of 2 |
| `Bookings` | discounts are counted uses; cancelled holds nothing; trips are reminded; no booking is replaced; uses within the limit | 2 customers, 1 coupon, 1 vehicle, 2 references, 2 concurrent creations, 4 requests, 2 days, 1 restart |
| `Quotes` | a shown price survives an outage; longer costs no less; amounts add up | 3 routes, a cache of 2, 2 instants of age, 4 requests, 2 waiting |
| `Providers` | nothing is repeated in vain; sent was taken; a broken transport is not used again | 2 messages and their alerts, 3 SMS adapters, WhatsApp, SMTP; 5 statuses, silence, 3 bodies; 2 attempts, 3 own tries |
| `Offers` | announced once; consent obeyed, also in the upload | 2 mailboxes (one staff), 1 number beside the default one, 1 promo, 7 requests |

What the runs of the newer modules show beyond their names:

- `PaymentsCheckout`: `OneLivePayment` says that a booking never has two payments that wait
  for money or have it: a failed payment frees its key, a second order is opened, and the money
  of the first, reported late, must not bring it to life again.
- `PaymentsPhonePe`: `RetryReopens` says that the order created for a booking whose payments
  have all failed or been paid back in full is put on record, whatever came between the
  gateway's answer and the insertion.
- `Auth`: `SignedOutEverywhere` says that once a sign-out-everywhere or a reset has gone
  through the session chain, no session of an older version is open, nor waits in the chain
  without a revocation behind it; a login that was being verified against the old password
  at that moment is the case that matters. `ExchangedTokenIsDead` is asked from the moment
  an exchange is answered: while its rotation waits in the chain, a second refresh with the same
  token is accepted too (3.1). `LockStopsGuessing` bounds the wrong passwords
  judged on a locked account by the requests that can have read it before.
- `Limits`: `ShortWindowsHold` is asked of the limiters with the shortest window. The
  one with the longest is not kept, which section 3.1 describes.
- `Bookings`: `DiscountIsCounted` relates the discount on a booking to a use in the table of
  redemptions and to the coupon's limits, over edits, failed orders, late approvals and deletions.
  `TripsAreReminded` is asked of trips on file and settled when the evening's sweep ran.
- `Quotes`: `QuoteSurvivesOutage` says that a trip shown over a routed distance and booked
  within the route's age is booked over that distance even if the service is down, unless
  as many routes as the cache holds were stored in between.
  `LongerCostsNoLess` compares the fare booked (hourly packages apart) with those of
  every shorter distance and fewer days, across the minimum distances. `AmountsAddUp` sums
  base, tax, discount, advance, closing bill and invoice rows. `AdvanceFits` leaves the
  advance out for the fares it may exceed, being in whole rupees and at least one.
- `Providers`: `NeverRepeatedInVain` says that after an answer that settles the matter
  nobody calls again, whether the adapter or the dispatcher would.

Why these bounds. Each hazard is about two activations over one record or about a limit
and what lies on both sides of it. Two threads (workers, requesters, messages), one
booking with two orders, one key emitted twice make every pair meet; a third would repeat
one of the two. Two attempts leave one retry, three also an attempt that is neither
first nor last. One fault or restart at every place reaches each place it can hit. The
clock of `Limits` crosses each window, lifetime and cooldown at least once and their stores
overflow; that of `Bookings` has two evenings with a restart between; the cache of `Quotes`
both overflows and expires. Distances and rates of `Quotes` lie on both sides of each
minimum, end in odd paise, and one coupon covers everything.
`PaidIsKept` is asked of PhonePe only: there the gateway's
settled state decides between paid and failed, while a bad signature or a failed
capture may write over a payment the webhooks have paid meanwhile. Its run takes one
fault, one order with error bodies and two refunds in all (`FewFaults`): a state beyond them
combines two that are checked. Both orders are there for the retry after a failure.
`MaxRefunds`, `MaxFaults`, `MaxCrashes`, `MaxRetries`, `MaxRequests`, `MaxNow`, `MaxTime`
and `MaxId` bound what the code does not bound. Interchangeable values (orders, threads,
workers, customers, numbers, messages, requesters, passwords) are symmetric in the safety
runs; the liveness runs use no symmetry.

Deadlock is checked for `Payments` and `Delivery`: an idle service can take another
request or another tick, so neither has a state it cannot leave. The others stop where
their bound on requests or their clock is used up or every message has settled, so their
configurations do not ask.

Fairness. `Payments`: Node runs every continuation and every queued write, a call to
the gateway times out at worst, so each thread is weakly fair; Razorpay redelivers
`payment.captured` until it is answered 200, so its delivery is strongly fair (strongly,
because `Threads` bounds the activations and may be full again and again). Customers,
admins and faults are not fair. `Delivery`: handlers, workers (providers time out
after 15 to 20 s), ticks, sweeps and the end of a backoff are weakly fair; emissions,
admins, faults and restarts are not. The other modules state safety only: their handlers
end by themselves, and nothing in them is promised to happen later except the reminders,
whose deadline is part of the model (an evening does not end before its sweep).

### 3.1 Where the code does not do what it says, or what one would expect

Met while modelling. Where a property of a run comes near one of these, its comment says
how it is stated around it.

Payments:

- A late `payment.authorized` or `refund.created` takes a failed payment out of its
  terminal state: `PaymentService.js:404` asks only whether it is paid, against
  `paymentEvents.js:44`.
- A PhonePe payment whose refund is pending is confirmed and announced again by the
  callback or the browser's return (`PaymentService.js:264`, against :248).
- The remaining amount is read before the gateway call and not reserved: two refunds, or a
  retry after a lost answer, exceed what was captured (:472). Two that complete together
  compute the sum before their updates are queued (:515).
- A refund that was recorded from its synchronous answer is recorded again by its
  `refund.processed` event, which is not compared with the refunds on record (:440), so
  half a payment paid back ends as refunded. `RefundsAreReal` is asked where no such
  event comes: PhonePe, which sends none, or a subscription without it.
- A captured event can be lost: a repeated delivery is answered 200 while the first may
  still fail, or the audit write before the try fails and the claim stays (:368, :382).
- A process that dies between the payment's update to paid and the approval of its booking
  leaves the booking pending, for no later event repeats the approval.
- A failing capture writes `authorized` over what webhooks did meanwhile (:155); a second,
  captured attempt on an order whose first attempt failed finds the payment terminal.
- `PhonePeGateway.js:179` parses an error body of the status API, also one about the request
  itself, as a failed payment: one that is read before another callback confirms the payment,
  and written after, fails a paid payment. `PaidIsKept` leaves out the orders it came for.
- The test of `PaymentService.js:425` comes before the queued update: with Razorpay a
  payment paid in between is failed.
- A refunded payment is shown as paid on the invoice.

Notifications:

- A failing store write after the provider accepted is treated as a failed send and the
  message sent again (`Dispatcher.js:81`, against `notifications/README.md:19`).
- The business key is the booking's id, so the second modification of a booking has the key
  of the first and nobody is told of it (`NotificationService.js:126`).
- `recoverStale` does not count the attempt it interrupts, so crashes exceed the budget; an
  emission lives in memory until its records exist; a crash between the dead status and the
  dead-letter entry leaves a dead record no list names; an admin's larger budget is ignored
  by a send under way.
- The SMTP adapter makes two transports when two sends find none, and the second is never
  closed; a late failure on the old transport drops the healthy new one. Meta's 4xx carry no
  flag, so the dispatcher retries them.
- SMS offers announced before `MSG91_OFFER_TEMPLATE_ID` is set end as dead letters, and a
  second announcement is dropped as a duplicate.
- The sweep marks the day before it reads: an evening whose sweep throws is not retried,
  bookings made after it are not announced, a moved trip has the key of its first reminder.

Sign-in:

- Overlapping registrations replace an account: both find the address free before the hash,
  and the second insert overwrites the first (`AuthService.js:316`, against
  `hardening.test.js:101`).
- The migration of an old password hash, under way during a reset, overwrites the new
  password (:194). A login with the old password in flight during a reset succeeds.
- Two refreshes with one token that overlap before the rotation has been applied both pass the
  test of the jti and both get tokens (:349); the refresh token of the later rotation stays.
- The window of the review limiter is pruned by shorter limiters through the shared sweep
  (`rateLimiter.js:19`, against `review.routes.js:9`).
- The cooldown of a code is kept in its entry, so a login or the last wrong guess drops it
  (`otpStore.js:21`).

Bookings and money:

- The reference of a deleted booking is used again, and a payment for the old one approves
  the new one (`booking.controller.js:49`). A deleted booking keeps its coupon's use.
- The downgrade to Pending after a failed order, and a late payment, bring a cancelled
  booking back to life without its use of the coupon (:304).
- A quote over a routed distance, booked after the route was evicted and while the service
  is down, is booked over the estimate. A coupon of 100 percent leaves an advance of one rupee, and one of
  99 percent (`packages.db.js:72`), rounded to rupees, exceeds a fare of 1.68.

Offers:

- The default phone is a valid mobile (`auth.config.js:51`), so `attachPhoneIfMissing` never
  stores the customer's number, `PHONE_REQUIRED` is never answered, and consent and texts go
  under the default number, against `userService.js:211`.
- `verifyOtp` never passes the marketing opt-in along; a sign-up's opt-in is taken with a
  landline or junk. A landline replaced by a mobile, or one number with and without its prefix on two
  accounts, gets a text twice, against `promo.controller.js:128`. An offer queued before a withdrawal is still sent.

Persistence: a failing read of the database answers an empty dataset, and the next `writeDb`
deletes the other rows (`utils/db.js:28`).

## 4. Proofs

For every value of the constants that satisfies the assumptions named in each module
(positive amounts, budgets and sizes of stores, one of three providers, distinct channels, HTTP
statuses from 100 to 599, rates and distances that are no less than nothing, advances below
100 percent, a clock that starts after the longest window, `None` outside the sets it is told
apart from, finitely many threads where they are counted), which TLC evaluates on the runs.
What a theorem assumes beyond them is in its column. Every safety invariant and every
action property of the runs is stated by one of the theorems.

| Theorem | Says | Along |
|---|---|---|
| `PaymentsProofs!TypeCorrect` | `Spec => []TypeOK` | `TypeInv`: `TypeOK` is not inductive, for what a thread will write depends on its locals, so `TypeInv` says for every place which of them are set (an order on record at the places that write to it, an event at the places of a webhook) |
| `PaymentsProofs!PaidOnlyIfCaptured` | `Spec => []PaidIsCaptured` | `FundedInv`: a status is written long after the gateway was asked, so the invariant carries "the gateway has captured this order" at every place between learning it and writing it, and for every refund the gateway has made |
| `PaymentsProofs!BookingHasOneOpenOrder`, `RetryOpensOrder` | `Spec => []OneOpenOrder`, `Spec => RetryReopens` | `KeyInv`: only `CreateIfAbsent` opens a key, and it looks for an open one in the same step. No ended payment holds one (`EndedKeysFreed`), so where all have ended the insertion finds none and takes place |
| `PaymentsProofs!BookingHasOneLivePayment` | `OneWay => (Spec => []OneLivePayment)` | `LiveHoldsKey`: a payment that waits for money or has it holds its booking's key, for what ends it frees the key and nothing brings it back (`LiveStep`); then `OneOpenOrder`. `OneWay`: as below, for a late authorization or a failing capture does bring it back (3.1) |
| `PaymentsProofs!WebhookIsExclusive` | `Spec => []ExclusiveWebhook` | an event is claimed in the step that looks for its claim, and only the activation that holds it gives it back |
| `PaymentsProofs!MoneyFindsItsPayment` | `Spec => []MoneyIsRecorded` | `MoneyFollows`, an action property: a step hands out only orders on record, and the gateway learns of money only for an order that was handed out or is on record; no record is ever deleted |
| `PaymentsProofs!PaidMeansApproved` | `MaxCrashes = 0 => (Spec => []PaidBookingApproved)` | `QueueOK`: whoever waits in the write chain waits once, at a place that writes; so an activation that made a payment paid is still on its way to the approval. A restart in between breaks it (3.1) |
| `PaymentsProofs!PhonePeKeepsPaid` | `Provider = "phonepe" => (Spec => PaidIsKept)` | `OrdersOK`: an order is named once, so `createIfAbsent` never writes over a payment; `ByStatusOnly`: only the gateway's settled state, error bodies and refunds write to one; a thread about to fail a payment has seen the transaction failed at the gateway, or its order is in `misread` |
| `PaymentsProofs!RecordedRefundsAreReal` | `RecordedOnce, IsFiniteSet(Threads) => (Spec => []RefundsAreReal)` | `RefundInv`: the amount on record, and the one a thread has computed to put there, leave room below what was paid back for every refund that is made and not yet counted (`Uncounted`). Sums are sizes of sets of units, so no induction over the refunds is needed. `RecordedOnce`: PhonePe, or no `refund.processed` event (3.1) |
| `PaymentsProofs!ConfirmedOnce` | `OneWay => (Spec => []SingleConfirmation)` | `ConfirmInv`: a payment that is confirmed, or whose confirmation is under way, refuses another transition to paid. `OneWay`: mock gateway or Razorpay, no failing capture, no refund, and webhooks of captured, paid orders and failures only; what it leaves out takes a payment out of paid, and then it is confirmed again (3.1) |
| `DeliveryProofs!DeliveryTypeCorrect` | `Spec => []TypeOK` | `TypeOK` ties a busy worker to a note, which makes it inductive; one lemma per group of actions |
| `DeliveryProofs!OneWorkerAtATime` | `Spec => []OneWorkerPerRecord` | only `StartNext` makes a worker take up a note, and it asks `inFlight` first; every other step leaves a worker with its note or with none. Faults, restarts and sweeps do not matter |
| `DeliveryProofs!SentOnlyIfAccepted` | `Spec => []SentWasAccepted` | `SentInv` adds that a worker about to record a success has seen its provider accept; no sweep, retry or fault writes "sent" |
| `DeliveryProofs!CalmDeliveryIsExactlyOnce` | `Calm => (Spec => ExactlyOnce)` | `ExactInv`, below; then each action is a step of `Outbox` or leaves it alone |
| `DeliveryProofs!BudgetHolds` | `Steady => (Spec => []CallsWithinBudget)` | `BudgetInv`: the attempts on file are the calls made, but for the one between a provider's answer and the update that counts it. `Steady`: no failing write, restart or admin requeue; answers may be lost and sweeps may hit a live send |
| `ProvidersProofs!RepeatsCanHelp`, `SentMeansTaken` | `Spec => []NeverRepeatedInVain`, `Spec => []SentWasTaken` | `MessageInv`: a message still to be sent has no final answer, and was taken at most as often as an answer was lost (`Unsettled`); `AnswerMeans` shows each adapter's tests agree with that |
| `ProvidersProofs!NoBrokenTransport` | `Spec => BrokenIsNotReused` | `TransportInv`: the cached transport is never one found broken, and a new one has a new name |
| `BookingsProofs!TypeCorrect`, `DiscountCounted`, `CancelledReleased` | `Spec => []TypeOK`, `[]DiscountIsCounted`, `[]CancelledHoldsNothing` | every handler is first reduced to one of five effects on bookings and uses (`Effects`: none, an insertion, an edit, a cancellation, a deletion); each invariant is then inductive together with `TypeOK`, effect by effect |
| `BookingsProofs!NeverReplaced`, `LimitsHold` | `[][BookingsKept]`, `[][UsesWithinLimit]` | from `TypeOK`: a new reference is larger than every one on file; a use is taken in the step that counts the uses |
| `BookingsProofs!TripsReminded` | `ReminderSpec => []TripsAreReminded` | `ReminderImplements`: the composition implements `Bookings`, whose invariants it therefore has; then what an evening's sweep has seen stays announced until the morning unless a handler touches it, which `late` records (`SweepsOK`) |
| `AuthProofs!NobodyStaysSignedIn` | `Spec => []SignedOutEverywhere` | `VersionsOK`: a session to be created with an older version has a revocation of the whole account behind it in the chain, and a rotation that would outlive one finds its session revoked |
| `AuthProofs!AnsweredExchangeIsFinal` | `Spec => []ExchangedTokenIsDead` | `IdsOK`: an identifier is drawn once, so no rotation puts an exchanged one back; it is a session's current one only while its own rotation waits in the chain |
| `AuthProofs!ResetLinkIsSpent` | `Spec => []ResetLinkWorksOnce` | `ResetsOK`: a link accepted is no longer on the account |
| `AuthProofs!LockHolds` | `Spec => []LockStopsGuessing` | `LocksOK`: wrong passwords judged late and requests still judging are together fewer than the threads |
| `AuthProofs!VerificationIsProof` | `Spec => []VerifiedWasProved` | `AllProved`: also what waiting requests are about to write |
| `LimitsProofs!ShortWindows` | `Spec => []ShortWindowsHold` | `EveryWindow`: whatever instant a window starts at, it holds no more than the budget; an admission not yet older than the shortest window is still in its bucket, for no sweep prunes with a shorter one, so the step that admits has counted it |
| `LimitsProofs!CodesAndNoncesWorkOnce`, `CodesAreSpaced` | `Spec => []WorksOnce`, `Spec => []SendsAreSpaced` | `OtpInv`: the attempts in a code's entry are the comparisons made with it, a code that is held has opened nothing and is the last one sent to its phone, and, while the store has room for every phone, the last one sent is held until its cooldown ends or it is used or used up. `NonceInv`: an outstanding nonce was never accepted |
| `LimitsProofs!RecentNonces` | `Spec => []RecentNoncesKept` | `Newest` of a set of numbers keeps each that fewer than that many are above; the nonces above one of the last `MaxNonces` are too few to push it out |
| `QuotesProofs!QuotesSurvive` | `Spec => []QuoteSurvivesOutage` | `CacheInv`: places are distinct and at most `inserts`. `StillThere`: the entry a fresh quote was shown from keeps its place, with a time no older, until as many entries came after it as the cache holds; for the entry that goes is the one with the lowest place, and all the others came later |
| `QuotesProofs!FaresGrow` | `Spec => []LongerCostsNoLess` | a lemma per trip type: the billed distance grows with distance and days, and so does the fare, across minimum distances and the local exceptions |
| `QuotesProofs!AmountsFit` | `Spec => []AmountsAddUp` | `BookedInv` says what a booking on file is, whichever way it was made: `PricingAfter` of some fare and coupon with its advance. Below it a lemma per operator of `Fares`, down to what `Rounded` can add or take: half a unit |
| `OffersProofs!AnnouncedOnceHolds`, `ConsentIsObeyed` | `Spec => []AnnouncedOnce`, `Spec => []ConsentObeyed` | `AccountsOK` ties what is on the account to what its owner last said; `IntakeOK` ties every emission and record to the answer it was made under and to one account per address |

`ExactInv` says when a note can have been accepted without being recorded as sent: only
while its worker stands between the two (`record`). Elsewhere a pending note has not been
accepted, a note that is nowhere in flight has not, and a worker behind `RecordSent` or
`GiveUp` has a settled note. So a worker that takes up a note finds it unaccepted, even
when a sweep put it back on the retry path while the first send was under way, because
`inFlight` keeps the second worker away until the first has settled it. Under `Calm` the
failing actions are disabled by their bounds.

In `AuthProofs` the twenty-odd actions are first reduced to what they do to the accounts,
to the sessions and to the failed logins (`AccountStep`, `SessionStep`, `LoginStep`), and
each invariant is proved over those effects only.

Left to TLC: liveness (`CapturedSettles`, `EveryRecordSettles`), since the prover has
neither fairness nor ENABLED, and the conditional theorems outside their conditions, as far
as the runs go there.

## 5. Not modelled, and why

Signatures, receipts, formatting, templates and providers' request formats: pure
functions of no consequence for the order of steps. The statuses the payment service
never assigns (captured, cancelled, expired, pending). Queries, history, metrics. The
BullMQ queue, which runs only with Redis. Hashing, the password policy, the static permission
table, profile edits, the pruning of expired sessions. Assignment of drivers, listings, the
invoice as a document, catalogue texts of packages. Places (text matching over remote map
services), gallery, contact, storing and moderating reviews, uploads, backups: I/O or data.
Record keeping by synchronous handlers, which no other request can interrupt.

The JSON store's calls to the file system are synchronous, so a store await resolves in
microtasks of the same turn of Node's loop. The models let any other step fall there,
which covers Node's order of microtasks whatever it is; the divergences of 3.1
need only the awaits on a network, on a hash, and failing writes.

## 6. Plan

Done: the core (`Payments`, `Delivery` with `Outbox`), sign-in (`Auth`, `Limits`), the
business side (`Bookings` with `Reminders`, `Fares` with `Quotes`), the edges of the
engine (`Providers`, `Offers`), and the proofs of section 4. Left, in this order:

1. `Checkout`: `Bookings` and `Payments` composed, with refunds of cancelled bookings and
   invoices; it needs a smaller abstraction of `Payments` to be checked.
2. `Store`: the temporary file, the rename and a crash between them, implementing the
   atomic update that `Payments`, `Delivery` and `Auth` take for granted.
