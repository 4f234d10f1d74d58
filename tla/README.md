# A TLA+ model of the JustPark backend

The repository is the Express/TypeScript backend of a parking marketplace: drivers
lock, book and pay for parking slots, hosts approve bookings and are paid out, admins
supervise. State lives in Postgres (Prisma, READ COMMITTED), in Redis (locks, OTPs,
sessions, idempotency keys) and at the payment gateways (Stripe, Razorpay, RazorpayX).
API handlers, webhook deliveries and BullMQ jobs work on that state at the same time,
each as a sequence of statements; hardly any of them holds a lock across two of them.
That is what the models are about. Paths below are relative to `src/src/`.

## The system

| component | state | operations | what makes it correct |
|---|---|---|---|
| Slot locks (`services/availabilityEngine.ts`, `config/redis.ts`) | Redis key `lock:slot:<slot>:<start>:<end>` with the driver and a TTL | lock (SET NX EX), refresh, release, expiry | one driver at a time has a slot and window in checkout |
| Availability (`services/availabilityEngine.ts`) | the slots it makes where none is active | booked slots, locked slots, capacity quota, buffer, hours, blackout days | live bookings of a slot stay apart; nobody parks outside the hours |
| Bookings (`modules/bookings/service.ts`) | `bookings` rows: status, slot, window, price | create, rebook, modify, extend, cancel, approve, reject, host cancel | no two firm bookings overlap; a cancellation is paid for once |
| Booking jobs (`jobs/processors/bookingProcessor.ts`) | the same rows, `host_earnings` | complete, auto-cancel, activate, no-show, release expired locks, reminders | no step of theirs loses a payment |
| Payments (`modules/payments/service.ts`) | `transactions`, gateway intents and orders, saved methods | intent, order, wallet payment, confirm, verify, webhooks, split payment | nothing firm is unpaid; a charge ends up somewhere |
| Refunds (`services/refund.ts`) | `refunds`, `transactions.status` | initiateRefund, refund webhooks | nobody gets back more than he paid |
| Wallet and top-ups (`modules/wallet/service.ts`, `services/wallet.ts`) | `wallets` rows and their entries, Redis top-up intents | credit, debit, top-up, withdrawal, admin adjustment | the balance is the sum of the entries; a top-up is neither lost nor doubled |
| Earnings and payouts (`modules/host/service.ts`, `jobs/processors/payoutProcessor.ts`) | `host_earnings`, `payouts`, `wallets.reserved_balance` | mature, request, process, webhook, fail | a host is not paid out more than he earned |
| Bank accounts (`modules/host/service.ts`, `modules/admin/service.ts`, `services/razorpayXService.ts`) | `bank_accounts` | add, register, retry, mark, delete | a payout under way has an account it can go to |
| Sessions and codes (`modules/auth/service.ts`, `middleware/auth.ts`) | `user_sessions`, `otp_tokens`, markers in Redis | sign in, refresh, log out, reset, change password, verify a code | a token that was refused stays refused; a refresh token is used once; caps hold |
| Spaces and slots (`modules/host/service.ts`, `modules/parking-spaces/service.ts`, `modules/admin/service.ts`) | `kyc_documents`, `parking_spaces`, `parking_slots` | document, create, submit, approve, pause, delete, edit slots | what is listed was reviewed; slots stay under bookings and within the capacity |
| Prices and promo codes (`services/pricingEngine.ts`) | `space_pricing_rules`, `promo_codes` | price, validate, count, refund amount | parts add up; surcharges are for the hours there are; a code's uses are counted |
| Idempotency (`middleware/idempotency.ts`) | Redis keys | claim, replay, release | one request with a key has one effect |
| Disputes, tickets, reviews (`modules/support/service.ts`, `modules/reviews/service.ts`) | `disputes`, `support_tickets`, `reviews`, the rating in `platform_config` | open, reply, resolve; write, edit, report, remove | disputed money waits and is paid once; the rating is that of the reviews |
| Vehicles and payment methods (`modules/users/service.ts`, `modules/payments/service.ts`) | `vehicles`, `saved_payment_methods` | add, edit, delete, set default | one default; a booked vehicle stays |
| Everything else | | sorting and filters of a search, favourites, notifications, profiles, uploads, e-mail, sockets | queries, single-row writes, I/O |

How they interact. The calendar and the money of a booking meet in the `bookings.status`
column: payments and approvals make a booking firm (`confirmed`), cancellations by four
actors and a cron job take it back, each by a read, some awaits, and a write by id. The
only check made at the moment of a write is the `EXCLUDE` constraint on firm bookings
(`prisma/migrations/20260322110000_add_parking_slots_and_slot_refs/migration.sql:28-33`)
and, for a driver's own cancellation, a status condition in the update. Gateways call back
with events that may be late, repeated and out of order. Confirmations, approvals and the
completion job write the host's earning, which cancellations put on hold and payouts draw on.

Money has three owners, the driver's wallet, the gateway and the host's wallet, and no
transaction spans two of them: refunds, top-ups, split payments and payouts are each a few
statements in a row, with an outside call between them.

Hard behaviours: interleavings of read, decide and write; a lock, a sentinel or a marker whose
TTL ends under a handler; repeated, late and reordered webhook events; a handler that stops
between the wallet credit and the refund record; a charge captured after its booking is gone;
a token of the same second as a revocation; boundaries of windows, buffers, quotas, hours of a
day and limits of use. `PROJECT.json` lists them under `hazards`.

## Modules

| module | what it is |
|---|---|
| `SlotCalendar` | abstract: a calendar of firm reservations with Reserve, Resize and Release |
| `SlotReservation` | locks, availability, booking rows and the handlers and jobs that write them; implements `SlotCalendar` |
| `BookingPayments` | one booking's attempts to pay, gateway events, earning and refunds |
| `HostPayouts` | one host's earnings, payouts, withdrawals, the cron job, RazorpayX |
| `Handlers` | what `HostBanking`, `HostSpaces` and `AfterStay` share: handlers, their records, crashes |
| `HostBanking` | one host's bank accounts, their registration in two calls, and the payouts that name them |
| `AuthSessions` | one account's sessions, tokens, markers in Redis, passwords and one-time codes |
| `UserWallet` | one user's wallet: top-ups, credits, debits, split and wallet payments, suspension, withdrawals |
| `TripOrders` | extends `UserWallet`: a booking paid and extended through Razorpay, with its refunds |
| `Vehicles`, `PaymentMethods` | a driver's vehicles and saved payment methods, each with a default |
| `DriverAccount` | composes the four: they share handlers, wallet, booking and faults |
| `HostSpaces` | one space: documents, review, slots, bookings on the slots |
| `AfterStay` | reviews and the rating, tickets, disputes and their settlement |
| `SpaceLife` | composes the two: the end of a booking takes it from one to the other |
| `Prices` | what a stay costs and a cancellation gives back, as operators |
| `Checkout` | extends `Prices`: the request that makes a booking, idempotent, with promo codes and hours |
| `MC...` | the instances of `SlotReservation`, `BookingPayments`, `HostPayouts`, `HostBanking`, `AuthSessions`, `DriverAccount`, `SpaceLife` and `Checkout` for TLC |
| `Sums` | lemmas, proved: what `SumFunctionOnSet` computes over any finite set |
| `..._proofs` | TLAPS: theorems about `SlotCalendar` and `SlotReservation`, `BookingPayments`, `HostPayouts`, `AuthSessions`, `Checkout` and `DriverAccount`; `Host_proofs` about `HostBanking` and `SpaceLife` |

All of them are built alike. `reqs[r]` is an execution slot of the server: what a handler has
read and which statement comes next. An action is one statement (a query, an update, a
transaction, a call of a gateway or of Redis) with the synchronous code around it, and anything
may happen between two of them. A handler whose writes depend on what it read earlier is two or
more actions; a guarded `updateMany` is one. Where a module has `crashes` or `faults`, a handler
may stop between two statements (a process that dies), and where the code catches an exception,
a call may throw. The newer modules choose a *workload* in `Init`: which operations a behaviour
may use, how many handlers are at work and how many faults there may be. One run then explores
every workload of its MC module, each of which brings together the operations that meet in the
same state; a property that holds only for requests that come one at a time says so (`OneAtATime`
is "the crew of this workload is one"). History (`past`, `matured`, `applied`, `seal`, `unset`,
`chosen`, `lapsed`, and `granted` in a dispute) is read by properties only.

### SlotReservation

`locks[<<s, w>>]` is the value of the Redis key, `bk[b]` a row (or `NoBooking`), `orders`
the extension orders that were created and not yet verified, `instant` the space's
`instant_book`, `now` the clock. `ModifyRead`/`ModifyWrite`, `ConfirmRead`/`ConfirmWrite` and
`LockQuery`/`LockScan`/`LockSet` are handlers in several statements; `CancelByDriver`, `Activate`
and `DetectNoShows` are guarded updates. `Save` writes a row and fails
as a whole when the constraint objects, which is how PostgreSQL behaves.

Abstractions: times are small naturals; a booking's age is not modelled, so the sweep
may choose any non-empty set of unpaid pending bookings; the payment is reduced to what the
calendar reads of it; opening hours, blackouts and duration limits are in `Checkout`; the three
reads of `confirmBookingAfterPayment`, started together by `Promise.all`, are one read. The
refresh of a lock its owner already has only postpones `Expire`. The sweep's `redis.del`
uses the key of whole-space locks (`RedisKeys.slotLock`), which no slot lock has, and so
changes nothing here.

### BookingPayments

`txn[t]` is the row of the t-th attempt, `charge[t]` what the gateway knows of it (`open`
until captured; nothing in the code cancels an open intent), `declined` the attempts with a
failed event to deliver, `credited[t]` the money given back, `recorded[t]` the sum of the
refund records, `earning` the row of `host_earnings`, `slotFree` whether the `EXCLUDE`
constraint admits the booking (`SlotReservation` says when; here both values are explored).
`fresh` and `overdue` are the ages the sweep looks at. `Crash` ends a handler between two
statements: a process that dies or a statement that throws. Events are delivered while
`HookRead`, `HookFailed` are enabled, as often and as late as the environment likes.

Abstractions: every attempt is for the whole price (the wallet-and-card split is in
`UserWallet`, extensions and the two ways of a refund, the 5% goodwill credit and Razorpay's
switch from order id to payment id in `TripOrders`, disputes in `AfterStay`); a refund to the
gateway and one to the wallet are the same credit; the wallet payment's idempotency key, which
contains the time in seconds, never collides. An administrator's refund is of an amount from
`AdminRefunds` or, without one, of the price (`adminFind` after a cancellation); the code sets no bound to
the amount, but `initiateRefund` cuts it to what is left, so that amounts up to the price move all the
money there is to move. `refund_amount` is increased by the amount that was asked for, not by what
was refunded.

### HostPayouts

`earning[e]` is the status of a booking's row in `host_earnings`, `balance` and `reserved` the
host's wallet, `payout[p]` a row of `payouts` (`known`: its `razorpay_payout_id` is stored),
`transfer[p]` what RazorpayX has under the row's idempotency key, `notices` the events it has
still to get acknowledged, `matured` a history of earnings that were ever available. A payout
of earnings and a withdrawal from the wallet are the same kind of row; `from` says which one
it is and only properties read it. No statement of the code ever gives an earning a
`payout_id` or the status `paid_out` (the `updateMany`s that filter on them change nothing), so
`Available` is the difference of sums the code computes. `Complete` and `Fail` are
`completePayout` and `failPayout`, which the cron job, the webhook (its own copy) and the admin
share. The cron job carries the list of rows it found through the loop (`todo`); its call of
the gateway (`CronSubmit`) and what it does with the answer (`CronWrite`) are two steps, and a
crash or an event may come between them. RazorpayX may make a transfer, fail it, take it back or reject
it, in its answer or later by an event; `Internal` maps its statuses as `mapRazorpayXStatus` does. `rejected`
stands for `cancelled` as well: the code treats them alike. `Handled` are the events the webhook
has a case for; it acknowledges the others and does nothing (`HookDropped`).

Abstractions: one host; every earning is worth `Net`; the wallet's other movements are in
`UserWallet`, bank accounts and the mode without RazorpayX in `HostBanking`; the sums of
`getPayoutAvailabilitySummary`, started together by `Promise.all`, are one read; any subset of
the pending earnings may be due; a cancellation holds an earning like a dispute that is never
rejected. `Ops` switches on lost answers of the gateway (`lostAnswer`) and lost
acknowledgements of events (`lostAck`).

### HostBanking

`account[a]` is a row of `bank_accounts` (`verified`, `status`, whether it has a contact and a fund
account), `payout[p]` a row of `payouts` with the account it names. `addBankAccount` answers and goes on:
contact, fund account, then `verified` or `failed`; `retryBankAccountVerification` and
`adminRegisterBankAccountWithRazorpayX` do the same to the same row while it runs.
`requestPayout` looks for the account and inserts in two statements, `deleteBankAccount` looks for
payouts and deletes in two; the payout's foreign key is what stands between them. `load.configured` says whether
RazorpayX is configured. Whether a payout has been earned is in `HostPayouts`.

### AuthSessions

Session `s`, its refresh token and its access token have the same number; numbers grow in the
order of creation. `session[s].iat` is the second its tokens were issued in, `retired` the keys
`rtok:retired`, `revoked`, `blacklist` and `cutoff` the markers `authenticate` looks at, each
with the second it ends in. `Accepted(s)` is what `authenticate` says of the access token.
`code`, `failures` and `locked` are the one-time codes of the password reset with their attempts,
`resetKey` the reset token in Redis. Sign-ins (password, Firebase, social), the eviction of the
oldest sessions, the rotation of a refresh token and its reuse detection, logout, revocation of
one or all sessions, password change and reset, deactivation and an administrator's suspension
are statement by statement. An account its owner deactivated has lost its e-mail address and phone number
(`anonymised`) and is found by no sign-in; one that an administrator deactivated keeps both, and
phone sign-in and the linking of a social account let it in as the code does.

Abstractions: a sign-in's tokens are signed in the second its session is made (`SignsInTime`);
counters and locks of codes expire only while no handler is between two of their commands; the
expiry of a session after 30 days and the limit on codes sent are left out;
`TokenLife <= MarkerLife` is an assumption (an access token lives 15 minutes unless configured,
the markers end later); the codes that verify an e-mail address are consumed as those of a reset are.

### UserWallet, TripOrders, Vehicles, PaymentMethods, DriverAccount

`balance`, `reserved` and `ledger` are the wallet's two columns and the sum of its entries.
`topup[t]` is the gateway's payment with the key `wallet:topup:<ref>` (`marker`); `ApplyRead`,
`ApplyMark`, the credit in two statements, and `ApplyDelete` or `ApplyUnmark` are `applyTopUpCredit`,
called by the client's confirmation and by the webhook. `split[s]` is the transaction of
a split payment with its PaymentIntent. A debit locks the row and is one step; a credit reads and
writes in two. `SuspendRead` and `SuspendWrite` are the loop of `updateUserStatus` over a user's bookings.

`order[o]` is a Razorpay order with its transaction row: `ref` says whether `gateway_ref` holds
the order's or the payment's id. `VerifyRazorpayPayment` and `VerifyExtension` are the client's
calls, `HookCaptured`, `HookFailed` and `HookRefund` the events. `refund[n]` is a row of `refunds` with the gateway's refund; `ReturnRead` to `ReturnStatus`
are `initiateRefund` with its fallback to the wallet, for a driver's, a host's and an
administrator's cancellation. The unit of time is the hour and of money the price of an hour, so
an extension of two hours costs two. `trip.total` and `trip.earning` are the price and the host's
share of it (before fees). `Compensate` is the 5% credit of `hostCancelBooking`.

`vehicle[v]` and `method[k]` are rows with their default flag. A vehicle that a booking names
cannot go (a required relation; the database restricts the delete).

`DriverAccount` shares handlers, faults and the wallet among them: a refund of `TripOrders` is a
credit of `UserWallet`, and a trip is booked with a vehicle of `Vehicles`. Abstractions: one
booking at a time for each payment method (the wallet and split payments' in `booking`, Razorpay's
in `trip`); amounts of one or two units; a top-up in progress never meets a gateway that is not
configured.

### HostSpaces, AfterStay, SpaceLife

`doc[d]` are the host's identity documents, `space` the row with the number of its photos, whether
it has prices, its location (`located`, what search uses) and geohash (`mapped`, what favourites
use); `setLocation` is a statement of its own after the insert. `slot[s]` are its slots, `booking[b]` bookings for the
same hours, so one slot takes one. `createSlot`, `updateSlot`, `deleteSlot`, the creation of missing
slots by `checkAvailability` and the capacity are each read and write. The wizard
(`modules/parking-spaces/service.ts`) makes a draft without documents, slots or geohash.

`stay[b]` is a booking that is over: how it ended (`Endings`: completed; cancelled by the driver, the
host or the cron job; by an admin; by the driver's suspension), what was paid, what was given back of the
payment (`refunded`), what went to the wallet in place of a refund (`returned`) and the goodwill
(`credited`). A cancellation gives back nothing, a part or all, and leaves the earning as its handler does
(`EarningsLeft`). `Release` is `releaseHeldEarnings`; nothing else moves an earning to `available` but a dispute
that is rejected. `rating` is the set of reviews, with their stars, the stored average was computed from: the
average of the current ones is right iff that set is. `refreshSpaceRating` reads the aggregate and
upserts in two statements after the answer. A dispute is resolved in one transaction and paid after
it, by `initiateRefund` or, when that throws, by a credit; one resolved with `credit` adds goodwill to the
wallet (`Goodwill`), of any amount the administrator gives or a tenth of the price, whatever was paid or
refunded before. A refund is one step here; its
statements are in `BookingPayments`. `SpaceLife` joins them: the end of a booking frees its slot
and opens it to reviews and disputes.

### Prices and Checkout

`Prices` is `calculateBookingPrice` and `calculateRefundAmount` in half hours and paise: rate type
by length of stay, peaks clipped day by day, weekend by hour, discounts for long and early
bookings, promo code, minimum, platform fee and tax, each rounded to two decimals as the code does.
The references are in the properties: `PeakFair` and `WeekendFair` count, half hour by half hour, the
stay's time in the peaks and on the weekend. `Peaks`, `Rules` and `Promos` are what the validators
accept, except that `timeField` takes any four digits and the model times of the clock; `Rates` are
not validated at all and taken to be at least 0.

`Checkout` is `createBooking` behind the idempotency middleware: `Claim` (SET NX of the sentinel),
`Hours` (`runSpaceLevelChecks`), `Quote`, `Insert`, `Count` (`incrementPromoUsage`), `Answer` or
`Refuse`. `key[k]` is the entry in Redis, `lapsed` the keys whose protection ended (expired, or Redis
failed: the middleware then lets requests through). Hosts edit hours, blackout days and rules, and
administrators codes and rates, between any two statements; `modifyBooking` reprices,
`cancelBooking` computes a refund. A booking keeps in `seen` the hours that were read for it.
Abstractions: one driver, whose slot lock is his; windows and rules from the small sets of
`MCCheckout`; all days are UTC, as in the code.

## Runs

All twelve are expected to pass.

| run | question | instance |
|---|---|---|
| `calendar` | do firm bookings stay disjoint, and is every write a step of the abstract calendar? | 2 bookings, 2 handlers, windows [0,1) [0,2) [1,2), the host toggling `instant_book` |
| `serial_apart` | do the availability checks keep live bookings a buffer apart? | 2 drivers, 2 bookings, 1 handler, 5 windows, buffer 1 |
| `locks` | can two drivers get live bookings of one slot and window? | 2 drivers, 2 slots, 2 handlers, overlapping windows |
| `payments` | is anything firm or earned unpaid, do credits and refund records agree? | 1 attempt, 2 handlers, 1 crash, refunds of a part |
| `settled` | does every captured charge end up somewhere; refunds bounded, no orphan earning | 2 attempts, 1 handler, fairness |
| `payouts` | is the wallet ever credited from nothing, or a payout completed without a transfer? | 2 payouts, 1 earning, deposit 1, 2 handlers, all events (late rejections too), admins |
| `payouts_serial` | do payouts stay within the earnings, does the wallet's ledger balance, is every payout settled? | 2 payouts, 2 earnings, deposit 1, 1 handler, 1 crash, disputes, lost answers and acknowledgements, fairness |
| `banking` | has an open payout a payable account, is a pending account under way? | 2 accounts, 2 payouts, 4 workloads of 1 or 2 handlers, 1 crash |
| `sessions` | does a refused token stay refused, is a refresh token used once, do caps and budgets hold, is a reset final? | 3 sessions, cap 2, 2 codes, budget of 2 wrong answers, 3 seconds, 7 workloads, 1 crash |
| `account` | is the wallet the sum of its entries, do a top-up, a split payment and an extension count once, do refunds add up, is there one default? | 2 top-ups, 2 split attempts, 3 orders, 3 refunds, 3 vehicles, 4 methods, 17 workloads, 2 faults |
| `spaces` | is what is listed reviewed, do slots stay within the capacity, is disputed money held and paid once, whatever was refunded before, is the rating that of the reviews? | 2 documents, 3 slots, 2 bookings (1 where disputes are), 2 tickets, price 2, given 1, 2 or 3, 11 workloads, 1 crash |
| `checkout` | one booking per key, uses of a code counted, stays within the hours, prices that add up? | 2 keys, 2 bookings, 21 workloads of windows, rules and edits, 2 faults |

Why the bounds are enough for the questions. An overlap needs two bookings, and a race two
handlers: a third adds nothing to a property of pairs. The windows of `calendar` are a
short booking, the same one extended, and the one the extension runs into; those of
`serial_apart` meet at distance 0, 1 (the buffer) and overlap in every way. A refund or a
repeated event needs one attempt; a charge after a cancellation and a second try need two.
Price 2 with refunds 0, 1 and 2 has no, a partial and a full refund, and 3 in a dispute is more than
was paid. Two payouts and a deposit
and an earning of one unit each are the smallest case in which a payout of earnings can meet a
withdrawal's reservation; with two earnings a payout can take a part of what is available.
A cap of two sessions is exceeded by the third; a token issued at second 0 lives until 2 and a
marker until 3, so the clock passes the end of both. A trip, its extension and a second one
from the same end are three orders; a top-up that is applied twice meets one that is not. The
windows of `checkout` touch, cross and enclose the edges of the peaks, midnight, the weekend, a
closed day and a blackout day; the tariffs have no, one and two overlapping peaks, a peak over
midnight, discounts below, at and above 100%, a minimum, and every rate type.

`calendar` issues every operation but five (release of locks, rejection and host cancellation,
completion and no-shows only free time or locks, and are in `serial_apart`). `serial_apart` has no
extensions: an order may be verified long after it was checked, and the code does not look
again, so a *pending* booking may by then lie in the extension's way. With two handlers
`LiveApart` fails for the same reason: the check and the insert are separate, and the
constraint ignores pending rows. `locks` assumes (`LockOutlivesHandler`) that a lock does not
expire between a handler's look at its owner and the handler's end: the TTL is minutes and
the handlers are milliseconds. It has no releases, since a driver may release his lock while
his own booking is being created and thereby lets the next driver in.
`payments` has every operation but a host's rejection, which writes what his cancellation writes: a pending
booking is cancelled there by the driver, an admin and the sweep, and the theorems cover the rejection.
`payouts_serial` has no admin decisions, reversals or `payout.initiated` events: an admin may
contradict the gateway, a reversal after completion never returns a withdrawal, and a late
`initiated` reopens a settled payout (below). Transfers are rejected late in both runs,
and `PayoutSettled` excepts such a payout by name (`RejectedLate`), since nothing settles it; only the event, which
the webhook drops, is left to `payouts`. `settled` runs one handler at a time, without admin
operations (an admin's cancellation leaves the earning `pending`) and without toggling (below).
In `checkout` a price is compared with the refund only where no modification rewrites it, and
a code's limit only where no administrator lowers it. `CHECK_DEADLOCK FALSE` throughout: the
bounded environment stops issuing requests when its bounds are used up.

Fairness (`FairSpec`): a handler in flight executes its next statement (weak, the event
loop runs it); the gateway delivers the success event of a captured charge again until it is
acknowledged (strong, `HookRead`: gateways retry while the backend answers with an error or
the row is not yet completed, and the client's return calls the same code); the sweep's job
repeats (strong, it is a cron job and finds the booking again); time passes (weak). For
payouts: the cron job comes every day (strong, `CronFind`), RazorpayX makes, fails or rejects in the end what it
accepted (weak, `BankSettle`) and delivers an event until it is answered with 200 (strong). Nothing
is assumed of drivers, hosts and admins.

## What the reading and the runs show beside the properties

Where the code does other than its comments say, or than a reader expects, the properties say
what does hold and this list what does not. Each was met while modelling; most are a
counterexample of a few steps to a stronger form of a property.

Bookings and payments:

* `modifyBooking` writes the new end by id after several awaits
  (`modules/bookings/service.ts:571`); a payment that confirmed the booking meanwhile leaves a
  firm booking with an end nobody paid for. It also reprices without the promo code that was
  counted, and when it races a cancellation it rewrites the price behind the refund.
* The auto-cancellation is for pending bookings that are unpaid, says its comment
  (`jobs/processors/bookingProcessor.ts:122`), but its update (`:145`) does not repeat the
  condition and cancels a booking that was paid since the query.
* `processWalletPayment` looks for an earlier payment (`modules/payments/service.ts:345`) outside
  the transaction that charges, so two requests at once charge twice; it also writes a balance
  it read without a lock.
* A late failed event turns a refunded transaction to `failed`, and a repeated success event
  turns it back to `completed` (`modules/payments/service.ts:166,298`).
* `releaseLock` reads the owner and deletes by name in two commands
  (`modules/bookings/service.ts:329,342`): a lock that expires in between and is taken by
  another driver is deleted for him.
* The lock does not prevent overbooking *during* checkout as the comment at
  `modules/bookings/service.ts:439` says: keys are exact windows, the insert is not
  constrained for pending rows. The constraint refuses the second payment instead.
* `checkAvailability` subtracts the number of overlapping bookings, not of booked slots, from
  the capacity (`services/availabilityEngine.ts:268`): back-to-back bookings of one slot hide a
  free one. `createBooking` does not ask whether the slot is active.
* Two refunds of a transaction in flight, a driver's and an admin's, both credit the price
  (`services/refund.ts:101-182`).
* A host's or driver's cancellation refunds the latest completed transaction only
  (`modules/bookings/service.ts:903,1216`); a driver charged twice loses the other, and after an
  extension only the extension is refunded.
* An admin's cancellation of a paid booking that awaits approval refunds nothing, and of a
  firm one leaves the earning `pending` (`modules/admin/service.ts:711-734`). An admin's refund adds to
  `refund_amount` what was asked for, even where less was left to refund (`:763-769`).
* A host who switches `instant_book` on while a paid booking awaits his approval can then
  neither approve nor reject it (`modules/bookings/service.ts:1050,1106`), and the sweep
  leaves paid bookings alone; only a cancellation ends it.
* `modifyBooking` calls `checkSlotAvailability` without skipping the lock scan
  (`modules/bookings/service.ts:562`): the lock the driver still holds from checkout counts as a
  conflict with his own modification.

Payouts and bank accounts:

* Two payout requests, or a request and a withdrawal, at the same moment both pass the
  in-flight check that is meant to "prevent concurrent payouts" (`modules/host/service.ts:843`).
  Both may be paid, and settling one then takes the other's reservation.
* A gateway answer that is lost, after the transfer was made, fails the payout
  (`jobs/processors/payoutProcessor.ts:171-175`); the host may request the money again, under a
  new idempotency key.
* An event about a transfer whose id is not stored yet is acknowledged and lost
  (`modules/payments/service.ts:1401-1402`); a late `payout.initiated` moves a settled payout back
  to `processing` (`:1411-1416`), where a repeated event settles it again.
* A transfer that is reversed after completion leaves a withdrawal's money nowhere: the
  reservation is gone and `failPayout` returns only what is reserved.
* A cron job that stops after marking a payout leaves it in `processing`; no later run looks
  at it, and it blocks further requests until an admin acts.
* A transfer that RazorpayX accepted and then rejects or cancels leaves its payout in `processing` for
  good. `services/razorpayXService.ts:55-63` knows both statuses and `mapRazorpayXStatus` takes them for
  failures, but `handleRazorpayXWebhook` has no case for their events
  (`modules/payments/service.ts:1410-1524`), though a comment says "Webhook will complete/fail later"
  (`jobs/processors/payoutProcessor.ts:152`). A withdrawal's money stays reserved and the host can
  request no further payout until an admin ends this one.
* Withdrawals from the wallet are subtracted from what the host may request of his earnings
  (`modules/host/service.ts:607-622`).
* `adminRegisterBankAccountWithRazorpayX` does not set `verification_status`; every account gets a
  contact of its own though `services/razorpayXService.ts` speaks of one per host; two changes
  of the default account at once leave two, deleting the default leaves none.

Wallet, trips and vehicles:

* `creditWallet` (both copies), a host's cancellation and the wallet payment read without a lock and
  write an absolute balance: two at once, or one beside a debit, lose an update.
* Two appliers of one top-up both read `credited: false` and both credit, although
  `modules/wallet/service.ts:140` says the flag prevents it; a stop between flag and credit loses
  the top-up; a key that expired answers "already credited"; the webhook swallows the
  credit's error, so the gateway does not deliver again.
* The split payment's `$transaction` does not use its client
  (`modules/payments/service.ts:973-993`): a confirmation that fails after the debit leads to a second
  debit at the next delivery, as does an event that comes after a refund. A client's
  `confirmPayment` completes a split payment without the wallet's part, and a cancellation
  refunds the card's part only.
* Suspending a user credits the full price of bookings that were not paid
  (`modules/admin/service.ts:469-470`), and a stop in the loop leaves cancelled ones unrefunded.
* Razorpay's webhook, or a verification that does not ask what the order is for, completes an
  extension's transaction without extending; the extension's own verification then finds
  nothing, because `gateway_ref` has changed (`modules/payments/service.ts:1188`). The branches for
  a transaction that is completed already cannot be reached for the same reason.
* Two extensions ordered from the same end and both paid extend once. Two verifications at once
  add the amounts twice, since the status is read outside the transaction. The price of an extension
  is asked for with the booking's id in the place of the space's, is never found, and the host's earning
  grows by the whole amount, fee and tax included.
* `hostCancelBooking` writes `cancelled` whatever has become of the booking, and pays no compensation
  when `initiateRefund` throws. A refund event that comes before the refund's row leaves it
  pending; a gateway refund that succeeded but whose answer was lost is credited to the wallet too.
* `updateVehicle` can unset the only default despite its comment (`modules/users/service.ts:198`);
  `deleteVehicle` looks for live bookings only, but the database keeps any vehicle a booking
  names. Deleting a payment method and promoting the next are separate statements.

Sessions and codes:

* Two verifications of one code at once both consume it, although
  `modules/auth/service.ts:282` says the transaction prevents it; so do two resets with one token
  (`:905-939`).
* A log-in in flight across a reset leaves a session opened with the old password; a refresh in
  flight survives the mass revocation of reuse detection; a stop between the reset and the marker
  leaves old access tokens accepted; those of the same second always are
  (`middleware/auth.ts:47`).
* Firebase and social sign-in by e-mail do not ask whether the account is suspended, or deactivated by an
  administrator (`modules/auth/service.ts:203-209,733-747`); a password can be changed after deactivation while the token lives.

Spaces and what follows a stay:

* The wizard asks for no identity documents, though `createSpace` says they are required to list a
  space, and neither submission nor approval looks at them. Its slots appear only when
  availability is asked for. Images may be changed in any status.
* Submitting, pausing, approving and rejecting write by id after a stale read: a race revives a
  deleted space. `deleteSpace` and `createBooking` miss each other when they race.
* `deleteSlot` looks for bookings to come only, but the migration's foreign key keeps any slot a
  booking names. Two `createSlot` at once pass the capacity; `updateSpace` lowers it below the
  active slots; `checkAvailability` makes slots again that the host deleted, when none is active.
* A stop between the insert and `setLocation` leaves a space that can be listed and is not on the
  map (submission asks for the geohash only).
* The rating is read and written by two statements, so two refreshes may leave the older one;
  a flagged review counts until the next refresh; an edit or a report that races a removal
  revives the review.
* A goodwill credit comes on top of whatever was refunded, without a bound: after a full refund the driver
  has more than he paid (`modules/support/service.ts:717-727`). If it throws, or the process
  stops after the transaction, the dispute is resolved and the credit is never made.
* Two administrators resolving one dispute both pay. When `initiateRefund` throws, the full
  transaction, or the amount of a partial refund however large, is credited, whatever was refunded
  before (`:702-716`).
* An admin's cancellation sets neither `cancelled_by` nor `cancelled_at`, so a rejected dispute makes such a
  booking `completed` (`:633,669-679`) and its earning, if it was held, `available`, though the
  driver had his refund.
* The suspension of a driver credits the price and leaves the transaction `completed`
  (`modules/admin/service.ts:466-477`), so a dispute resolved by refund pays once more. `DisputeIsSettled`
  leaves these bookings out.

Checkout and prices:

* The discounts of a long and an early booking are added and may exceed 100%, as a promo code
  may (`admin/validators.ts:214` bounds a percentage by nothing): without a minimum the total is then
  negative, and so is the refund. Two that halve an odd price are each rounded up, and take it
  to -1 paisa (tariff `Halving`), so `PriceRight` allows that much below zero and no more.
* A peak over midnight is never charged; the weekend is counted in hours from the start.
* A stay over midnight of less than 24 hours is compared with the first day's closing time, by the
  minute of the day it ends in: it may reach into a closed day, and one that ends at midnight
  passes any closing time.
* A handler slower than the 30-second sentinel lets a second one run under the same key, and its
  late write then replaces the other's answer; when Redis fails requests go through. The body is not
  compared on replay; `rebook` has no key.
* A promo code's use is counted after the insert of a booking that is still pending, although the comment says
  "called after booking confirmed" (`services/pricingEngine.ts:392`): one that is never paid has used
  the code. A stop loses the use, and handlers at once exceed the limit by one less than their number.
* A change of several keys of the platform's settings writes each by itself
  (`modules/admin/service.ts:866-874`): a price in between has the new commission and the old tax.

## Proofs

All for every value of the constants: any number of drivers, slots, bookings, attempts, accounts,
sessions, keys and handlers, any buffer, capacity and lifetimes, any workloads. The assumptions are
the modules' `...Assumption`s, which TLC evaluates in the runs: numbers are naturals, handlers and
the rows that are summed up are finitely many, the host's space has room for at least one row of each
kind, a marker lives no shorter than a token (`AuthSessions`), and what a workload of
`Checkout` may set has the shape the validators of the code enforce, and rates are not negative.
A workload is a record with the fields its module reads; in `Host_proofs`, where two modules have one
set of workloads, it has those of both, and neither module looks at the other's.

`SlotReservation_proofs`. `TypeOK` is not inductive on its own, and neither is
`NoDoubleBooking`: a modification in flight writes to a row that must still be there, and a
statement may touch only rows that exist. `IInv` is the conjunction of `LocksOK`, `TableOK`
(rows well typed, firm ones disjoint), `OrdersOK` and `HandlersOK` (handlers well typed,
their targets exist). The argument goes through one fact per handler, `TableStep`: a step
saves one row under the constraint, or makes rows less firm without moving them, or leaves
the table alone. `TableStep` alone preserves `TableOK` and implies the calendar's step, so
`FirmBookingsDisjoint` and `Refinement` need no further case analysis over handlers. What
the theorem says about the code: safety of the calendar rests on the constraint alone, and
no handler, whatever it read earlier, can get around it.

`CalendarIsExclusive` is about the abstract calendar: it keeps its promise, since every step that gives a
reservation asks that it clash with nobody else's, and clashing is mutual.

`LockGivesOneDriver` is about what the locks decide while they last (`LocksDecide`: no key expires
under a handler that has read it; nobody releases, which lets a key go under one's own create; nobody
pays, approves or extends: a confirmation in flight brings a cancelled booking back). A handler that
creates has the key of its window until it is done (`Holds`), so between its check and its insert nobody
else inserts there (`Cleared`). A modification takes a window without its key; it is safe because no
other live booking of the slot starts where this one does, nor is about to (`Grows`).

`LiveBookingsApart` is the other half: the availability check keeps pending bookings apart too as
long as nothing comes between the check and the write (`InTurn`: one handler at a time, but crossed by
time, expiring locks and cron jobs, and no extension, which does not check again). `Established` is
what the one handler knows: the window he will write is clear of the other live bookings of the slot (`Clear`),
the booking he will confirm is live. A cancellation or a cron job only makes rows `Fade`, which keeps distances.

`BookingPayments_proofs`. `NothingUnpaid` is not inductive: an approval, a completion or an
event that has passed its checks will make the booking firm later. `Justified` records what
such a handler has established, `PaidIsCaptured` that completed attempts were charged;
since a captured charge stays captured, nothing a handler knows becomes stale.
`NeverUnpaid` follows for any number of handlers, repeated events and crashes.

`RecordsMatchCredits` needs no assumption on the interleaving. A refund credits, then records; between
the two the handler owes the record. `Returned` says what was credited for an attempt is what is recorded
plus what all handlers together have still to record (`Unrecorded`, a sum over handlers), and at least
that when one has stopped. Every step moves a handler's share from one side to the other, for
any number of refunds of one payment in flight.

`CancellationAddsUp` is false where a second refund passes its check before the first is recorded, a crash
separates credit and record, or an admin cancels and leaves the earning as it is. `CancellationIsPaidOnce` excludes
those three (`OneByOne`) and adds that what the one handler read is still so (`Current`) and that earning and status
go together (`EarningFits`).

`HostPayouts_proofs`. `TypeOK` is not inductive: a handler writes to the row it read some
awaits ago, so that row has to be there. `Informed` says what each handler in flight has
established: the rows it will write exist, and if it has seen an answer or an event that says
`processed`, the transfer was made. Rows are never deleted and transfers never unmade
(`RowsStay`, `MadeStay`), so no step of another handler spoils it. `NoFreeCredit` then follows
from the conditional updates in `completePayout` and `failPayout` alone, without any assumption
on interleavings, and `CompletedWasTransferred` from `Informed`.

`MoneyOnce` is false where handlers race or a transfer is reversed (see above), so
`MoneyIsPaidOnce` is proved where `Serial` holds: one handler at a time, no decision of an admin, no
`reversed` event. It may still crash at any statement, and webhooks come late and again. `SInv` adds to
`TypeOK` that one payout at most is in flight (`Solo`), that what the bank said is final, a rejection like a failure
(`Truth`),
what the wallet holds, reserves and has paid out adds up to the deposits (`Purse`), and matured
earnings cover what is drawn on them (`Covered`); `Alone` is what the one handler carries between statements:
the total he has computed is still covered when he inserts the payout. The sums are over any
number of rows, which is what `Sums` is for.

`Sums` proves what `SumFunctionOnSet` computes: it is unfolded by a recursive function over subsets
that takes elements `CHOOSE` picks, so that it exists, and that the order does not matter, are
inductions on cardinality. They are made by the least counterexample (`LeastNatural`), which
well-foundedness of `<` gives as a fact on sets, without an operator as a parameter.

`Host_proofs`, bank accounts. `PayoutHasAccount` is about a payout that is inserted by what its handler
read of the account two awaits ago, while another may delete it. `Informed` says what the handler
knows (the account was there and could be paid, `Fit`) and `AccountsStay` that this is never taken back:
no step makes a verified account unverified, and a row that a payout names cannot go
(`PayoutsNameRows`, the foreign key). That the row itself is still there at the insert is the
insert's own check, so the theorem rests on the key alone where the two handlers race.
`PendingIsRegistered` follows handler by handler: whoever makes an account pending owes it an answer
(`Owes`), and hands that debt on at each of his statements.

`Host_proofs`, the space. The properties of `SpaceLife` rest on one invariant, `LifeInv`. It says of
every handler which record it may hold (`Busied`) and what that record claims, in two parts. A *fact*
(`SpaceFact`, `StayFact`) is so whoever else runs, since no statement takes it back: a host who was verified
when his space was read, a space that is on the map or approved, a stay that is over, a review or a dispute
that is there. A *view* (`SpaceView`, `StayView`) is what the handler has read and another could make stale: that no
booking is open, that there is room for one more slot, that a dispute is open, that something can still be
refunded. It is claimed of a handler that is the only one (`OneAtATime`). `ListedIsReviewed`, the unique slot numbers
and the slots that bookings keep, and `DisputedIsHeld` while a dispute is open need only facts and the two keys of the
database; the rest needs views.

What is behind for a while is what some handler is about to do: a space that is not on the map has one at
`locate` (`Placed`), a rating that is not current one at `aggregate` or `store` (`Rated`), a full refund that is promised
and a goodwill that was granted one with that amount (`Repaid`). A handler that stops, or a refund that throws, breaks that, so these count only
while `crashes = 0`; and they count only for a lone handler, who is then the one (`RatedAlone`, `RepaidAlone`).
Between requests nobody is, which gives `RatingIsCurrent` and the second half of `DisputeIsSettled`.

`HostSpaces` and `AfterStay` are proved apart. `SpaceStep` and `StayStep` say what a step of a handler has to show: of
each table that it keeps its type, and of the record it goes on with that its claims are so. `SpaceSame` and
`StaySame` say that a step of the other half disturbs nothing, `SpaceRests` and `StayRests` that it leaves
this half's handlers where they are. The end of a booking, `Ends`, is the one step of both.

New slots get the lowest rows that were never used and the numbers asked for in their order. `WithSlots` picks the
k-th number of a set; that there is one is `HasRanks`, an induction on k by the least counterexample. `WithSlotsAdds` says
what matters: the new rows are free ones, their numbers differ, and there are at most as many as numbers.
`SlotsWithinCapacity`, a property of steps, follows from the views of the three handlers that switch slots
on: `slotWrite` (room for one), `flipWrite` (room for it among the others), `heal` (none is on, and it makes as many as
the capacity).

`AuthSessions_proofs` is in layers, each an invariant that rests on the ones before. `Lives`: a
session's row is made once, signed once, and replaced once, since no two handlers are about to
sign or to replace the same one (`Apart`). `Markers`: a marker ends no earlier than the token it
stands against, which needs `TokenLife <= MarkerLife` and the order of the statements that sign and
revoke. `RejectedForGood` is then one lemma (`NoMarker`: an accepted token has no marker that a
later step could have removed early) applied to each step. `Purges` and `Passwords` follow what a
reset leaves behind, `Room` counts the sessions of one request at a time, with those that are to
be evicted set against the one to come, and `Answers` counts wrong codes: each handler past the count
holds at most one that the budget has not seen.

`Checkout_proofs` is in layers too. `Orders` says what a handler at each statement has already
done: whoever inserts or answers passed the hours he read (`Fits`), and whoever is past the claim without
guarding his key has made it lapse. `KeysHold` puts every key that kept its protection at one of four
points: free with no booking; held by one handler, with the booking he has made; left by a
handler that stopped; answered with its booking. Each step of a handler moves his own key from one
point to the next and touches no other, which is `KeyMakesOne`. `Counted` adds to the uses those that
handlers have still to count (`ToCount`) and those they have let through (`Admitted`):
`UsesAreCounted` is the sum when nobody is at work. `FitsMeans` is the arithmetic of `ParkedInHours`: from
the 24-hour steps that `runSpaceLevelChecks` makes from the start of a stay to every instant of it.

`PricesAreRight` is arithmetic for the most part. `Priced` says that every order about to be written and every
row has a price as `PriceSays`; only `Quote` makes one, and `PriceOfSays` is about what it makes. The code
adds up peak by peak and day by day, or whole hour by whole hour, and the property half hour by half
hour: `PeaksExchange` and `WeekendNear` relate the two for a stay of n half hours by induction on n
(a least counterexample, as in `Sums`), where one half hour more changes one peak's overlap with one
day (`PeakLenStep`) and one hour's weekend (`CountedStep`). What the roundings may add is `RoundNear`
for one of them, and `SumNear` for as many as there are peaks and days.

`DriverAccount_proofs` is about four components that share handlers, one wallet and the count of faults.
Types (`DInv`) say what each handler may carry. A credit is made for whoever asked for it, so what a
handler is at is `Due` of its record: the record itself, or what follows the credit. Each component's handlers
move only by its own steps (`Elsewhere`, `AwayFrom`); its invariant is proved for those and holds through
the others' because they leave its rows and handlers alone.

* The wallet (`EntriesAddUp`): with one handler, what it read of the balance is still the balance (`Ledger`); where
  only debits run, nobody who writes a balance he read is ever at work (`Gated`).
* Top-ups: `TopUpInv` follows a payment from the key to the credit; whoever is between the
  flag and the credit is `InFlight`, and a credit that throws puts the flag back.
* Split payments: `Charged` needs no assumption; `DebitOnce` says where a debit that was taken is told from
  one that is owed.
* Orders: `Refs` says that who settles or refunds an order has seen its payment, which stays (`RowGoesOn`), whatever
  the others do. For one handler `AsPaid` adds up the extensions (a sum over orders) and knows that an order for an extension
  starts at the trip's end, or where one that was added starts.
* Refunds: `Squared` says that what the one handler read of the refunds still is so (`Squares`), and that a
  refund which the gateway made and nobody recorded has its handler (`Recorded`).
* Defaults: `OneVehicle` and `OneMethod` say what the one handler read of the defaults is still so, and
  that a default which was deleted is being replaced.
* A vehicle that a trip names stays, since no step of `Vehicles` removes one that is named (`VehicleKept`).

Out of the prover's reach and left to TLC: everything under fairness (`CapturedIsSettled`,
`PayoutSettled`). Every other property of the runs is a theorem.

## Not modelled

* The filters, sorting and geometry of a search; the rating a page or a search shows, which its
  query computes from the reviews (the stored one is read at `modules/reviews/service.ts:298`).
* Favourites, notifications, user profiles and statistics: queries, and writes of one row
  of one user. Uploads, e-mail, push, SMS, sockets: I/O whose outcome nothing depends on. Audit
  rows and messages are sent by the definition that ends a handler, and have no state.
* `recoverStuckSplitPayments` (`modules/payments/service.ts:1062-1130`): nothing schedules it, and
  it reads a user id from the metadata that is never stored there, so its debit always fails.
  `validatePromoCode` is called by nothing. `releaseExpiredLocks` looks for lock values that no
  lock has. `services/refundEngine.ts` is empty.
* An administrator's cancellation of a booking under dispute, or the suspension of its driver meanwhile: in
  `AfterStay` a booking ends once.
* Stripe's `charge.refunded` event; Razorpay's refund event is in `TripOrders`.
* Rate limits, validation of bodies, roles: one request each.
