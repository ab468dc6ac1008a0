# Formal specification of the aviation booking system

TLA+ modules, TLC instances and TLAPS proofs for the transactional core of the
booking server: the seats of a flight, the locks on them, the bookings that take
them, the money events that confirm or undo a booking, and the services around
them that write the same rows.

The server is an Express/tRPC application on MySQL (drizzle), with Stripe for
payments and BullMQ workers for background jobs. Several server processes and
workers share the database; an `await` between two statements is a point where
any other request, webhook delivery or job may run. Nearly every hard behaviour
of the system comes from that: most of the services read a row, decide in
JavaScript, and write later. A transaction changes little, because MySQL's
default isolation reads a snapshot and most transactions lock no row they read.

## 1. Inventory

| Part | State it keeps | Operations | What makes it correct | What is hard |
|---|---|---|---|---|
| Inventory locks (`inventory-lock.service.ts`) | `inventory_locks`, reads `flights.xAvailable` | create, verify, extend, convert, release, sweep | the locks granted fit in what is left; expired locks do not block seats | requests race; locks expire in between; row lock of the flight |
| Booking creation and cancellation (`bookings.service.ts`) | `bookings`, `flights.xAvailable` | createBooking, cancelBooking | no seat is lost or sold twice | the lock ends before the payment; status read before the transaction |
| Stripe webhook (`webhooks/stripe.ts`) | `stripe_events`, `bookings`, `financial_ledger`, `flights.xAvailable` | deliver, process, retry, post tasks | an acknowledged event was applied, once; a cancelled booking stays so | duplicates, crashes, failures, out-of-order events |
| Refunds (`refunds.service.ts`) | `bookings`, `payments`, Stripe | createRefund | seats come back once, with the money | no transaction around read, call and writes |
| Webhook retry worker (`queue-v2.service.ts`, `stripe-webhook-v2.service.ts`) | `stripe_events`, `bookings`, jobs | reconcile, retry, give up | a retried event has the effect of the first attempt, and is processed in the end | another implementation of the handlers; a job's id is the event's |
| Wallet (`wallet.service.ts`) | `wallets`, `wallet_transactions` | topUp, pay, refund | balance equals the sum of the entries, never negative | concurrent payments |
| Idempotency keys (`idempotency-v2.service.ts`) | `idempotency_requests` | withIdempotency, cleanup | an operation runs once per key | concurrent requests, failed and expired keys |
| Group bookings, rebooking, travel agents | own tables, `bookings`, `flights.xAvailable` | approve, reject, quickRebook, createAgentBooking | seats sold fit; limits hold | stale checks of counter, status and limits |
| Seat holds (`inventory/inventory.service.ts`) | `seat_holds`, `waitlist` | allocate, release, convert, expire, promote | holds fit in what may be held | read and insert apart |
| Waiting list (`waitlist.service.ts`) | `waitlist`, `flights.xAvailable` | join, offer, accept, decline, expire, cancel | first come, first served; offered seats stay accounted for | two services make offers from one table |
| Seat map and check-in (`seat-map.service.ts`) | `seat_inventory`, `passengers`, `bookings` | select, change, release, assign, check in | one seat for a passenger, one passenger on a seat | no transaction at all |
| Gates (`gate.service.ts`) | `airport_gates`, `gate_assignments` | assign, update, release, delete, set by hand | the status of a gate agrees with its assignments | four statements without a transaction |
| Loyalty (`loyalty.service.ts`, `family-pool.service.ts`) | `loyalty_accounts`, `miles_transactions`, family tables | award, redeem, bonus, reverse, expire, contribute, add, remove | miles are explained by the log; pools conserve them; one group for a user | balances written back from a stale read |
| Vouchers and credits (`voucher.service.ts`) | `vouchers`, `voucher_usage`, `user_credits`, `credit_usage` | apply, use, expire | limits and amounts are kept | counts compared without a lock |
| Price locks (`price-lock.service.ts`) | `price_locks` | create, use, cancel, expire | one active lock, one use | reads without a lock |
| Split payment (`split-payment.service.ts`) | `payment_splits`, `bookings` | initiate, mail, open, cancel, expire | one division of a price; confirmed when all is paid | mails and webhooks write by id |
| Sessions (`mobile-auth-v2.service.ts`) | `refresh_tokens` | login, refresh, logout, clean up | a token is exchanged once, a logout is final | concurrent refreshes |
| NDC orders (`ndc.service.ts`) | `ndc_offers`, `ndc_orders`, `bookings`, `flights.xAvailable` | order, cancel, change, service, expire | order, booking, seats and bill agree | up to five statements without a transaction |
| Flight status (`flight-status.service.ts`) | `flights.status`, its history, `bookings` | update, cancel and refund | no paid booking on a cancelled flight; the history is the status | bookings marked one by one, not repeatable |
| Fares, currencies, alerts, documents, crew, baggage, load control and the like | own tables | ... | ... | calculations, or one user's form over a row of its own |
| Caches, metrics, logging, e-mail, reports, UI | none that the rest depends on | | | not modelled |

How they interact: `createBooking` takes an inventory lock, inserts a pending
booking and converts the lock; `createCheckoutSession` sends the customer to
Stripe; the webhook confirms the booking and deducts its seats; `cancelBooking`,
`createRefund` and the refund events undo that; the clean-up job cancels
bookings that stay unpaid. They share three rows: the flight's counter, the
booking and the event. Everything else in the table touches one of these rows by
a way of its own, and mostly without the inventory lock: groups, rebooking,
agents and waiting-list offers subtract from the counter directly; NDC orders and
split payments make and pay bookings; a cancelled flight marks them refunded.
Scheduled jobs (`worker.ts`, `queue-v2.service.ts`, the schedulers) clean up keys,
tokens, bookings, holds and offers, and reconcile events every night.

The hazards of this code, each at its line with the property that would catch
it, are in `PROJECT.json`.

## 2. Modules

A component's module names its state, one action per statement or per group of
statements that nothing can come between, and its properties. Where a service
reads and then writes, the reads before the first write of an operation are one
action that stores what was read in the session, and each later write is an
action that uses what is stored. History variables, which no action reads, count
overlaps or name what an overlap has touched, so that a property can say what holds
without them and how far an overlap breaks it.

### SeatInventory

One flight and one cabin: every query of the lock service is keyed by them.
`avail` is `flights.economyAvailable` (or business), `lock` is
`inventory_locks`, `request[r]` is one call of `createBooking` with its program
point and local variables, then the booking it inserted. A statement is atomic;
so is nothing else, except that `rowLock` is the `FOR UPDATE` on the flight row
that `createInventoryLock` holds from its first read to its commit. The steps of
`createBooking` are `BeginLock` (the sweep of expired locks), `LockFlightRow`,
`CountLocks`, `GrantLock` or `RefuseLock`, `CheckAvailability`, `InsertBooking`,
`ConvertLock`; with a lock id from the client, `UseLock` or `UseStaleLock`
(`verifyLock`). `ReleaseInventoryLock`, `BeginExtend`/`ExtendLock`,
`GetAvailableSeats` are the other operations of the service. `call[c]` is a run of
the payment webhook or of `cancelBooking`: `ReadPayment` and `ReadCancel` copy the
booking, which no lock protects, and `Confirm` and `Cancel` write from the copy,
unconditionally; `ExpireBooking` is the conditional UPDATE of the clean-up.
`missedSeats` adds up the seats of the writes whose copy was older than the
booking's payment. What a failing webhook does is `StripeWebhook`'s subject.
`RollbackLock`, `FailBooking`, `SkipConvert` and `BeginLockUnswept` are the
failures the code handles. `Tick` is the clock.

### StripeWebhook

The bookings of one flight and cabin after creation. `outbox[e]` is what Stripe
knows of an event, `row[e]` its row in `stripe_events`, `worker[w]` one run of
`handleStripeWebhook` (one delivery), `request[r]` one API call. A delivery goes
through `CheckProcessed`, `InsertEvent`, `LoadBooking` (the handler's reads and
early returns), `RunUpdates` (its updates, holding the rows), `Commit`,
`Respond`; `Fail` and `MarkFailed` are the catch block, `Crash` the loss of the
process or of the response. The handlers of the five event kinds differ in what
they reject, write, deduct and restore (`Rejects`, `Writes`, `NewBooking`,
`Deducts`, `Restores`). `BeginCancel`/`CancelTx` is `cancelBooking`,
`BeginRefund`/`CallStripe`/`RecordRefund`/`RestoreSeats` is `createRefund`,
`ExpireBooking` the clean-up job, `CreatePayment` the legacy `payments.create`.
`TaggedKinds` says which Stripe objects carry `metadata.bookingId`: the checkout
sessions the repository creates do; payment intents and charges do not, unless
somebody configures them to. Runs that show the code right allow them all
(except where they say so); runs that show a disagreement allow only checkouts.

### WebhookRetry

What becomes of an event that a delivery left unprocessed. `wrRow` is
`stripe_events`, `wrDelivery[e]` the booking status a delivery of
`webhooks/stripe.ts` has read and not yet committed, `wrJob[e]` the job of the
event in the queue or the status its attempt has read. `WRReconcile` is the nightly
job that adds a job for every unprocessed row (a job whose id BullMQ still keeps
is not added again); `WRTakeJob`, `WRJobCommits`, `WRJobRefused` and `WRJobBreaks`
are an attempt of the worker with the handlers of `stripe-webhook-v2.service.ts`.
Those handlers insert a status row that the strict mode of MySQL refuses, so an
attempt that would write one is always rolled back.

### Wallet and WalletLedger

One user's `wallets` row (or its absence) and its `wallet_transactions`. `call[c]`
is one call of `topUpWallet`, `payFromWallet` or `refundToWallet`, statement by
statement: `RejectAmount` (the early return), `FindWallet`, `CreateWallet` and
`ReadWallet` (`getOrCreateWallet`, in which two first calls may race for the
unique index on the user), `CheckWallet` (the status), then the transaction:
`UpdateBalance` (for a payment with the balance in its WHERE), `ReadBack`,
`InsertEntry` with the commit. The row the transaction updated stays locked
until it ends (`RowFree`); `Fail` rolls it back. `ChangeStatus` is somebody
freezing or opening the wallet.

`WalletLedger` is what the service promises: a statement of account, a balance
and a list of entries, to which an amount is posted in one step when the balance
afterwards is within 0 and the column. `Wallet` implements it (`ImplementsLedger`)
under the mapping of the committed balance and the committed entries.

### Idempotency

All calls of `withIdempotency` (version 2) that carry one scope, user and key; the
rows are those of that key, with fresh ids as the table hands them out. A call
looks the row up and decides (`FindNothing`, `RefusePayload`, `ReturnCached`,
`RefuseInProgress`, `TakeOver`), then `Insert` or `RefuseDuplicate` (the unique
index, which a null user escapes: `UserIsNull`) or `Rearm` (`RearmGone` if the
clean-up has removed the row, so that the call goes on without one), then `Run` or
`RunFails`, `Store` or `StoreFails`, `MarkFailed` or `MarkFails`. `Crash` is the
loss of the process, `Cleanup` the job that deletes expired rows. `Faults` says
which failures an instance allows. A request has two parts, what `calculateRequestHash`
keeps and what it drops: it hands the sorted top-level keys to `JSON.stringify` as the
replacer, which keeps the keys of those names at every depth and no others. Two
requests that differ only under other nested keys have one hash.

### Around the seats of a flight

* `SeatTakers`: approval and rejection of groups, `quickRebook` and
  `createAgentBooking`, over one counter. A clerk is a session with one call under
  way; each call compares first and subtracts in a later statement. The payment and
  the cancellation of a rebooked trip are calls that read the trip first
  (`STReadPayment`, `STReadCancel`) and write from that copy; `stMissed` adds up the
  seats of those that missed a payment.
* `SeatHolds`: `allocateSeats` and the end of a hold (release, conversion, expiry),
  with the rows of the waiting list this service inserts.
* `Waitlist`: the table `waitlist` under both programmes that make offers from it.
  `processWaitlist` takes the seats out of the counter in a transaction that reads a
  snapshot; the promotion of `inventory.service.ts` does not take them.
* `SeatMap`: `seat_inventory`, the seat on the passenger's row and the check-in of
  the booking, for one flight.
* `Gates`: `airport_gates` and `gate_assignments`, with the assignments that are
  changed, released and deleted under one another, and the status set by hand.
* `FlightStatus`: the status of one flight and its history, `cancelFlightAndRefund`
  booking by booking, beside payments and refunds, which read the booking before they
  write it, and cancellations, which leave the payment as it is.

### What a customer owns

* `Miles`: one `loyalty_accounts` row under the transactions of
  `loyalty.service.ts`, which write back what they computed from a read, and the
  expiry and the contributions to a family pool, which subtract from the column.
* `FamilyGroup`: who is in which group; every operation checks and writes in
  separate statements.
* `Vouchers`: `applyVoucher` and `useCredit`, with deactivation, and expiry
  as the job does it, one credit after the other.
* `PriceLocks`: creating, using, cancelling and expiring the locks of a customer on
  one price.
* `SplitPayment`: initiation, mails, checkout sessions, cancellation and expiry of
  the shares of one booking, and the webhook that handles a share: the event of a
  share reads the booking (`SPReadBooking`) and later confirms it whatever it has
  become (`SPConfirm`) or is rolled back, so that events of several shares, or an
  event and `SPCancelBooking`, may overlap; `spMet` records those that did.
* `Sessions`: the refresh tokens of one user, by the login they descend from.
* `NdcOrders`: one offer, the orders made from it, their bookings, services and
  bill, and the seats of two flights, beside payments and cancellations of the
  bookings themselves, which are calls like the others: one step reads the booking,
  one writes it in a transaction. `ndOdd` counts the calls that met another.

### Proof and MC modules

Eight modules hold the proofs. `SeatInventory_proofs` and `Idempotency_proofs` extend
the module of that name; `Webhook_proofs` extends `StripeWebhook` and `WebhookRetry`;
`SeatCounter_proofs` extends `SeatTakers`, `SeatHolds` and `Waitlist`; `Flight_proofs`
adds `SeatMap`, `Gates` and the composition of `MCFlight`; `Customer_proofs` extends
`PriceLocks`, `Vouchers`, `Sessions`, `SplitPayment`, `FamilyGroup` and `NdcOrders`;
`Account_proofs` adds `Wallet`, `FlightStatus`, `Miles` and the composition of
`MCCustomer`. `Sums_proofs` has the lemmas about sums and maxima that they share.
The `MC`
modules give the constants their values for TLC. `MCCustomer`, `MCFlight` and
`MCLiveness` each host several components in one run: the components have no
variable in common, and the variable `part`, chosen in the initial state, says which
of them moves. The states explored are the sum of theirs, not the product.

## 3. Runs

| Run | Question | Bounds |
|---|---|---|
| SeatInventory | Are grants safe, seats kept but for missed payments, expired locks ignored? | capacity 2, 3 locks, time 0..3 with locks living 2, 1 failure; 3 requests of 2 customers (2+1+1 seats) that nobody pays, or 2 of them (2+1 seats) with 2 payments or cancellations in flight |
| SeatInventoryDouble (violated) | Are confirmed bookings within capacity? | 2 requests for 1 seat, 1 call that pays at a time, no failure, no time |
| StripeWebhook | Is an acknowledged or processed event applied, a deduction ledgered? | 3 events (payment, intent, full refund) of a booking, 2 deliveries, 1 API call, 1 duplicate, 1 failure or crash, 1 abandoned call |
| StripeWebhookSerial | Does the counter match the bookings, and a cancelled booking stay cancelled, when nothing overlaps? | 2 bookings, 4 events, one delivery or call at a time, 2 calls, 1 duplicate, 1 fault |
| StripeWebhookLive | Is every event settled in the end? | 2 deliveries, 1 duplicate, 2 faults |
| StripeWebhookDedup (violated) | Is an event that is delivered twice deducted once? | 1 event, 2 deliveries |
| Idempotency | Once per TTL, the right answer, and never blocked longer than the TTL? | 3 calls, of which one differs in what the hash keeps and one in what it drops, overlapping or not; 2 rows, TTL 2, time 0..6, 2 faults of every kind |
| IdempotencyRetry (violated) | Is the operation executed once? | 3 calls, 1 failed operation, no expiry |
| Customer | What do the parts a customer owns keep when requests overlap, and by how much can they exceed the rest? | 2 sessions each; wallet: 5 calls (top-up 2, two payments of 2, refund 1, an amount of 0), balance up to 2, 1 failure; miles: 4 operations on a booking of 4 miles, tiers at 4 and 8; 2 groups of at most 2 members, 2 users; a voucher with 2 uses, 5 bookings of 3 customers, 2 credits, 3 uses of them; 3 price locks; 2 initiations of a price divided by 2, 2 checkout sessions; 3 tokens; 2 orders and 4 calls on flights of 1 seat; 3 calls on a flight with 2 bookings |
| Flight | The same for the parts around the seats of a flight | 2 clerks, a group of 1 and a trip of 2 on 4 seats, daily limit 1, 3 agent bookings; 3 calls for holds on 1 seat and 1 overbooked; 2 entries and 2 runs of the list; 2 seats, 2 passengers, 4 requests on the map; 2 flights, 2 gates, 4 calls |
| Liveness | Does every request end, every offer, every unprocessed event? | 2 requests on the lock service; 2 entries of the list; 2 events of 4 mixes of types, 2 attempts, 2 retries, 2 deliveries |
| SplitPaymentPaid (violated) | Is a divided booking confirmed when all shares are paid? | 1 initiation, 2 payers |

The bounds are small because each hazard needs few actors: a race needs two
requests, a third shows that a waiter is handed a row twice; a lock that
expires needs time to pass its life once; a retry needs one failure. Capacity is
below the demand, so that refusals and clamping happen. Limits are small enough to
be exceeded: two clerks exceed a limit of 1, two sessions a voucher of 2 uses, three
holds what may be held. The numbers of operations let each operation overlap every
other and be followed by one that sees the result; `Sessions` was also explored with
4 tokens, `NdcOrders` with 5 calls and 3 orders, `Gates` with 5 calls and `SeatMap`
with a third seat that the layout blocks, with the same result. What the proofs of
section 5 establish does not depend on these bounds.

The type invariants of the hosted parts are checked as `TypesOK`, which is also proved
(`FlightTypes`, `AccountTypes`); those of `SeatInventory`, `StripeWebhook` and
`Idempotency` are proved, and so is `RowLockGuardsRead`.

`SNOneLine` is checked with 3 tokens, which are too few for refreshes to exchange one
more often than they overlap: that conjunct cannot fail in the run, and rests on its
proof (`LoginsStayOneLine`).

What the invariants of `Customer` and `Flight` say comes in three forms. Some hold
whatever overlaps: `HistoryExplainsBalance`, `ImplementsLedger`, the count of a
voucher, the first conjunct of `VOCreditCovers`. Some hold until
an overlap that a history variable records: `WLOffersFit`, `SMOneSeat`,
`NDOrdersSettle`, `FSCancellationSettles`, `GTGatesAgree`, parts of
`MILogExplains` and `MIPoolConserves`. And some bound what overlaps can break:
`STOverrunsBounded`, `SHHoldsBounded`, `FGMembersBounded`, `VOUsesBounded`,
`PLOverrunsBounded`, the last conjunct of `SNOneLine`, the seats of `NDOrdersSettle`.
`SeatsAccounted`, as `NoSeatLost` of SeatInventory, adds what was lost to payments and
cancellations that missed a payment, and what was taken for offers, to what is there:
it shows that nothing else gets lost. `SPOneDivision` lets the ledger charge the
shares whose events had read the booking when the first of them was through, and no
share that is paid later. A limit that two requests may
pass by one is not the limit the service states; the bound is what an operator
can rely on, and the mutants show that a check less would lose it.

Four runs document where a comment of the code promises more than the code
does; `PROJECT.json` quotes each line. `SeatInventoryDouble`: the lock ends when the
booking is created, not when it is paid. `StripeWebhookDedup`: the processed flag is
read outside the transaction that sets it, so overlapping deliveries both deduct.
`IdempotencyRetry`: two retries of a failed attempt both take its row over.
`SplitPaymentPaid`: the first share that is paid confirms the booking, because its
checkout session carries the booking's id and nothing calls `markSplitPaid`.

Other comments promise more than the code keeps, for reasons of the same kind; the
passing properties say what is left of them:

* `mobile-auth-v2.service.ts:264`, "prevents a race condition where the same refresh
  token is used concurrently": the transaction locks nothing, and a token is
  exchanged once by every request at a time (`SNOneLine`).
* `price-lock.service.ts:54` and `loyalty.service.ts:115` promise atomicity from a
  transaction that locks nothing (`PLOverrunsBounded`, `MILogExplains`).
* `gate.service.ts:279`, "exists and is available": only maintenance is refused, an
  occupied gate is assigned again (`GTGatesAgree`).
* `cancelFlightAndRefund` marks bookings refunded; it does not call Stripe, and a
  call that failed half way cannot be repeated (`FSCancellationSettles`).
* `ChargedOnce` (stripe.ts:360, the ledger has no unique key),
  `ConfirmedOnlyFromPending` (stripe.ts:350, the update has no condition on the
  status), `PostTasksAfterCommit` (stripe.ts:492, setImmediate does not wait),
  `SeatsRestoredOnce` (cancelBooking reads before its transaction), and
  `ExecutedOnce` with a null user: stated in their modules, with no run of their own.
* `bookings.service.ts:304`, "atomically update booking status and restore seats": the
  status is read at :308, before the transaction. A payment in between leaves a
  cancelled booking whose seats nobody returns (`NoSeatLost`, `SeatsAccounted` and
  `NDOrdersSettle` count them), and two cancellations return them twice.
* `idempotency-v2.service.ts:135`, "reused with different payload", and the comment of
  :132: a payload that differs only under nested keys is not told apart and gets the
  answer of the other. `AnswersMatchPayload` is therefore about hashes.

`SeatsMatchBookings` is checked with tagged checkouts only: if charges carried a
booking id too, a cancellation followed by the refund event of the same booking
would restore its seats twice.

`CHECK_DEADLOCK FALSE` is set everywhere: once its requests and events are used
up, the instance stops, as the system does when nobody calls it.

## 4. Fairness

* `SeatInventory`: a request that runs keeps being scheduled by the event loop
  (weak fairness of its steps), and InnoDB hands a row lock to its waiters in order
  (strong fairness of `LockFlightRow`). `RequestsFinish` needs no more.
* `StripeWebhook`: the event loop runs what it started (weak fairness of `Handle` and
  `Serve`) and Stripe retries an event until it is acknowledged (strong fairness of
  its delivery: a worker may be busy again and again).
* `Waitlist`: an offer's time passes (weak fairness of `WLLapse`), and the scheduled
  clean-up runs again and again (weak fairness of `WLExpireOffers`). Nothing makes a
  customer answer: `WLOffersEnd` rests on the clean-up alone.
* `WebhookRetry`: the reconciliation is scheduled every night, the worker takes the
  jobs that wait, and a handler that has begun ends one way or the other. Deliveries
  are not assumed: `WRRecovers` is about events Stripe has given up. Its exceptions
  are the ways the code gives up: `WrMaxRetries` failed deliveries, every attempt of
  a job failed, or a job of the same id already finished (`wrTwice`).

Nothing is assumed of customers, failures or other jobs. The other modules state
safety only.

## 5. Proofs

For every value of the constants, from the assumption each module names
(`ConstantsAssumption`, `SeatTakersAssumption`, ...):

* `SeatInventory_proofs`
  * `TypeCorrect`: `TypeOK` is inductive.
  * `RowLockSafe`: with `TypeOK`, `RowLockGuardsRead` is inductive: whoever reads
    or decides holds the row, and whoever changes the counter needs it free.
  * `GrantsFit`: needs `CountCoversActive`: nothing becomes active between the SUM
    of a request and its decision, because only the holder of the row grants. A
    grant adds a block of `Seats[r]` units to the units of the active locks, and
    the cardinality lemmas add up; every other step only shrinks them.
  * `CountsAreLive`: needs that a transaction is younger than a lock lives
    (`Young`, from `TxTimeout < Duration`: otherwise a lock granted meanwhile could
    expire before the counting request began) and that the sweep has left no
    expired lock (`SweptIsClean`).
  * `SeatsAreKept`: `NoSeatLost` is inductive with `TypeOK`: a write takes or returns
    the booking's seats as its copy says, and where the copy is older than the payment
    `missedSeats` grows by as much as the sum shrinks.
* `Webhook_proofs`
  * `TypeCorrect` needs `Busy`: a running handler has an event, a running call a
    booking.
  * `AckIsSafe`, `MarkIsSafe`: `Respond` acknowledges without looking at what was
    applied, so the induction needs `RespondedWasApplied`: a handler about to
    answer 200 has committed.
  * `LedgerCoversSeats`: with types, `DeductionIsLedgered` is inductive.
  * `AppliedOnce`: `WrOneHandler` says of every event outside `wrTwice` that a delivery
    and the worker do not have it in hand together, that nothing was committed while
    one has, and that what was committed is marked.
  * `SeatsMatch`, `CancelledStays`, under what the run StripeWebhookSerial supposes
    (`Serial`: one delivery or call at a time, checkouts alone name their booking, no
    legacy payment, no call broken off) and `SeatsFit`: all bookings together fit in the
    seats on sale, which their inventory locks are for; otherwise a deduction stops at 0
    and the counter is wrong at once. What the one call under way has read is still so
    (`SerialFresh`), so that a handler writes to a booking that is pending or adds
    nothing, and a confirmed booking is paid (`SerialPaid`), so that whoever ends it
    returns its seats; `SerialSeats` counts bookings whose seats are on their way back
    with those confirmed. Without `Serial` both properties are false, for the reasons
    section 3 gives for `SeatsRestoredOnce` and `ConfirmedOnlyFromPending`. TLC found
    the invariant kept on the bounds of StripeWebhookSerial.
* `Idempotency_proofs`, from `IdempotencyAssumption`
  * `TypeCorrect`, and `BusyIsRecent` for every kind of failure: a row in progress
    has a call behind it whose expiry is the row's (`Timely`, `RowHasCaller`); the
    refusal by the unique index needs that a call which found no row is late only
    by a request's length (`NoRowYet`, `LateInsert`). The assumption
    `2 * MaxRun <= Ttl` says that a request is shorter than half the TTL: seconds
    against 3600 s, the default of the code.
  * `OnceUntilFailure` holds until something fails and with a user id (`Smooth`): a
    running call owns a row that carries its hash (`RowsOfOwners`), two that ran began
    more than a TTL apart (`OwnersApart`), and so for those about to insert
    (`InsertersApart`).
  * `AnswersAreForPayload` needs a user id and nothing else: one row of the key is live
    at a time, and a call that holds a row has its hash there and is over before the
    row can be removed (`AInv`), so that what it stores by key it stores in that row.
    A call that found its row removed holds none, which is the exception.
  * `OnceDespiteFailure`: `OneByOne` says of every call that carried out the operation
    that more than a TTL has passed since it began or that the only live row, not
    marked failed, lasts as long. A crash leaves that row in progress until then; only
    an outcome that cannot be stored (`StoreFails`) marks it failed and opens the key.
    TLC found the invariant kept on the bounds of Idempotency, with a user and without.
* `Sums_proofs`: `SumFunctionOnSet` is defined by a recursion over a set, and its laws
  (one value changes, two functions are compared, a set is split, a bound on each
  summand bounds the sum) would be proved by an induction over finite sets that the
  provers cannot instantiate. They are proved on the smallest counterexample
  instead: among the finite sets that break a law one has no smaller one inside
  (`FiniteSetTheorems`), and taking one element out of it gives a contradiction. That
  the recursion defines a function at all is shown the same way.
* `SeatCounter_proofs`
  * `TypeCorrect` and `OverrunsAreBounded`. The counter alone says nothing, since a
    clerk who has checked will subtract whatever happens. The invariant counts clerks
    instead: only those no longer between a check and its write have cost seats
    (`OversellInv`), of those who counted the agent's bookings together the first found
    one less than the limit (`LimitInv`), and a group was or will be deducted once by
    every clerk who saw it pending (`GroupInv`).
  * `SeatsAreAccounted`: a sum over groups and one over trips, of which a step changes
    one summand. Needs `CallInv`: a call takes as many seats as it will record, and one
    rebooking at most is about a trip. The payment and the cancellation of a trip write
    from the copy they read; if the copy missed a payment that the write undoes or
    repeats, its seats are those `stMissed` grows by.
  * `HoldsAreBounded`: `HoldBoundInv` adds to what is held what every call between its
    read and its hold has found free; a read adds at most what may be held, and counts as
    an overlap when another is in that place.
  * `OffersAreAccounted`, `OffersFit`: each run takes seats once for an entry
    (`ListTakenInv`); until the counter is disturbed what a run will serve adds up to no
    more than what it has read as left (`ListFitInv`), because the entries served, in
    their order, fit one after the other: the last of them fits with all before it.
    `ListOpenInv` and `ListOrderInv` keep the rows that were read where they were.
* `Flight_proofs`
  * `OneSeat`: `MapInv` says for every stage of a request what the rows it has read look
    like, that without an overlap no other request is under way (`MapAlone`), and that a
    sequence about to be written is above all others (`MapUnique`). `CheckedInStays`
    needs of it only that a request acts on the row it has read.
  * `GatesAgree`: `GateCount` bounds the rows of a flight that stay, with those to be
    added, by the calls that began together; `GateSure` says of a gate that nothing made
    unsure that one call is about it, and what is true of gate and rows between
    that call's writes.
  * `FlightTypes`, `FlightSeats`, `FlightQueues`, `FlightDone`: a step of the composition
    is a step of one part that leaves the variables of the others alone, so it is a
    step of each part's specification; the invariants of the parts carry over.
* `Customer_proofs`
  * `LockOverrunsAreBounded`: the same argument as for clerks, for active price locks
    (`ActiveInv`: active locks and sessions about to insert one are together at most the
    sessions) and for the uses of one lock (`UsesInv`).
  * `UsesAreBounded`: `CountInv` (the count of a voucher is the number of its rows, and
    with those about to add one passes the limit by less than the sessions) and
    `CustomerInv` (the uses of a customer and those under way).
  * `CreditCovers`: what a use will take of a credit fits in what it saw of it
    (`CreditFits`), so that its write, an absolute value, is within the amount however
    stale; and until an overwrite is lost what it saw is what is there.
  * `LoginsStayOneLine`: `LineInv` is the property itself, and needs that a login and
    whatever was raced, ended or read has a row (`KnownInv`): a new login finds no
    trace of its number. `NextsInv` counts the exchanges of a token with the refreshes
    that have it in hand; a live token was not exchanged yet.
  * `OneDivision`: `SplitApart` says that an initiation under way excuses whatever is
    alive beside it: it was being inserted when this one looked, or was revived. For the
    ledger, a share is charged only out of an event that holds a copy of the pending
    booking; `spMet` collects those when the booking first leaves "pending", and an
    event that reads later finds it confirmed or cancelled and charges nothing.
  * `MembersAreBounded`, `OwnerStays`: members and requests that have found room add up
    to less than the limit and the requests (`FamRoomInv`), and so for the groups of a
    user (`FamOneInv`); `FamOwned` and `FamNewInv` follow a group from its insertion to
    its deletion.
  * `OrdersSettle`: payments and cancellations are calls with a read and a write, as
    services and changes of an order are. `OrderSeats` says that the drift of each cabin
    is covered by the calls counted odd and the bookings moved, less what the calls
    under way may still cost; `OrderCount` that of the calls that found the offer active all but one met
    another; `OrderCalm`, until a call meets another or breaks, what order, booking and
    offer say at every stage of the only call. This invariant was explored first with 3
    calls, 2 orders and 4 operations.
* `Account_proofs`
  * `WalletTypeCorrect`: a payment keeps the balance at 0 or more because its UPDATE
    compares the balance it changes, not the one the call read. Needs `WalletInFlight`
    (an open transaction is the only one, and knows what it wrote).
  * `HistoryIsExplained`: needs `WalletSane` as well: a wallet that does not exist holds
    nothing, so its creation changes no balance.
  * `LedgerImplemented`: one lemma lists the steps that touch the committed row or the
    entries, the next shows the commit to be one `Post`, every other step is a stutter.
  * `CancellationSettles`: `StatusRefundInv` says of a cancellation under way what the
    property says of one that has ended: every booking that is paid is still to be
    marked or was paid late. `StatusHistoryInv` says, until two administrators overlap
    or an entry fails, that whoever is between the look at the status and the entry is
    alone, knows the status the history ends at, and has or has not yet written its
    own.
  * `LogExplains`, `PoolConserves`: a call knows that what it read sufficed for what it
    is about to take (`MilesCallOK`), and the miles of contributions under way are summed
    by the step they are at (`MilesPoolInv`, `MilesDueInv`): what is still to be debited
    overdraws the account by one amount less than there are sessions at most, and what
    the pool lacks is on its way.
  * `AccountTypes`: the composition, as for `MCFlight`.

Model-checked only: the liveness properties (`RequestsFinish`, `WLOffersEnd`,
`WRRecovers`, `EventsSettle`), since fairness is out of the prover's reach; and the
violated properties, which are false of the code.

## 6. Plan

Done: the core (`SeatInventory`, `StripeWebhook`, `Wallet`, `Idempotency`), the other
takers of seats, what a customer owns, the retry of events, and the proofs of the
invariants of all of them. Next:

1. A seat lock as an abstract specification (grant, end, atomic) that
   `SeatInventory` implements, with the refinement proved; an abstract event
   consumer that `StripeWebhook` implements.
2. Booking modifications and the ancillaries of a booking, if `NdcOrders` is to
   share its bill with them.
3. The composition of `SeatTakers` and `Waitlist` over one counter with
   `StripeWebhook`'s deduction, which today are linked only by what each allows the
   others to do to the counter.

## 7. Not modelled

* Stripe reconciliation: it repairs rows of `payments` that are pending at Stripe,
  and no code in use inserts one. The booking state machine: a table of permitted
  transitions that the webhook and the services modelled here do not consult.
  `payments.service.ts`, the first version of the idempotency service, `markSplitPaid`
  and the earlier `queue.service.ts` have no caller.
* Prices, fare rules, currencies, suggestions and forecasts: calculations on data
  with no state that changes under them.
* GDS, codeshare, interline, corporate accounts, tickets, EMDs, crew, baggage,
  kiosks, load control, disruption handling, reviews and favourites: forms of one
  user over rows of their own that do not feed back into seats or money here.
* Passengers' data, notifications, e-mail, logging, metrics, caches, reports, data
  protection, regions and the user interface: input and output, or descriptions of
  infrastructure outside the repository.

The client and these services are most of the repository's lines; the modules cover
the part whose correctness depends on the order in which things happen. Each
component's status and reason is in `PROJECT.json`.
