# Verification of the e-commerce backend

TLA+ models of this repository (`src/`): stock reservations, settlement of
orders and payments, the outbox dispatcher, checkout, carts, sign-in sessions,
the product catalog with its cache and list, and product creation behind the
idempotency middleware. TLC checks them on small instances, TLAPS proves the
safety properties for every instance. Paths below are relative to
`src/src/modules/` unless they say otherwise; `DESIGN.md` is `src/DESIGN.md`.

## 1. Inventory of the system

A Fastify server over MongoDB (a replica set, for transactions) and Redis
(BullMQ queue, catalog cache). Several instances may run. Nothing holds a lock
across a request: all parties meet in the database, in single-document updates
guarded by a status or in multi-document transactions.

| Component | State | Operations | What makes it correct |
|---|---|---|---|
| Stock reservations `inventory/` | `inventory` (onHand, reserved per product), `reservations` (one per order), delayed jobs in Redis | reserve, commit, release, expire (delayed job, sweep), adjust onHand | reserved is exactly what ACTIVE reservations hold; orders never oversell; every due reservation is settled |
| Order settlement `orders/` | `orders.status` | cancel, markOrderPaid, markOrderPaymentFailed, expireOrder | an order leaves PENDING_PAYMENT once; PAID means committed stock |
| Payments `payments/` | `payments.status`, `webhook_events` | processWebhook, verifyOrderPayment, reconcilePendingOrders | PAID only on a captured charge of the right amount; money that was reported is on record; a captured order is failed only by who is behind the times; stock of unpaid orders returns |
| Checkout `orders/orders.service.ts` | `orders`, `idempotency_keys` | POST /orders/checkout | one order per key; equal answers to equal requests; the confirmed total |
| Outbox `jobs/` | `outbox` rows (status, attempts, lease, next attempt) | claim, dispatch, complete, retry, compensate, stop | attempts are not shared; completed rows were done; compensation comes last and comes |
| Carts `cart/` | `carts.items` | add, update, remove, live cart, clear | exact quantities, one line per product and the item cap, as far as requests do not overlap |
| Catalog `products/` | `products`, Redis cache | create, update, archive, read through the cache, list by pages | a stale page has a reason and ends; pages neither repeat nor skip; a key makes one product |
| Authentication `auth/` | users' tokenVersion, refresh tokens in families | register, login, refresh, logout, logoutAll | a refresh token is used once, a closed session stays closed; logoutAll ends what it found |
| Idempotency middleware, circuit breaker, transaction utility `common/` | key documents; a state machine in memory; none | pre-handler and save hook; execute; retry loop | replay; fail fast and recover; at most one commit |
| Invariant checker `jobs/` | none (reads) | runInvariantChecks | two of its rules are properties here |
| Process life cycle `server.ts` | what runs | start, graceful shutdown | nothing works after it was stopped |

Interactions. Checkout writes reservation, order, payment and two outbox rows in
one transaction. The outbox initialises the charge at the gateway and clears the
cart; out of retries it fails the order and releases the stock. The gateway
answers through webhooks, through `provider.verify` when reconciliation or the
browser's return asks. Delayed job and sweeper expire reservations without
looking at orders. Cancelling is a status write and, later, a release.

What is hard: (a) gateway calls sit between a read and a transaction; (b) five
parties settle one order; (c) three operations are two writes with no
transaction around both; (d) the first write of a webhook, its deduplication, is
outside the transaction that does the work; (e) leases end by the clock; (f)
ticks and sweeps overlap; (g) checkout reads cart, catalog and stock before its
transaction and records its idempotency key after it; (h) an addition to the
cart, a refresh, a logout of all sessions, an update of a product and its
cached page are several writes with others in between. `PROJECT.json` lists each
hazard at its line with the properties that would catch it.

## 2. Modules

| Module | Models | Extends / uses |
|---|---|---|
| `StockLedger` | abstract promise of the inventory: claims on free units, settled once | |
| `Inventory` | `inventory/`: every write of the two collections, queue and sweeper | refines `StockLedger` |
| `OrderBook` | abstract promise of the shop: status, units and money of an order as one machine | |
| `Settlement` | orders, payments, webhooks, reconciliation, with the gateway as environment | extends `Inventory`, refines it and `OrderBook` |
| `Outbox` | `jobs/outbox.processor.ts` on several instances | |
| `KeyedOrders` | abstract promise of an Idempotency-Key: what was asked, placed and answered | |
| `Checkout` | `checkout()` and the idempotency store | refines `KeyedOrders` |
| `Cart` | `cart/`: one customer's overlapping requests, and CLEAR_CART | |
| `Sessions` | `auth/`, `common/middleware/authenticate.ts` | |
| `ProductCache` | product pages and their copies in Redis: `products.service.ts`, `common/utils/cache.ts` | |
| `Listing` | `findProductsPaginated`: keyset pages of a changing catalog | |
| `Creation` | `common/middleware/idempotency.ts` with POST /admin/products | |
| `MC...` | instances for TLC | |
| `...Proofs` | theorems | extend their module and TLAPS |

How state and actions correspond to the code:

* A MongoDB transaction is one action. Its writes commit together; a failing one
  (conflict, throw) changes nothing, and is there as the action that does not
  happen or as a `...Lost`/`...Fails` action that drops the handler. Predicates
  that match nothing inside a transaction (`status: 'PENDING_PAYMENT'` of a
  settled order) stay false, and documents that do match are written, so
  MongoDB's write-conflict detection makes the transaction atomic.
  A callback that `withTransaction` runs again may count an order twice in a
  summary, or let a sweep end its batch early, which `SweepFails` also allows.
* Everything between two database operations is a state of its own: a sweep's
  `cursor`, `handling` for a webhook past its first write, `verifying` and
  `reconciling` for a gateway call in flight, `unfinished` for the second write
  of a two-step operation, `job` for a row in the hands of a tick, `request` for
  a checkout.
* Time: `due` is the set of orders past their TTL (the order and its reservation
  get their `expiresAt` within the same request, so one set stands for both);
  `leased` and `delayed` are the rows whose `lockedUntil` and `nextAttemptAt`
  lie in the future.
* `EntryPoints` names the handlers and jobs of a deployment. The server as
  committed starts the outbox only (`server.ts:28`); worker, sweeper and
  reconciliation are written and documented but started by nothing. One
  specification thus covers both the documented and the actual deployment.
* `LiveVerify` says whether `provider.verify` reports the charge, as the
  `PaymentProvider` interface and the integration tests' providers do, or always
  answers PENDING, as `PaystackProvider` does (`paystack.provider.ts:27`).
* Second deliveries of a webhook answer DUPLICATE and change nothing: they are
  stuttering steps. Events of one charge have different event ids by kind.
* `Checkout` is one customer with one product. What other customers do to
  the stock, administrators to the product, and the customer to the cart between
  two reads is any change at all. A payload is its expected total, the part that
  reaches the database.
* Abstract specifications name no code. `OrderBook` has two constants for the
  entry points that keep less than the rest: `PaidFirst` for `markOrderPaid`,
  which writes PAID before it commits the units, and `SoldLate` for the
  verification endpoint, which sells the units of an order that was closed while
  it asked. `Settlement` sets them from its `EntryPoints`. `KeyedOrders` has a
  client's view: `Checkout`'s steps between a request and its order are
  stuttering steps of it.
* `Checkout`'s `CommitUnknown` is `withRetryableTransaction`
  (`common/utils/transaction.ts`) after a commit that the driver could not
  confirm: the work runs again and finds its own order.
* `Cart` names the lines of a product by their rank, as `items.$` takes the
  first and `$pull` takes all. A request that adds an item is at most four
  database operations; update, remove and clear are one each.
* `Sessions` names a refresh token by its family and rank. Any token ever
  issued may be presented at any time, so a lost answer and a copied token are
  the same thing to it, as they are to the server.
* `ProductCache` counts the updates of a product (`edits`, the `updatedAt` of
  the code) to tell an old copy from a new one. A cache hit changes nothing and
  is no action.
* `Listing`: a query is one moment of the catalog, its order is total
  (`After`), and a page is the first `Limit` documents of it after the cursor.
* `Creation`: the body of a request is its hash. The copies in Redis that a
  creation deletes are in `ProductCache`.
* History variables (`wanted`, `exact`, `ended`, `suspect`, `restocked`, `cut`,
  `steady`, `moved`, `twice`, `answered`) remember what properties speak of; no
  guard reads them.
* A definition whose comment begins with "Mutant" is a faulty variant of the one
  after it; substituting it must make a property fail.

## 3. Runs

All bounds are constants of the `.cfg`. Deadlock is checked for `Outbox`,
`Checkout`, `Cart`, `Listing` and `Creation`. `Inventory` and `Settlement` end
when every order of the instance is settled, `Sessions` when its rotations and
versions are used up, `ProductCache` may end with an update left out by its
bound, so their configurations switch it off.

| Run (`MC<module>_<name>.cfg`) | Checks | Instance and why it is enough |
|---|---|---|
| Inventory `orders` | ReservedIsHeld, SoldLeftTheShelf, StockBound, ImplementsLedger, DueReservationsSettle | 2 orders, 2 products with 2 and 1 units, one-unit, two-unit and two-product orders, so that some always conflict; delayed jobs; 2 overlapping sweeps with batch limit 1, which one of them reaches |
| Settlement `all` | PaidIsCommitted, PaidWasCharged, ReportedMoneyIsOnRecord, NoReportIsDropped, OpenOrdersKeepStock, SettledForGood, CapturedOrdersFailLate, ImplementsInventory, ImplementsOrderBook | 1 order with every handler and job of the documented deployment, a charge that fails and is retried, wrong amounts, webhooks that come late or are lost; orders only meet in the stock |
| Settlement `giveback` | SoldIsPaid, UnpaidGivesBack, OnlyRecountOversells | 1 order, the two-step operations (three of them called by no route) against webhooks, retried charges, the outbox, reconciliation, a fair sweeper and an administrator who sets onHand to 0; the process may die between two writes |
| Outbox `rows` | AttemptsAreDistinct, CompletedWasDone, FailedAfterAllAttempts, ExhaustedIsCompensated, UnsettledRowsAreRetried | one instance whose ticks overlap two deep, one claim per tick, a row of each type, 2 attempts: leases run out under a handler, the process stops, dies and comes back. The safety properties are proved for every number of instances, ticks, claims and attempts |
| Checkout `requests` | OneOrderPerKey, SuccessesAgree, PricedAsReserved, ImplementsKeyedOrders | 2 requests, 2 keys (both symmetric), 2 prices, quantities and stock up to 2 |
| Cart `tabs` | CapWithinRace, SplitWithinRace, ExactUnlessRaced | 3 overlapping requests, 2 products, a cap of 2 lines and quantities up to 3: two requests race on one product while a third is on another, and the cap is passed by the two that the bound allows |
| Sessions `rotation` | OneCredential, LoggedOutEverywhere, ClosedForGood | 1 user with 2 sessions of 2 tokens each, 2 requests at work, 2 logout-alls: a refresh, a replay and a logout-all overlap in pairs, and one session is the witness of what happens to the other |
| ProductCache `pages` | StaleHasReason, PagesAreCurrent, PriceChangesShow, GoneIsForgotten | 1 product (copies do not interact but for `product:*`), 2 readers, 2 administrators, 2 updates, 2 prices and 2 stock bands: a reader is overtaken by either update, before or after its deletions |
| Listing `walks` | NoneTwice, NoneMissed | 3 products in pages of one, so that every page boundary is met; 2 creation times and prices, so that ties occur |
| Creation `keys` | OnceUnlessRaced, RecordedIsComplete | 2 overlapping requests, 2 keys and none, a body that names its slug, one whose name makes the same slug, and one whose name makes the empty slug |

The type invariants are proved (section 4) for every value of the constants, as
are `ChargedAsConfirmed` (which `ImplementsKeyedOrders` implies),
`SoldWasCharged`, `AnswerNamesOrder`, `GoneRunsOut` and `FirstAnswerStays`; no
run repeats them.

`giveback` has the gateway client as committed (`LiveVerify = FALSE`), `all` the
one the interface promises. `giveback` leaves out the verification endpoint, with
which `SoldIsPaid` fails (run `soldunpaid`). Reconciliation is an entry point of
both, without fairness: it may run at any time, or never.

Four properties of `all` say what a charge can count on in the documented
deployment, without assuming that any job runs. `OpenOrdersKeepStock` and
`NoReportIsDropped` say what an open order has: its stock until the TTL, and, if
its charge is captured, a report that has not been dealt with.
`ReportedMoneyIsOnRecord` says what the payment shows once the shop was told, and
`CapturedOrdersFailLate` who may close an order that was charged. Their
alternatives are the behaviours in which the code does not do better. Each is
reached: without it TLC finds the property violated.

One run TLC must find violated, a disagreement between the code and what the
repository says of it (quoted in `PROJECT.json`): Settlement `soldunpaid`, where
`SoldIsPaid` fails because verification commits the stock of an order that was
cancelled while it asked the gateway.

The models reproduce further disagreements that no run repeats; each follows by
changing a constant of a run, or by stating the sentence quoted.

Orders and stock:

* A reservation that expires makes every transaction that would mark its order
  PAID throw (`reservation.service.ts:115`), while the order stays open:
  `OpenOrdersKeepStock` without its EXPIRED alternative fails, and a charge
  captured in time can then no longer make it PAID.
  `DESIGN.md:170`: "Stock is committed if paid".
* Adjusting onHand ignores what is reserved (`inventory.repository.ts:36`), so
  `StockBound` fails as soon as `AdminLevels` has 0. `DESIGN.md:23`: "For every
  SKU, `0 <= reserved <= onHand`."
* The server starts no worker, sweeper or reconciliation (`server.ts:28`):
  without them in `EntryPoints`, a reservation whose customer leaves stays
  ACTIVE. `DESIGN.md:191`: "automatically releasing stranded inventory".
* A webhook whose handler dies after recording the event is a DUPLICATE when it
  is delivered again (`WebhookLost`): its document stays RECEIVED, the last
  alternative of `NoReportIsDropped`, and only a verification or reconciliation
  can still make the order PAID.
* `PaystackProvider.verify` always answers PENDING: with `LiveVerify = FALSE`
  reconciliation expires an order past its TTL whose charge was captured but
  whose webhook was lost. `CapturedOrdersFailLate` gives the TTL as its reason.
* A SUCCESS answer with another amount takes the first branch of reconciliation
  and does nothing there (`payments.service.ts:278`): past its TTL such an order
  is neither accepted nor expired and stays open.
* When the gateway has initialised a charge but its answer is lost in every
  attempt, the outbox fails an order that its customer may have paid
  (`outbox.processor.ts:108`), the last alternative of `CapturedOrdersFailLate`.
* The payment is written whatever became of the order (`payments.service.ts:171`,
  `:306`, `:324`): a decline delivered late, or a reconciliation of a due order
  that was paid while it asked, leaves a PAID order with a FAILED or ABANDONED
  payment. `ReportedMoneyIsOnRecord` without these two alternatives fails.
* Reconciliation looks at PENDING_PAYMENT orders only, and `latePaidCount` is
  never incremented: a charge that succeeds after its order expired, and whose
  webhook is lost, is never detected (`payments.service.ts:243` says it is).

Outbox:

* A crash during the last attempt leaves a row that nobody can claim and an
  order that is never compensated: `ExhaustedIsCompensated` without its last
  alternative (`e \in cut`) fails. `DESIGN.md:158`: "If retries exhaust,
  compensating transactions mark the order `PAYMENT_FAILED` and release stock."
* A row's outcome is written by `_id`: a tick that lost its lease writes PENDING
  over the FAILED of the tick that made the last attempt
  (`outbox.processor.ts:14`: "mark it FAILED permanently"). No harm follows
  to attempts or compensation, as the properties of `rows` show.
* `stop()` awaits the latest tick only; an earlier tick of the same instance may
  still be at work when it resolves (`StopResolves`).

Checkout:

* The total covers the quantity in stock, the order and its reservation take the
  quantity in the cart: when a unit comes back between the two, it is sold
  unpriced, and `PricedAsReserved` without `restocked` fails. `DESIGN.md:148`:
  "Guarantees mutual agreement between buyer and merchant before charging."
* When the key could not be recorded, the retry of an answered checkout meets a
  cart that the outbox has cleared and is refused. `DESIGN.md:25`: "produces an
  identical response". The side effects are not repeated (`OneOrderPerKey`).
* A request that adopts the order of its key, when the key's document is missing
  and its payload differs, answers with its own total (`orders.service.ts:280`).
  `SuccessesAgree` is therefore about equal payloads.
* After a commit of unknown result the rerun adopts the request's own order, and
  `createdOrderId === orderId` (`orders.service.ts:271`) compares two objects: the
  expiry job is not scheduled, and the sweeper has to expire the reservation.

Carts, sessions, catalog:

* The item cap and the one line per product hold up to the overlap only
  (`CapWithinRace`, `SplitWithinRace`); a line that is split stays split, and
  later additions go to the first.
* Reuse of a refresh token revokes the tokens that exist. A refresh of the family
  that has consumed its token and not yet created the next creates it afterwards.
  `DESIGN.md:200`: "revokes entire family immediately". The same refresh survives
  a logout of all sessions, which is why `LoggedOutEverywhere` speaks of sessions
  that no refresh was working on. A logout-all that dies between its two writes
  leaves the refresh tokens, with which new access tokens are signed.
* A refresh whose answer is lost costs the session: the retry counts as reuse
  (`ClosedForGood` says it does not come back). Logging out with a token whose
  refresh is under way is a no-op that answers 204.
* The 409 for a concurrent request (`common/middleware/idempotency.ts:8`) is
  never given: nothing is stored before the answer. Two requests with one key
  then make two products, or the second is refused by its slug;
  `OnceUnlessRaced` is about requests one after another.
* Stock movements of orders delete no cached page, and the ETag of a page does
  not change with its stock.
* Walking the list by price, a product whose price changes meanwhile may be
  shown twice or not at all (`moved`).

### Fairness

* `SweepFairness`, `SweeperFairness`: the interval timer keeps starting sweeps
  (weak), and a transaction attempted in sweep after sweep is not aborted every
  time (strong): conflicts are transient and failures are retried by the next
  sweep.
* `ClockFairness`: TTLs elapse.
* `OutboxFairness`: leases and backoffs elapse, handlers return or throw, an
  instance that was stopped exits (forced after 10 s, `server.ts:44`) and is
  restarted, and a row eligible again and again is claimed by some tick.
* `FairCacheSpec`: Redis drops a copy when its time is up (`cache.ts:21`). Readers
  and administrators need not go on.

Nothing is assumed of customers, of the gateway, nor of a request whose process
died, and nothing of `reconcilePendingOrders`: its comment says that it runs
periodically (`payments.service.ts:236`), but no timer, server or route calls it.
That every open order is settled in the end, or every timely charge honoured, is
therefore not stated; it would not hold in the documented deployment either,
where the sweeper expires reservations under open orders.

## 4. Proofs

`tlapm` checks every module named `...Proofs` to the last leaf.

**SettlementProofs**, on the inventory (from `InventoryAssumption`). `IInv`
cannot be counted on counters alone: the type invariant and `ReservedIsHeld` are
proved together, with the cardinality lemmas that say how the set of units with a
status grows and shrinks when one reservation changes. `StockBound` and
`SoldLeftTheShelf` are theorems only where nobody adjusts the stock
(`AdminLevels = {}`), as they must be: an adjustment breaks both.
`OnlyRecountOversells` needs no such assumption. The refinement of `StockLedger`
maps free units to onHand - reserved and each status to a claim.

**SettlementProofs**, on orders. Every step of the composed system is a step of
`Inventory` or leaves its variables alone (`ImplementsInventory`), so the theorems
about `Inventory` carry over: `SettlementReservedIsExact`,
`SettlementOversellsNothing`, `SettlementKeepsStock`, and, through both
refinements, `SettlementImplementsLedger`. On top: an order settles once, with
every handler enabled. PAID implies COMMITTED and captured for every deployment
without `markOrderPaid`, which writes PAID before the commit. COMMITTED implies
PAID for every deployment without the verification endpoint, which commits
whatever the order's status; strengthened by what a request that passed its
first write may still owe.

**SettlementProofs**, on charges. `ReportedMoneyIsKept`, `ReportsAreNotDropped`,
`OpenOrdersKeepTheirStock` and `CapturedOrdersFailOnlyLate` hold for deployments
with reconciliation, late events and retried charges; the first excludes
`markOrderPaid`, which writes PAID without a payment, the last the two operations
without callers that close an order without asking (`expireOrder`,
`markOrderPaymentFailed`). Three of them need `AnswersKnown`, what an answer or
an event that somebody holds says of charge, reports and TTL. `RecordKnown`
and `ReportKnown` are the properties said of the events themselves; they are
inductive with it, one lemma saying who writes a payment (`PaymentStep`).
`StockKnown` adds to `OpenOrdersKeepStock` that a release or commit still owed
belongs to an order that was closed or paid before.

**SettlementProofs**, on the promise to the customer.
`SettlementImplementsOrderBook` holds for every deployment: the order's status,
its claim (`Units`) and the captured charge (`Captured`) move together as
`OrderBook` says, one lemma for what happens to the charge (`ChargeStep`), one for
the steps towards PAID (`PaidStep`), one for the claims (`UnitsSettle`).
`BookKnown` is what these need of the states: only `markOrderPaid` leaves a commit
undone, nothing is reserved for an order that does not exist, and where it is
absent a PAID order holds no units. From the book alone follows
`SoldUnitsWereCharged`: in a deployment without `markOrderPaid` no unit leaves the
shelf for money that was not captured, late verification included. There
`SoldIsPaid` fails (run `soldunpaid`), and this is what is left of it.

**OutboxProofs.** The inductive invariant says that a job's attempt is at most
the row's count, that two jobs on a row differ, and that a row with a job in
flight was claimed. `ExhaustionCompensates` adds where the last attempt can be:
at work, done, compensated or cut short.

**CheckoutProofs.** `CheckoutInv` says what a request carries from step to
step: its own order id until its transaction, an existing order of its key after
it, and from the comparison on a total equal to the one it expected. Answers of
equal requests agree because the order of a key is unique and totals are the
expected ones. `CheckoutImplementsKeyedOrders` shows every step to be one of
`KeyedOrders` or invisible to a client, with one lemma for each abstract action;
adopting an order, of another request or of one's own after an unconfirmed
commit, is invisible, because the total that is answered is the expected one.

**CartProofs.** Cap and split are inductive because they count the requests that
are past their check together with the lines. `ExactUnlessRaced` needs
`AloneInv`: the one request at work on an unraced product holds the sum that the
line and its own quantity make.

**SessionsProofs.** One credential per family is inductive with the order of
ranks (`IssuedInOrder`) and with the fact that a rotation stands for a token that
was issued. `LoggedOutEverywhere` needs what a logout-all between its two writes
already knows (`CoversInv`): its sessions have only access tokens of an older
version and no refresh under way.

**ProductCacheProofs.** `IInv` has three parts, each proved from those before
it. `CacheTypeOK` bounds the age of a copy by the edits of its product. `ExactInv`
says that a copy or a reading that no update has overtaken shows the product as it
is. `ReasonInv` adds to `StaleHasReason` that whoever still holds an overtaken
reading (`OvertakenIsSuspect`) may leave it in the cache after every deletion.
`PagesShowProducts` then reads off what a customer sees, `PricesBumpVersions` is
the action property, and `GoneCopiesRunOut` the safety half of `GoneIsForgotten`:
while a product is gone, its copies run out with the requests that had read it.

**ListingProofs.** The order is total and strict (`OrderIsTotal`); `CursorInv`
says that what was seen lies at or before the cursor and what was listed
throughout and lies there was seen. Nothing is assumed about ties.

**CreationProofs.** `ExactInv` follows an unraced key through the one request
at work with it: unused, then unrecorded with what the request has made, then
recorded with one product and one answer. `WorkInv` says that a request past its
writes has made what it will answer with.

Only model-checked: the liveness properties `DueReservationsSettle`,
`UnpaidGivesBack`, `UnsettledRowsAreRetried` and `GoneIsForgotten`. They rest on
fairness, and ENABLED is out of the prover's reach. Every safety property of a
passing run is a theorem, under the conditions stated with it.

## 5. Not modelled

* HTTP, validation, ownership checks, passwords, signatures, audit log, logging
  and configuration are stateless or only appended to.
* `CircuitBreaker` (`common/utils/circuit-breaker.ts`) is exported and
  unit-tested, and nothing constructs one.
* `runInvariantChecks` reads only, and nothing schedules it; of its
  rules, two are the properties StockBound and PaidIsCommitted. The third (no
  order stays open for long, `invariant-checker.ts`) would need a reconciliation
  that runs, see Fairness.
* Of the process life cycle, the outbox is modelled from start to exit; the HTTP
  server, the queue's worker and the database connections are not.
* Of `withRetryableTransaction`, the number of attempts and the delays.
* FULFILLED and REFUNDED are never written by the code.
* The limit of 100 orders per reconciliation and its age threshold are
  abstracted: any pending order may be picked.
* Multi-product carts and currencies are not in `Checkout`; several products per
  order are in `Inventory`, several per cart in `Cart`.
* `deleteExpiredRefreshTokens` (`auth.repository.ts:80`) is called by nothing; the
  TTL index does the same and is in `Sessions`.

## 6. Possible extensions

The cached pages composed with the stock movements of `Inventory`; an abstract
session (one credential handed from token to token until it is closed) that
`Sessions` implements; an abstract at-least-once queue that `Outbox` implements.
