# Verification of the ticketing backend

TLA+ models of the parts of this repository in which several processes share
state: holding seats, the waiting room and the rate limiter in front of them,
orders and payments, the notification outbox, sessions, and the publication of
events; and of the arithmetic of an order. TLC checks them on small instances;
TLAPS proves the central results for every size.

## The system

An API process (`cmd/api`) and a worker (`cmd/worker`), any number of instances
of each, share a Postgres database and a Redis. Nothing is shared in memory:
all coordination is single SQL statements, transactions, and Redis commands.

| Part | State | Operations | What makes it correct |
|---|---|---|---|
| Inventory repository (`repository/postgres/inventory.go`) | `event_seat_inventory`: status, hold token, expiry | `Hold`, `Release`, `ConfirmSale` (compare-and-swap), `ListExpiredHolds`, `BulkCreate`, `Void` | a seat moves available → held → sold, and only its own token moves it out of held |
| Seat lock (`repository/redis/lock.go`) | one key per seat with a TTL | `Acquire` (SETNX), `Release` (compare-and-delete script) | no one deletes another request's lock |
| Inventory service (`service/inventory`) | — | `HoldSeat`, `ReleaseHold`, `ConfirmSale`, `SweepExpiredHolds`, queue calls | a winner has the seat; every hold ends; only expired holds are swept |
| Order service (`service/order`) with order and payment repositories | `orders`, `order_items`, `payments` | `CreateOrder`, `AuthorizePayment`, `ConfirmPayment`, `refundAndFail` | no double and no partial sale; money that moved is matched by seats or a refund |
| Stripe webhook (`handler/http/webhook.go`) | — | `Stripe` | replays change nothing; no event is dropped |
| Payment gateway (`platform/payment`) | intents, refunds (external) | `CreateIntent`, `Refund`, `VerifyWebhookSignature` | one intent per key |
| Notification outbox (`service/notification`) | `notifications` | `Create`, `ProcessPending` | one confirmation per sale, sent |
| Waiting room (`repository/redis/waitingroom.go`) and admission (`service/admission`) | sorted set, sequence, admitted keys | `Join`, `Position`, `Admit`, `IsAdmitted`, `RunOnce` | first come first served; nobody is lost or admitted twice |
| Rate limiter (`repository/redis/ratelimit.go`) | counters with TTL | `Allow` | a bounded number per window, and windows end |
| Worker (`cmd/worker`) | — | sweep, admission and notification loops | every loop keeps going |
| Authentication (`service/auth`) | `users`, `refresh_tokens` | `Register`, `Login`, `RefreshAccessToken`, `Logout` | a refresh token is used once; claims are the account's |
| Event administration (`handler/http/admin_event.go`) | `events`, categories, inventory rows | create, update, `PublishEvent` | an event on sale has tickets; clubs stay apart |

The hard behaviours are the gaps between steps: a lock that expires in the
section it protects, a sweep that works from an old listing, webhooks delivered
twice, late or at the same time, and a process that dies between any two
statements. `PROJECT.json` lists them as hazards, each at its line.

## Modules

| Module | What it is |
|---|---|
| `InventoryRow` | one inventory row and the compare-and-swap statements on it, as operators |
| `SeatLedger` | abstract specification: what holding, releasing and selling seats promises |
| `SeatHold` | the hot path: lock, hold, release, sale, sweep |
| `OrderFlow` | orders, payments, gateway and webhook over the seats; enqueueing of confirmations |
| `WaitingRoom` | the queue of an event, the admission service that empties it, and `HoldSeat` behind it |
| `RateLimiter` | the counter in front of `HoldSeat` |
| `NotificationOutbox` | the worker's loop that sends what `OrderFlow` enqueues |
| `Sessions` | accounts, login, rotation of refresh tokens, logout |
| `Catalogue` | venues, events, ticket categories, publication, and the foreign keys between them |
| `Pricing` | the loop of `CreateOrder` over a cart: amounts, limits, expiry |
| `SeatHoldProofs`, `OrderFlowProofs`, `WaitingRoomProofs`, `RateLimiterProofs`, `NotificationOutboxProofs`, `SessionsProofs`, `CatalogueProofs`, `PricingProofs` | theorems about the module each is named after |
| `MCSeatHold`, `MCOrderFlow`, ... | symmetry sets and values of constants for TLC |

Operators placed before a definition and described there as a mutant are
plausible mistakes in it. No specification uses them; each one is known to
violate the property that guards against it.

### SeatHold

`inv[s]` is the row, `lock[s]` the Redis key, `req[p]` a `HoldSeat` call, and
`sweep[w]` the rows a worker has listed and not yet released. `HoldSeat` is
three steps: `Acquire` (SETNX, then token and expiry are drawn), `Hold` (the
UPDATE) and `Return` (the deferred unlock). `AcquireAnswerLost` and `HoldFails`
are the calls whose effect took place although an error came back.
`SweepExpiredHolds` is a listing and one step per row, and it ends early when a
release fails. `lapsed` is history: the requests whose lock expired under them.

- The lock's value is the identity of the request, since each call draws a
  fresh uuid. A lock may lapse at any moment: the code does not bound the
  section by `LockTTL`.
- The admission and rate-limit checks before the lock only reject. Leaving them
  out allows more behaviours; `WaitingRoom` and `RateLimiter` model them.
- Uuids are fresh numbers. `Acquire` stops drawing holds that could not expire
  before `MaxTime`, so that liveness is not decided by the bound.
- `BadSeat` is a set of rows whose release always fails; it is empty except in
  the run `seat_hold_bad_row`.

### OrderFlow

One order and one payment per idempotency key (both tables have the unique
constraint). `req[p]` is a handler: `CreateOrder` → `CreateWithItems`;
`AuthorizePayment` → `CreateIntent` → `RecordPayment` → `AwaitPayment`;
`DeliverWebhook` → `ConfirmPayment` → `MarkCaptured`, or → `Refund` →
`MarkRefunded` → `MarkExpired`. `Abort` ends a handler after any step: an error
of the next call, a rolled-back transaction, or a crash.

- A transaction is one step. Its UPDATEs lock their rows until the commit, so
  it acts as if it all happened at its last statement; a Postgres deadlock
  between two of them is an `Abort`.
- `CreateOrder` merges the key lookup and the item checks. A hold that passes
  its check was valid when the request came in, because its token was known by
  then and is never held again.
- Holding, releasing and sweeping are single steps. `SeatHold` shows that this
  is how they look from the rows (`ImplementsLedger`).
- The gateway is the one `StripeGateway` talks to. `CreateIntent` sends the
  order's key as Idempotency-Key, so there is one intent per key (`IntentFor`).
  `Refund` sends no key, so every request counts (`RefundIntent`), up to
  `MaxRefunds`. A gateway that rejects a refund is an `Abort` in place of
  `Refund`.
- The two repositories' lookups and updates are operators of their own
  (`OrderFound`, `PaymentFound`, `InsertPayment`, `SetOrderStatus`,
  `SetPaymentStatus`): the updates look at no old status.
- All seats are of one ticket category; prices and mixed carts are in `Pricing`.

### WaitingRoom

`queue[e]` is the sorted set (score 0: not a member), `seq[e]` its counter,
`admitted[e]` the keys with a TTL. `Join` is `JoinQueue` (INCR) → `ZAddNX` →
`JoinAnswer` (ZRANK); the status request is `QueueStatus` (EXISTS) →
`QueueStatusPosition` (ZRANK). A worker's tick is `RunOnce` → `NextTenant` →
`QueueLength` → `CountByStatus` → `ZPopMin` → `Admit`, with `EventFails`,
`ListEventsFails` and `WorkerCrash` wherever the code can fail or stop.

- `entered`, `served` and `ahead` are history: the places ever taken and served,
  and who was waiting when a number was drawn.
- `Faulty` are the events whose calls may fail, and `CanCrash` says whether
  workers die.
- Seats are a number per event; `TakeSeat` is the outcome of `SeatHold`.
  `HoldSeat` takes the event of the admission check (`ev`) and the row (`row`,
  here the event the row belongs to) from the request, as the handler does, and
  nothing compares the two.
- An admission may expire at any moment.

### RateLimiter

One counter per key with a TTL in clock ticks. `Allow` is INCR, and for the
attempt that created the key `Expire` follows. `ExpireFails` is the error and
the crash in between; it happens to the keys in `Flaky`. Above the limit a
larger count is not different from a smaller one, so it saturates at `MaxCount`.
`allowed[k]` is history: the set of attempts let through in the last `Window`
ticks, each with what it counted to and its age. As a set it would merge two
equal attempts; `EveryAttemptCounts` proves that there are none. `failed` is
history too: the keys whose present counter had its EXPIRE fail, with or without
effect. It is forgotten with the counter, so a failure excuses that counter only.

### NotificationOutbox

`job[w]` is a `ProcessPending`: the batch still to do, and whether the row at
hand is to be sent or marked. `Send` may deliver, fail, or deliver and report an
error. `MarkErrs` is a mark that failed, `Crash` the end of the worker; `faults`
counts such events up to `MaxFaults`, and `unmarked` is history: the rows that
were tried and then not marked. `Bad` notifications can never be delivered.

### Sessions

`token[i]` is a pair: the row of the refresh token and the claims signed with
it. `Refresh` → `CheckUser` → `Revoke` → `IssueTokenPair`; `Login` →
`IssueTokenPair`; `Logout` → `LogoutRevoke`. Any number of requests run at once,
also with one token. Suspension has no caller in the repository, but the code
checks for it, so an operator may suspend at any time. Hashes and signatures
are taken to be perfect.

### Catalogue

The rows of the catalogue with the club each belongs to. Creating one is a
single INSERT whose foreign keys are `ForeignKey`. `PublishEvent` is the read of
the event, `BulkCreate` the inventory, `UpdateEvent` the status; a publish may
fail after each. `HoldSeat` and `ReleaseSeat` are there for what fans can do
with such rows, and `Clock` moves the sales window.

### Pricing

Carts are built item by item; `Wrap` is the addition of a machine integer of
`Width` bits. Run `pricing` has five bits and prices of which two exceed the
largest integer: such a sum turns negative, and the CHECK of the `orders` table, which
`PlaceOrder` includes, refuses it. `Cost`, against which
`TotalIsSum` compares the total, is not another sum: it counts the cents of all
tickets (`Cents`), one pair of item and cent each. `PowersOfTwo` states the
arithmetic of `2 ^ Width` that the provers do not know; TLC evaluates it for the
width of the run.

## Runs

| Run | Result | Shows |
|---|---|---|
| `seat_hold` | pass | two seats, two requests, one worker, with crashes, lapsing locks and lost answers: a token names one hold, winners have their seat, nobody loses a lock to another's unlock, the sweep takes only expired holds, every hold ends, and the hot path implements `SeatLedger` |
| `seat_hold_bad_row` | violation | a row that cannot be released starves the rows behind it |
| `order_flow` | pass | two keys, two seats, two handlers that may die anywhere: no double or partial sale, one notification per sale, no orphaned charge, closed orders stay closed, an order refunded or expired unfulfilled never gets its seats, and the order flow implements `SeatLedger` |
| `order_flow_serial` | pass | with one delivery at a time a fulfilled order is never refunded; a charged order is fulfilled or refunded |
| `order_flow_race` | violation | overlapping deliveries refund a fulfilled order |
| `waiting_room` | pass | two fans, two requests, two failing workers: first come first served, no place admitted twice or lost except by a failure between pop and mark, never more seats taken than there are |
| `waiting_room_live` | pass | two events: waiting ends, although the other event fails on every tick, and a seat goes only to a fan served in the queue of the event their request named |
| `rate_limiter` | pass | at most twice the limit in any stretch as long as a window, failures included; only a counter whose own EXPIRE failed is left without a TTL, and every other refusal ends |
| `notification_outbox` | pass | one worker with failures: what is marked sent was delivered, a mark is final, a mail is repeated only if its mark was lost, and every good mail goes out past a bad one |
| `sessions` | pass | a refresh token buys one pair, dead credentials buy nothing, a session ends only by its own logout or exchange, and nothing comes out of it after its logout, not even out of a refresh under way |
| `catalogue` | pass | an event on sale has tickets, and rows hang below rows of their own club |
| `pricing` | pass | total, limits and expiry of every cart of up to five items, those dearer than the largest integer included |

The two violations are sentences of the repository that the code does not keep;
`PROJECT.json` quotes them.

**Bounds.** In `seat_hold` two seats and two requests give every pairwise
conflict, and two tokens let a seat be held again after a sweep or a release
while the older request or listing is still around; the clock goes far enough for both
holds to expire. In `order_flow` two handlers serve the same key or different
keys, and carts of up to two items include overlapping carts and an item listed
twice. A cart lists its items in the order of their tokens (`InTokenOrder`): no
step depends on that order. The clock stands still there (`MaxTime` 0). A release
has the same effect on a row as a sweep, so a seat can be held again, with an order
waiting on the hold that ended; ticks, expiry and the sweep are in
`order_flow_serial`. Three numbers per queue let one of two fans join twice,
before or after the other is admitted, with two workers in any two steps of
`Admit`. Two events, one of them failing, are enough for one to block the other.
Limit and window of 3 leave room for a window that begins in the middle of
another; of the two keys one loses its EXPIREs. Of four notifications with a
batch of two, one is behind the bad one in its batch and two are in the next
batch; two faults allow a mail that is delivered, not marked, and interrupted
again. Three pairs of tokens give two exchanges in a row, or two attempts at the
same one. A `VIEW` forgets of an answered request all but whether the answer was a
pair and whether its credentials were dead: nothing reads the rest again, and no
property of that run is about it. Two clubs with two events and two categories give every wrong parent.
Deadlock is not checked: no handler waits for another, fans and admins may stop,
and the bounds stop the clock. Symmetry is used only in runs without liveness.

**Fairness.** The sweep loop ticks for ever (`runSweepLoop`) and its clock
advances; a release retried on every tick does not fail every time (strong
fairness of `SweepRelease`). In `OrderFlow` a handler ends one way or another
(weak fairness), and Stripe redelivers an event until it is answered with 2xx,
which `webhook.go` relies on, so delivery, the transaction and the refund do
not fail for ever (strong fairness). The admission and notification loops tick
for ever (`runAdmissionLoop`, `runNotificationLoop`) and every call returns, so
the steps of a worker are weakly fair, and whether a call of a failing event
fails is left open; the failures of the outbox end at some point
(`MaxFaults`), the undeliverable mails stay. In `RateLimiter` time passes and a
request is answered. Nothing is assumed about fans.

## Sentences the code does not keep

Besides the two violation runs. Each is a definition in the last section of its
module (`WaitingEnds`, `NobodyLost`, `RefusalEnds` and `TotalIsSum` are also
checked by a run, under the condition given there). TLC finds the counterexample
with the constants named, all other constants as in the module's first run.

| Sentence | Definition | How it is broken | With |
|---|---|---|---|
| `service/order/service.go:96` a retried `CreateOrder` returns the existing order | `OrderFlow!RetryReturnsOrder` | two requests with one key both miss the lookup; the later INSERT hits the unique key and its caller gets an error | one seat, one key, two handlers |
| `handler/http/webhook.go:132` the expired outcome "is final and correctly resolved" | `OrderFlow!ExpiredIsFinal` | the guard knows only 'paid': a delivery for an expired order asks for another refund | one seat, one key, one handler, `MaxRefunds` 2 |
| `repository/postgres/inventory.go:139` no payment "against a seat whose hold expired moments earlier" | `OrderFlow!NoSaleAfterExpiry` | `ConfirmSale` compares the token, not the expiry; the sweep has not come by yet | one seat, one key, one handler, `MaxTime` 1 |
| `migrations/000007_orders_and_order_items.up.sql:44` no seat "live in two orders at once" | `OrderFlow!OneLiveOrderPerSeat` | `CreateOrder` reads the hold and leaves it as it is, so a second key passes with it | one seat, two keys, one handler |
| `test/integration/order_test.go:109` a confirmed order's payment ends 'captured' | `OrderFlow!PaidIsCaptured` | a failure after the commit; redeliveries stop at the guard | `FairSpec`, one seat, one key, one handler |
| `repository/redis/waitingroom.go:85` `Admit` pops fans and marks each as admitted | `WaitingRoom!NobodyLost` without its second disjunct | a failure or crash after the pop | as in `waiting_room` |
| `service/inventory/service.go:39` `ErrNotQueued` means never joined or already admitted | `WaitingRoom!NotQueuedIsTrue` | the fan is popped and not yet marked | one request, one worker, no failures |
| `repository/redis/waitingroom.go:39` `Join` returns the position | `WaitingRoom!JoinReturnsPosition` | admitted between their own ZADD and ZRANK, the fan gets an error | one request, one worker, no failures |
| `cmd/worker/main.go:146` the loop lets fans through "for every on-sale event" | `WaitingRoom!WaitingEnds` | events beyond the limit of the listing are never reached | as in `waiting_room_live`, `ListLimit` 1 |
| `service/inventory/errors.go:17` a refusal is about "the current window" | `RateLimiter!RefusalEnds` without its second disjunct | after a failed EXPIRE the counter never ends | as in `rate_limiter` |
| `service/notification/service.go:42` a 'failed' row is terminal | `NotificationOutbox!FailedIsTerminal` | a second worker with the same batch marks it 'sent' | two workers |
| `service/auth/service.go:218` logout is idempotent | `Sessions!LogoutIsIdempotent` | of two overlapping logouts the second finds the token revoked after its lookup and gets an error | `CanFail` FALSE, without the `VIEW` |
| `handler/http/admin_event.go:167` publishing generates sellable inventory | `Catalogue!InventoryIsSellable` | rows published under a category of another event have no price there | as in `catalogue` |
| `domain/event.go:50` `IsOnSale` says whether purchases are accepted | `Catalogue!HeldWhileOnSale` | `HoldSeat` does not ask it | as in `catalogue` |
| `domain/money.go:25` `Add` "returns the sum" | `Pricing!TotalIsSum` | a sum of `2 ^ Width` or more comes out as a smaller positive one | `Width` 4 and 7 for "vip" |

Of five of these sentences a true version is proved, which says when they can be
relied on:

| Definition | Theorem | Holds when |
|---|---|---|
| `OrderFlow!RetryReturnsOrder` | `RetriesGetTheOrder` | no two `CreateOrder`s with one key are both between lookup and INSERT (`OneCreates`) |
| `WaitingRoom!NotQueuedIsTrue` | `NotQueuedIsExplained` | nothing fails, and "already admitted" includes fans a worker has popped and is about to mark |
| `WaitingRoom!NobodyLost` without its second disjunct | `NothingGoesMissing` | no call fails and no worker dies |
| `Sessions!LogoutIsIdempotent` | `LogoutsSucceed` | no database call fails, and no other request is about to revoke the token of a logout (`OneRevokes`) |
| `Catalogue!InventoryIsSellable` | `OwnCategoriesSell` | every publish names a category of its own event (`OwnCategories`) |

`FailedIsTerminal` is, with one worker, part of `MarkedIsFinal`, and `TotalIsSum` is
proved for costs below `2 ^ Width` (`TotalIsRight`).

## Proofs

`SeatHoldProofs` proves for any sets of seats, requests and workers and any
durations, from `ConstantsAssumption` alone:

- `TypeCorrect`, `TokensUnique`, `NoFalseWinner`, `LockIsKept`: the invariants
  of run `seat_hold`, and from the last one mutual exclusion (`LockExcludes`);
- `SweepSafe`: the action property;
- `ImplementsLedger`: refinement of `SeatLedger`;
- `StaleTokensAreDead`: a sold seat stays sold, and a token a fan was given never
  gains a seat. It follows from the refinement: it is a property of the ledger's
  steps (`LedgerKeeps`), carried over to the hot path.

They rest on `Invariance`: `IInv` is inductive. The properties alone are not.
That a sweep takes only expired holds needs to know that a listed hold had
expired, and that its row has no later expiry under the same token
(`ListedExpired`); that a request about to write has a token no listing
has (`LockedNotListed`) and no fan or other request knows (`TokensPrivate`);
and that tokens in use are below the next one drawn (`TokensDrawn`). Each action has a lemma; the actions that end a hold
share one (`EndHoldIInv`), and so do those that write one (`WriteIInv`).

`OrderFlowProofs` proves for any seats, keys, handlers and carts every property
of run `order_flow`, the refinement of `SeatLedger` included, and that money is given
back only where it was taken (`RefundsAreReal`). `OneBuyer` and `AllOrNothing` need that a
transaction that found all its tokens sold seats nobody had bought
(`SoldToSomeone`, `TokensDrawn`); the properties about money need to know
at which step a handler is and what it relies on there (`InFlight`, `Stages`;
the lemma `OthersRely` shows that no other handler takes it away), that one handler at most creates the payment of a key
(`OneAuthorizes`), and that holds found missing stay missing (`LostForGood`).

`NoRefundOfFulfilledOrder`, which run `order_flow_race` refutes for overlapping
deliveries, is proved under the condition that makes the difference
(`FulfilledKeepsItsMoney`): no two `ConfirmPayment`s of one order are both between
reading the order and their transaction (`OneConfirms`). Deliveries may overlap in
every other way. In particular a refund under way needs no exclusion, because the
holds of its order are gone for good and nobody can sell them. The invariant is
`Decided`: a fulfilled order is paid and not refunded, and no handler that might
refund or expire it is under way. `OneHandlerKeepsMoney` is the case of run
`order_flow_serial`, one handler, where the condition always holds.

Three results say what a sale leaves behind, without any condition on deliveries. A
seat is sold in the step that fulfils an order naming the very hold the seat is
under (`SalesAreOfTheHold`); an order that was refunded, or has expired unfulfilled,
never gets its seats afterwards (`NoSeatsAfterRefund`, the run's `LostStaysLost`,
from `LostForGood`); and a
fulfilled order keeps its items and its seats for good (`BuyersKeepTheirSeats`). All
three follow from what a step does to orders and rows (`SaleStep`): items are written
once, and only `ConfirmPayment` sells. `RetriesGetTheOrder` rests on `KeyIsFree`: what
the lookup of a `CreateOrder` found still holds at its INSERT when no other handler
is between the two.

`WaitingRoomProofs` proves the properties of run `waiting_room`, and
`SeatsGoToAdmittedFans` of `waiting_room_live`, for any events, requests and
workers, finitely many fans, and failures anywhere. `ServedOnce` and
`NobodyForgotten` need that a number of INCR is used for one place only
(`FreshNumbers`: none that a request is about to ZADD is taken already) and that
what is popped or served had entered (`AllEntered`). `Fifo` needs that those who
were waiting when a number was drawn have smaller ones (`SmallerNumbers`), and that
a batch of ZPOPMIN holds no larger number than one it leaves behind.
`SeatsBehindTheQueue` needs that admission keys, and requests past the check, are of
fans that were served in the queue of that event (`AdmittedWereServed`).

A number of INCR belongs to one place (`NumbersAreUnique`), so two fans of a queue are
never at the same position (`PositionsAreDistinct`), and ZPOPMIN with a count of n
takes at most n of them: the positions of a batch are different numbers up to n. So no
worker holds more than `AdmissionMaxPerTick` fans of an event (`TicksAreBounded`),
although the queue and the seats move on between its reads and the pop. When no call
fails and no worker dies, `NothingGoesMissing` turns the action property of
`NobodyForgotten` into an invariant, all places ever taken are accounted for, and
`NotQueuedIsExplained` derives what `ErrNotQueued` then means.

`RateLimiterProofs` proves for any keys, requests, limit and window that a counter
gets its TTL unless its own EXPIRE fails (`CountersExpire`), and that at most twice the
limit passes in any stretch as long as a window (`TwiceTheLimit`), failed EXPIREs
included. Only the request that created a counter sends its EXPIRE (`OneCreator`).
The recent attempts are on the present counter or on the one before it, and on
each of them no two counted to the same number (`TwoCounters`). So each counter has
let at most `Limit` through, and a third one cannot begin before those on the
first are too old to matter.

`PricingProofs` proves the properties of run `pricing` for carts of any length and any
prices and width: limits (`LimitHolds`), expiry (`ExpiresFirst`), and the total
(`TotalIsRight`) whenever the cost is below `2 ^ Width`. The subtotal is the cost or,
after wrapping around once, negative (`Stored`); then the CHECK refuses the order.
The condition is needed: from there on a wrapped sum can be positive, see above.

`SessionsProofs` proves the properties of `sessions` for any accounts, tokens
and requests. `RotationIsSingleUse` rests on `Winner`: of the requests with one
token only one has passed `Revoke` and not yet inserted, and then no child
exists, because a parent is revoked (`ParentsRevoked`) and a revoked token is
never revocable again. `LogoutsAreFinal` needs the same of a logged-out token: it is
revoked and has no child, and no request is past `Revoke` with it (`LoggedOut`).
`ClaimsAreTheAccounts`, which no run checks, says that tokens carry the role and club
of their account. `LogoutsSucceed` rests on `LogoutInHand`: the token of a logout
past its lookup is still to be revoked.

`CatalogueProofs` proves the properties of `catalogue`. A publish that is about
to write the status has inserted its rows and read an event of the admin's club
(`PublishInHand`), and the parents of rows exist (`RowsAreComplete`). For
`OwnCategoriesSell` the foreign keys give the club of a category, the condition gives
its event, and a category is never changed (`CategoriesStay`).

`NotificationOutboxProofs` proves for any number of workers that 'sent' is true,
from `MailIsOut`: a worker about to mark 'sent' has delivered. With one worker
(`OneWorker`) the batch at hand is still pending (`BatchIsPending`), so marks
are final, and no mail goes out twice unless its mark was lost (`OutOnce`).

Only model-checked: liveness (`EveryHoldEnds`, `ChargedIsResolved`, `WaitingEnds`,
`RefusalEnds`, `GoodMailIsDelivered`), because fairness and ENABLED are out of the
prover's reach, and the sentences the code does not keep, which are counterexamples.
Every other property of a passing run is also a theorem, under the conditions named
above.

## Not modelled

- Code that nothing calls: `InventoryRepo.Void`, `UserRepo.Update`,
  `RevokeAllForUser`, the sections, seats and updates of `VenueRepo`, creating
  and updating tenants, memberships.
- Pure functions: signature verification, password hashing, token signing,
  rendering of mails, decoding and validation of requests.
- Start-up, configuration, logging, connections, mail transport.
- The audit-log trigger, whose table no code reads, and row-level security:
  `SetTenantContext`, which would make its policies apply, has no caller.
- `RequireTenantHeader`, `Me` and the health checks, which read and keep nothing.
- A failing INCR or ZADD of `Join`: the request is answered with an error and
  leaves at most an unused number behind.
