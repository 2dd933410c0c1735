----------------------------- MODULE OrderFlow -----------------------------
(***************************************************************************)
(* From held seats to a paid order: CreateOrder, AuthorizePayment and      *)
(* ConfirmPayment of internal/service/order, the payment gateway, and the  *)
(* Stripe webhook that calls ConfirmPayment.                               *)
(*                                                                         *)
(* Every handler is a sequence of database statements, transactions and    *)
(* gateway calls, and another handler may run between any two of them.  A  *)
(* transaction of WithTx is one step: its UPDATEs keep their rows locked   *)
(* until the commit.  A handler can end after any step, because the next   *)
(* call returned an error or because the process died (Abort).             *)
(*                                                                         *)
(* UNIQUE (tenant_id, idempotency_key) of orders and payments makes the    *)
(* key the identity of an order and of its payment.  Holding, releasing    *)
(* and sweeping a seat are single steps here; SeatHold looks inside them.  *)
(***************************************************************************)
EXTENDS InventoryRow, Sequences, FiniteSets

CONSTANTS
    Seat,          \* rows of event_seat_inventory, all of one ticket category
    Key,           \* idempotency keys: one per checkout attempt
    Proc,          \* handler goroutines
    NoKey,
    HoldDuration,  \* Config.HoldDuration, in clock ticks
    MaxPerOrder,   \* the category's MaxPerOrder
    MaxToken,      \* bound: hold tokens ever drawn
    MaxTime,       \* bound: the clock stops here
    MaxRefunds     \* bound: refunds the gateway makes per payment

ASSUME ConstantsAssumption ==
    /\ NoKey \notin Key
    /\ HoldDuration \in Nat /\ MaxPerOrder \in Nat \ {0}
    /\ MaxToken \in Nat /\ MaxTime \in Nat /\ MaxRefunds \in Nat

VARIABLES
    inv,      \* inv[s]: the row of seat s
    now,      \* the clock
    nextTok,  \* the next uuid
    issued,   \* the holds fans know of: seat and token
    order,    \* order[k]: the order with key k and its items
    payment,  \* payment[k]: the status of the payment row with key k
    intent,   \* intent[k]: the payment intent at the gateway
    refunds,  \* refunds[k]: how often the gateway refunded the charge of k
    outbox,   \* outbox[k]: confirmation notifications enqueued for k
    req       \* req[p]: where the handler p is, and its local variables

seatVars == <<inv, now, nextTok, issued>>
vars == <<inv, now, nextTok, issued, order, payment, intent, refunds, outbox, req>>

Item == [seat : Seat, tok : Nat]

Idle == [pc |-> "idle", key |-> NoKey, items |-> <<>>]

Init ==
    /\ inv = [s \in Seat |-> Available]
    /\ now = 0
    /\ nextTok = 1
    /\ issued = {}
    /\ order = [k \in Key |-> [status |-> "none", items |-> <<>>]]
    /\ payment = [k \in Key |-> "none"]
    /\ intent = [k \in Key |-> "none"]
    /\ refunds = [k \in Key |-> 0]
    /\ outbox = [k \in Key |-> 0]
    /\ req = [p \in Proc |-> Idle]

At(p, pc) == req[p].pc = pc

Goto(p, pc) == req' = [req EXCEPT ![p].pc = pc]

Done(p) == req' = [req EXCEPT ![p] = Idle]

\* GetByIdempotencyKey of the two repositories finds a row.
OrderFound(k) == order[k].status # "none"

PaymentFound(k) == payment[k] # "none"

\* UpdateStatus of the two repositories: UPDATE ... WHERE id = $1, whatever the
\* status is by now.
SetOrderStatus(k, status) == order' = [order EXCEPT ![k].status = status]

SetPaymentStatus(k, status) == payment' = [payment EXCEPT ![k] = status]

-----------------------------------------------------------------------------
(***************************************************************************)
(* The seats: a fan holds one or gives it up, the sweep takes it back.     *)
(***************************************************************************)

\* Hold affects the row; when it does not, nothing happens.
HoldSeat(s) ==
    /\ nextTok <= MaxToken
    /\ now + HoldDuration <= MaxTime
    /\ HoldRow(inv[s], nextTok, now + HoldDuration) # inv[s]
    /\ inv' = [inv EXCEPT ![s] = HoldRow(@, nextTok, now + HoldDuration)]
    /\ issued' = issued \cup {[seat |-> s, tok |-> nextTok]}
    /\ nextTok' = nextTok + 1
    /\ UNCHANGED <<now, order, payment, intent, refunds, outbox, req>>

ReleaseHold(i) ==
    /\ inv' = [inv EXCEPT ![i.seat] = ReleaseRow(@, i.tok)]
    /\ UNCHANGED <<now, nextTok, issued, order, payment, intent, refunds, outbox, req>>

SweepRelease(s) ==
    /\ Expired(inv[s], now)
    /\ inv' = [inv EXCEPT ![s] = ReleaseRow(@, inv[s].token)]
    /\ UNCHANGED <<now, nextTok, issued, order, payment, intent, refunds, outbox, req>>

Tick ==
    /\ now < MaxTime
    /\ now' = now + 1
    /\ UNCHANGED <<inv, nextTok, issued, order, payment, intent, refunds, outbox, req>>

-----------------------------------------------------------------------------
(***************************************************************************)
(* CreateOrder.  The idempotency lookup and the item checks are one step:  *)
(* a hold that passes its check has been valid since the request was sent, *)
(* because its token is never held again.                                  *)
(***************************************************************************)

\* Every item is held under the given token and has not expired.
ItemsValid(items) ==
    \A i \in DOMAIN items :
        /\ HeldBy(inv[items[i].seat], items[i].tok)
        /\ ~Expired(inv[items[i].seat], now)

\* An order under this key is returned as it is; an invalid item, or one item
\* too many, is an error: neither changes anything.
CreateOrder(p, k, items) ==
    /\ At(p, "idle")
    /\ items # <<>>
    /\ ~OrderFound(k)
    /\ ItemsValid(items)
    /\ Len(items) <= MaxPerOrder
    /\ req' = [req EXCEPT ![p] = [pc |-> "insert", key |-> k, items |-> items]]
    /\ UNCHANGED <<seatVars, order, payment, intent, refunds, outbox>>

\* The insert and the commit.  A second insert under the key is a unique
\* violation and returns ErrConflict.
CreateWithItems(p) ==
    LET k == req[p].key IN
    /\ At(p, "insert")
    /\ order' = IF OrderFound(k)
                THEN order
                ELSE [order EXCEPT ![k] = [status |-> "pending", items |-> req[p].items]]
    /\ Done(p)
    /\ UNCHANGED <<seatVars, payment, intent, refunds, outbox>>

-----------------------------------------------------------------------------
(***************************************************************************)
(* AuthorizePayment.                                                       *)
(***************************************************************************)

\* "order is ..., not pending" is an error.
Payable(k) == order[k].status = "pending"

AuthorizePayment(p, k) ==
    /\ At(p, "idle")
    /\ Payable(k)
    /\ req' = [req EXCEPT ![p] = [pc |-> "intent", key |-> k, items |-> <<>>]]
    /\ UNCHANGED <<seatVars, order, payment, intent, refunds, outbox>>

\* The gateway, which sees the Idempotency-Key header: a second call returns the
\* intent there is.
IntentFor(k) == intent' = [intent EXCEPT ![k] = IF @ = "none" THEN "created" ELSE @]

\* Mutant of CreateIntent: the client learns the secret with the intent, before
\* anything is recorded.
CreateIntentTellsClient(p) ==
    LET k == req[p].key IN
    /\ At(p, "intent")
    /\ intent' = [intent EXCEPT ![k] = IF @ = "none" THEN "offered" ELSE @]
    /\ Goto(p, "record")
    /\ UNCHANGED <<seatVars, order, payment, refunds, outbox>>

CreateIntent(p) ==
    /\ At(p, "intent")
    /\ IntentFor(req[p].key)
    /\ Goto(p, "record")
    /\ UNCHANGED <<seatVars, order, payment, refunds, outbox>>

\* payments.Create: UNIQUE (tenant_id, idempotency_key) lets one request pass.
InsertPayment(k) == ~PaymentFound(k) /\ payment' = [payment EXCEPT ![k] = "pending"]

\* Mutant of RecordPayment: without the constraint, every request passes.
RecordPaymentAnyway(p) ==
    LET k == req[p].key IN
    /\ At(p, "record")
    /\ payment' = [payment EXCEPT ![k] = "pending"]
    /\ Goto(p, "await")
    /\ UNCHANGED <<seatVars, order, intent, refunds, outbox>>

RecordPayment(p) ==
    LET k == req[p].key IN
    /\ At(p, "record")
    /\ \/ InsertPayment(k) /\ Goto(p, "await")
       \/ PaymentFound(k) /\ Done(p) /\ UNCHANGED payment
    /\ UNCHANGED <<seatVars, order, intent, refunds, outbox>>

\* orders.UpdateStatus, and the answer with the client secret, which may not
\* arrive.
AwaitPayment(p) ==
    LET k == req[p].key IN
    /\ At(p, "await")
    /\ SetOrderStatus(k, "awaiting_payment")
    /\ \/ intent' = [intent EXCEPT ![k] = "offered"]
       \/ UNCHANGED intent
    /\ Done(p)
    /\ UNCHANGED <<seatVars, payment, refunds, outbox>>

\* The fan pays with the client secret: the gateway captures the money.
FanPays(k) ==
    /\ intent[k] = "offered"
    /\ intent' = [intent EXCEPT ![k] = "charged"]
    /\ UNCHANGED <<seatVars, order, payment, refunds, outbox, req>>

-----------------------------------------------------------------------------
(***************************************************************************)
(* The webhook and ConfirmPayment.  Stripe delivers payment_intent.        *)
(* succeeded at least once: any number of times, also concurrently.        *)
(***************************************************************************)

\* The webhook finds the order and the payment, and ConfirmPayment reads the
\* order; an order already paid is acknowledged and nothing happens.  Mutant: the
\* idempotency guard is missing.
DeliverUnguarded(p, k) ==
    /\ At(p, "idle")
    /\ intent[k] = "charged"
    /\ OrderFound(k) /\ PaymentFound(k)
    /\ req' = [req EXCEPT ![p] = [pc |-> "confirm", key |-> k, items |-> order[k].items]]
    /\ UNCHANGED <<seatVars, order, payment, intent, refunds, outbox>>

DeliverWebhook(p, k) ==
    /\ At(p, "idle")
    /\ intent[k] = "charged"
    /\ OrderFound(k) /\ PaymentFound(k)
    /\ order[k].status # "paid"
    /\ req' = [req EXCEPT ![p] = [pc |-> "confirm", key |-> k, items |-> order[k].items]]
    /\ UNCHANGED <<seatVars, order, payment, intent, refunds, outbox>>

\* ConfirmSale succeeds on every item in turn.  An item listed twice fails the
\* second time, because the seat is sold by then.  Mutant: ok is not looked at.
ResultIgnored(items) == items # <<>>

AllSell(items) ==
    /\ \A i \in DOMAIN items : HeldBy(inv[items[i].seat], items[i].tok)
    /\ \A i, j \in DOMAIN items : items[i].seat = items[j].seat => i = j

SeatsOf(items) == {items[i].seat : i \in DOMAIN items}

TokenFor(items, s) == items[CHOOSE i \in DOMAIN items : items[i].seat = s].tok

\* ConfirmSale on every item.
Sell(items) ==
    inv' = [s \in Seat |->
               IF s \in SeatsOf(items) THEN ConfirmSaleRow(inv[s], TokenFor(items, s))
                                       ELSE inv[s]]

MarkPaid(k) ==
    /\ SetOrderStatus(k, "paid")
    /\ outbox' = [outbox EXCEPT ![k] = @ + 1]

\* Mutants of ConfirmPayment: the sales that went through are not rolled back;
\* the notification is enqueued before the transaction; a failed sale is not
\* followed by a refund.
ConfirmWithoutRollback(p) ==
    /\ At(p, "confirm")
    /\ Sell(req[p].items)
    /\ \/ AllSell(req[p].items) /\ MarkPaid(req[p].key) /\ Goto(p, "capture")
       \/ ~AllSell(req[p].items) /\ Goto(p, "refund") /\ UNCHANGED <<order, outbox>>
    /\ UNCHANGED <<now, nextTok, issued, payment, intent, refunds>>

ConfirmEnqueuesFirst(p) ==
    /\ At(p, "confirm")
    /\ \/ AllSell(req[p].items) /\ Sell(req[p].items) /\ MarkPaid(req[p].key) /\ Goto(p, "capture")
       \/ /\ ~AllSell(req[p].items)
          /\ outbox' = [outbox EXCEPT ![req[p].key] = @ + 1]
          /\ Goto(p, "refund")
          /\ UNCHANGED <<inv, order>>
    /\ UNCHANGED <<now, nextTok, issued, payment, intent, refunds>>

ConfirmWithoutRefund(p) ==
    /\ At(p, "confirm")
    /\ \/ AllSell(req[p].items) /\ Sell(req[p].items) /\ MarkPaid(req[p].key) /\ Goto(p, "capture")
       \/ ~AllSell(req[p].items) /\ Done(p) /\ UNCHANGED <<inv, order, outbox>>
    /\ UNCHANGED <<now, nextTok, issued, payment, intent, refunds>>

\* The transaction: every item is sold, the order is paid and the notification
\* is in the outbox, or it is rolled back with ErrExpired.
ConfirmPayment(p) ==
    /\ At(p, "confirm")
    /\ \/ /\ AllSell(req[p].items)
          /\ Sell(req[p].items)
          /\ MarkPaid(req[p].key)
          /\ Goto(p, "capture")
       \/ /\ ~AllSell(req[p].items)
          /\ Goto(p, "refund")
          /\ UNCHANGED <<inv, order, outbox>>
    /\ UNCHANGED <<now, nextTok, issued, payment, intent, refunds>>

\* After the commit, outside of the transaction.
MarkCaptured(p) ==
    /\ At(p, "capture")
    /\ SetPaymentStatus(req[p].key, "captured")
    /\ Done(p)
    /\ UNCHANGED <<seatVars, order, intent, refunds, outbox>>

\* The gateway: this request has no Idempotency-Key, so each one is a refund.
RefundIntent(k) ==
    /\ refunds[k] < MaxRefunds
    /\ refunds' = [refunds EXCEPT ![k] = @ + 1]

\* refundAndFail: the gateway, the payment, the order.
Refund(p) ==
    /\ At(p, "refund")
    /\ RefundIntent(req[p].key)
    /\ Goto(p, "markRefunded")
    /\ UNCHANGED <<seatVars, order, payment, intent, outbox>>

MarkRefunded(p) ==
    /\ At(p, "markRefunded")
    /\ SetPaymentStatus(req[p].key, "refunded")
    /\ Goto(p, "markExpired")
    /\ UNCHANGED <<seatVars, order, intent, refunds, outbox>>

MarkExpired(p) ==
    /\ At(p, "markExpired")
    /\ SetOrderStatus(req[p].key, "expired")
    /\ Done(p)
    /\ UNCHANGED <<seatVars, payment, intent, refunds, outbox>>

\* The next call of the handler returns an error, or its process dies.
Abort(p) ==
    /\ ~At(p, "idle")
    /\ Done(p)
    /\ UNCHANGED <<seatVars, order, payment, intent, refunds, outbox>>

-----------------------------------------------------------------------------
\* The items a fan can ask for: holds they know of, one of them possibly twice.
Carts == UNION {[1 .. n -> issued] : n \in 1 .. MaxPerOrder}

Next ==
    \/ \E s \in Seat : HoldSeat(s) \/ SweepRelease(s)
    \/ \E i \in issued : ReleaseHold(i)
    \/ Tick
    \/ \E p \in Proc, k \in Key :
          \/ \E items \in Carts : CreateOrder(p, k, items)
          \/ AuthorizePayment(p, k)
          \/ DeliverWebhook(p, k)
    \/ \E p \in Proc :
          \/ CreateWithItems(p)
          \/ CreateIntent(p) \/ RecordPayment(p) \/ AwaitPayment(p)
          \/ ConfirmPayment(p) \/ MarkCaptured(p)
          \/ Refund(p) \/ MarkRefunded(p) \/ MarkExpired(p)
          \/ Abort(p)
    \/ \E k \in Key : FanPays(k)

Spec == Init /\ [][Next]_vars

-----------------------------------------------------------------------------
(***************************************************************************)
(* Safety.  The notification is written in the transaction that sells the  *)
(* seats, and is never deleted: it witnesses that the order was fulfilled. *)
(***************************************************************************)
Fulfilled(k) == outbox[k] > 0

\* The variables have their types, and a row has a hold token exactly when it is
\* held: the CHECK constraint of event_seat_inventory.
TypeOK ==
    /\ inv \in [Seat -> Row]
    /\ \A s \in Seat : (inv[s].status = "held") <=> (inv[s].token # NoToken)
    /\ now \in Nat
    /\ nextTok \in Nat \ {0}
    /\ issued \subseteq Item
    /\ order \in [Key -> [status : {"none", "pending", "awaiting_payment", "paid", "expired"},
                          items : Seq(Item)]]
    /\ payment \in [Key -> {"none", "pending", "captured", "refunded"}]
    /\ intent \in [Key -> {"none", "created", "offered", "charged"}]
    /\ refunds \in [Key -> Nat]
    /\ outbox \in [Key -> Nat]
    /\ req \in [Proc -> [pc : {"idle", "insert", "intent", "record", "await", "confirm",
                               "capture", "refund", "markRefunded", "markExpired"},
                         key : Key \cup {NoKey}, items : Seq(Item)]]

\* No seat is sold twice: two fulfilled orders share no seat, whatever orders
\* were created on the same holds and however their confirmations interleave.
OneBuyer ==
    \A k, l \in Key :
        Fulfilled(k) /\ Fulfilled(l) /\ k # l =>
            SeatsOf(order[k].items) \cap SeatsOf(order[l].items) = {}

\* No partial sale: the sold seats are exactly the seats of the fulfilled
\* orders, so ConfirmPayment sells all of an order or nothing of it.
AllOrNothing ==
    {s \in Seat : inv[s].status = "sold"}
        = UNION {SeatsOf(order[k].items) : k \in {l \in Key : Fulfilled(l)}}

\* One confirmation is enqueued for a paid order and none for an order that
\* never was, however often the webhook is delivered.
OutboxMatchesSale ==
    \A k \in Key :
        /\ outbox[k] <= 1
        /\ order[k].status = "paid" => Fulfilled(k)
        /\ Fulfilled(k) => order[k].status \in {"paid", "expired"}

\* When the fan can pay, the webhook will find what it looks up: the payment is
\* recorded and the order is no longer pending, so a charge is never orphaned.
ChargeFindsItsOrder ==
    \A k \in Key :
        intent[k] \in {"offered", "charged"} =>
            payment[k] # "none" /\ order[k].status \notin {"none", "pending"}

\* No refund before the fan has paid, and a refunded payment is one the gateway
\* really refunded.
RefundsAreOfCharges ==
    \A k \in Key :
        /\ refunds[k] > 0 => intent[k] = "charged"
        /\ payment[k] = "refunded" => refunds[k] > 0

\* refundAndFail is for good: an order that was refunded or has expired without its
\* seats never gets them.  The webhook delivered again, after a crash between the
\* refund and its record too, must not sell what is held by somebody else by then.
LostStaysLost ==
    [][\A k \in Key : ~Fulfilled(k) /\ (refunds[k] > 0 \/ order[k].status = "expired")
                      => ~Fulfilled(k)']_vars

\* A paid order is never taken back to an open one by an AuthorizePayment still
\* under way, and an expired order never becomes anything else: its holds are
\* gone for good, also for the confirmations delivered later.
ClosedOrdersStayClosed ==
    [][\A k \in Key :
          /\ order[k].status = "paid" => order'[k].status \in {"paid", "expired"}
          /\ order[k].status = "expired" => order'[k].status = "expired"]_vars

\* The charge of a fulfilled order is not given back.  It holds as long as one
\* delivery of the webhook ends before the next one begins.
NoRefundOfFulfilledOrder == \A k \in Key : Fulfilled(k) => refunds[k] = 0

-----------------------------------------------------------------------------
SeatsView == [s \in Seat |-> [status |-> inv[s].status, token |-> inv[s].token]]

Ledger == INSTANCE SeatLedger WITH
    Token <- 1 .. MaxToken, seats <- SeatsView, used <- 1 .. (nextTok - 1)

\* To the seats, orders and payments are steps of the seat ledger: a seat is held
\* when it is free and under a new token, and sold when it is held, whatever orders
\* name it.  (That a sale takes all the seats of an order is AllOrNothing.)
LedgerSpec == Ledger!Spec

-----------------------------------------------------------------------------
(***************************************************************************)
(* Liveness.  A handler ends, one way or another.  Stripe delivers the     *)
(* event again until it is answered with 2xx, and then not every           *)
(* transaction and not every refund fails.                                 *)
(***************************************************************************)
HandlerStep(p) ==
    \/ CreateWithItems(p) \/ CreateIntent(p) \/ RecordPayment(p) \/ AwaitPayment(p)
    \/ ConfirmPayment(p) \/ MarkCaptured(p)
    \/ Refund(p) \/ MarkRefunded(p) \/ MarkExpired(p)
    \/ Abort(p)

WebhookFairness ==
    /\ \A p \in Proc : WF_vars(HandlerStep(p))
    /\ \A k \in Key :
          /\ SF_vars(\E p \in Proc : DeliverWebhook(p, k))
          /\ SF_vars(\E p \in Proc : req[p].key = k /\ ConfirmPayment(p))
          /\ SF_vars(\E p \in Proc : req[p].key = k /\ Refund(p))

FairSpec == Spec /\ WebhookFairness

\* Money that moved is never stuck: a charged order is fulfilled or its charge
\* is refunded, whatever expired, crashed or was retried in between.
ChargedIsResolved ==
    \A k \in Key : intent[k] = "charged" ~> (Fulfilled(k) \/ refunds[k] > 0)

-----------------------------------------------------------------------------
(***************************************************************************)
(* Sentences of the repository that the code does not keep; the README     *)
(* says how each is broken.                                                *)
(***************************************************************************)
\* "a retried CreateOrder call with the same key returns the existing order": no
\* request gets as far as the insert and finds the key taken.
RetryReturnsOrder ==
    [][\A p \in Proc : CreateWithItems(p) => order[req[p].key].status = "none"]_vars

\* "that outcome is final": once an order is expired, nothing more is refunded.
ExpiredIsFinal ==
    [][\A k \in Key : order[k].status = "expired" => refunds'[k] = refunds[k]]_vars

\* "a payment can never be recorded as successful against a seat whose hold
\* expired": no seat is sold on a hold that is past its expiry.
NoSaleAfterExpiry ==
    [][\A s \in Seat :
          inv[s].status = "held" /\ inv'[s].status = "sold" => ~Expired(inv[s], now)]_vars

\* "prevents a seat being live in two orders at once": two open orders share no
\* seat.
OneLiveOrderPerSeat ==
    \A k, l \in Key :
        /\ order[k].status \in {"pending", "awaiting_payment"}
        /\ order[l].status \in {"pending", "awaiting_payment"}
        /\ k # l
        => SeatsOf(order[k].items) \cap SeatsOf(order[l].items) = {}

\* "expected final payment status 'captured'": the payment of a fulfilled order
\* leaves 'pending'.
PaidIsCaptured ==
    \A k \in Key : Fulfilled(k) ~> payment[k] # "pending"
=============================================================================
