--------------------------- MODULE OrderFlowProofs --------------------------
(***************************************************************************)
(* Proofs about OrderFlow, for any number of seats, keys and concurrent    *)
(* handlers, each of which may die after any step: no seat is sold twice   *)
(* and no order in part, a confirmation is enqueued once, a charge finds   *)
(* its order, refunds are of charges, closed orders stay closed, buyers    *)
(* keep their seats, and the seats see nothing but steps of the seat       *)
(* ledger.                                                                 *)
(***************************************************************************)
EXTENDS OrderFlow, TLAPS

USE DEF NoToken, At, OrderFound, PaymentFound, SetOrderStatus, SetPaymentStatus, Payable,
        IntentFor, InsertPayment, RefundIntent

OrderRow ==
    [status : {"none", "pending", "awaiting_payment", "paid", "expired"}, items : Seq(Item)]

Request ==
    [pc : {"idle", "insert", "intent", "record", "await", "confirm",
           "capture", "refund", "markRefunded", "markExpired"},
     key : Key \cup {NoKey}, items : Seq(Item)]

\* Orders, and requests about to insert one, have items.
OrdersHaveItems ==
    /\ \A k \in Key : order[k].status # "none" => order[k].items # <<>>
    /\ \A p \in Proc : At(p, "insert") => req[p].items # <<>>

\* Tokens on rows, in orders and with fans have been drawn: a later hold has
\* another one.
TokensDrawn ==
    /\ \A s \in Seat : inv[s].token < nextTok
    /\ \A i \in issued : i.tok < nextTok
    /\ \A k \in Key : \A i \in DOMAIN order[k].items : order[k].items[i].tok < nextTok
    /\ \A p \in Proc : \A i \in DOMAIN req[p].items : req[p].items[i].tok < nextTok

\* What the handler p relies on between two of its steps.
Relies(p) ==
    /\ req[p].pc # "idle" => req[p].key \in Key
    /\ req[p].pc \in {"intent", "record", "await"} => order[req[p].key].status # "none"
    /\ req[p].pc = "record" => intent[req[p].key] # "none"
    /\ req[p].pc = "await" => /\ order[req[p].key].status = "pending"
                              /\ payment[req[p].key] # "none"
                              /\ intent[req[p].key] = "created"
    /\ req[p].pc = "confirm" => req[p].items = order[req[p].key].items
    /\ req[p].pc \in {"confirm", "capture", "refund", "markRefunded", "markExpired"} =>
          intent[req[p].key] = "charged"
    /\ req[p].pc = "markRefunded" => refunds[req[p].key] > 0

InFlight == \A p \in Proc : Relies(p)

\* The unique key of payments lets one AuthorizePayment pass.
OneAuthorizes ==
    \A p, q \in Proc : At(p, "await") /\ At(q, "await") /\ req[p].key = req[q].key => p = q

\* An order that cannot be sold any more: it is expired, it has been refunded, or a
\* handler is on its way through refundAndFail.
LostForGood ==
    /\ \A k \in Key : order[k].status = "expired" => ~AllSell(order[k].items)
    /\ \A k \in Key : refunds[k] > 0 => ~AllSell(order[k].items)
    /\ \A p \in Proc : req[p].pc \in {"refund", "markRefunded", "markExpired"} =>
          ~AllSell(order[req[p].key].items)

\* The same of a handler that a step leaves on its way through refundAndFail.
StillLost ==
    \A q \in Proc : req'[q].pc \in {"refund", "markRefunded", "markExpired"} =>
        ~AllSell(order[req'[q].key].items) /\ req'[q].key \in Key

\* How far order, payment and intent have come together.
Stages ==
    \A k \in Key :
        /\ order[k].status = "none" => intent[k] = "none"
        /\ payment[k] = "none" => /\ order[k].status \in {"none", "pending"}
                                  /\ intent[k] \in {"none", "created"}

\* AllOrNothing, seat by seat.
SoldToSomeone ==
    \A s \in Seat : inv[s].status = "sold" <=>
        \E k \in Key : Fulfilled(k) /\ s \in SeatsOf(order[k].items)

\* The inductive invariant.
IInv ==
    /\ TypeOK /\ OrdersHaveItems /\ TokensDrawn /\ InFlight /\ OneAuthorizes /\ LostForGood
    /\ Stages /\ SoldToSomeone /\ OneBuyer /\ OutboxMatchesSale /\ ChargeFindsItsOrder
    /\ RefundsAreOfCharges

-----------------------------------------------------------------------------
\* A list of items that is not empty has a first one, and every entry is an item.
LEMMA ItemsFacts ==
    ASSUME NEW items \in Seq(Item)
    PROVE  /\ \A i \in DOMAIN items : items[i] \in Item /\ items[i].seat \in Seat
           /\ items # <<>> => 1 \in DOMAIN items
           /\ SeatsOf(items) \subseteq Seat
           /\ items # <<>> => SeatsOf(items) # {}
<1>0. DOMAIN items = 1 .. Len(items)
  OBVIOUS
<1>a. \A i \in DOMAIN items : items[i] \in Item
  BY <1>0
<1>1. \A i \in DOMAIN items : items[i] \in Item /\ items[i].seat \in Seat
  BY <1>a DEF Item
<1>2. items # <<>> => 1 \in DOMAIN items
  OBVIOUS
<1> QED
  BY <1>1, <1>2 DEF SeatsOf

\* The empty database satisfies the inductive invariant.
LEMMA InitIInv == Init => IInv
<1> SUFFICES ASSUME Init PROVE IInv
  OBVIOUS
<1> USE ConstantsAssumption DEF Init, Available, Idle
<1>1. TypeOK
  BY DEF TypeOK, Row
<1>2. OrdersHaveItems /\ TokensDrawn /\ InFlight /\ OneAuthorizes /\ LostForGood /\ Stages
  BY DEF OrdersHaveItems, TokensDrawn, InFlight, Relies, OneAuthorizes, LostForGood, Stages
<1>3. SoldToSomeone /\ OneBuyer /\ OutboxMatchesSale /\ ChargeFindsItsOrder /\ RefundsAreOfCharges
  BY DEF SoldToSomeone, OneBuyer, OutboxMatchesSale, ChargeFindsItsOrder, RefundsAreOfCharges,
         Fulfilled
<1> QED
  BY <1>1, <1>2, <1>3 DEF IInv

\* Steps of the seats alone keep the inductive invariant when they sell nothing and
\* make no hold under a token that was drawn before.
LEMMA SeatStepIInv ==
    ASSUME IInv,
           inv' \in [Seat -> Row], now' \in Nat, nextTok' \in Nat \ {0}, issued' \subseteq Item,
           \A s \in Seat : (inv'[s].status = "held") <=> (inv'[s].token # NoToken),
           \A s \in Seat : inv'[s].status = "sold" <=> inv[s].status = "sold",
           \A s \in Seat, t \in Nat : t < nextTok /\ HeldBy(inv'[s], t) => HeldBy(inv[s], t),
           nextTok <= nextTok',
           \A s \in Seat : inv'[s].token < nextTok',
           \A i \in issued' : i.tok < nextTok',
           UNCHANGED <<order, payment, intent, refunds, outbox, req>>
    PROVE  IInv'
<1> USE ConstantsAssumption DEF IInv
<1>1. TypeOK'
  BY DEF TypeOK
<1>2. OrdersHaveItems' /\ InFlight' /\ OneAuthorizes' /\ Stages'
  BY DEF OrdersHaveItems, InFlight, Relies, OneAuthorizes, Stages
<1>3. /\ \A k \in Key : order[k].items \in Seq(Item)
      /\ \A p \in Proc : req[p].items \in Seq(Item)
      /\ nextTok \in Nat
  BY DEF TypeOK
<1>4. TokensDrawn'
  <2>1. ASSUME NEW items \in Seq(Item), \A i \in DOMAIN items : items[i].tok < nextTok
        PROVE  \A i \in DOMAIN items : items[i].tok < nextTok'
    <3>1. \A i \in DOMAIN items : items[i].tok \in Nat
      BY ItemsFacts, Zenon DEF Item
    <3> QED
      BY <1>3, <2>1, <3>1
  <2> QED
    BY <1>3, <2>1 DEF TokensDrawn
<1>5. LostForGood'
  <2>1. ASSUME NEW items \in Seq(Item), \A i \in DOMAIN items : items[i].tok < nextTok,
               AllSell(items)'
        PROVE  AllSell(items)
    BY <2>1, ItemsFacts, Zenon DEF AllSell, Item
  <2>2. \A k \in Key : AllSell(order[k].items)' => AllSell(order[k].items)
    BY <1>3, <2>1 DEF TokensDrawn, AllSell
  <2> QED
    BY <2>2 DEF LostForGood, InFlight, Relies
<1>6. SoldToSomeone' /\ OneBuyer' /\ OutboxMatchesSale'
  BY Zenon DEF SoldToSomeone, OneBuyer, OutboxMatchesSale, Fulfilled
<1>7. ChargeFindsItsOrder' /\ RefundsAreOfCharges'
  BY DEF ChargeFindsItsOrder, RefundsAreOfCharges
<1> QED
  BY <1>1, <1>2, <1>4, <1>5, <1>6, <1>7

\* A fan's hold has a new token; a release and the sweep only free seats.
LEMMA SeatActionsIInv ==
    ASSUME IInv,
           \/ \E s \in Seat : HoldSeat(s) \/ SweepRelease(s)
           \/ \E i \in issued : ReleaseHold(i)
           \/ Tick
    PROVE  IInv'
<1> USE ConstantsAssumption
<1>0. /\ inv \in [Seat -> Row] /\ now \in Nat /\ nextTok \in Nat \ {0} /\ issued \subseteq Item
      /\ \A s \in Seat : (inv[s].status = "held") <=> (inv[s].token # NoToken)
      /\ \A s \in Seat : inv[s] \in Row /\ inv[s].token < nextTok
      /\ \A i \in issued : i.tok < nextTok
  BY DEF IInv, TypeOK, TokensDrawn
<1>1. ASSUME NEW s \in Seat, HoldSeat(s) PROVE IInv'
  <2>1. inv[s].status = "available"
    BY <1>1 DEF HoldSeat, HoldRow
  <2> DEFINE h == Held(nextTok, now + HoldDuration)
  <2>2. inv' = [inv EXCEPT ![s] = h]
    BY <1>0, <1>1, <2>1 DEF HoldSeat, HoldRow
  <2>3. h \in Row /\ h.status = "held" /\ h.token = nextTok
    BY <1>0 DEF Held, Row
  <2> HIDE DEF h
  <2>4. \A x \in Seat : inv'[x] = IF x = s THEN h ELSE inv[x]
    BY <1>0, <2>2
  <2>5. nextTok' = nextTok + 1 /\ issued' = issued \cup {[seat |-> s, tok |-> nextTok]}
    BY <1>1 DEF HoldSeat
  <2>6. issued' \subseteq Item /\ \A i \in issued' : i.tok < nextTok'
    BY <1>0, <2>5 DEF Item
  <2>7. inv' \in [Seat -> Row] /\ now' \in Nat
        /\ UNCHANGED <<order, payment, intent, refunds, outbox, req>>
    BY <1>0, <1>1, <2>2, <2>3 DEF HoldSeat
  <2>8. \A x \in Seat, t \in Nat : t < nextTok /\ HeldBy(inv'[x], t) => HeldBy(inv[x], t)
    BY <1>0, <2>3, <2>4 DEF HeldBy
  <2>9. /\ \A x \in Seat : inv'[x].token < nextTok'
        /\ \A x \in Seat : (inv'[x].status = "held") <=> (inv'[x].token # NoToken)
        /\ \A x \in Seat : inv'[x].status = "sold" <=> inv[x].status = "sold"
    BY <1>0, <2>1, <2>3, <2>4, <2>5 DEF Row
  <2> QED
    BY <1>0, <2>5, <2>6, <2>7, <2>8, <2>9, SeatStepIInv
<1>2. ASSUME NEW s \in Seat, NEW t \in Nat, inv' = [inv EXCEPT ![s] = ReleaseRow(@, t)],
             UNCHANGED <<now, nextTok, issued, order, payment, intent, refunds, outbox, req>>
      PROVE  IInv'
  <2>1. \A x \in Seat : inv'[x] = inv[x] \/ (inv'[x] = Available /\ inv[x].status = "held")
    <3> DEFINE row == ReleaseRow(inv[s], t)
    <3>1. row = inv[s] \/ (row = Available /\ inv[s].status = "held")
      BY DEF ReleaseRow, HeldBy
    <3>2. inv' = [inv EXCEPT ![s] = row]
      BY <1>2
    <3> HIDE DEF row
    <3> QED
      BY <1>0, <3>1, <3>2
  <2>2. Available \in Row /\ Available.status = "available" /\ Available.token = 0
    BY DEF Available, Row
  <2> QED
    BY <1>0, <1>2, <2>1, <2>2, SeatStepIInv DEF HeldBy
<1>3. ASSUME NEW s \in Seat, SweepRelease(s) PROVE IInv'
  <2>1. inv[s].token \in Nat
    BY <1>0 DEF Row
  <2> QED
    BY <1>2, <1>3, <2>1, Zenon DEF SweepRelease
<1>4. ASSUME NEW i \in issued, ReleaseHold(i) PROVE IInv'
  <2>1. i.seat \in Seat /\ i.tok \in Nat
    BY <1>0 DEF Item
  <2> QED
    BY <1>2, <1>4, <2>1, Zenon DEF ReleaseHold
<1>5. ASSUME Tick PROVE IInv'
  BY <1>0, <1>5, SeatStepIInv DEF Tick
<1> QED
  BY <1>1, <1>3, <1>4, <1>5

\* Steps of one handler that write nothing.
LEMMA RequestStepIInv ==
    ASSUME IInv, NEW p \in Proc, NEW r \in Request, req' = [req EXCEPT ![p] = r],
           UNCHANGED <<seatVars, order, payment, intent, refunds, outbox>>,
           r.pc \in {"idle", "insert", "intent", "confirm"},
           r.pc # "idle" => r.key \in Key,
           r.pc = "insert" => r.items # <<>>,
           r.pc = "intent" => order[r.key].status # "none",
           r.pc = "confirm" => r.items = order[r.key].items /\ intent[r.key] = "charged",
           \A i \in DOMAIN r.items : r.items[i].tok < nextTok
    PROVE  IInv'
<1> USE ConstantsAssumption DEF IInv, seatVars
<1>0. \A q \in Proc : req'[q] = IF q = p THEN r ELSE req[q]
  BY DEF TypeOK
<1>1. TypeOK'
  BY DEF TypeOK, Request
<1>2. OrdersHaveItems' /\ TokensDrawn' /\ OneAuthorizes'
  BY <1>0 DEF OrdersHaveItems, TokensDrawn, OneAuthorizes
<1>3. InFlight'
  BY <1>0 DEF InFlight, Relies
<1>4. LostForGood'
  <2>1. \A k \in Key : AllSell(order[k].items)' <=> AllSell(order[k].items)
    BY DEF AllSell
  <2> QED
    BY <1>0, <2>1 DEF LostForGood, InFlight, Relies
<1>5. Stages' /\ SoldToSomeone' /\ OneBuyer' /\ OutboxMatchesSale' /\ ChargeFindsItsOrder'
      /\ RefundsAreOfCharges'
  BY DEF Stages, SoldToSomeone, OneBuyer, OutboxMatchesSale, ChargeFindsItsOrder,
         RefundsAreOfCharges, Fulfilled
<1> QED
  BY <1>1, <1>2, <1>3, <1>4, <1>5

\* A handler that is done has no items.
LEMMA IdleFacts ==
    /\ Idle \in Request /\ Idle.pc = "idle"
    /\ \A n : \A i \in DOMAIN Idle.items : Idle.items[i].tok < n
<1>1. DOMAIN Idle.items = {}
  BY DEF Idle
<1> QED
  BY <1>1 DEF Idle, Request

\* CreateOrder, AuthorizePayment, DeliverWebhook read and go on; Abort ends a
\* handler anywhere.
LEMMA ReadStepIInv ==
    ASSUME IInv, NEW p \in Proc,
           \/ \E k \in Key : \/ \E items \in Carts : CreateOrder(p, k, items)
                             \/ AuthorizePayment(p, k)
                             \/ DeliverWebhook(p, k)
           \/ Abort(p)
    PROVE  IInv'
<1> USE ConstantsAssumption
<1>0. TypeOK /\ issued \subseteq Item
  BY DEF IInv, TypeOK
<1>1. /\ Idle \in Request /\ Idle.pc = "idle"
      /\ \A i \in DOMAIN Idle.items : Idle.items[i].tok < nextTok
  BY IdleFacts
<1>2. ASSUME NEW k \in Key, NEW items \in Carts, CreateOrder(p, k, items) PROVE IInv'
  <2> DEFINE r == [pc |-> "insert", key |-> k, items |-> items]
  <2>1. PICK n \in 1 .. MaxPerOrder : items \in [1 .. n -> issued]
    BY DEF Carts
  <2>2. items \in Seq(Item)
    BY <1>0, <2>1
  <2>3. \A i \in DOMAIN items : items[i].tok < nextTok
    BY <2>1 DEF IInv, TokensDrawn
  <2>4. /\ r \in Request /\ r.pc = "insert" /\ r.key = k /\ r.items = items
        /\ items # <<>> /\ req' = [req EXCEPT ![p] = r]
    BY <1>2, <2>2 DEF Request, CreateOrder
  <2> HIDE DEF r
  <2> QED
    BY <1>2, <2>3, <2>4, RequestStepIInv, Zenon DEF CreateOrder
<1>3. ASSUME NEW k \in Key, AuthorizePayment(p, k) PROVE IInv'
  <2> DEFINE r == [pc |-> "intent", key |-> k, items |-> <<>>]
  <2>0. \A i \in DOMAIN r.items : r.items[i].tok < nextTok
    <3>1. DOMAIN r.items = {}
      OBVIOUS
    <3> QED
      BY <3>1
  <2>1. /\ r \in Request /\ r.pc = "intent" /\ r.key = k /\ r.items = <<>>
        /\ req' = [req EXCEPT ![p] = r] /\ order[k].status # "none"
    BY <1>3 DEF Request, AuthorizePayment
  <2> HIDE DEF r
  <2> QED
    BY <1>3, <2>0, <2>1, RequestStepIInv, Zenon DEF AuthorizePayment
<1>4. ASSUME NEW k \in Key, DeliverWebhook(p, k) PROVE IInv'
  <2> DEFINE r == [pc |-> "confirm", key |-> k, items |-> order[k].items]
  <2>1. /\ order[k].items \in Seq(Item)
        /\ \A i \in DOMAIN order[k].items : order[k].items[i].tok < nextTok
    BY <1>0 DEF TypeOK, IInv, TokensDrawn
  <2>2. /\ r \in Request /\ r.pc = "confirm" /\ r.key = k /\ r.items = order[k].items
        /\ req' = [req EXCEPT ![p] = r] /\ intent[k] = "charged"
    BY <1>4, <2>1 DEF Request, DeliverWebhook
  <2> HIDE DEF r
  <2> QED
    BY <1>4, <2>1, <2>2, RequestStepIInv, Zenon DEF DeliverWebhook
<1>5. ASSUME Abort(p) PROVE IInv'
  BY <1>1, <1>5, RequestStepIInv, Zenon DEF Abort, Done
<1> QED
  BY <1>2, <1>3, <1>4, <1>5

\* The insert of an order: nobody referred to a key without an order.
LEMMA CreateWithItemsIInv ==
    ASSUME IInv, NEW p \in Proc, CreateWithItems(p)
    PROVE  IInv'
<1> USE ConstantsAssumption DEF IInv
<1> DEFINE k == req[p].key
<1>0. /\ k \in Key /\ req[p] \in Request /\ req[p].pc = "insert" /\ req[p].items # <<>>
      /\ req[p].items \in Seq(Item) /\ order \in [Key -> OrderRow]
      /\ \A i \in DOMAIN req[p].items : req[p].items[i].tok < nextTok
      /\ req' = [req EXCEPT ![p] = Idle] /\ UNCHANGED <<seatVars, payment, intent, refunds, outbox>>
  BY DEF CreateWithItems, TypeOK, Request, OrderRow, InFlight, Relies, OrdersHaveItems,
         TokensDrawn, Done
<1>1. /\ Idle \in Request /\ Idle.pc = "idle"
      /\ \A i \in DOMAIN Idle.items : Idle.items[i].tok < nextTok
  BY IdleFacts
<1>2. CASE order[k].status # "none"
  <2>1. order' = order
    BY <1>2 DEF CreateWithItems
  <2> QED
    BY <1>0, <1>1, <2>1, RequestStepIInv, Zenon
<1>3. CASE order[k].status = "none"
  <2> DEFINE o == [status |-> "pending", items |-> req[p].items]
  <2>1. order' = [order EXCEPT ![k] = o]
    BY <1>3 DEF CreateWithItems
  <2>2. o \in OrderRow /\ o.status = "pending" /\ o.items = req[p].items
    BY <1>0 DEF OrderRow
  <2> HIDE DEF o
  <2>3. /\ \A l \in Key : order'[l] = IF l = k THEN o ELSE order[l]
        /\ \A q \in Proc : req'[q] = IF q = p THEN Idle ELSE req[q]
    BY <1>0, <2>1 DEF TypeOK
  <2>4. TypeOK'
    <3>1. order' \in [Key -> OrderRow] /\ req' \in [Proc -> Request]
      BY <1>0, <1>1, <2>1, <2>2 DEF TypeOK, Request
    <3> QED
      BY <1>0, <3>1, Zenon DEF TypeOK, OrderRow, Request, seatVars
  <2>5. OrdersHaveItems' /\ TokensDrawn' /\ OneAuthorizes'
    <3>1. OrdersHaveItems'
      BY <1>0, <1>1, <2>2, <2>3 DEF OrdersHaveItems
    <3>2. TokensDrawn'
      BY <1>0, <1>1, <2>2, <2>3 DEF TokensDrawn, seatVars
    <3>3. OneAuthorizes'
      BY <1>1, <2>3 DEF OneAuthorizes
    <3> QED
      BY <3>1, <3>2, <3>3
  <2>6. intent[k] = "none" /\ ~Fulfilled(k)
    BY <1>0, <1>3 DEF Stages, OutboxMatchesSale
  <2>7. InFlight'
    <3>1. Relies(p)'
      BY <1>1, <2>3 DEF Relies
    <3>2. ASSUME NEW q \in Proc, q # p PROVE Relies(q)'
      <4>1. Relies(q) /\ req'[q] = req[q]
        BY <2>3, <3>2 DEF InFlight
      <4>2. CASE req[q].pc = "idle" \/ req[q].key # k
        BY <1>0, <2>3, <4>1, <4>2 DEF Relies
      <4>3. CASE req[q].pc = "insert"
        BY <4>1, <4>3 DEF Relies
      <4>4. CASE req[q].key = k /\ req[q].pc \notin {"idle", "insert"}
        BY <1>0, <1>3, <2>6, <4>1, <4>4 DEF Relies, TypeOK, Request
      <4> QED
        BY <4>2, <4>3, <4>4
    <3> QED
      BY <3>1, <3>2 DEF InFlight
  <2>8. LostForGood'
    <3>1. \A l \in Key : l # k => (AllSell(order[l].items)' <=> AllSell(order[l].items))
      BY <1>0, <2>3 DEF AllSell, seatVars
    <3>2. ASSUME NEW l \in Key, order'[l].status = "expired" PROVE ~AllSell(order[l].items)'
      BY <2>2, <2>3, <3>1, <3>2 DEF LostForGood
    <3>3. ASSUME NEW q \in Proc, req'[q].pc \in {"refund", "markRefunded", "markExpired"}
          PROVE  ~AllSell(order[req[q].key].items)'
      <4>1. req'[q] = req[q]
        BY <1>1, <2>3, <3>3
      <4>2. intent[req[q].key] = "charged" /\ req[q].key \in Key
        BY <3>3, <4>1 DEF InFlight, Relies
      <4> QED
        BY <2>6, <3>1, <3>3, <4>1, <4>2 DEF LostForGood
    <3>4. ASSUME NEW l \in Key, refunds'[l] > 0 PROVE ~AllSell(order[l].items)'
      <4>1. refunds' = refunds /\ refunds[l] > 0
        BY <1>0, <3>4
      <4>2. intent[l] = "charged"
        BY <4>1 DEF RefundsAreOfCharges
      <4> QED
        BY <2>6, <3>1, <4>1, <4>2 DEF LostForGood
    <3> QED
      BY <3>2, <3>3, <3>4 DEF LostForGood
  <2>9. Stages' /\ ChargeFindsItsOrder' /\ RefundsAreOfCharges'
    BY <1>0, <1>3, <2>2, <2>3, <2>6 DEF Stages, ChargeFindsItsOrder, RefundsAreOfCharges
  <2>10. SoldToSomeone' /\ OneBuyer' /\ OutboxMatchesSale'
    <3>1. inv' = inv /\ \A l \in Key : Fulfilled(l)' <=> Fulfilled(l)
      BY <1>0 DEF Fulfilled, seatVars
    <3>2. \A l \in Key : Fulfilled(l) => order'[l] = order[l]
      BY <2>3, <2>6
    <3>3. \A l \in Key : Fulfilled(l) => SeatsOf(order[l].items)' = SeatsOf(order[l].items)
      BY <3>2 DEF SeatsOf
    <3>4. SoldToSomeone /\ OneBuyer /\ OutboxMatchesSale
      OBVIOUS
    <3>5. SoldToSomeone'
      BY ONLY <3>1, <3>3, <3>4 DEF SoldToSomeone
    <3>6. OneBuyer'
      BY ONLY <3>1, <3>3, <3>4 DEF OneBuyer
    <3>7. OutboxMatchesSale'
      BY ONLY <1>0, <2>2, <2>3, <2>6, <3>1, <3>2, <3>4 DEF OutboxMatchesSale
    <3> QED
      BY <3>5, <3>6, <3>7
  <2> QED
    BY <2>4, <2>5, <2>7, <2>8, <2>9, <2>10
<1> QED
  BY <1>2, <1>3

\* Steps of one handler, or of the fan, that write orders, payments or the gateway
\* but sell nothing: what is left to show is how the stages fit together.
LEMMA MoneyStepIInv ==
    ASSUME IInv,
           order' \in [Key -> OrderRow],
           payment' \in [Key -> {"none", "pending", "captured", "refunded"}],
           intent' \in [Key -> {"none", "created", "offered", "charged"}],
           refunds' \in [Key -> Nat],
           req' \in [Proc -> Request],
           UNCHANGED <<seatVars, outbox>>,
           \A k \in Key : order'[k].items = order[k].items,
           \A k \in Key : order'[k].status # "none" => order[k].status # "none",
           \A k \in Key : order'[k].status = "paid" => order[k].status = "paid",
           \A k \in Key : order[k].status \in {"paid", "expired"} =>
                            order'[k].status \in {"paid", "expired"},
           \A k \in Key : order'[k].status = "expired" =>
                            order[k].status = "expired" \/ ~AllSell(order[k].items),
           \A k \in Key : refunds'[k] = refunds[k] \/ ~AllSell(order[k].items),
           \A q \in Proc : \/ req'[q].items = req[q].items
                           \/ \A i \in DOMAIN req'[q].items : req'[q].items[i].tok < nextTok,
           \A q \in Proc : req'[q].pc = "insert" => req'[q] = req[q],
           StillLost,
           InFlight', OneAuthorizes', Stages', ChargeFindsItsOrder', RefundsAreOfCharges'
    PROVE  IInv'
<1> USE ConstantsAssumption DEF IInv, seatVars
<1>1. TypeOK'
  BY DEF TypeOK, OrderRow, Request
<1>2. OrdersHaveItems' /\ TokensDrawn'
  <2>1. OrdersHaveItems'
    BY DEF OrdersHaveItems
  <2>2. TokensDrawn'
    BY DEF TokensDrawn
  <2> QED
    BY <2>1, <2>2
<1>3. LostForGood'
  <2>1. \A k \in Key : AllSell(order[k].items)' <=> AllSell(order[k].items)
    BY DEF AllSell
  <2>2. \A k \in Key : order'[k].status = "expired" => ~AllSell(order[k].items)
    BY DEF LostForGood
  <2>3. \A k \in Key : refunds'[k] > 0 => ~AllSell(order[k].items)
    BY DEF LostForGood
  <2> HIDE DEF IInv
  <2> QED
    BY <2>1, <2>2, <2>3 DEF LostForGood, StillLost
<1>4. \A k \in Key : /\ Fulfilled(k)' <=> Fulfilled(k)
                     /\ SeatsOf(order[k].items)' = SeatsOf(order[k].items)
  BY DEF Fulfilled, SeatsOf
<1>5. SoldToSomeone' /\ OneBuyer'
  <2>1. \A x \in Seat : inv'[x] = inv[x]
    OBVIOUS
  <2> HIDE DEF IInv
  <2>2. SoldToSomeone'
    <3>1. SoldToSomeone
      BY DEF IInv
    <3> QED
      BY ONLY <1>4, <2>1, <3>1 DEF SoldToSomeone
  <2>3. OneBuyer'
    <3>1. OneBuyer
      BY DEF IInv
    <3> QED
      BY ONLY <1>4, <3>1 DEF OneBuyer
  <2> QED
    BY <2>2, <2>3
<1>6. OutboxMatchesSale'
  BY <1>4 DEF OutboxMatchesSale
<1> QED
  BY <1>1, <1>2, <1>3, <1>5, <1>6

\* A handler moving on keeps its key and its items.
LEMMA GotoFacts ==
    ASSUME TypeOK, NEW p \in Proc,
           NEW pc \in {"record", "await", "capture", "refund", "markRefunded", "markExpired"},
           Goto(p, pc)
    PROVE  /\ req' \in [Proc -> Request]
           /\ \A q \in Proc : q # p => req'[q] = req[q]
           /\ req'[p].pc = pc /\ req'[p].key = req[p].key /\ req'[p].items = req[p].items
<1>1. req \in [Proc -> Request] /\ req[p] \in Request
  BY DEF TypeOK, Request
<1> QED
  BY <1>1, Zenon DEF Goto, Request

\* A handler that ends is idle.
LEMMA DoneFacts ==
    ASSUME TypeOK, NEW p \in Proc, Done(p)
    PROVE  /\ req' \in [Proc -> Request]
           /\ \A q \in Proc : q # p => req'[q] = req[q]
           /\ req'[p].pc = "idle"
           /\ \A i \in DOMAIN req'[p].items : req'[p].items[i].tok < nextTok
<1>1. req \in [Proc -> Request]
  BY DEF TypeOK, Request
<1> QED
  BY <1>1, IdleFacts DEF Done

\* A step of p leaves the other handlers where they are.
LEMMA OthersStay ==
    ASSUME IInv, NEW p \in Proc, \A q \in Proc : q # p => req'[q] = req[q]
    PROVE  /\ req'[p].pc # "await" => OneAuthorizes'
           /\ \/ req'[p].pc \notin {"refund", "markRefunded", "markExpired"}
              \/ req'[p].key \in Key /\ ~AllSell(order[req'[p].key].items)
              => StillLost
<1>1. OneAuthorizes /\ LostForGood /\ \A q \in Proc : req[q].pc # "idle" => req[q].key \in Key
  BY DEF IInv, InFlight, Relies
<1>2. req'[p].pc # "await" => OneAuthorizes'
  BY <1>1 DEF OneAuthorizes
<1> QED
  BY <1>1, <1>2 DEF StillLost, LostForGood

\* What a step of p on the key k leaves to the other handlers: what exists stays, a
\* charge stays, and an AuthorizePayment about to end finds the order as it left it.
Keeps(p, k) ==
    /\ \A q \in Proc : q # p => req'[q] = req[q]
    /\ \A l \in Key : order'[l].items = order[l].items
    /\ \A l \in Key : l # k => /\ order'[l].status = order[l].status
                              /\ payment'[l] = payment[l]
                              /\ intent'[l] = intent[l] /\ refunds'[l] = refunds[l]
    /\ order[k].status # "none" => order'[k].status # "none"
    /\ payment[k] # "none" => payment'[k] # "none"
    /\ intent[k] # "none" => intent'[k] # "none"
    /\ intent[k] = "charged" => intent'[k] = "charged"
    /\ refunds[k] > 0 => refunds'[k] > 0
    /\ \A q \in Proc : q # p /\ At(q, "await") /\ req[q].key = k =>
          order'[k].status = "pending" /\ intent'[k] = "created"

\* Such a step takes away nothing that a handler relies on.
LEMMA OthersRely ==
    ASSUME InFlight, NEW p \in Proc, NEW k \in Key, Keeps(p, k), Relies(p)'
    PROVE  InFlight'
<1> SUFFICES ASSUME NEW q \in Proc, q # p PROVE Relies(q)'
  BY DEF InFlight
<1>1. Relies(q) /\ req'[q] = req[q]
  BY DEF InFlight, Keeps
<1>2. CASE req[q].pc = "idle"
  BY <1>1, <1>2 DEF Relies
<1>3. ASSUME NEW l \in Key, req[q].key = l, req[q].pc # "idle" PROVE Relies(q)'
  <2>1. /\ order'[l].items = order[l].items
        /\ order[l].status # "none" => order'[l].status # "none"
        /\ payment[l] # "none" => payment'[l] # "none"
        /\ intent[l] # "none" => intent'[l] # "none"
        /\ intent[l] = "charged" => intent'[l] = "charged"
        /\ refunds[l] > 0 => refunds'[l] > 0
    <3>1. CASE l = k
      BY <3>1, Zenon DEF Keeps
    <3>2. CASE l # k
      BY <3>2 DEF Keeps
    <3> QED
      BY <3>1, <3>2, Zenon
  <2>2. ASSUME req[q].pc = "await" PROVE order'[l].status = "pending" /\ intent'[l] = "created"
    <3>1. order[l].status = "pending" /\ intent[l] = "created"
      BY <1>1, <1>3, <2>2 DEF Relies
    <3>2. CASE l = k
      BY <1>3, <2>2, <3>2, Zenon DEF Keeps
    <3>3. CASE l # k
      BY <3>1, <3>3 DEF Keeps
    <3> QED
      BY <3>2, <3>3
  <2> QED
    BY ONLY <1>1, <1>3, <2>1, <2>2, Zenon DEF Relies
<1>4. req[q].pc # "idle" => req[q].key \in Key
  BY <1>1, Zenon DEF Relies
<1> QED
  BY <1>2, <1>3, <1>4

\* An AuthorizePayment about to end has recorded its payment, and nobody has paid.
LEMMA AwaitFacts ==
    ASSUME InFlight, NEW q \in Proc, At(q, "await")
    PROVE  /\ req[q].key \in Key /\ order[req[q].key].status = "pending"
           /\ payment[req[q].key] # "none" /\ intent[req[q].key] = "created"
<1>1. Relies(q)
  BY DEF InFlight
<1> QED
  BY <1>1 DEF Relies

\* CreateIntent, RecordPayment and AwaitPayment: the unique key of payments makes
\* the last of them find the order pending.
LEMMA AuthorizeIInv ==
    ASSUME IInv, NEW p \in Proc, CreateIntent(p) \/ RecordPayment(p) \/ AwaitPayment(p)
    PROVE  IInv'
<1> USE ConstantsAssumption
<1> DEFINE k == req[p].key
<1>0. /\ TypeOK /\ k \in Key /\ order \in [Key -> OrderRow]
      /\ \A l \in Key : order[l] \in OrderRow
      /\ payment \in [Key -> {"none", "pending", "captured", "refunded"}]
      /\ intent \in [Key -> {"none", "created", "offered", "charged"}]
      /\ refunds \in [Key -> Nat]
      /\ order[k].status # "none"
      /\ UNCHANGED <<seatVars, outbox, refunds>>
  BY Zenon DEF IInv, TypeOK, OrderRow, InFlight, Relies, CreateIntent, RecordPayment, AwaitPayment
<1>f. /\ InFlight /\ OneAuthorizes /\ Stages /\ ChargeFindsItsOrder /\ RefundsAreOfCharges
      /\ Relies(p)
  BY DEF IInv, InFlight
<1>1. CASE CreateIntent(p)
  <2>1. /\ Goto(p, "record") /\ UNCHANGED <<order, payment>>
        /\ \A l \in Key : l # k => intent'[l] = intent[l]
        /\ intent'[k] = IF intent[k] = "none" THEN "created" ELSE intent[k]
        /\ intent' \in [Key -> {"none", "created", "offered", "charged"}]
    BY <1>0, <1>1, Zenon DEF CreateIntent
  <2>2. /\ req' \in [Proc -> Request]
        /\ \A q \in Proc : q # p => req'[q] = req[q]
        /\ req'[p].pc = "record" /\ req'[p].key = k /\ req'[p].items = req[p].items
    BY <1>0, <2>1, GotoFacts
  <2>3. InFlight'
    <3>1. Relies(p)'
      BY <1>0, <2>1, <2>2 DEF Relies
    <3>2. \A q \in Proc : q # p /\ At(q, "await") /\ req[q].key = k =>
             order[k].status = "pending" /\ intent'[k] = "created"
      <4>1. ASSUME NEW q \in Proc, At(q, "await"), req[q].key = k
            PROVE  order[k].status = "pending" /\ intent[k] = "created"
        BY <1>f, <4>1, AwaitFacts
      <4> QED
        BY <2>1, <4>1
    <3>3. Keeps(p, k)
      BY <1>0, <2>1, <2>2, <3>2, Zenon DEF Keeps
    <3> QED
      BY <1>0, <1>f, <3>1, <3>3, OthersRely
  <2>4. OneAuthorizes' /\ Stages' /\ ChargeFindsItsOrder' /\ RefundsAreOfCharges'
    <3>1. Stages' /\ ChargeFindsItsOrder' /\ RefundsAreOfCharges'
      BY <1>0, <1>f, <2>1 DEF Stages, ChargeFindsItsOrder, RefundsAreOfCharges
    <3> QED
      BY <2>2, <3>1, OthersStay, Zenon
  <2>5. StillLost
    BY <2>2, OthersStay
  <2> QED
    BY <1>0, <2>1, <2>2, <2>3, <2>4, <2>5, MoneyStepIInv, Zenon
<1>2. CASE RecordPayment(p) /\ payment[k] # "none"
  <2>1. Done(p) /\ UNCHANGED <<order, payment, intent>>
    BY <1>2 DEF RecordPayment
  <2> QED
    BY <1>0, <2>1, IdleFacts, RequestStepIInv, Zenon DEF Done
<1>3. CASE RecordPayment(p) /\ payment[k] = "none"
  <2>1. /\ Goto(p, "await") /\ UNCHANGED <<order, intent>> /\ req[p].pc = "record"
        /\ payment' = [payment EXCEPT ![k] = "pending"]
    BY <1>3 DEF RecordPayment
  <2>2. /\ req' \in [Proc -> Request]
        /\ \A q \in Proc : q # p => req'[q] = req[q]
        /\ req'[p].pc = "await" /\ req'[p].key = k /\ req'[p].items = req[p].items
    BY <1>0, <2>1, GotoFacts
  <2>3. order[k].status = "pending" /\ intent[k] = "created"
    BY <1>0, <1>3, <1>f, <2>1 DEF Stages, Relies
  <2>4. /\ payment' \in [Key -> {"none", "pending", "captured", "refunded"}]
        /\ payment'[k] = "pending" /\ \A l \in Key : l # k => payment'[l] = payment[l]
    BY <1>0, <2>1
  <2>5. \A q \in Proc : ~(At(q, "await") /\ req[q].key = k)
    BY <1>3, <1>f, AwaitFacts
  <2>6. InFlight'
    <3>1. Relies(p)'
      BY <1>0, <2>1, <2>2, <2>3, <2>4 DEF Relies
    <3>2. Keeps(p, k)
      BY <1>0, <2>1, <2>2, <2>4, <2>5, Zenon DEF Keeps
    <3> QED
      BY <1>0, <1>f, <3>1, <3>2, OthersRely
  <2>7. OneAuthorizes'
    BY <1>f, <2>2, <2>5 DEF OneAuthorizes
  <2>8. Stages' /\ ChargeFindsItsOrder' /\ RefundsAreOfCharges'
    BY <1>0, <1>f, <2>1, <2>3, <2>4, Zenon DEF Stages, ChargeFindsItsOrder, RefundsAreOfCharges
  <2>9. StillLost
    BY <2>2, OthersStay
  <2> QED
    BY <1>0, <2>1, <2>2, <2>4, <2>6, <2>7, <2>8, <2>9, MoneyStepIInv, Zenon
<1>4. CASE AwaitPayment(p)
  <2>1. /\ Done(p) /\ payment' = payment /\ req[p].pc = "await"
        /\ order' = [order EXCEPT ![k].status = "awaiting_payment"]
        /\ \A l \in Key : l # k => intent'[l] = intent[l]
        /\ intent'[k] \in {"offered", intent[k]}
        /\ intent' \in [Key -> {"none", "created", "offered", "charged"}]
    BY <1>0, <1>4 DEF AwaitPayment
  <2>2. /\ order' \in [Key -> OrderRow]
        /\ \A l \in Key : order'[l].items = order[l].items
        /\ \A l \in Key : l # k => order'[l].status = order[l].status
        /\ order'[k].status = "awaiting_payment"
    BY <1>0, <2>1, Zenon DEF OrderRow
  <2>3. /\ req' \in [Proc -> Request]
        /\ \A q \in Proc : q # p => req'[q] = req[q]
        /\ req'[p].pc = "idle"
        /\ \A i \in DOMAIN req'[p].items : req'[p].items[i].tok < nextTok
    BY <1>0, <2>1, DoneFacts
  <2>4. order[k].status = "pending" /\ intent[k] = "created" /\ payment[k] # "none"
    BY <1>f, <2>1 DEF Relies
  <2>5. InFlight'
    <3>1. Relies(p)'
      BY <2>3 DEF Relies
    <3>2. \A q \in Proc : q # p => ~(At(q, "await") /\ req[q].key = k)
      BY <1>f, <2>1 DEF OneAuthorizes
    <3>3. Keeps(p, k)
      BY <1>0, <2>1, <2>2, <2>3, <2>4, <3>2 DEF Keeps
    <3> QED
      BY <1>0, <1>f, <3>1, <3>3, OthersRely
  <2>6. Stages' /\ ChargeFindsItsOrder' /\ RefundsAreOfCharges'
    BY <1>0, <1>f, <2>1, <2>2, <2>4 DEF Stages, ChargeFindsItsOrder, RefundsAreOfCharges
  <2>7. OneAuthorizes' /\ StillLost
    BY <2>3, OthersStay
  <2> QED
    BY <1>0, <2>1, <2>2, <2>3, <2>4, <2>5, <2>6, <2>7, MoneyStepIInv
<1> QED
  BY <1>1, <1>2, <1>3, <1>4

\* The fan pays, and the writes of ConfirmPayment outside of its transaction.
LEMMA SettleIInv ==
    ASSUME IInv,
           \/ \E k \in Key : FanPays(k)
           \/ \E p \in Proc : MarkCaptured(p) \/ Refund(p) \/ MarkRefunded(p) \/ MarkExpired(p)
    PROVE  IInv'
<1> USE ConstantsAssumption
<1>0. /\ TypeOK /\ order \in [Key -> OrderRow] /\ req \in [Proc -> Request]
      /\ \A l \in Key : order[l] \in OrderRow
      /\ payment \in [Key -> {"none", "pending", "captured", "refunded"}]
      /\ intent \in [Key -> {"none", "created", "offered", "charged"}]
      /\ refunds \in [Key -> Nat]
  BY DEF IInv, TypeOK, OrderRow, Request
<1>f. /\ InFlight /\ OneAuthorizes /\ LostForGood /\ Stages /\ ChargeFindsItsOrder
      /\ RefundsAreOfCharges
  BY DEF IInv
<1>1. ASSUME NEW k \in Key, FanPays(k) PROVE IInv'
  <2>1. /\ intent[k] = "offered" /\ intent' = [intent EXCEPT ![k] = "charged"]
        /\ UNCHANGED <<seatVars, order, payment, refunds, outbox, req>>
    BY <1>1 DEF FanPays
  <2>2. InFlight'
    BY <1>0, <1>f, <2>1, Zenon DEF InFlight, Relies
  <2>3. OneAuthorizes' /\ Stages' /\ ChargeFindsItsOrder' /\ RefundsAreOfCharges'
    BY <1>0, <1>f, <2>1 DEF OneAuthorizes, Stages, ChargeFindsItsOrder, RefundsAreOfCharges
  <2>4. StillLost
    BY <1>f, <2>1 DEF StillLost, LostForGood, InFlight, Relies
  <2>5. intent' \in [Key -> {"none", "created", "offered", "charged"}]
    BY <1>0, <2>1
  <2> QED
    BY <1>0, <2>1, <2>2, <2>3, <2>4, <2>5, MoneyStepIInv
<1>2. ASSUME NEW p \in Proc, MarkCaptured(p) PROVE IInv'
  <2> DEFINE k == req[p].key
  <2>1. /\ k \in Key /\ Done(p) /\ intent[k] = "charged"
        /\ payment' = [payment EXCEPT ![k] = "captured"]
        /\ UNCHANGED <<seatVars, order, intent, refunds, outbox>>
    BY <1>2, <1>f, Zenon DEF MarkCaptured, InFlight, Relies
  <2>2. /\ req' \in [Proc -> Request]
        /\ \A q \in Proc : q # p => req'[q] = req[q]
        /\ req'[p].pc = "idle"
        /\ \A i \in DOMAIN req'[p].items : req'[p].items[i].tok < nextTok
    BY <1>0, <2>1, DoneFacts, Zenon
  <2>3. /\ payment' \in [Key -> {"none", "pending", "captured", "refunded"}]
        /\ payment'[k] = "captured" /\ \A l \in Key : l # k => payment'[l] = payment[l]
    BY <1>0, <2>1
  <2>4. InFlight'
    <3>1. Relies(p)'
      BY <2>2 DEF Relies
    <3>2. \A q \in Proc : ~(At(q, "await") /\ req[q].key = k)
      BY <1>f, <2>1, AwaitFacts
    <3>3. Keeps(p, k)
      BY <1>0, <2>1, <2>2, <2>3, <3>2, Zenon DEF Keeps
    <3> QED
      BY <1>f, <2>1, <3>1, <3>3, OthersRely
  <2>5. Stages' /\ ChargeFindsItsOrder' /\ RefundsAreOfCharges'
    BY <1>0, <1>f, <2>1, <2>3 DEF Stages, ChargeFindsItsOrder, RefundsAreOfCharges
  <2>6. OneAuthorizes' /\ StillLost
    BY <2>2, OthersStay
  <2> QED
    BY <1>0, <2>1, <2>2, <2>3, <2>4, <2>5, <2>6, MoneyStepIInv, Zenon
<1>3. ASSUME NEW p \in Proc, Refund(p) PROVE IInv'
  <2> DEFINE k == req[p].key
  <2>1. /\ k \in Key /\ Goto(p, "markRefunded") /\ req[p].pc = "refund"
        /\ refunds' = [refunds EXCEPT ![k] = @ + 1] /\ intent[k] = "charged"
        /\ UNCHANGED <<seatVars, order, payment, intent, outbox>>
    BY <1>3, <1>f, Zenon DEF Refund, InFlight, Relies
  <2>2. /\ req' \in [Proc -> Request]
        /\ \A q \in Proc : q # p => req'[q] = req[q]
        /\ req'[p].pc = "markRefunded" /\ req'[p].key = k /\ req'[p].items = req[p].items
    BY <1>0, <2>1, GotoFacts
  <2>3. /\ refunds' \in [Key -> Nat] /\ refunds'[k] > 0
        /\ \A l \in Key : l # k => refunds'[l] = refunds[l]
    BY <1>0, <2>1
  <2>4. InFlight'
    <3>1. Relies(p)'
      BY <2>1, <2>2, <2>3, Zenon DEF Relies
    <3>2. \A q \in Proc : ~(At(q, "await") /\ req[q].key = k)
      BY <1>f, <2>1, AwaitFacts
    <3>3. Keeps(p, k)
      BY <1>0, <2>1, <2>2, <2>3, <3>2 DEF Keeps
    <3> QED
      BY <1>f, <2>1, <3>1, <3>3, OthersRely
  <2>5. Stages' /\ ChargeFindsItsOrder' /\ RefundsAreOfCharges'
    BY <1>0, <1>f, <2>1, <2>3 DEF Stages, ChargeFindsItsOrder, RefundsAreOfCharges
  <2>6. OneAuthorizes' /\ StillLost
    BY <1>f, <2>1, <2>2, OthersStay DEF LostForGood
  <2>7. \A l \in Key : refunds'[l] = refunds[l] \/ ~AllSell(order[l].items)
    BY <1>f, <2>1, <2>3 DEF LostForGood
  <2> QED
    BY <1>0, <2>1, <2>2, <2>3, <2>4, <2>5, <2>6, <2>7, MoneyStepIInv, Zenon
<1>4. ASSUME NEW p \in Proc, MarkRefunded(p) PROVE IInv'
  <2> DEFINE k == req[p].key
  <2>1. /\ k \in Key /\ Goto(p, "markExpired") /\ req[p].pc = "markRefunded"
        /\ payment' = [payment EXCEPT ![k] = "refunded"] /\ refunds[k] > 0
        /\ intent[k] = "charged" /\ UNCHANGED <<seatVars, order, intent, refunds, outbox>>
    BY <1>4, <1>f, Zenon DEF MarkRefunded, InFlight, Relies
  <2>2. /\ req' \in [Proc -> Request]
        /\ \A q \in Proc : q # p => req'[q] = req[q]
        /\ req'[p].pc = "markExpired" /\ req'[p].key = k /\ req'[p].items = req[p].items
    BY <1>0, <2>1, GotoFacts
  <2>3. /\ payment' \in [Key -> {"none", "pending", "captured", "refunded"}]
        /\ payment'[k] = "refunded" /\ \A l \in Key : l # k => payment'[l] = payment[l]
    BY <1>0, <2>1
  <2>4. InFlight'
    <3>1. Relies(p)'
      BY <2>1, <2>2, Zenon DEF Relies
    <3>2. \A q \in Proc : ~(At(q, "await") /\ req[q].key = k)
      BY <1>f, <2>1, AwaitFacts
    <3>3. Keeps(p, k)
      BY <1>0, <2>1, <2>2, <2>3, <3>2 DEF Keeps
    <3> QED
      BY <1>f, <2>1, <3>1, <3>3, OthersRely
  <2>5. Stages' /\ ChargeFindsItsOrder' /\ RefundsAreOfCharges'
    BY <1>0, <1>f, <2>1, <2>3 DEF Stages, ChargeFindsItsOrder, RefundsAreOfCharges
  <2>6. OneAuthorizes' /\ StillLost
    BY <1>f, <2>1, <2>2, OthersStay DEF LostForGood
  <2> QED
    BY <1>0, <2>1, <2>2, <2>3, <2>4, <2>5, <2>6, MoneyStepIInv, Zenon
<1>5. ASSUME NEW p \in Proc, MarkExpired(p) PROVE IInv'
  <2> DEFINE k == req[p].key
  <2>1. /\ k \in Key /\ Done(p) /\ ~AllSell(order[k].items)
        /\ order' = [order EXCEPT ![k].status = "expired"] /\ intent[k] = "charged"
        /\ UNCHANGED <<seatVars, payment, intent, refunds, outbox>>
    BY <1>5, <1>f DEF MarkExpired, InFlight, Relies, LostForGood
  <2>2. /\ req' \in [Proc -> Request]
        /\ \A q \in Proc : q # p => req'[q] = req[q]
        /\ req'[p].pc = "idle"
        /\ \A i \in DOMAIN req'[p].items : req'[p].items[i].tok < nextTok
    BY <1>0, <2>1, DoneFacts
  <2>3. /\ order' \in [Key -> OrderRow]
        /\ \A l \in Key : order'[l].items = order[l].items
        /\ \A l \in Key : l # k => order'[l].status = order[l].status
        /\ order'[k].status = "expired" /\ order[k].status # "none" /\ payment[k] # "none"
    <3>1. order[k].status # "none" /\ payment[k] # "none"
      BY <1>f, <2>1 DEF ChargeFindsItsOrder
    <3> QED
      BY <1>0, <2>1, <3>1, Zenon DEF OrderRow
  <2>4. InFlight'
    <3>1. Relies(p)'
      BY <2>2 DEF Relies
    <3>2. \A q \in Proc : ~(At(q, "await") /\ req[q].key = k)
      BY <1>f, <2>1, AwaitFacts
    <3>3. Keeps(p, k)
      BY <1>0, <2>1, <2>2, <2>3, <3>2 DEF Keeps
    <3> QED
      BY <1>f, <2>1, <3>1, <3>3, OthersRely
  <2>5. Stages' /\ ChargeFindsItsOrder' /\ RefundsAreOfCharges'
    BY <1>0, <1>f, <2>1, <2>3 DEF Stages, ChargeFindsItsOrder, RefundsAreOfCharges
  <2>6. OneAuthorizes' /\ StillLost
    BY <2>2, OthersStay
  <2> QED
    BY <1>0, <2>1, <2>2, <2>3, <2>4, <2>5, <2>6, MoneyStepIInv
<1> QED
  BY <1>1, <1>2, <1>3, <1>4, <1>5

\* Selling a list of items whose holds are all alive sells exactly its seats.
LEMMA SellFacts ==
    ASSUME TypeOK, NEW items \in Seq(Item), AllSell(items), Sell(items)
    PROVE  /\ \A s \in SeatsOf(items) : inv[s].status = "held" /\ inv'[s] = Sold
           /\ \A s \in Seat : s \notin SeatsOf(items) => inv'[s] = inv[s]
           /\ SeatsOf(items) \subseteq Seat
           /\ inv' \in [Seat -> Row]
<1>1. SeatsOf(items) \subseteq Seat
  BY ItemsFacts
<1>2. ASSUME NEW s \in SeatsOf(items) PROVE HeldBy(inv[s], TokenFor(items, s))
  <2> DEFINE j == CHOOSE i \in DOMAIN items : items[i].seat = s
  <2>1. j \in DOMAIN items /\ items[j].seat = s
    BY DEF SeatsOf
  <2> QED
    BY <2>1 DEF AllSell, TokenFor
<1>3. \A s \in SeatsOf(items) : inv[s].status = "held" /\ inv'[s] = Sold
  BY <1>1, <1>2 DEF Sell, ConfirmSaleRow, HeldBy
<1>4. \A s \in Seat : s \notin SeatsOf(items) => inv'[s] = inv[s]
  BY DEF Sell
<1>5. inv' \in [Seat -> Row]
  <2>1. Sold \in Row
    BY DEF Sold, Row
  <2>2. \A s \in Seat : inv'[s] \in Row
    BY <1>3, <1>4, <2>1 DEF TypeOK
  <2>3. inv' = [s \in Seat |-> inv'[s]]
    BY DEF Sell
  <2> HIDE DEF Row
  <2> QED
    BY <2>2, <2>3
<1> QED
  BY <1>1, <1>3, <1>4, <1>5

\* The transaction of ConfirmPayment.  Its seats were held, so nobody had them; its
\* order was not fulfilled, because the seats of a fulfilled order are sold.
LEMMA ConfirmIInv ==
    ASSUME IInv, NEW p \in Proc, ConfirmPayment(p)
    PROVE  IInv'
<1> USE ConstantsAssumption
<1> DEFINE k == req[p].key
           items == order[k].items
<1>k. /\ k \in Key /\ intent[k] = "charged" /\ order[k].status # "none" /\ payment[k] # "none"
      /\ UNCHANGED <<now, nextTok, issued, payment, intent, refunds>>
  BY DEF IInv, InFlight, Relies, ChargeFindsItsOrder, ConfirmPayment
<1>i. req[p].items = items /\ req[p].pc = "confirm" /\ items # <<>>
  BY <1>k DEF IInv, InFlight, Relies, OrdersHaveItems, ConfirmPayment
<1>0. /\ TypeOK /\ order \in [Key -> OrderRow] /\ outbox \in [Key -> Nat]
      /\ \A l \in Key : order[l] \in OrderRow /\ order[l].items \in Seq(Item)
      /\ payment \in [Key -> {"none", "pending", "captured", "refunded"}]
      /\ intent \in [Key -> {"none", "created", "offered", "charged"}]
      /\ refunds \in [Key -> Nat] /\ now \in Nat /\ nextTok \in Nat \ {0} /\ issued \subseteq Item
  BY DEF IInv, TypeOK, OrderRow
<1>f. InFlight /\ LostForGood /\ Stages /\ ChargeFindsItsOrder /\ RefundsAreOfCharges
  BY DEF IInv
<1>a. \A q \in Proc : ~(At(q, "await") /\ req[q].key = k)
  BY <1>f, <1>k, AwaitFacts
<1>1. CASE ~AllSell(items)
  <2>1. Goto(p, "refund") /\ UNCHANGED <<inv, order, outbox>>
    BY <1>0, <1>k, <1>i, <1>1 DEF ConfirmPayment
  <2>2. /\ req' \in [Proc -> Request]
        /\ \A q \in Proc : q # p => req'[q] = req[q]
        /\ req'[p].pc = "refund" /\ req'[p].key = k /\ req'[p].items = req[p].items
    BY <1>0, <1>k, <1>i, <2>1, GotoFacts
  <2>3. InFlight'
    <3>1. Relies(p)'
      BY <1>k, <2>2 DEF Relies
    <3>2. Keeps(p, k)
      BY <1>k, <1>a, <2>1, <2>2 DEF Keeps
    <3> QED
      BY <1>k, <1>f, <3>1, <3>2, OthersRely
  <2>4. Stages' /\ ChargeFindsItsOrder' /\ RefundsAreOfCharges'
    BY <1>k, <1>f, <2>1, Zenon DEF Stages, ChargeFindsItsOrder, RefundsAreOfCharges
  <2>5. OneAuthorizes' /\ StillLost
    BY <1>k, <1>1, <2>2, OthersStay, Zenon
  <2> QED
    BY <1>0, <1>k, <1>i, <2>1, <2>2, <2>3, <2>4, <2>5, MoneyStepIInv, Zenon DEF seatVars
<1>2. CASE AllSell(items)
  <2>1. /\ Goto(p, "capture") /\ Sell(items)
        /\ order' = [order EXCEPT ![k].status = "paid"]
        /\ outbox' = [outbox EXCEPT ![k] = @ + 1]
    BY <1>0, <1>k, <1>i, <1>2 DEF ConfirmPayment, MarkPaid
  <2>2. /\ req' \in [Proc -> Request]
        /\ \A q \in Proc : q # p => req'[q] = req[q]
        /\ req'[p].pc = "capture" /\ req'[p].key = k /\ req'[p].items = req[p].items
    BY <1>0, <1>k, <1>i, <2>1, GotoFacts
  <2>3. /\ \A s \in SeatsOf(items) : inv[s].status = "held" /\ inv'[s] = Sold
        /\ \A s \in Seat : s \notin SeatsOf(items) => inv'[s] = inv[s]
        /\ SeatsOf(items) \subseteq Seat
        /\ inv' \in [Seat -> Row]
    BY <1>0, <1>k, <1>i, <1>2, <2>1, SellFacts
  <2>4. /\ order' \in [Key -> OrderRow]
        /\ \A l \in Key : order'[l].items = order[l].items
        /\ \A l \in Key : l # k => order'[l].status = order[l].status
        /\ order'[k].status = "paid"
    BY <1>0, <1>k, <1>i, <2>1, Zenon DEF OrderRow
  <2>5. outbox[k] = 0
    <3>1. SeatsOf(items) # {}
      BY <1>0, <1>k, <1>i, ItemsFacts, Zenon
    <3>2. PICK s \in SeatsOf(items) : inv[s].status = "held"
      BY <2>3, <3>1
    <3>3. ~Fulfilled(k)
      BY <1>0, <1>k, <1>i, <2>3, <3>2, Zenon DEF IInv, SoldToSomeone
    <3>4. outbox[k] \in Nat
      BY <1>0, <1>k DEF TypeOK
    <3> QED
      BY ONLY <3>3, <3>4 DEF Fulfilled
  <2>6. /\ outbox' \in [Key -> Nat] /\ outbox'[k] = 1
        /\ \A l \in Key : l # k => outbox'[l] = outbox[l]
    BY <1>0, <1>k, <1>i, <2>1, <2>5
  <2>7. Sold.status = "sold" /\ Sold.token = 0
    BY DEF Sold
  <2>8. TypeOK'
    <3>1. \A s \in Seat : (inv'[s].status = "held") <=> (inv'[s].token # NoToken)
      <4>1. \A s \in Seat : (inv[s].status = "held") <=> (inv[s].token # NoToken)
        BY <1>0 DEF TypeOK
      <4>2. ASSUME NEW s \in Seat PROVE (inv'[s].status = "held") <=> (inv'[s].token # NoToken)
        <5>1. CASE s \in SeatsOf(items)
          BY <2>3, <2>7, <5>1
        <5>2. CASE s \notin SeatsOf(items)
          BY <2>3, <4>1, <5>2
        <5> QED
          BY <5>1, <5>2, Zenon
      <4> QED
        BY <4>2
    <3> QED
      BY <1>0, <1>k, <1>i, <2>2, <2>3, <2>4, <2>6, <3>1, Zenon DEF TypeOK, OrderRow, Request
  <2>9. OrdersHaveItems' /\ TokensDrawn'
    <3>1. OrdersHaveItems'
      BY <1>k, <1>i, <2>2, <2>4, Zenon DEF IInv, OrdersHaveItems
    <3>2. \A s \in Seat : inv'[s].token < nextTok
      <4>1. nextTok \in Nat \ {0} /\ \A s \in Seat : inv[s].token < nextTok
        BY <1>0, Zenon DEF IInv, TokensDrawn
      <4>2. ASSUME NEW s \in Seat PROVE inv'[s].token < nextTok
        <5>1. CASE s \in SeatsOf(items)
          BY <2>3, <2>7, <4>1, <5>1
        <5>2. CASE s \notin SeatsOf(items)
          BY <2>3, <4>1, <5>2
        <5> QED
          BY <5>1, <5>2
      <4> QED
        BY <4>2
    <3>3. \A q \in Proc : req'[q].items = req[q].items
      BY <2>2
    <3> QED
      BY <1>0, <1>k, <1>i, <2>4, <3>1, <3>2, <3>3, Zenon DEF IInv, TokensDrawn
  <2>10. InFlight' /\ OneAuthorizes'
    <3>1. Relies(p)'
      BY <1>k, <2>2 DEF Relies
    <3>2. Keeps(p, k)
      BY <1>k, <1>a, <2>2, <2>4 DEF Keeps
    <3>3. OneAuthorizes'
      BY <1>k, <2>2, OthersStay
    <3> QED
      BY <1>k, <1>f, <3>1, <3>2, <3>3, OthersRely
  <2>11. Stages' /\ ChargeFindsItsOrder' /\ RefundsAreOfCharges'
    BY <1>0, <1>k, <1>f, <2>4, Zenon DEF Stages, ChargeFindsItsOrder, RefundsAreOfCharges
  <2>12. LostForGood'
    <3>1. \A s \in Seat, t \in Nat : HeldBy(inv'[s], t) => HeldBy(inv[s], t)
      BY <2>3, <2>7 DEF HeldBy
    <3>2. ASSUME NEW l \in Key, AllSell(order[l].items)' PROVE AllSell(order[l].items)
      <4>1. \A i \in DOMAIN order[l].items : /\ order[l].items[i].seat \in Seat
                                              /\ order[l].items[i].tok \in Nat
        BY <1>0, <1>k, <1>i, ItemsFacts, Zenon DEF Item
      <4> QED
        BY <2>4, <3>1, <3>2, <4>1 DEF AllSell
    <3>3. \A l \in Key : order'[l].status = "expired" => order[l].status = "expired"
      BY <2>4
    <3>4. StillLost
      BY <2>2, OthersStay
    <3> QED
      BY <1>k, <1>f, <3>2, <3>3, <3>4 DEF StillLost, LostForGood
  <2>13. \A l \in Key : /\ SeatsOf(order[l].items)' = SeatsOf(order[l].items)
                        /\ Fulfilled(l)' <=> (l = k \/ Fulfilled(l))
    <3>1. \A l \in Key : SeatsOf(order[l].items)' = SeatsOf(order[l].items)
      BY <2>4 DEF SeatsOf
    <3>2. \A l \in Key : Fulfilled(l)' <=> (l = k \/ Fulfilled(l))
      BY <2>6 DEF Fulfilled
    <3> QED
      BY <3>1, <3>2
  <2>14. SoldToSomeone'
    <3>1. \A s \in Seat : inv'[s].status = "sold" <=>
              (inv[s].status = "sold" \/ s \in SeatsOf(items))
      BY <2>3, <2>7
    <3>2. SoldToSomeone
      BY DEF IInv
    <3> QED
      BY ONLY <1>0, <1>k, <1>i, <2>13, <3>1, <3>2, Zenon DEF SoldToSomeone
  <2>15. OneBuyer'
    <3>1. ASSUME NEW l \in Key, l # k, Fulfilled(l)
          PROVE  SeatsOf(order[l].items) \cap SeatsOf(items) = {}
      <4>1. \A s \in SeatsOf(items) : s \in Seat /\ inv[s].status # "sold"
        BY <2>3
      <4>2. SoldToSomeone
        BY DEF IInv
      <4> QED
        BY <3>1, <4>1, <4>2 DEF SoldToSomeone
    <3>2. OneBuyer
      BY DEF IInv
    <3> QED
      BY ONLY <1>0, <1>k, <1>i, <2>13, <3>1, <3>2, Zenon DEF OneBuyer
  <2>16. OutboxMatchesSale'
    <3>1. OutboxMatchesSale
      BY DEF IInv
    <3>2. ASSUME NEW l \in Key, l # k
          PROVE  /\ outbox'[l] = outbox[l] /\ order'[l].status = order[l].status
                 /\ Fulfilled(l)' <=> Fulfilled(l)
      BY <2>4, <2>6, <2>13, <3>2
    <3>3. outbox'[k] <= 1 /\ order'[k].status = "paid"
      BY <2>4, <2>6
    <3>4. ASSUME NEW l \in Key
          PROVE  /\ outbox'[l] <= 1
                 /\ order'[l].status = "paid" => Fulfilled(l)'
                 /\ Fulfilled(l)' => order'[l].status \in {"paid", "expired"}
      <4>1. CASE l = k
        BY <2>13, <3>3, <4>1
      <4>2. CASE l # k
        BY <3>1, <3>2, <4>2 DEF OutboxMatchesSale
      <4> QED
        BY <4>1, <4>2
    <3> QED
      BY <3>4 DEF OutboxMatchesSale
  <2> QED
    BY <2>8, <2>9, <2>10, <2>11, <2>12, <2>14, <2>15, <2>16 DEF IInv
<1> QED
  BY <1>1, <1>2

-----------------------------------------------------------------------------
\* Every step keeps the inductive invariant.
LEMMA NextIInv == IInv /\ [Next]_vars => IInv'
<1> SUFFICES ASSUME IInv, [Next]_vars PROVE IInv'
  OBVIOUS
<1>1. CASE \E s \in Seat : HoldSeat(s) \/ SweepRelease(s)
  BY <1>1, SeatActionsIInv
<1>2. CASE \E i \in issued : ReleaseHold(i)
  BY <1>2, SeatActionsIInv
<1>3. CASE Tick
  BY <1>3, SeatActionsIInv
<1>4. CASE \E p \in Proc, k \in Key : \/ \E items \in Carts : CreateOrder(p, k, items)
                                      \/ AuthorizePayment(p, k)
                                      \/ DeliverWebhook(p, k)
  BY <1>4, ReadStepIInv
<1>5. ASSUME NEW p \in Proc,
             \/ CreateWithItems(p)
             \/ CreateIntent(p) \/ RecordPayment(p) \/ AwaitPayment(p)
             \/ ConfirmPayment(p) \/ MarkCaptured(p)
             \/ Refund(p) \/ MarkRefunded(p) \/ MarkExpired(p)
             \/ Abort(p)
      PROVE  IInv'
  BY <1>5, CreateWithItemsIInv, AuthorizeIInv, ConfirmIInv, SettleIInv, ReadStepIInv
<1>6. CASE \E k \in Key : FanPays(k)
  BY <1>6, SettleIInv
<1>7. CASE UNCHANGED vars
  <2>1. TypeOK /\ TokensDrawn
    BY DEF IInv
  <2>2. inv' = inv /\ now' = now /\ nextTok' = nextTok /\ issued' = issued
        /\ UNCHANGED <<order, payment, intent, refunds, outbox, req>>
    BY <1>7 DEF vars
  <2> QED
    <3>1. /\ nextTok \in Nat \ {0} /\ inv \in [Seat -> Row] /\ now \in Nat /\ issued \subseteq Item
          /\ \A s \in Seat : (inv[s].status = "held") <=> (inv[s].token # NoToken)
      BY <2>1 DEF TypeOK
    <3>2. (\A s \in Seat : inv[s].token < nextTok) /\ \A i \in issued : i.tok < nextTok
      BY <2>1 DEF TokensDrawn
    <3> QED
      BY <2>2, <3>1, <3>2, SeatStepIInv
<1> QED
  BY <1>1, <1>2, <1>3, <1>4, <1>5, <1>6, <1>7 DEF Next

\* The inductive invariant holds in every reachable state.
THEOREM Invariance == Spec => []IInv
  BY InitIInv, NextIInv, PTL DEF Spec

\* TypeOK: rows keep the CHECK constraint of event_seat_inventory, also through the
\* sale of several of them in ConfirmPayment.
THEOREM TypeCorrect == Spec => []TypeOK
<1>1. IInv => TypeOK
  BY DEF IInv
<1> QED
  BY <1>1, Invariance, PTL

\* OneBuyer: no seat is sold to two orders, however many orders were created on
\* one hold and however their confirmations interleave.
THEOREM NoSeatSoldTwice == Spec => []OneBuyer
<1>1. IInv => OneBuyer
  BY DEF IInv
<1> QED
  BY <1>1, Invariance, PTL

\* AllOrNothing: ConfirmPayment sells all the seats of an order or none of them.
THEOREM NoPartialSale == Spec => []AllOrNothing
<1>1. IInv => AllOrNothing
  <2> SUFFICES ASSUME IInv PROVE AllOrNothing
    OBVIOUS
  <2>1. \A k \in Key : SeatsOf(order[k].items) \subseteq Seat
    BY ItemsFacts DEF IInv, TypeOK
  <2>2. SoldToSomeone
    BY DEF IInv
  <2> QED
    BY <2>1, <2>2 DEF SoldToSomeone, AllOrNothing
<1> QED
  BY <1>1, Invariance, PTL

\* OutboxMatchesSale: one confirmation per paid order, however often Stripe
\* delivers the webhook.
THEOREM OneConfirmationPerSale == Spec => []OutboxMatchesSale
<1>1. IInv => OutboxMatchesSale
  BY DEF IInv
<1> QED
  BY <1>1, Invariance, PTL

\* ChargeFindsItsOrder: AuthorizePayment hands out the client secret only after the
\* rows the webhook will look up are written.
THEOREM NoOrphanedCharge == Spec => []ChargeFindsItsOrder
<1>1. IInv => ChargeFindsItsOrder
  BY DEF IInv
<1> QED
  BY <1>1, Invariance, PTL

\* RefundsAreOfCharges: refundAndFail gives back money that was paid, and records
\* only what the gateway did.
THEOREM RefundsAreReal == Spec => []RefundsAreOfCharges
<1>1. IInv => RefundsAreOfCharges
  BY DEF IInv
<1> QED
  BY <1>1, Invariance, PTL

\* ClosedOrdersStayClosed: UpdateStatus overwrites whatever status it finds, but no
\* handler gets there with an order that is closed to it.
THEOREM ClosedForGood == Spec => ClosedOrdersStayClosed
<1> DEFINE Closed == \A k \in Key :
        /\ order[k].status = "paid" => order'[k].status \in {"paid", "expired"}
        /\ order[k].status = "expired" => order'[k].status = "expired"
<1>1. IInv /\ [Next]_vars => [Closed]_vars
  <2> SUFFICES ASSUME IInv, Next PROVE Closed
    BY DEF vars
  <2>0. order \in [Key -> OrderRow] /\ \A k \in Key : order[k] \in OrderRow
    BY DEF IInv, TypeOK, OrderRow
  <2>1. CASE order' = order
    BY <2>1
  <2>2. ASSUME NEW p \in Proc, CreateWithItems(p) PROVE Closed
    BY <2>0, <2>2, Zenon DEF CreateWithItems, OrderRow
  <2>3. ASSUME NEW p \in Proc, AwaitPayment(p) PROVE Closed
    <3>1. order[req[p].key].status = "pending"
      BY <2>3 DEF AwaitPayment, IInv, InFlight, Relies
    <3>2. \A k \in Key : k # req[p].key => order'[k] = order[k]
      BY <2>0, <2>3 DEF AwaitPayment
    <3> QED
      BY <3>1, <3>2
  <2>4. ASSUME NEW p \in Proc, ConfirmPayment(p), order' # order PROVE Closed
    <3>1. AllSell(req[p].items) /\ order' = [order EXCEPT ![req[p].key].status = "paid"]
      BY <2>4 DEF ConfirmPayment, MarkPaid
    <3>2. req[p].key \in Key /\ order[req[p].key].status # "expired"
      BY <2>4, <3>1 DEF ConfirmPayment, IInv, InFlight, Relies, LostForGood
    <3>3. /\ order'[req[p].key].status = "paid"
          /\ \A k \in Key : k # req[p].key => order'[k] = order[k]
      BY <2>0, <3>1, <3>2 DEF OrderRow
    <3> QED
      BY <3>2, <3>3
  <2>5. ASSUME NEW p \in Proc, MarkExpired(p) PROVE Closed
    <3>1. order' = [order EXCEPT ![req[p].key].status = "expired"]
      BY <2>5 DEF MarkExpired
    <3> QED
      BY <2>0, <3>1 DEF OrderRow
  <2> QED
    BY <2>1, <2>2, <2>3, <2>4, <2>5, Zenon DEF Next, HoldSeat, SweepRelease, ReleaseHold, Tick,
       CreateOrder, AuthorizePayment, DeliverWebhook, CreateIntent, RecordPayment, MarkCaptured,
       Refund, MarkRefunded, Abort, FanPays
<1> QED
  BY <1>1, Invariance, PTL DEF Spec, ClosedOrdersStayClosed

-----------------------------------------------------------------------------
(***************************************************************************)
(* What a sale leaves behind.                                              *)
(***************************************************************************)

\* What a step does to the sales: the items of an order are never rewritten, a sold
\* seat stays sold, and new seats are sold, and new orders fulfilled, only by one
\* transaction whose holds were all alive.
SaleStep ==
    /\ \A k \in Key : order[k].status # "none" => order'[k].items = order[k].items
    /\ \A s \in Seat : inv[s].status = "sold" => inv'[s].status = "sold"
    /\ \/ /\ outbox' = outbox
          /\ \A s \in Seat : inv'[s].status = "sold" => inv[s].status = "sold"
       \/ \E k \in Key :
             /\ ~Fulfilled(k) /\ AllSell(order[k].items)
             /\ outbox' = [outbox EXCEPT ![k] = @ + 1]
             /\ \A s \in Seat : inv'[s].status = "sold" =>
                   inv[s].status = "sold" \/ s \in SeatsOf(order[k].items)

\* Orders change in CreateWithItems, where none was before, and otherwise in their
\* status.
LEMMA ItemsAreFixed ==
    ASSUME IInv, Next, NEW k \in Key, order[k].status # "none"
    PROVE  order'[k].items = order[k].items
<1>0. order \in [Key -> OrderRow] /\ \A l \in Key : order[l] \in OrderRow
  BY DEF IInv, TypeOK, OrderRow
<1>1. CASE order' = order
  BY <1>1
<1>2. ASSUME NEW p \in Proc, CreateWithItems(p) PROVE order'[k].items = order[k].items
  BY <1>0, <1>2 DEF CreateWithItems, OrderRow
<1>3. ASSUME NEW l, NEW status, SetOrderStatus(l, status)
      PROVE  order'[k].items = order[k].items
  BY <1>0, <1>3 DEF OrderRow
<1> QED
  BY <1>1, <1>2, <1>3, Zenon DEF Next, HoldSeat, SweepRelease, ReleaseHold, Tick, CreateOrder,
     AuthorizePayment, DeliverWebhook, CreateIntent, RecordPayment, AwaitPayment,
     ConfirmPayment, MarkPaid, MarkCaptured, Refund, MarkRefunded, MarkExpired, Abort, FanPays

\* Holding and releasing rows sells none and leaves the sold ones alone.
LEMMA RowsSellNothing ==
    ASSUME TypeOK, NEW s \in Seat, NEW t, NEW e,
           \/ inv' = [inv EXCEPT ![s] = HoldRow(@, t, e)]
           \/ inv' = [inv EXCEPT ![s] = ReleaseRow(@, t)]
    PROVE  \A u \in Seat : inv'[u].status = "sold" <=> inv[u].status = "sold"
<1>1. inv \in [Seat -> Row]
  BY DEF TypeOK
<1>2. /\ HoldRow(inv[s], t, e).status = "sold" <=> inv[s].status = "sold"
      /\ ReleaseRow(inv[s], t).status = "sold" <=> inv[s].status = "sold"
  BY DEF HoldRow, Held, ReleaseRow, HeldBy, Available
<1> QED
  BY <1>1, <1>2

\* The transaction of ConfirmPayment that goes through.
LEMMA ConfirmSaleStep ==
    ASSUME IInv, NEW p \in Proc, ConfirmPayment(p), AllSell(req[p].items)
    PROVE  \E k \in Key :
               /\ ~Fulfilled(k) /\ AllSell(order[k].items)
               /\ outbox' = [outbox EXCEPT ![k] = @ + 1]
               /\ \A s \in SeatsOf(order[k].items) : inv[s].status = "held" /\ inv'[s] = Sold
               /\ \A s \in Seat : s \notin SeatsOf(order[k].items) => inv'[s] = inv[s]
<1> DEFINE k == req[p].key
<1>1. TypeOK /\ SoldToSomeone /\ OrdersHaveItems /\ OutboxMatchesSale
  BY DEF IInv
<1>2. k \in Key /\ req[p].items = order[k].items
  BY Zenon DEF IInv, InFlight, Relies, ConfirmPayment
<1>3. Sell(order[k].items) /\ outbox' = [outbox EXCEPT ![k] = @ + 1]
  BY <1>2 DEF ConfirmPayment, MarkPaid
<1>4. order[k].items \in Seq(Item)
  BY <1>1, <1>2 DEF TypeOK
<1>5. /\ \A s \in SeatsOf(order[k].items) : inv[s].status = "held" /\ inv'[s] = Sold
      /\ \A s \in Seat : s \notin SeatsOf(order[k].items) => inv'[s] = inv[s]
  BY <1>1, <1>2, <1>3, <1>4, SellFacts
<1>6. ASSUME Fulfilled(k) PROVE FALSE
  <2>1. order[k].status # "none"
    BY <1>1, <1>2, <1>6 DEF OutboxMatchesSale
  <2>2. PICK s \in SeatsOf(order[k].items) : s \in Seat
    BY <1>1, <1>2, <1>4, <2>1, ItemsFacts DEF OrdersHaveItems
  <2>3. inv[s].status = "sold"
    BY <1>1, <1>2, <1>6, <2>2 DEF SoldToSomeone
  <2> QED
    BY <1>5, <2>2, <2>3
<1> QED
  BY <1>2, <1>3, <1>5, <1>6, Zenon

\* Every step is such a step.
LEMMA NextSaleStep == IInv /\ [Next]_vars => SaleStep
<1> SUFFICES ASSUME IInv, [Next]_vars PROVE SaleStep
  OBVIOUS
<1>0. TypeOK
  BY DEF IInv
<1>1. \A k \in Key : order[k].status # "none" => order'[k].items = order[k].items
  BY ItemsAreFixed DEF vars
<1> DEFINE Quiet == /\ outbox' = outbox
                    /\ \A s \in Seat : inv'[s].status = "sold" <=> inv[s].status = "sold"
<1>2. CASE Quiet
  BY <1>1, <1>2 DEF SaleStep
<1>3. ASSUME NEW p \in Proc, ConfirmPayment(p), AllSell(req[p].items) PROVE SaleStep
  <2>1. PICK k \in Key :
            /\ ~Fulfilled(k) /\ AllSell(order[k].items)
            /\ outbox' = [outbox EXCEPT ![k] = @ + 1]
            /\ \A s \in SeatsOf(order[k].items) : inv[s].status = "held" /\ inv'[s] = Sold
            /\ \A s \in Seat : s \notin SeatsOf(order[k].items) => inv'[s] = inv[s]
    BY <1>3, ConfirmSaleStep, Zenon
  <2>2. \A s \in Seat : inv[s].status = "sold" => inv'[s].status = "sold"
    BY <2>1
  <2>3. \A s \in Seat : inv'[s].status = "sold" =>
            inv[s].status = "sold" \/ s \in SeatsOf(order[k].items)
    BY <2>1
  <2> QED
    BY <1>1, <2>1, <2>2, <2>3, Zenon DEF SaleStep
<1>4. ASSUME NEW p \in Proc, ConfirmPayment(p), ~AllSell(req[p].items) PROVE Quiet
  BY <1>4 DEF ConfirmPayment
<1>5. ASSUME NEW s \in Seat, HoldSeat(s) \/ SweepRelease(s) PROVE Quiet
  <2>1. outbox' = outbox
    BY <1>5, Zenon DEF HoldSeat, SweepRelease
  <2>2. PICK t, e : \/ inv' = [inv EXCEPT ![s] = HoldRow(@, t, e)]
                    \/ inv' = [inv EXCEPT ![s] = ReleaseRow(@, t)]
    BY <1>5, Zenon DEF HoldSeat, SweepRelease
  <2>3. \A u \in Seat : inv'[u].status = "sold" <=> inv[u].status = "sold"
    BY ONLY <1>0, <2>2, RowsSellNothing, Zenon
  <2> QED
    BY <2>1, <2>3, Zenon
<1>6. ASSUME NEW i \in issued, ReleaseHold(i) PROVE Quiet
  <2>1. i.seat \in Seat
    BY <1>0 DEF TypeOK, Item
  <2> QED
    BY <1>0, <1>6, <2>1, RowsSellNothing, Zenon DEF ReleaseHold
<1>7. ASSUME inv' = inv, outbox' = outbox PROVE Quiet
  BY <1>7
<1> HIDE DEF Quiet
<1>8. CASE Tick \/ UNCHANGED vars
  BY <1>2, <1>7, <1>8, Zenon DEF Tick, vars
<1>9. CASE \E p \in Proc, k \in Key :
              \/ \E items \in Carts : CreateOrder(p, k, items)
              \/ AuthorizePayment(p, k) \/ DeliverWebhook(p, k)
  BY <1>2, <1>7, <1>9, Zenon DEF CreateOrder, AuthorizePayment, DeliverWebhook, seatVars
<1>10. CASE \E p \in Proc : \/ CreateWithItems(p)
                            \/ CreateIntent(p) \/ RecordPayment(p) \/ AwaitPayment(p)
                            \/ MarkCaptured(p)
                            \/ Refund(p) \/ MarkRefunded(p) \/ MarkExpired(p)
                            \/ Abort(p)
  BY <1>2, <1>7, <1>10, Zenon DEF CreateWithItems, CreateIntent, RecordPayment, AwaitPayment,
     MarkCaptured, Refund, MarkRefunded, MarkExpired, Abort, seatVars
<1>11. CASE \E k \in Key : FanPays(k)
  BY <1>2, <1>7, <1>11, Zenon DEF FanPays, seatVars
<1> QED
  BY <1>2, <1>3, <1>4, <1>5, <1>6, <1>8, <1>9, <1>10, <1>11, Zenon DEF Next

\* A seat is sold to an order that names the very hold the seat is under: a fan never
\* buys a seat on a token that has been released or swept, not even when the seat is
\* held by someone else by then.
SoldUnderItsHold ==
    [][\A s \in Seat : inv[s].status # "sold" /\ inv'[s].status = "sold" =>
          \E k \in Key :
              /\ ~Fulfilled(k) /\ Fulfilled(k)'
              /\ \E i \in DOMAIN order[k].items :
                    order[k].items[i].seat = s /\ HeldBy(inv[s], order[k].items[i].tok)]_vars

\* SoldUnderItsHold: the WHERE clause of ConfirmSale, with the items read before the
\* transaction began.
THEOREM SalesAreOfTheHold == Spec => SoldUnderItsHold
<1>1. ASSUME IInv, [Next]_vars, NEW s \in Seat, inv[s].status # "sold", inv'[s].status = "sold"
      PROVE  \E k \in Key :
                 /\ ~Fulfilled(k) /\ Fulfilled(k)'
                 /\ \E i \in DOMAIN order[k].items :
                       order[k].items[i].seat = s /\ HeldBy(inv[s], order[k].items[i].tok)
  <2>1. PICK k \in Key :
            /\ ~Fulfilled(k) /\ AllSell(order[k].items)
            /\ outbox' = [outbox EXCEPT ![k] = @ + 1]
            /\ s \in SeatsOf(order[k].items)
    BY <1>1, NextSaleStep, Zenon DEF SaleStep
  <2>2. PICK i \in DOMAIN order[k].items : order[k].items[i].seat = s
    BY <2>1 DEF SeatsOf
  <2>3. HeldBy(inv[s], order[k].items[i].tok)
    BY <2>1, <2>2, Zenon DEF AllSell
  <2>4. Fulfilled(k)'
    <3>1. outbox \in [Key -> Nat]
      BY <1>1 DEF IInv, TypeOK
    <3>2. outbox[k] \in Nat /\ outbox'[k] = outbox[k] + 1
      BY ONLY <2>1, <3>1, k \in Key
    <3> QED
      BY ONLY <3>2 DEF Fulfilled
  <2> QED
    BY <2>1, <2>2, <2>3, <2>4
<1>2. IInv /\ [Next]_vars =>
          [\A s \in Seat : inv[s].status # "sold" /\ inv'[s].status = "sold" =>
              \E k \in Key :
                  /\ ~Fulfilled(k) /\ Fulfilled(k)'
                  /\ \E i \in DOMAIN order[k].items :
                        order[k].items[i].seat = s /\ HeldBy(inv[s], order[k].items[i].tok)]_vars
  BY <1>1, Zenon
<1> QED
  BY <1>2, Invariance, PTL DEF Spec, SoldUnderItsHold

\* LostStaysLost: deliveries of the webhook that come later, or are under way, find
\* the holds gone, because a token is never held twice.
THEOREM NoSeatsAfterRefund == Spec => LostStaysLost
<1>1. ASSUME IInv, [Next]_vars, NEW k \in Key,
             ~Fulfilled(k), refunds[k] > 0 \/ order[k].status = "expired"
      PROVE  ~Fulfilled(k)'
  <2>1. ~AllSell(order[k].items)
    BY <1>1, Zenon DEF IInv, LostForGood
  <2>2. outbox' = outbox \/ \E l \in Key : l # k /\ outbox' = [outbox EXCEPT ![l] = @ + 1]
    BY <1>1, <2>1, NextSaleStep, Zenon DEF SaleStep
  <2>3. outbox \in [Key -> Nat]
    BY <1>1 DEF IInv, TypeOK
  <2>4. outbox'[k] = outbox[k]
    BY ONLY <2>2, <2>3, k \in Key
  <2> QED
    BY <1>1, <2>4 DEF Fulfilled
<1>2. IInv /\ [Next]_vars =>
          [\A k \in Key : ~Fulfilled(k) /\ (refunds[k] > 0 \/ order[k].status = "expired")
                          => ~Fulfilled(k)']_vars
  BY <1>1, Zenon
<1> QED
  BY <1>2, Invariance, PTL DEF Spec, LostStaysLost

\* A fulfilled order stays fulfilled, with the items it had, and its seats stay sold:
\* no release, sweep, hold or later confirmation takes a bought seat back.
BoughtForGood ==
    [][\A k \in Key : Fulfilled(k) =>
          /\ Fulfilled(k)' /\ order'[k].items = order[k].items
          /\ \A s \in SeatsOf(order[k].items) : inv'[s].status = "sold"]_vars

\* BoughtForGood: Hold, Release and ConfirmSale all leave a sold row as it is.
THEOREM BuyersKeepTheirSeats == Spec => BoughtForGood
<1>1. ASSUME IInv, [Next]_vars, NEW k \in Key, Fulfilled(k)
      PROVE  /\ Fulfilled(k)' /\ order'[k].items = order[k].items
             /\ \A s \in SeatsOf(order[k].items) : inv'[s].status = "sold"
  <2>0. SaleStep /\ outbox \in [Key -> Nat] /\ SoldToSomeone
    BY <1>1, NextSaleStep DEF IInv, TypeOK
  <2>1. Fulfilled(k)'
    BY <1>1, <2>0 DEF SaleStep, Fulfilled
  <2>2. order'[k].items = order[k].items
    BY <1>1, <2>0 DEF SaleStep, IInv, OutboxMatchesSale
  <2>3. SeatsOf(order[k].items) \subseteq Seat
    BY <1>1, ItemsFacts DEF IInv, TypeOK
  <2>4. \A s \in SeatsOf(order[k].items) : inv'[s].status = "sold"
    BY <1>1, <2>0, <2>3 DEF SaleStep, SoldToSomeone
  <2> QED
    BY <2>1, <2>2, <2>4
<1>2. IInv /\ [Next]_vars =>
          [\A k \in Key : Fulfilled(k) =>
              /\ Fulfilled(k)' /\ order'[k].items = order[k].items
              /\ \A s \in SeatsOf(order[k].items) : inv'[s].status = "sold"]_vars
  BY <1>1, Zenon
<1> QED
  BY <1>2, Invariance, PTL DEF Spec, BoughtForGood

-----------------------------------------------------------------------------
(***************************************************************************)
(* When a fulfilled order keeps its money.  Two ConfirmPayments that have  *)
(* both read the order before either sold its seats are what it takes to   *)
(* refund a fulfilled order: the second finds the seats sold, by the first *)
(* one, and refunds.  Nothing else does.                                   *)
(***************************************************************************)

\* No two ConfirmPayments of one order are between reading it and their transaction.
OneConfirms ==
    \A p, q \in Proc : At(p, "confirm") /\ At(q, "confirm") /\ req[p].key = req[q].key => p = q

\* The stages of ConfirmPayment in which the order may still be refunded.
Undecided == {"confirm", "refund", "markRefunded", "markExpired"}

\* A fulfilled order stays paid and is not refunded, and no handler that may refund
\* it or expire it is under way.  It is inductive together with IInv while OneConfirms
\* holds.
Decided ==
    /\ \A k \in Key : Fulfilled(k) => order[k].status = "paid" /\ refunds[k] = 0
    /\ \A p \in Proc : req[p].pc \in Undecided => ~Fulfilled(req[p].key)

\* Steps that write neither orders nor refunds nor the outbox keep Decided, when they
\* bring no handler into ConfirmPayment for an order already fulfilled.
LEMMA HandlerStepDecided ==
    ASSUME Decided, UNCHANGED <<order, refunds, outbox>>,
           \A q \in Proc : \/ req'[q] = req[q]
                           \/ req'[q].pc \in Undecided => ~Fulfilled(req'[q].key)
    PROVE  Decided'
<1>1. \A k : Fulfilled(k)' <=> Fulfilled(k)
  BY DEF Fulfilled
<1>2. ASSUME NEW q \in Proc, req'[q].pc \in Undecided PROVE ~Fulfilled(req'[q].key)
  BY <1>2 DEF Decided
<1>3. \A k \in Key : Fulfilled(k) => order'[k].status = "paid" /\ refunds'[k] = 0
  BY DEF Decided
<1>4. \A q \in Proc : req'[q].pc \in Undecided => ~Fulfilled(req[q].key)'
  BY <1>2 DEF Fulfilled
<1> QED
  BY <1>1, <1>3, <1>4 DEF Decided

\* The steps of HandlerStepDecided, one by one.
LEMMA ReadingDecided ==
    ASSUME IInv, Decided,
           \/ \E s \in Seat : HoldSeat(s) \/ SweepRelease(s)
           \/ \E i \in issued : ReleaseHold(i)
           \/ Tick
           \/ \E k \in Key : FanPays(k)
           \/ \E p \in Proc :
                 \/ \E k \in Key : \/ \E items \in Carts : CreateOrder(p, k, items)
                                   \/ AuthorizePayment(p, k)
                                   \/ DeliverWebhook(p, k)
                 \/ CreateIntent(p) \/ RecordPayment(p) \/ MarkCaptured(p) \/ MarkRefunded(p)
                 \/ Abort(p)
    PROVE  Decided'
<1>0. TypeOK /\ req \in [Proc -> Request]
  BY Zenon DEF IInv, TypeOK, Request
<1>1. CASE \/ \E s \in Seat : HoldSeat(s) \/ SweepRelease(s)
           \/ \E i \in issued : ReleaseHold(i)
           \/ Tick
           \/ \E k \in Key : FanPays(k)
  <2>1. UNCHANGED <<order, refunds, outbox, req>>
    BY <1>1, Zenon DEF HoldSeat, SweepRelease, ReleaseHold, Tick, FanPays
  <2> QED
    BY <2>1, HandlerStepDecided
<1>2. ASSUME NEW p \in Proc, NEW k \in Key,
             \/ \E items \in Carts : CreateOrder(p, k, items)
             \/ AuthorizePayment(p, k)
      PROVE  Decided'
  <2>1. ASSUME NEW items \in Carts, CreateOrder(p, k, items)
        PROVE  req'[p].pc = "insert" /\ \A q \in Proc : q # p => req'[q] = req[q]
    BY <1>0, <2>1, Zenon DEF CreateOrder
  <2>2. ASSUME AuthorizePayment(p, k)
        PROVE  req'[p].pc = "intent" /\ \A q \in Proc : q # p => req'[q] = req[q]
    BY <1>0, <2>2, Zenon DEF AuthorizePayment
  <2>3. UNCHANGED <<order, refunds, outbox>>
    BY <1>2, Zenon DEF CreateOrder, AuthorizePayment
  <2>4. req'[p].pc \notin Undecided /\ \A q \in Proc : q # p => req'[q] = req[q]
    BY <1>2, <2>1, <2>2 DEF Undecided
  <2> QED
    BY <2>3, <2>4, HandlerStepDecided, Zenon
<1>3. ASSUME NEW p \in Proc, NEW k \in Key, DeliverWebhook(p, k) PROVE Decided'
  <2>1. ~Fulfilled(k)
    BY <1>3, Zenon DEF DeliverWebhook, Decided
  <2>2. req'[p].key = k /\ \A q \in Proc : q # p => req'[q] = req[q]
    BY <1>0, <1>3, Zenon DEF DeliverWebhook
  <2>3. UNCHANGED <<order, refunds, outbox>>
    BY <1>3, Zenon DEF DeliverWebhook
  <2> QED
    BY <2>1, <2>2, <2>3, HandlerStepDecided, Zenon
<1>4. ASSUME NEW p \in Proc, CreateIntent(p) \/ RecordPayment(p) PROVE Decided'
  <2>1. Goto(p, "record") \/ Goto(p, "await") \/ Done(p)
    BY <1>4, Zenon DEF CreateIntent, RecordPayment
  <2>2. req'[p].pc \in {"record", "await", "idle"} /\ \A q \in Proc : q # p => req'[q] = req[q]
    BY <1>0, <2>1, GotoFacts, DoneFacts, Zenon
  <2>3. req'[p].pc \notin Undecided
    BY <2>2 DEF Undecided
  <2>4. UNCHANGED <<order, refunds, outbox>>
    BY <1>4, Zenon DEF CreateIntent, RecordPayment
  <2> QED
    BY <2>2, <2>3, <2>4, HandlerStepDecided, Zenon
<1>5. ASSUME NEW p \in Proc, MarkCaptured(p) \/ Abort(p) PROVE Decided'
  <2>1. Done(p) /\ UNCHANGED <<order, refunds, outbox>>
    BY <1>5 DEF MarkCaptured, Abort
  <2>2. req'[p].pc = "idle" /\ \A q \in Proc : q # p => req'[q] = req[q]
    BY <1>0, <2>1, DoneFacts, Zenon
  <2>3. req'[p].pc \notin Undecided
    BY <2>2 DEF Undecided
  <2> QED
    BY <2>1, <2>2, <2>3, HandlerStepDecided, Zenon
<1>6. ASSUME NEW p \in Proc, MarkRefunded(p) PROVE Decided'
  <2>1. /\ Goto(p, "markExpired") /\ req[p].pc = "markRefunded"
        /\ UNCHANGED <<order, refunds, outbox>>
    BY <1>6 DEF MarkRefunded
  <2>2. req'[p].key = req[p].key /\ \A q \in Proc : q # p => req'[q] = req[q]
    BY <1>0, <2>1, GotoFacts
  <2>3. ~Fulfilled(req[p].key)
    BY <2>1, Zenon DEF Decided, Undecided
  <2> QED
    BY <2>1, <2>2, <2>3, HandlerStepDecided, Zenon
<1> QED
  BY <1>1, <1>2, <1>3, <1>4, <1>5, <1>6, Zenon

\* The writes of orders and refunds.  An order is created or sent to its payment only
\* before it is fulfilled, and who refunds or expires one has found it not fulfilled.
LEMMA WritingDecided ==
    ASSUME IInv, Decided, NEW p \in Proc,
           CreateWithItems(p) \/ AwaitPayment(p) \/ Refund(p) \/ MarkExpired(p)
    PROVE  Decided'
<1> DEFINE k == req[p].key
<1>0. /\ TypeOK /\ order \in [Key -> OrderRow] /\ refunds \in [Key -> Nat]
      /\ \A l \in Key : order[l] \in OrderRow
  BY Zenon DEF IInv, TypeOK, OrderRow
<1>1. k \in Key /\ Relies(p)
  BY DEF IInv, InFlight, Relies, CreateWithItems, AwaitPayment, Refund, MarkExpired
<1>2. outbox' = outbox /\ \A l : Fulfilled(l)' <=> Fulfilled(l)
  BY DEF CreateWithItems, AwaitPayment, Refund, MarkExpired, Fulfilled
<1>3. /\ \A q \in Proc : q # p => req'[q] = req[q]
      /\ req'[p].pc \in Undecided => req'[p].key = k /\ req[p].pc \in Undecided
  <2>1. CASE Done(p)
    BY <1>0, <2>1, DoneFacts DEF Undecided
  <2>2. CASE Goto(p, "markRefunded") /\ req[p].pc = "refund"
    BY <1>0, <2>2, GotoFacts DEF Undecided
  <2> QED
    BY <2>1, <2>2 DEF CreateWithItems, AwaitPayment, Refund, MarkExpired
<1>4. \A q \in Proc : req'[q].pc \in Undecided => ~Fulfilled(req[q].key)'
  BY <1>2, <1>3 DEF Decided, Fulfilled
<1>5. \A l \in Key : l # k => order'[l] = order[l] /\ refunds'[l] = refunds[l]
  BY <1>0, Zenon DEF CreateWithItems, AwaitPayment, Refund, MarkExpired, SetOrderStatus, RefundIntent
<1>6. Fulfilled(k) => order'[k] = order[k] /\ refunds'[k] = refunds[k]
  <2> SUFFICES ASSUME Fulfilled(k) PROVE order'[k] = order[k] /\ refunds'[k] = refunds[k]
    OBVIOUS
  <2>1. order[k].status = "paid"
    BY <1>1 DEF Decided
  <2>2. CASE CreateWithItems(p)
    BY <2>1, <2>2 DEF CreateWithItems, OrderFound
  <2>3. CASE AwaitPayment(p)
    BY <1>1, <2>1, <2>3 DEF AwaitPayment, Relies
  <2>4. CASE Refund(p) \/ MarkExpired(p)
    BY <2>4 DEF Refund, MarkExpired, Decided, Undecided
  <2> QED
    BY <2>2, <2>3, <2>4
<1>7. \A l \in Key : Fulfilled(l)' => order'[l].status = "paid" /\ refunds'[l] = 0
  BY <1>2, <1>5, <1>6 DEF Decided
<1> QED
  BY <1>4, <1>7 DEF Decided

\* ConfirmPayment: who sells the seats of an order finds no refund of it and nobody
\* on the way through refundAndFail, because their holds would be lost for good.
LEMMA ConfirmDecided ==
    ASSUME IInv, OneConfirms, Decided, NEW p \in Proc, ConfirmPayment(p)
    PROVE  Decided'
<1> DEFINE k == req[p].key
<1>0. /\ TypeOK /\ order \in [Key -> OrderRow] /\ outbox \in [Key -> Nat]
      /\ \A l \in Key : order[l] \in OrderRow
      /\ refunds \in [Key -> Nat]
  BY Zenon DEF IInv, TypeOK, OrderRow
<1>1. /\ k \in Key /\ req[p].pc = "confirm" /\ req[p].items = order[k].items
      /\ refunds' = refunds
  BY Zenon DEF IInv, InFlight, Relies, ConfirmPayment
<1>2. ~Fulfilled(k)
  BY <1>1 DEF Decided, Undecided
<1>3. CASE ~AllSell(req[p].items)
  <2>1. Goto(p, "refund") /\ UNCHANGED <<order, refunds, outbox>>
    BY <1>1, <1>3, Zenon DEF ConfirmPayment
  <2>2. req'[p].key = k /\ \A q \in Proc : q # p => req'[q] = req[q]
    BY <1>0, <2>1, GotoFacts, Zenon
  <2> QED
    BY <1>2, <2>1, <2>2, HandlerStepDecided, Zenon
<1>4. CASE AllSell(order[k].items)
  <2>1. /\ Goto(p, "capture") /\ order' = [order EXCEPT ![k].status = "paid"]
        /\ outbox' = [outbox EXCEPT ![k] = @ + 1]
    BY <1>1, <1>4 DEF ConfirmPayment, MarkPaid, SetOrderStatus
  <2>2. /\ \A q \in Proc : q # p => req'[q] = req[q]
        /\ req'[p].pc = "capture"
    BY <1>0, <2>1, GotoFacts
  <2>l. LostForGood
    BY DEF IInv
  <2>3. refunds[k] = 0
    <3>1. refunds[k] \in Nat
      BY <1>0, <1>1
    <3>2. ~(refunds[k] > 0)
      BY <1>1, <1>4, <2>l, Zenon DEF LostForGood
    <3> QED
      BY ONLY <3>1, <3>2
  <2>4. \A q \in Proc : q # p /\ req[q].pc \in Undecided => req[q].key # k
    BY <1>1, <1>4, <2>l DEF LostForGood, OneConfirms, Undecided
  <2>5. \A l : l # k => (Fulfilled(l)' <=> Fulfilled(l))
    BY <1>0, <2>1 DEF Fulfilled
  <2>6. order'[k].status = "paid" /\ \A l \in Key : l # k => order'[l] = order[l]
    BY <1>0, <1>1, <2>1 DEF OrderRow
  <2>7. \A l \in Key : Fulfilled(l)' => order'[l].status = "paid" /\ refunds'[l] = 0
    BY <1>1, <2>3, <2>5, <2>6 DEF Decided
  <2>8. ASSUME NEW q \in Proc, req'[q].pc \in Undecided PROVE ~Fulfilled(req[q].key)'
    <3>1. q # p
      BY <2>2, <2>8 DEF Undecided
    <3>2. req'[q] = req[q] /\ req[q].key # k /\ ~Fulfilled(req[q].key)
      BY <2>2, <2>4, <2>8, <3>1 DEF Decided
    <3> QED
      BY <2>5, <3>2 DEF Fulfilled
  <2> QED
    BY <2>7, <2>8 DEF Decided
<1> QED
  BY <1>1, <1>3, <1>4

\* Every step keeps Decided while no two ConfirmPayments of one order overlap.
LEMMA NextDecided == IInv /\ OneConfirms /\ Decided /\ [Next]_vars => Decided'
<1> SUFFICES ASSUME IInv, OneConfirms, Decided, [Next]_vars PROVE Decided'
  OBVIOUS
<1>1. CASE UNCHANGED vars
  BY <1>1, HandlerStepDecided DEF vars
<1>2. CASE Next
  BY <1>2, ReadingDecided, WritingDecided, ConfirmDecided, Zenon DEF Next
<1> QED
  BY <1>1, <1>2

\* NoRefundOfFulfilledOrder, for any number of handlers, deliveries, crashes and
\* retries, as long as no two ConfirmPayments of one order are both between reading
\* the order and their transaction: reading it inside the transaction, under a lock,
\* would be enough.
THEOREM FulfilledKeepsItsMoney == Spec /\ []OneConfirms => []NoRefundOfFulfilledOrder
<1>1. Init => Decided
  BY DEF Init, Decided, Fulfilled, Idle, Undecided
<1>2. Decided => NoRefundOfFulfilledOrder
  BY DEF Decided, NoRefundOfFulfilledOrder
<1> QED
  BY <1>1, <1>2, NextDecided, Invariance, PTL DEF Spec

\* NoRefundOfFulfilledOrder where one handler serves all requests, one delivery of the
\* webhook after the other.
THEOREM OneHandlerKeepsMoney ==
    ASSUME NEW p, Proc = {p}
    PROVE  Spec => []NoRefundOfFulfilledOrder
<1>1. OneConfirms
  BY DEF OneConfirms
<1> QED
  BY <1>1, FulfilledKeepsItsMoney, PTL

-----------------------------------------------------------------------------
(***************************************************************************)
(* When a retried CreateOrder gets the existing order.                     *)
(***************************************************************************)

\* No two CreateOrders with one key are between their lookup and their INSERT.
OneCreates ==
    \A p, q \in Proc : At(p, "insert") /\ At(q, "insert") /\ req[p].key = req[q].key => p = q

\* What the lookup of a CreateOrder found is still true at its INSERT.
KeyIsFree == \A p \in Proc : At(p, "insert") => ~OrderFound(req[p].key)

\* UpdateStatus is called for orders that exist, so only an INSERT under the key
\* creates an order.
LEMMA OnlyInsertCreates ==
    ASSUME IInv, Next, NEW k \in Key, ~OrderFound(k)
    PROVE  \/ ~OrderFound(k)'
           \/ \E q \in Proc : CreateWithItems(q) /\ req[q].key = k
<1>0. order \in [Key -> OrderRow] /\ \A l \in Key : order[l] \in OrderRow
  BY DEF IInv, TypeOK, OrderRow
<1> DEFINE Free == order'[k].status = "none"
<1>1. ASSUME NEW l \in Key, NEW status, order[l].status # "none", SetOrderStatus(l, status)
      PROVE  Free
  BY <1>0, <1>1
<1>2. ASSUME NEW p \in Proc, AwaitPayment(p) PROVE Free
  <2>1. req[p].key \in Key /\ order[req[p].key].status # "none"
    BY <1>2 DEF AwaitPayment, IInv, InFlight, Relies
  <2> QED
    BY <1>1, <1>2, <2>1, Zenon DEF AwaitPayment
<1>3. ASSUME NEW p \in Proc, At(p, "confirm") \/ At(p, "markExpired")
      PROVE  req[p].key \in Key /\ order[req[p].key].status # "none"
  <2>1. req[p].key \in Key /\ intent[req[p].key] = "charged"
    BY <1>3 DEF IInv, InFlight, Relies
  <2> QED
    BY <2>1 DEF IInv, Stages
<1>4. ASSUME order' = order PROVE Free
  BY <1>4
<1>5. ASSUME NEW p \in Proc, ConfirmPayment(p) PROVE Free
  <2>1. order' = order \/ SetOrderStatus(req[p].key, "paid")
    BY <1>5, Zenon DEF ConfirmPayment, MarkPaid
  <2> QED
    BY <1>1, <1>3, <1>4, <1>5, <2>1, Zenon DEF ConfirmPayment
<1>6. ASSUME NEW p \in Proc, MarkExpired(p) PROVE Free
  BY <1>1, <1>3, <1>6, Zenon DEF MarkExpired
<1>7. ASSUME NEW p \in Proc, CreateWithItems(p), req[p].key # k PROVE Free
  BY <1>0, <1>7 DEF CreateWithItems
<1> HIDE DEF Free
<1>8. ASSUME Tick \/ (\E s \in Seat : HoldSeat(s) \/ SweepRelease(s))
                  \/ (\E i \in issued : ReleaseHold(i)) \/ \E l \in Key : FanPays(l)
      PROVE  Free
  BY <1>4, <1>8, Zenon DEF HoldSeat, SweepRelease, ReleaseHold, Tick, FanPays
<1>9. ASSUME NEW p \in Proc, NEW l \in Key,
             (\E items \in Carts : CreateOrder(p, l, items)) \/ AuthorizePayment(p, l)
                \/ DeliverWebhook(p, l)
      PROVE  Free
  BY <1>4, <1>9, Zenon DEF CreateOrder, AuthorizePayment, DeliverWebhook
<1>10. ASSUME NEW p \in Proc, CreateIntent(p) \/ RecordPayment(p) \/ MarkCaptured(p)
                                 \/ Refund(p) \/ MarkRefunded(p) \/ Abort(p)
       PROVE  Free
  BY <1>4, <1>10, Zenon DEF CreateIntent, RecordPayment, MarkCaptured, Refund, MarkRefunded, Abort
<1>11. Free \/ \E q \in Proc : CreateWithItems(q) /\ req[q].key = k
  BY <1>2, <1>5, <1>6, <1>7, <1>8, <1>9, <1>10, Zenon DEF Next
<1> QED
  BY <1>11, Zenon DEF Free

\* A request at its INSERT was there before, or has just looked its key up.
LEMMA InsertsFollowLookups ==
    ASSUME IInv, Next, NEW q \in Proc, req'[q].pc = "insert"
    PROVE  \/ req'[q] = req[q]
           \/ req'[q].key \in Key /\ ~OrderFound(req'[q].key) /\ order' = order
<1> DEFINE Was == req'[q] = req[q]
<1>0. req \in [Proc -> Request] /\ Idle.pc = "idle"
  BY Zenon DEF IInv, TypeOK, Request, Idle
<1>1. ASSUME NEW p \in Proc, NEW k \in Key, NEW items, CreateOrder(p, k, items)
      PROVE  Was \/ (req'[q].key \in Key /\ ~OrderFound(req'[q].key) /\ order' = order)
  BY <1>0, <1>1 DEF CreateOrder
<1>2. ASSUME NEW p \in Proc, NEW r, r.pc # "insert", req' = [req EXCEPT ![p] = r] PROVE Was
  BY <1>0, <1>2
<1>3. ASSUME NEW p \in Proc, NEW pc, pc # "insert", Goto(p, pc) PROVE Was
  BY <1>0, <1>3 DEF Goto, Request
<1>4. ASSUME NEW p \in Proc, Done(p) PROVE Was
  BY <1>0, <1>2, <1>4, Zenon DEF Done
<1>5. ASSUME NEW p \in Proc, NEW k \in Key, AuthorizePayment(p, k) PROVE Was
  <2>1. [pc |-> "intent", key |-> k, items |-> <<>>].pc # "insert"
    OBVIOUS
  <2> QED
    BY <1>2, <1>5, <2>1, Zenon DEF AuthorizePayment
<1>6. ASSUME NEW p \in Proc, NEW k \in Key, DeliverWebhook(p, k) PROVE Was
  <2>1. [pc |-> "confirm", key |-> k, items |-> order[k].items].pc # "insert"
    OBVIOUS
  <2> QED
    BY <1>2, <1>6, <2>1, Zenon DEF DeliverWebhook
<1>7. ASSUME req' = req PROVE Was
  BY <1>7
<1>8. /\ "record" # "insert" /\ "await" # "insert" /\ "capture" # "insert" /\ "refund" # "insert"
      /\ "markRefunded" # "insert" /\ "markExpired" # "insert"
  OBVIOUS
<1> HIDE DEF Was
<1>9. ASSUME NEW p \in Proc, CreateIntent(p) \/ RecordPayment(p) \/ ConfirmPayment(p)
                                \/ Refund(p) \/ MarkRefunded(p)
      PROVE  Was
  BY <1>3, <1>4, <1>8, <1>9, Zenon DEF CreateIntent, RecordPayment, ConfirmPayment, Refund,
     MarkRefunded
<1>10. ASSUME NEW p \in Proc, CreateWithItems(p) \/ AwaitPayment(p) \/ MarkCaptured(p)
                                 \/ MarkExpired(p) \/ Abort(p)
       PROVE  Was
  BY <1>4, <1>10, Zenon DEF CreateWithItems, AwaitPayment, MarkCaptured, MarkExpired, Abort
<1>11. ASSUME Tick \/ (\E s \in Seat : HoldSeat(s) \/ SweepRelease(s))
                   \/ (\E i \in issued : ReleaseHold(i)) \/ \E l \in Key : FanPays(l)
       PROVE  req' = req
  BY <1>11, Zenon DEF HoldSeat, SweepRelease, ReleaseHold, Tick, FanPays
<1>12. Was \/ (req'[q].key \in Key /\ ~OrderFound(req'[q].key) /\ order' = order)
  BY <1>1, <1>5, <1>6, <1>7, <1>9, <1>10, <1>11, Zenon DEF Next
<1> QED
  BY <1>12, Zenon DEF Was

\* Every step keeps KeyIsFree while no two CreateOrders with one key overlap.
LEMMA NextKeyIsFree == IInv /\ OneCreates /\ KeyIsFree /\ [Next]_vars => KeyIsFree'
<1> SUFFICES ASSUME IInv, OneCreates, KeyIsFree, Next, NEW q \in Proc, req'[q].pc = "insert"
             PROVE  order'[req'[q].key].status = "none"
  BY DEF KeyIsFree, vars
<1>1. CASE req'[q].key \in Key /\ ~OrderFound(req'[q].key) /\ order' = order
  BY <1>1
<1>2. CASE req'[q] = req[q]
  <2>1. req[q].key \in Key /\ ~OrderFound(req[q].key) /\ At(q, "insert")
    BY <1>2 DEF KeyIsFree, IInv, InFlight, Relies
  <2>2. ASSUME NEW x \in Proc, CreateWithItems(x), req[x].key = req[q].key PROVE FALSE
    <3>1. x = q
      BY <2>1, <2>2 DEF OneCreates, CreateWithItems
    <3>2. req'[q].pc = "idle"
      BY <2>2, <3>1, Zenon DEF CreateWithItems, Done, Idle, IInv, TypeOK
    <3> QED
      BY <3>2
  <2> QED
    BY <1>2, <2>1, <2>2, OnlyInsertCreates
<1> QED
  BY <1>1, <1>2, InsertsFollowLookups

\* RetryReturnsOrder, for any number of handlers, as long as no two CreateOrders with
\* one key are both between looking the key up and inserting: a retry sent after the
\* first attempt was answered, or has died, never runs into the unique key.
THEOREM RetriesGetTheOrder == Spec /\ []OneCreates => RetryReturnsOrder
<1>1. Init => KeyIsFree
  BY DEF Init, KeyIsFree, Idle
<1>2. KeyIsFree => [\A p \in Proc : CreateWithItems(p) => order[req[p].key].status = "none"]_vars
  BY DEF KeyIsFree, CreateWithItems
<1> QED
  BY <1>1, <1>2, NextKeyIsFree, Invariance, PTL DEF Spec, RetryReturnsOrder

-----------------------------------------------------------------------------
(***************************************************************************)
(* OrderFlow implements SeatLedger.                                        *)
(***************************************************************************)

\* The tokens the ledger counts as used are those drawn so far.
Drawn == 1 .. (nextTok - 1)

\* Taking a seat is a Hold of the ledger under a new token.
LEMMA HoldRefines ==
    ASSUME IInv, NEW s \in Seat, HoldSeat(s)
    PROVE  Ledger!Next
<1>0. inv \in [Seat -> Row] /\ nextTok \in Nat \ {0}
  BY DEF IInv, TypeOK
<1>1. inv[s].status = "available"
  BY DEF HoldSeat, HoldRow
<1> DEFINE h == Held(nextTok, now + HoldDuration)
<1>2. inv' = [inv EXCEPT ![s] = h]
  BY <1>0, <1>1 DEF HoldSeat, HoldRow
<1>3. h.status = "held" /\ h.token = nextTok
  BY DEF Held
<1> HIDE DEF h
<1>4. SeatsView' = [SeatsView EXCEPT ![s] = [status |-> "held", token |-> nextTok]]
  BY <1>0, <1>2, <1>3, Zenon DEF SeatsView
<1>5. /\ nextTok \in 1 .. MaxToken /\ nextTok \notin Drawn
      /\ Drawn' = Drawn \cup {nextTok}
  BY <1>0, ConstantsAssumption DEF HoldSeat, Drawn
<1>6. SeatsView[s].status = "available"
  BY <1>1 DEF SeatsView
<1>7. Ledger!Hold(s, nextTok)
  BY <1>4, <1>5, <1>6 DEF Ledger!Hold, Drawn
<1> QED
  BY <1>5, <1>7 DEF Ledger!Next

\* Giving a row back is a Release of the ledger, or no step when the token does not
\* match.
LEMMA ReleaseRefines ==
    ASSUME IInv, NEW s \in Seat, NEW t,
           inv' = [inv EXCEPT ![s] = ReleaseRow(@, t)], nextTok' = nextTok
    PROVE  Ledger!Next \/ UNCHANGED <<SeatsView, Drawn>>
<1>0. inv \in [Seat -> Row] /\ Drawn' = Drawn
  BY DEF IInv, TypeOK, Drawn
<1>1. CASE ~HeldBy(inv[s], t)
  <2>1. inv' = inv
    BY <1>0, <1>1 DEF ReleaseRow
  <2> QED
    BY <1>0, <2>1 DEF SeatsView
<1>2. CASE HeldBy(inv[s], t)
  <2>1. inv' = [inv EXCEPT ![s] = Available]
    BY <1>2 DEF ReleaseRow
  <2>2. SeatsView[s].status = "held"
    BY <1>2 DEF SeatsView, HeldBy
  <2>3. SeatsView' = [SeatsView EXCEPT ![s] = Ledger!Free]
    <3>1. \A x \in Seat : inv'[x] = IF x = s THEN Available ELSE inv[x]
      BY <1>0, <2>1
    <3>2. /\ SeatsView' = [x \in Seat |-> [status |-> inv'[x].status, token |-> inv'[x].token]]
          /\ Available.status = "available" /\ Available.token = 0
      BY DEF SeatsView, Available
    <3> QED
      BY <3>1, <3>2, Zenon DEF SeatsView, Ledger!Free
  <2> QED
    BY <1>0, <2>2, <2>3, Zenon DEF Ledger!Release, Ledger!Next, Drawn
<1> QED
  BY <1>1, <1>2

\* The transaction of ConfirmPayment is one Sell of all the seats of the order.
LEMMA ConfirmRefines ==
    ASSUME IInv, NEW p \in Proc, ConfirmPayment(p)
    PROVE  Ledger!Next \/ UNCHANGED <<SeatsView, Drawn>>
<1> DEFINE items == req[p].items
<1>0. TypeOK /\ items \in Seq(Item) /\ Drawn' = Drawn
  BY Zenon DEF IInv, TypeOK, ConfirmPayment, Drawn
<1>1. CASE inv' = inv
  BY <1>0, <1>1 DEF SeatsView
<1>2. CASE AllSell(items) /\ Sell(items)
  <2> DEFINE S == SeatsOf(items)
  <2>1. /\ \A s \in S : inv[s].status = "held" /\ inv'[s] = Sold
        /\ \A s \in Seat : s \notin S => inv'[s] = inv[s]
        /\ S \subseteq Seat
    BY <1>0, <1>2, SellFacts, Zenon
  <2> HIDE DEF S, items
  <2>2. \A s \in S : SeatsView[s].status = "held"
    BY <2>1 DEF SeatsView
  <2>3. SeatsView' = [s \in Seat |-> IF s \in S THEN Ledger!Gone ELSE SeatsView[s]]
    <3>1. Sold.status = "sold" /\ Sold.token = 0
      BY DEF Sold
    <3>2. ASSUME NEW x \in Seat
          PROVE  [status |-> inv'[x].status, token |-> inv'[x].token] =
                     IF x \in S THEN Ledger!Gone ELSE SeatsView[x]
      <4>1. CASE x \in S
        BY <2>1, <3>1, <4>1 DEF Ledger!Gone
      <4>2. CASE x \notin S
        BY <2>1, <4>2 DEF SeatsView
      <4> QED
        BY <4>1, <4>2
    <3> QED
      BY <3>2 DEF SeatsView
  <2>4. Ledger!Sell(S)
    BY <1>0, <2>2, <2>3 DEF Ledger!Sell, Drawn
  <2> QED
    BY <2>1, <2>4 DEF Ledger!Next
<1> QED
  BY <1>1, <1>2, Zenon DEF ConfirmPayment

\* Every step of the order flow is a step of the ledger or leaves it alone.
LEMMA StepRefines ==
    ASSUME IInv, [Next]_vars
    PROVE  [Ledger!Next]_(Ledger!ledgerVars)
<1> SUFFICES Ledger!Next \/ UNCHANGED <<SeatsView, Drawn>>
  BY DEF Ledger!ledgerVars, Drawn
<1>1. ASSUME NEW s \in Seat, HoldSeat(s) PROVE Ledger!Next
  BY <1>1, HoldRefines
<1>2. ASSUME NEW s \in Seat, SweepRelease(s)
      PROVE  Ledger!Next \/ UNCHANGED <<SeatsView, Drawn>>
  BY <1>2, ReleaseRefines, Zenon DEF SweepRelease
<1>3. ASSUME NEW i \in issued, ReleaseHold(i)
      PROVE  Ledger!Next \/ UNCHANGED <<SeatsView, Drawn>>
  <2>1. i.seat \in Seat
    BY DEF IInv, TypeOK, Item
  <2> QED
    BY <1>3, <2>1, ReleaseRefines, Zenon DEF ReleaseHold
<1>4. ASSUME NEW p \in Proc, ConfirmPayment(p)
      PROVE  Ledger!Next \/ UNCHANGED <<SeatsView, Drawn>>
  BY <1>4, ConfirmRefines
<1>5. CASE UNCHANGED <<inv, nextTok>>
  BY <1>5 DEF SeatsView, Drawn
<1>6. ASSUME NEW p \in Proc, NEW k \in Key,
             (\E items \in Carts : CreateOrder(p, k, items)) \/ AuthorizePayment(p, k)
                \/ DeliverWebhook(p, k) \/ FanPays(k)
      PROVE  UNCHANGED <<inv, nextTok>>
  BY <1>6, Zenon DEF CreateOrder, AuthorizePayment, DeliverWebhook, FanPays, seatVars
<1>7. ASSUME NEW p \in Proc,
             CreateWithItems(p) \/ CreateIntent(p) \/ RecordPayment(p) \/ AwaitPayment(p)
                \/ MarkCaptured(p) \/ Refund(p) \/ MarkRefunded(p) \/ MarkExpired(p) \/ Abort(p)
      PROVE  UNCHANGED <<inv, nextTok>>
  BY <1>7 DEF CreateWithItems, CreateIntent, RecordPayment, AwaitPayment, MarkCaptured,
     Refund, MarkRefunded, MarkExpired, Abort, seatVars
<1>8. ASSUME Tick \/ (\E k \in Key : FanPays(k)) \/ UNCHANGED vars
      PROVE  UNCHANGED <<inv, nextTok>>
  BY <1>8 DEF Tick, FanPays, seatVars, vars
<1> QED
  BY <1>1, <1>2, <1>3, <1>4, <1>5, <1>6, <1>7, <1>8 DEF Next

\* LedgerSpec: to the seats, checkout and payment are steps of the ledger, for any
\* number of orders and handlers: only free seats are held, only under new tokens,
\* and only held ones are sold.
THEOREM ImplementsLedger == Spec => LedgerSpec
<1>1. ASSUME Init PROVE Ledger!Init
  <2>1. inv = [s \in Seat |-> Available] /\ nextTok = 1
    BY <1>1 DEF Init
  <2>2. \A s \in Seat : [status |-> inv[s].status, token |-> inv[s].token] = Ledger!Free
    BY ONLY <2>1 DEF Ledger!Free, Available, NoToken
  <2>3. SeatsView = [s \in Seat |-> Ledger!Free]
    BY ONLY <2>2, Zenon DEF SeatsView
  <2>4. 1 .. (nextTok - 1) = {}
    BY ONLY <2>1
  <2> QED
    BY ONLY <2>3, <2>4 DEF Ledger!Init
<1>2. IInv /\ [Next]_vars => [Ledger!Next]_(Ledger!ledgerVars)
  BY StepRefines
<1> QED
  BY <1>1, <1>2, Invariance, PTL DEF Spec, LedgerSpec, Ledger!Spec
=============================================================================
