--------------------------- MODULE PricingProofs ----------------------------
(***************************************************************************)
(* Proofs about Pricing, for any seats, categories, prices, limits, carts  *)
(* and width of an integer: the limits and the expiry of a placed order    *)
(* are right, and so is its total, or else the order is refused, when the  *)
(* cost is less than twice what fits into an integer.                      *)
(***************************************************************************)
EXTENDS Pricing, FiniteSetTheorems, TLAPS

\* One more than the largest integer.
Half == 2 ^ (Width - 1)

\* What an integer holds after additions that exceed it at most once.
Stored(n) == IF n < Half THEN n ELSE n - 2 * Half

Types ==
    /\ cart \in Seq(Seat)
    /\ count \in [Category -> Nat]
    /\ subtotal.cents \in Int
    /\ expiry \in Nat

\* categoryCount counts the tickets, and none too many.
Counted ==
    \A c \in Category :
        /\ IsFiniteSet(Tickets(c))
        /\ count[c] = Cardinality(Tickets(c))
        /\ count[c] <= MaxPerOrder[c]

\* All tickets so far are in the currency of the subtotal, which is their cost,
\* wrapped around at most once.
Summed ==
    /\ IsFiniteSet(Cents) /\ Cost \in Nat
    /\ Cost < 2 * Half => subtotal.cents = Stored(Cost)
    /\ \A i \in DOMAIN cart : Price(i).currency = subtotal.currency

\* tightestExpiry is the expiry of one of the holds, and of none later than it.
Tightened ==
    /\ expiry = Never <=> cart = <<>>
    /\ cart # <<>> => \E i \in DOMAIN cart : expiry = ExpiryOf[cart[i]]
    /\ \A i \in DOMAIN cart : expiry <= ExpiryOf[cart[i]]

\* A placed order has the amounts and the expiry of the loop.
PlacedAsPriced ==
    Placed => /\ cart # <<>>
              /\ order.expiresAt = expiry
              /\ order.total.currency = subtotal.currency
              /\ Cost < 2 * Half => order.total.cents = Cost

\* The inductive invariant.
IInv == Types /\ Counted /\ Summed /\ Tightened /\ PlacedAsPriced

-----------------------------------------------------------------------------
\* Money.Add is addition as long as the sum fits, and subtracts 2 ^ Width when it
\* just does not.
LEMMA WrapOnce ==
    ASSUME NEW n \in Int, -Half <= n, n < 2 * Half
    PROVE  Wrap(n) = Stored(n)
<1>1. Half \in Nat \ {0} /\ 2 ^ Width = 2 * Half
  BY PowersOfTwo DEF Half
<1>2. Wrap(n) = ((n + Half) % (2 * Half)) - Half
  BY <1>1 DEF Wrap, Half
<1> HIDE DEF Half
<1>3. CASE n < Half
  <2>1. (n + Half) % (2 * Half) = n + Half
    BY <1>1, <1>3
  <2> QED
    BY <1>1, <1>2, <1>3, <2>1 DEF Stored
<1>4. CASE ~(n < Half)
  <2>1. (n + Half) % (2 * Half) = n - Half
    BY <1>1, <1>4
  <2> QED
    BY <1>1, <1>2, <1>4, <2>1 DEF Stored
<1> QED
  BY <1>3, <1>4

\* An empty cart costs nothing.
LEMMA InitIInv == Init => IInv
<1> SUFFICES ASSUME Init PROVE IInv
  OBVIOUS
<1> USE ConstantsAssumption DEF Init
<1>1. cart \in Seq(Seat) /\ DOMAIN cart = {}
  OBVIOUS
<1>2. Types
  <2>1. count \in [Category -> Nat] /\ subtotal.cents = 0 /\ expiry = 0
    BY DEF Unset, Never
  <2> QED
    BY <1>1, <2>1 DEF Types
<1>3. ASSUME NEW c \in Category
      PROVE  IsFiniteSet(Tickets(c)) /\ count[c] = Cardinality(Tickets(c)) /\ count[c] <= MaxPerOrder[c]
  <2>1. Tickets(c) = {}
    BY <1>1 DEF Tickets
  <2>2. IsFiniteSet(Tickets(c)) /\ Cardinality(Tickets(c)) = 0
    BY <2>1, FS_EmptySet
  <2>3. count[c] = 0 /\ MaxPerOrder[c] \in Nat
    OBVIOUS
  <2> QED
    BY <2>2, <2>3
<1>4. Counted
  BY <1>3 DEF Counted
<1>5. IsFiniteSet(Cents) /\ Cost = 0
  <2>1. Cents = {}
    BY <1>1 DEF Cents
  <2> QED
    BY <2>1, FS_EmptySet DEF Cost
<1>6. Summed
  <2>1. Stored(0) = 0
    BY PowersOfTwo DEF Stored, Half
  <2> QED
    BY <1>1, <1>5, <2>1 DEF Summed, Unset
<1>7. Tightened /\ PlacedAsPriced
  BY <1>1 DEF Tightened, PlacedAsPriced, Placed
<1> QED
  BY <1>2, <1>4, <1>6, <1>7 DEF IInv

\* What appending a ticket for seat s to the cart does to the tickets of each
\* category and to their cost.
LEMMA OneMoreTicket ==
    ASSUME Types, Counted, Summed, NEW s \in Seat, cart' = Append(cart, s)
    PROVE  /\ cart' \in Seq(Seat) /\ cart' # <<>>
           /\ DOMAIN cart' = DOMAIN cart \cup {Len(cart) + 1}
           /\ Len(cart) + 1 \notin DOMAIN cart
           /\ \A i \in DOMAIN cart : cart'[i] = cart[i]
           /\ cart'[Len(cart) + 1] = s
           /\ \A c \in Category :
                 Tickets(c)' = IF c = CategoryOf[s] THEN Tickets(c) \cup {Len(cart) + 1} ELSE Tickets(c)
           /\ IsFiniteSet(Cents)'
           /\ Cost' = Cost + PriceOf[CategoryOf[s]].cents
<1> USE ConstantsAssumption
<1>0. Len(cart) \in Nat /\ DOMAIN cart = 1 .. Len(cart)
  BY DEF Types
<1> PICK k \in Nat : k = Len(cart) + 1
  BY <1>0
<1>1. /\ cart' \in Seq(Seat) /\ cart' # <<>>
      /\ DOMAIN cart' = DOMAIN cart \cup {k}
      /\ k \notin DOMAIN cart
      /\ \A i \in DOMAIN cart : cart'[i] = cart[i]
      /\ cart'[k] = s
  <2>1. cart' \in Seq(Seat) /\ Len(cart') = k /\ DOMAIN cart' = 1 .. k
    BY DEF Types
  <2>2. \A i \in 1 .. k : cart'[i] = IF i = k THEN s ELSE cart[i]
    BY DEF Types
  <2> QED
    BY <1>0, <2>1, <2>2
<1>2. ASSUME NEW c \in Category
      PROVE  Tickets(c)' = IF c = CategoryOf[s] THEN Tickets(c) \cup {k} ELSE Tickets(c)
  BY <1>1 DEF Tickets
<1>3. /\ \A i \in DOMAIN cart : Price(i)' = Price(i)
      /\ Price(k)' = PriceOf[CategoryOf[s]]
  BY <1>1 DEF Price
<1> DEFINE price == PriceOf[CategoryOf[s]].cents
           new == {k} \X (1 .. price)
<1>4. price \in Nat
  <2>1. CategoryOf[s] \in Category
    OBVIOUS
  <2> QED
    BY <2>1, PowersOfTwo
<1>5. Cents' = Cents \cup new
  BY <1>1, <1>3 DEF Cents
<1> HIDE DEF price
<1>6. Cents \cap new = {}
  BY <1>1 DEF Cents
<1>7. IsFiniteSet(new) /\ Cardinality(new) = price
  <2>1. IsFiniteSet({k}) /\ Cardinality({k}) = 1
    BY FS_Singleton
  <2>2. IsFiniteSet(1 .. price) /\ Cardinality(1 .. price) = price
    <3>1. IsFiniteSet(1 .. price) /\ Cardinality(1 .. price) = IF 1 > price THEN 0 ELSE price - 1 + 1
      <4>1. 1 \in Int /\ price \in Int
        BY <1>4
      <4> QED
        BY ONLY <4>1, FS_Interval, Zenon
    <3> QED
      BY <1>4, <3>1
  <2>3. IsFiniteSet(new) /\ Cardinality(new) = 1 * price
    <3> DEFINE T == 1 .. price
    <3>1. IsFiniteSet(T) /\ Cardinality(T) = price
      BY <2>2
    <3> HIDE DEF T
    <3>2. IsFiniteSet({k} \X T) /\ Cardinality({k} \X T) = Cardinality({k}) * Cardinality(T)
      BY <2>1, <3>1, FS_Product
    <3> QED
      BY <2>1, <3>1, <3>2 DEF T
  <2> QED
    BY <1>4, <2>3
<1> HIDE DEF new
<1>8. IsFiniteSet(Cents') /\ Cardinality(Cents') = Cardinality(Cents) + price
  <2>1. IsFiniteSet(Cents) /\ Cardinality(Cents) \in Nat
    BY DEF Summed, Cost
  <2>2. /\ IsFiniteSet(Cents \cup new)
        /\ Cardinality(Cents \cup new) = Cardinality(Cents) + Cardinality(new) - Cardinality(Cents \cap new)
    BY <1>7, <2>1, FS_Union
  <2>3. Cardinality(Cents \cap new) = 0
    BY <1>6, FS_EmptySet
  <2> QED
    BY <1>4, <1>5, <1>7, <2>1, <2>2, <2>3
<1> QED
  BY <1>1, <1>2, <1>8 DEF Cost, price

\* A round of the loop keeps the inductive invariant.
LEMMA PriceItemIInv ==
    ASSUME IInv, NEW s \in Seat, PriceItem(s)
    PROVE  IInv'
<1> USE ConstantsAssumption DEF IInv
<1> PICK c \in Category : c = CategoryOf[s]
  OBVIOUS
<1> PICK k \in Nat : k = Len(cart) + 1
  BY DEF Types
<1> PICK price : price = PriceOf[c]
  OBVIOUS
<1>1. /\ order.status = "pricing" /\ order' = order
      /\ ~TooMany(c) /\ ~Mismatch(price)
      /\ cart' = Append(cart, s)
      /\ count' = [count EXCEPT ![c] = @ + 1]
      /\ subtotal' = Accumulate(price)
      /\ expiry' = Tightest(s)
  BY DEF PriceItem
<1>2. /\ cart' \in Seq(Seat) /\ cart' # <<>>
      /\ DOMAIN cart' = DOMAIN cart \cup {k}
      /\ k \notin DOMAIN cart
      /\ \A i \in DOMAIN cart : cart'[i] = cart[i]
      /\ cart'[k] = s
      /\ \A d \in Category : Tickets(d)' = IF d = c THEN Tickets(d) \cup {k} ELSE Tickets(d)
      /\ IsFiniteSet(Cents)'
      /\ Cost' = Cost + price.cents
  BY <1>1, OneMoreTicket
<1>3. price.cents \in Nat /\ price.cents < Half /\ Half \in Nat
  <2>1. price.cents \in 0 .. Half - 1 /\ Half \in Nat
    BY PowersOfTwo DEF Half
  <2> HIDE DEF Half
  <2> QED
    BY <2>1
<1> PICK m \in Nat : m = price.cents /\ m < Half
  BY <1>3
<1>12. Cost \in Nat /\ Cost' = Cost + m /\ Cost' \in Nat
  <2>1. Cost \in Nat
    BY DEF Summed
  <2>2. Cost' = Cost + m
    BY <1>2
  <2> QED
    BY ONLY <2>1, <2>2, m \in Nat
<1>4. Counted'
  <2> SUFFICES ASSUME NEW d \in Category
               PROVE  /\ IsFiniteSet(Tickets(d)')
                      /\ count'[d] = Cardinality(Tickets(d)')
                      /\ count'[d] <= MaxPerOrder[d]
    BY DEF Counted
  <2>1. IsFiniteSet(Tickets(d)) /\ count[d] = Cardinality(Tickets(d)) /\ count[d] <= MaxPerOrder[d]
    BY DEF Counted
  <2>2. CASE d = c
    <3>1. k \notin Tickets(d) /\ Tickets(d)' = Tickets(d) \cup {k}
      BY <1>2, <2>2 DEF Tickets
    <3>2. IsFiniteSet(Tickets(d)') /\ Cardinality(Tickets(d)') = Cardinality(Tickets(d)) + 1
      <4>1. /\ IsFiniteSet(Tickets(d) \cup {k})
            /\ Cardinality(Tickets(d) \cup {k}) = Cardinality(Tickets(d)) + 1
        BY ONLY <2>1, <3>1, FS_AddElement
      <4> QED
        BY ONLY <3>1, <4>1
    <3>3. count'[d] = count[d] + 1 /\ count[d] + 1 <= MaxPerOrder[d]
      BY <1>1, <2>2 DEF Types, TooMany
    <3> QED
      BY <2>1, <3>2, <3>3
  <2>3. CASE d # c
    <3>1. Tickets(d)' = Tickets(d) /\ count'[d] = count[d]
      BY <1>1, <1>2, <2>3 DEF Types
    <3> QED
      BY <2>1, <3>1
  <2> QED
    BY <2>2, <2>3
<1>5. /\ subtotal'.cents \in Int
      /\ Cost' < 2 * Half => subtotal'.cents = Stored(Cost')
      /\ subtotal'.currency = price.currency
  <2>1. CASE cart = <<>>
    <3>1. subtotal' = price
      BY <1>1, <2>1 DEF Accumulate
    <3>2. Cost = 0
      <4>1. Cents = {}
        BY <2>1 DEF Cents
      <4> QED
        BY <4>1, FS_EmptySet DEF Cost
    <3>3. Cost' = m /\ Stored(m) = m
      BY ONLY <1>12, <3>2, m \in Nat, m < Half DEF Stored
    <3> QED
      BY <3>1, <3>3
  <2>2. CASE cart # <<>>
    <3>1. /\ subtotal'.cents = Wrap(subtotal.cents + m)
          /\ subtotal'.currency = subtotal.currency /\ subtotal.currency = price.currency
      BY <1>1, <2>2 DEF Accumulate, Add, Mismatch
    <3>2. ASSUME Cost' < 2 * Half PROVE subtotal'.cents = Stored(Cost')
      <4>1. Cost < 2 * Half
        BY ONLY <1>3, <1>12, <3>2, m \in Nat
      <4>2. subtotal.cents = Stored(Cost)
        BY <4>1 DEF Summed
      <4> HIDE DEF Half
      <4>3. PICK n \in Int : /\ n = subtotal.cents + m /\ -Half <= n /\ n < 2 * Half
                             /\ Stored(n) = Stored(Cost')
        <5>1. CASE Cost < Half
          <6>1. subtotal.cents + m = Cost' /\ Cost' \in Int /\ -Half <= Cost'
            BY ONLY <1>3, <1>12, <4>2, <5>1, m \in Nat DEF Stored
          <6> QED
            BY <3>2, <6>1
        <5>2. CASE ~(Cost < Half)
          <6>1. PICK n \in Int : n = Cost - 2 * Half + m /\ -Half <= n /\ n < 0
            BY ONLY <1>3, <1>12, <3>2, <4>1, <5>2, m \in Nat
          <6>2. subtotal.cents + m = n
            BY ONLY <1>3, <1>12, <4>2, <5>2, <6>1, m \in Nat DEF Stored
          <6>3. Stored(n) = n /\ Stored(Cost') = n
            BY ONLY <1>3, <1>12, <5>2, <6>1, m \in Nat DEF Stored
          <6> QED
            BY ONLY <1>3, <6>1, <6>2, <6>3
        <5> QED
          BY <5>1, <5>2
      <4> QED
        BY <3>1, <4>3, WrapOnce
    <3>3. subtotal'.cents \in Int
      <4>1. \A n \in Int : Wrap(n) \in Int
        BY PowersOfTwo DEF Wrap
      <4>2. subtotal.cents + m \in Int
        BY DEF Types
      <4> QED
        BY ONLY <3>1, <4>1, <4>2
    <3> QED
      BY <3>1, <3>2, <3>3
  <2> QED
    BY <2>1, <2>2
<1>6. Summed'
  <2>1. ASSUME NEW i \in DOMAIN cart' PROVE Price(i)'.currency = subtotal'.currency
    <3>1. CASE i = k
      BY <1>2, <1>5, <3>1 DEF Price
    <3>2. CASE i \in DOMAIN cart
      <4>1. cart # <<>>
        BY <3>2
      <4>2. Price(i)' = Price(i) /\ Price(i).currency = subtotal.currency
        BY <1>2, <3>2 DEF Price, Summed
      <4>3. subtotal.currency = price.currency
        BY <1>1, <4>1 DEF Mismatch
      <4> QED
        BY <1>5, <4>2, <4>3
    <3> QED
      BY <1>2, <3>1, <3>2
  <2> QED
    BY <1>2, <1>5, <1>12, <2>1 DEF Summed, Stored, Half
<1>7. ExpiryOf[s] \in Nat \ {0}
  OBVIOUS
<1>8. expiry' \in Nat \ {0} /\ expiry' <= ExpiryOf[s] /\ (cart # <<>> => expiry' <= expiry)
      /\ (expiry' = ExpiryOf[s] \/ (cart # <<>> /\ expiry' = expiry))
  <2>1. CASE expiry = Never \/ ExpiryOf[s] < expiry
    BY <1>1, <1>7, <2>1 DEF Tightest, Types, Tightened, Never
  <2>2. CASE ~(expiry = Never \/ ExpiryOf[s] < expiry)
    <3>1. expiry' = expiry /\ expiry # Never /\ cart # <<>>
      BY <1>1, <2>2 DEF Tightest, Tightened
    <3> QED
      BY <1>7, <2>2, <3>1 DEF Types, Never
  <2> QED
    BY <2>1, <2>2
<1>9. Tightened'
  <2>1. ASSUME NEW i \in DOMAIN cart' PROVE expiry' <= ExpiryOf[cart'[i]]
    <3>1. CASE i = k
      BY <1>2, <1>8, <3>1
    <3>2. CASE i \in DOMAIN cart
      <4>1. cart # <<>> /\ cart[i] \in Seat /\ expiry <= ExpiryOf[cart[i]] /\ cart'[i] = cart[i]
        BY <1>2, <3>2 DEF Tightened, Types
      <4>2. PICK x \in Nat : x = ExpiryOf[cart[i]]
        BY <4>1
      <4>3. expiry \in Nat
        BY DEF Types
      <4>4. expiry' <= x
        BY ONLY <1>8, <4>1, <4>2, <4>3
      <4> QED
        BY ONLY <4>1, <4>2, <4>4
    <3> QED
      BY <1>2, <3>1, <3>2
  <2>2. \E i \in DOMAIN cart' : expiry' = ExpiryOf[cart'[i]]
    BY <1>2, <1>8 DEF Tightened
  <2> QED
    BY <1>2, <1>8, <2>1, <2>2 DEF Tightened, Never
<1>10. Types'
  <2>1. count' \in [Category -> Nat]
    BY <1>1 DEF Types
  <2> QED
    BY ONLY <1>2, <1>5, <1>8, <2>1 DEF Types
<1>11. PlacedAsPriced'
  BY <1>1 DEF PlacedAsPriced, Placed
<1> QED
  BY <1>4, <1>6, <1>9, <1>10, <1>11

\* Placing the order keeps the inductive invariant: adding zero fees changes nothing,
\* and a total that is not negative has not wrapped around.
LEMMA PlaceOrderIInv == ASSUME IInv, PlaceOrder PROVE IInv'
<1> USE DEF IInv
<1> PICK total : /\ total.cents = Wrap(subtotal.cents + 0) /\ total.currency = subtotal.currency
                 /\ total = Add(subtotal, [cents |-> 0, currency |-> subtotal.currency])
  BY DEF Add
<1>1. /\ cart # <<>>
      /\ cart' = cart /\ count' = count /\ subtotal' = subtotal /\ expiry' = expiry
      /\ \/ /\ order' = [status |-> "placed", total |-> total, expiresAt |-> expiry]
            /\ total.cents >= 0
         \/ order' = [status |-> "rejected"]
  BY DEF PlaceOrder
<1>2. Types'
  BY <1>1 DEF Types
<1>3. Counted'
  BY <1>1 DEF Counted, Tickets
<1>4. Cost' = Cost
  BY <1>1 DEF Cost, Cents, Price
<1>5. Summed'
  BY <1>1, <1>4 DEF Summed, Cents, Price, Half
<1>6. Tightened'
  BY <1>1 DEF Tightened, Never
<1>7. ASSUME Cost < 2 * Half, total.cents >= 0 PROVE total.cents = Cost
  <2>1. Half \in Nat \ {0}
    BY PowersOfTwo DEF Half
  <2>2. Cost \in Nat /\ subtotal.cents = Stored(Cost)
    BY <1>7 DEF Summed
  <2> HIDE DEF Half
  <2>3. CASE Cost < Half
    <3>1. subtotal.cents + 0 = Cost /\ Cost \in Int /\ -Half <= Cost /\ Stored(Cost) = Cost
      BY ONLY <2>1, <2>2, <2>3 DEF Stored
    <3> QED
      BY <1>7, <3>1, WrapOnce
  <2>4. CASE ~(Cost < Half)
    <3>1. PICK n \in Int : n = Cost - 2 * Half /\ -Half <= n /\ n < 0
      BY ONLY <1>7, <2>1, <2>2, <2>4
    <3>2. subtotal.cents + 0 = n /\ n < 2 * Half /\ Stored(n) = n
      BY ONLY <2>1, <2>2, <2>4, <3>1 DEF Stored
    <3>3. total.cents = n
      BY <3>1, <3>2, WrapOnce
    <3> QED
      BY ONLY <1>7, <3>1, <3>3
  <2> QED
    BY <2>3, <2>4
<1>8. PlacedAsPriced'
  <2>1. CASE /\ order' = [status |-> "placed", total |-> total, expiresAt |-> expiry]
             /\ total.cents >= 0
    BY <1>1, <1>4, <1>7, <2>1 DEF PlacedAsPriced, Placed, Half
  <2>2. CASE order' = [status |-> "rejected"]
    BY <2>2 DEF PlacedAsPriced, Placed
  <2> QED
    BY <1>1, <2>1, <2>2
<1> QED
  BY <1>2, <1>3, <1>5, <1>6, <1>8

\* A rejected item leaves the loop's variables alone.
LEMMA RejectItemIInv == ASSUME IInv, NEW s \in Seat, RejectItem(s) PROVE IInv'
<1> USE DEF IInv
<1>1. /\ cart' = cart /\ count' = count /\ subtotal' = subtotal /\ expiry' = expiry
      /\ order' = [status |-> "rejected"]
  BY DEF RejectItem
<1>2. Types' /\ Counted' /\ Tightened'
  BY <1>1 DEF Types, Counted, Tickets, Tightened, Never
<1>3. Summed'
  BY <1>1 DEF Summed, Cost, Cents, Price, Half
<1>4. PlacedAsPriced'
  BY <1>1 DEF PlacedAsPriced, Placed
<1> QED
  BY <1>2, <1>3, <1>4

-----------------------------------------------------------------------------
\* The inductive invariant of the pricing loop, for any cart.
THEOREM Invariance == Spec => []IInv
<1>1. ASSUME IInv, [Next]_vars PROVE IInv'
  <2>1. CASE PlaceOrder
    BY <1>1, <2>1, PlaceOrderIInv
  <2>2. CASE \E s \in Seat : PriceItem(s)
    BY <1>1, <2>2, PriceItemIInv
  <2>3. CASE \E s \in Seat : RejectItem(s)
    BY <1>1, <2>3, RejectItemIInv
  <2>4. CASE UNCHANGED vars
    <3> USE <1>1, <2>4 DEF IInv, vars
    <3>1. Types' /\ Counted' /\ Tightened'
      BY DEF Types, Counted, Tickets, Tightened, Never
    <3>2. Summed' /\ PlacedAsPriced'
      BY DEF Summed, Cost, Cents, Price, Half, PlacedAsPriced, Placed
    <3> QED
      BY <3>1, <3>2
  <2> QED
    BY <1>1, <2>1, <2>2, <2>3, <2>4 DEF Next
<1> QED
  BY <1>1, InitIInv, PTL DEF Spec

\* CreateOrder never places an order with more tickets of a category than its
\* max_per_order.
THEOREM LimitHolds == Spec => []LimitPerCategory
<1>1. IInv => LimitPerCategory
  BY DEF IInv, Counted, LimitPerCategory
<1> QED
  BY <1>1, Invariance, PTL

\* The expires_at of an order is the earliest hold_expires_at of its seats.
THEOREM ExpiresFirst == Spec => []ExpiresWithFirstHold
<1>1. ASSUME IInv, Placed PROVE order.expiresAt = Min({ExpiryOf[cart[i]] : i \in DOMAIN cart})
  <2> DEFINE E == {ExpiryOf[cart[i]] : i \in DOMAIN cart}
  <2>1. order.expiresAt = expiry /\ expiry \in E /\ \A y \in E : expiry <= y
    BY <1>1 DEF IInv, PlacedAsPriced, Tightened
  <2>2. E \subseteq Nat
    BY <1>1, ConstantsAssumption DEF IInv, Types
  <2> HIDE DEF E
  <2>3. Min(E) \in E /\ \A y \in E : Min(E) <= y
    BY <2>1 DEF Min
  <2>4. PICK m \in Nat : m = Min(E)
    BY <2>2, <2>3
  <2>5. m <= expiry /\ expiry <= m /\ expiry \in Nat
    BY ONLY <2>1, <2>2, <2>3, <2>4
  <2>6. Min(E) = expiry
    BY ONLY <2>4, <2>5
  <2> QED
    BY <2>1, <2>6 DEF E
<1>2. IInv => ExpiresWithFirstHold
  BY <1>1 DEF ExpiresWithFirstHold
<1> QED
  BY <1>2, Invariance, PTL

\* Whatever the prices, the order of the items and the width of an integer, the
\* total of a placed order is the cost of its tickets, provided that the cost is less
\* than 2 ^ Width: up to twice the range of Money.Add, the CHECK on the amounts
\* refuses what has wrapped around.
THEOREM TotalIsRight == Spec => [](Cost < 2 ^ Width => TotalIsSum)
<1>1. 2 ^ Width = 2 * Half
  BY PowersOfTwo DEF Half
<1>2. ASSUME IInv, Cost < 2 ^ Width, Placed
      PROVE  /\ order.total.cents = Cost
             /\ \A i \in DOMAIN cart : Price(i).currency = order.total.currency
  BY <1>1, <1>2 DEF IInv, PlacedAsPriced, Summed
<1>3. IInv => (Cost < 2 ^ Width => TotalIsSum)
  BY <1>2 DEF TotalIsSum
<1> QED
  BY <1>3, Invariance, PTL
=============================================================================
