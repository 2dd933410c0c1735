------------------------------ MODULE Pricing -------------------------------
(***************************************************************************)
(* The loop of CreateOrder that turns a cart of held seats into the        *)
(* amounts, the limits and the expiry of an order, with Money.Add as the   *)
(* fixed-width addition it is.  OrderFlow has the rest of CreateOrder.     *)
(***************************************************************************)
EXTENDS Integers, Sequences, FiniteSets, FiniteSetsExt

CONSTANTS
    Seat,         \* held inventory rows, named by numbers
    CategoryOf,   \* CategoryOf[s]: its event_ticket_category_id
    ExpiryOf,     \* ExpiryOf[s]: its hold_expires_at
    Category,     \* ticket categories of the seats' events
    PriceOf,      \* PriceOf[c]: [cents, currency]
    MaxPerOrder,  \* MaxPerOrder[c]
    Width,        \* bits of an integer: 64 in the code
    MaxItems      \* bound: items of a cart

ASSUME ConstantsAssumption ==
    /\ Width \in Nat \ {0} /\ MaxItems \in Nat
    /\ CategoryOf \in [Seat -> Category]
    /\ ExpiryOf \in [Seat -> Nat \ {0}]
    /\ MaxPerOrder \in [Category -> Nat]
    /\ \A c \in Category : PriceOf[c].cents \in 0 .. 2 ^ (Width - 1) - 1

\* Arithmetic of powers that the proofs use.
ASSUME PowersOfTwo ==
    /\ 2 ^ Width \in Nat /\ 2 ^ (Width - 1) \in Nat \ {0}
    /\ 2 ^ Width = 2 * 2 ^ (Width - 1)

VARIABLES
    cart,      \* the items priced so far
    count,     \* categoryCount
    subtotal,
    expiry,    \* tightestExpiry
    order      \* "pricing", "rejected", or the order with its amounts

vars == <<cart, count, subtotal, expiry, order>>

Unset == [cents |-> 0, currency |-> ""]

Never == 0

Init ==
    /\ cart = <<>>
    /\ count = [c \in Category |-> 0]
    /\ subtotal = Unset
    /\ expiry = Never
    /\ order = [status |-> "pricing"]

\* int64 addition wraps around.
Wrap(n) == ((n + 2 ^ (Width - 1)) % (2 ^ Width)) - 2 ^ (Width - 1)

\* Money.Add; different currencies are an error.
Add(a, b) == [cents |-> Wrap(a.cents + b.cents), currency |-> a.currency]

\* Mutants: one ticket too many; the last expiry wins.
OneMore(c) == count[c] > MaxPerOrder[c]

TooMany(c) == count[c] + 1 > MaxPerOrder[c]

Accumulate(price) == IF cart = <<>> THEN price ELSE Add(subtotal, price)

LastExpiry(s) == ExpiryOf[s]

Tightest(s) == IF expiry = Never \/ ExpiryOf[s] < expiry THEN ExpiryOf[s] ELSE expiry

\* Another currency than that of the items before.
Mismatch(price) == cart # <<>> /\ subtotal.currency # price.currency

\* One round of the loop, for an item whose category is found.
PriceItem(s) ==
    LET c == CategoryOf[s]
        price == PriceOf[c]
    IN  /\ order.status = "pricing"
        /\ Len(cart) < MaxItems
        /\ ~TooMany(c) /\ ~Mismatch(price)
        /\ cart' = Append(cart, s)
        /\ count' = [count EXCEPT ![c] = @ + 1]
        /\ subtotal' = Accumulate(price)
        /\ expiry' = Tightest(s)
        /\ UNCHANGED order

\* An error of the loop rolls the transaction back.
RejectItem(s) ==
    /\ order.status = "pricing"
    /\ Len(cart) < MaxItems
    /\ TooMany(CategoryOf[s]) \/ Mismatch(PriceOf[CategoryOf[s]])
    /\ order' = [status |-> "rejected"]
    /\ UNCHANGED <<cart, count, subtotal, expiry>>

\* After the last item: zero fees, the total, and the insert with its CHECK that
\* no amount is negative.  Mutant: the insert has no such CHECK.
PlaceUnchecked ==
    /\ order.status = "pricing"
    /\ cart # <<>>
    /\ order' = [status |-> "placed", expiresAt |-> expiry,
                 total |-> Add(subtotal, [cents |-> 0, currency |-> subtotal.currency])]
    /\ UNCHANGED <<cart, count, subtotal, expiry>>

PlaceOrder ==
    LET total == Add(subtotal, [cents |-> 0, currency |-> subtotal.currency]) IN
    /\ order.status = "pricing"
    /\ cart # <<>>
    /\ order' = IF total.cents >= 0
                THEN [status |-> "placed", total |-> total, expiresAt |-> expiry]
                ELSE [status |-> "rejected"]
    /\ UNCHANGED <<cart, count, subtotal, expiry>>

Next == PlaceOrder \/ \E s \in Seat : PriceItem(s) \/ RejectItem(s)

Spec == Init /\ [][Next]_vars

-----------------------------------------------------------------------------
Placed == order.status = "placed"

Price(i) == PriceOf[CategoryOf[cart[i]]]

\* What the tickets of the cart cost, cent by cent.
Cents == UNION {{i} \X (1 .. Price(i).cents) : i \in DOMAIN cart}

Cost == Cardinality(Cents)

\* The tickets of category c.
Tickets(c) == {i \in DOMAIN cart : CategoryOf[cart[i]] = c}

\* "Add returns the sum of two Money values": the total of an order that was
\* placed is what its tickets cost, in the currency of every one of them.  A sum
\* beyond the largest integer wraps around to a negative one, which the CHECK
\* refuses; it holds as long as the cost is below 2 ^ Width.
TotalIsSum ==
    Placed =>
        /\ order.total.cents = Cost
        /\ \A i \in DOMAIN cart : Price(i).currency = order.total.currency

\* No order has more tickets of a category than its limit, however the cart mixes
\* and repeats them.
LimitPerCategory ==
    Placed => \A c \in Category : Cardinality(Tickets(c)) <= MaxPerOrder[c]

\* expires_at "mirrors the tightest hold_expires_at among this order's items".
ExpiresWithFirstHold ==
    Placed => order.expiresAt = Min({ExpiryOf[cart[i]] : i \in DOMAIN cart})
=============================================================================
