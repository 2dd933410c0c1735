--------------------------- MODULE CatalogueProofs --------------------------
(***************************************************************************)
(* Proofs about Catalogue: the composite foreign keys keep the clubs       *)
(* apart, and an event on sale has inventory, for any number of clubs,     *)
(* venues, events, categories and concurrent publishes; and when what is   *)
(* published can be sold.                                                  *)
(***************************************************************************)
EXTENDS Catalogue, TLAPS

EventRow ==
    [tenant : Tenant \cup {None}, venue : Venue \cup {None},
     status : {"none", "draft", "on_sale"}, window : {"before", "open", "closed"}]

CategoryRow ==
    [tenant : Tenant \cup {None}, event : Event \cup {None},
     seatCat : SeatCategory \cup {None}]

Publish ==
    [pc : {"idle", "insert", "update"}, key : Key \cup {None},
     status : {"none", "draft", "on_sale"}]

Types ==
    /\ venue \in [Venue -> Tenant \cup {None}]
    /\ seatCat \in [SeatCategory -> Tenant \cup {None}]
    /\ event \in [Event -> EventRow]
    /\ cat \in [Category -> CategoryRow]
    /\ rows \in [Key -> Nat]
    /\ req \in [Proc -> Publish]

\* Parents of rows that exist, exist.
RowsAreComplete ==
    /\ \A e \in Event : event[e].tenant # None => event[e].venue \in Venue
    /\ \A e \in Event : event[e].status # "none" => event[e].tenant # None
    /\ \A c \in Category : cat[c].tenant # None =>
          cat[c].event \in Event /\ cat[c].seatCat \in SeatCategory

\* A publish under way is for an event of the admin's club, and one that is about
\* to write the status has inserted its rows.
PublishInHand ==
    \A p \in Proc : req[p].pc # "idle" =>
        /\ req[p].key \in Key
        /\ event[req[p].key[2]].tenant = req[p].key[1]
        /\ req[p].pc = "update" => rows[req[p].key] > 0

\* The inductive invariant.
IInv == Types /\ RowsAreComplete /\ PublishInHand /\ OnSaleHasInventory /\ ParentsShareTenant

-----------------------------------------------------------------------------
\* The empty schema satisfies the inductive invariant.
LEMMA InitIInv == Init => IInv
<1> SUFFICES ASSUME Init PROVE IInv
  OBVIOUS
<1> USE ConstantsAssumption DEF Init, NoEvent, NoCategory, Idle
<1>1. Types
  BY DEF Types, EventRow, CategoryRow, Publish
<1>2. RowsAreComplete /\ PublishInHand
  BY DEF RowsAreComplete, PublishInHand
<1>3. OnSaleHasInventory
  BY DEF OnSaleHasInventory, OnSaleEvents
<1>4. \A t \in Tenant, e \in Event, c \in Category : rows[<<t, e, c>>] = 0
  BY DEF Key
<1>5. ParentsShareTenant
  BY <1>4 DEF ParentsShareTenant
<1> QED
  BY <1>1, <1>2, <1>3, <1>5 DEF IInv

\* CreateVenue and CreateSeatCategory insert a parent: nothing referred to an id
\* that had no row.
LEMMA CreateParentIInv ==
    ASSUME IInv, NEW t \in Tenant,
           \/ \E v \in Venue : CreateVenue(t, v)
           \/ \E k \in SeatCategory : CreateSeatCategory(t, k)
    PROVE  IInv'
<1> USE ConstantsAssumption DEF IInv, CreateVenue, CreateSeatCategory, InsertVenue,
                                InsertSeatCategory
<1>1. UNCHANGED <<event, cat, rows, req>>
  OBVIOUS
<1>2. Types'
  BY DEF Types
<1>3. RowsAreComplete' /\ PublishInHand' /\ OnSaleHasInventory'
  BY <1>1 DEF RowsAreComplete, PublishInHand, OnSaleHasInventory, OnSaleEvents
<1>4. /\ \A v \in Venue : venue[v] # None => venue'[v] = venue[v]
      /\ \A k \in SeatCategory : seatCat[k] # None => seatCat'[k] = seatCat[k]
  BY DEF Types
<1>5. ParentsShareTenant'
  BY <1>1, <1>4 DEF ParentsShareTenant, RowsAreComplete
<1> QED
  BY <1>2, <1>3, <1>5

\* CreateEvent: the foreign key is checked against the venue, and no category, row
\* or publish referred to the new id.
LEMMA CreateEventIInv ==
    ASSUME IInv, NEW t \in Tenant, NEW e \in Event, NEW v \in Venue, CreateEvent(t, e, v)
    PROVE  IInv'
<1> USE ConstantsAssumption DEF IInv
<1> DEFINE row == [tenant |-> t, venue |-> v, status |-> "draft", window |-> "before"]
<1>1. /\ event[e] = NoEvent /\ venue[v] = t /\ event' = [event EXCEPT ![e] = row]
      /\ UNCHANGED <<venue, seatCat, cat, rows, req>>
  BY DEF CreateEvent, InsertEvent, ForeignKey
<1>2. row \in EventRow /\ row.tenant = t /\ row.venue = v /\ row.status = "draft"
  BY DEF EventRow
<1>3. event[e].tenant = None
  BY <1>1 DEF NoEvent
<1> HIDE DEF row
<1>4. \A d \in Event : event'[d] = IF d = e THEN row ELSE event[d]
  BY <1>1 DEF Types
<1>5. Types'
  BY <1>1, <1>2 DEF Types
<1>6. RowsAreComplete'
  BY <1>1, <1>2, <1>4 DEF RowsAreComplete
<1>7. PublishInHand'
  BY <1>1, <1>3, <1>4 DEF PublishInHand, Key
<1>8. OnSaleHasInventory'
  BY <1>1, <1>2, <1>4 DEF OnSaleHasInventory, OnSaleEvents
<1>9. ParentsShareTenant'
  <2>1. \A d \in Event : event'[d].tenant # None => venue[event'[d].venue] = event'[d].tenant
    BY <1>1, <1>2, <1>4 DEF ParentsShareTenant
  <2>2. \A c \in Category : cat[c].tenant # None =>
            event'[cat[c].event].tenant = cat[c].tenant
    BY <1>3, <1>4 DEF ParentsShareTenant, RowsAreComplete
  <2>3. \A d \in Event, c \in Category, s \in Tenant :
            rows[<<s, d, c>>] > 0 => event'[d].tenant = s /\ cat[c].tenant = s
    BY <1>3, <1>4 DEF ParentsShareTenant
  <2> QED
    BY <1>1, <2>1, <2>2, <2>3 DEF ParentsShareTenant
<1> QED
  BY <1>5, <1>6, <1>7, <1>8, <1>9

\* CreateTicketCategory: both foreign keys are checked, and no row referred to the
\* new id.
LEMMA CreateTicketCategoryIInv ==
    ASSUME IInv, NEW t \in Tenant, NEW c \in Category, NEW e \in Event, NEW k \in SeatCategory,
           CreateTicketCategory(t, c, e, k)
    PROVE  IInv'
<1> USE ConstantsAssumption DEF IInv
<1> DEFINE row == [tenant |-> t, event |-> e, seatCat |-> k]
<1>1. /\ cat[c] = NoCategory /\ event[e].tenant = t /\ seatCat[k] = t
      /\ cat' = [cat EXCEPT ![c] = row] /\ UNCHANGED <<venue, seatCat, event, rows, req>>
  BY DEF CreateTicketCategory, InsertTicketCategory, ForeignKey
<1>2. row \in CategoryRow /\ row.tenant = t /\ row.event = e /\ row.seatCat = k
  BY DEF CategoryRow
<1>3. cat[c].tenant = None
  BY <1>1 DEF NoCategory
<1> HIDE DEF row
<1>4. \A d \in Category : cat'[d] = IF d = c THEN row ELSE cat[d]
  BY <1>1 DEF Types
<1>5. Types'
  BY <1>1, <1>2 DEF Types
<1>6. RowsAreComplete'
  BY <1>1, <1>2, <1>4 DEF RowsAreComplete
<1>7. PublishInHand' /\ OnSaleHasInventory'
  BY <1>1 DEF PublishInHand, OnSaleHasInventory, OnSaleEvents
<1>8. ParentsShareTenant'
  <2>1. \A d \in Category : cat'[d].tenant # None =>
            /\ event[cat'[d].event].tenant = cat'[d].tenant
            /\ seatCat[cat'[d].seatCat] = cat'[d].tenant
    BY <1>1, <1>2, <1>4 DEF ParentsShareTenant
  <2>2. \A d \in Event, x \in Category, s \in Tenant :
            rows[<<s, d, x>>] > 0 => event[d].tenant = s /\ cat'[x].tenant = s
    BY <1>3, <1>4 DEF ParentsShareTenant
  <2> QED
    BY <1>1, <2>1, <2>2 DEF ParentsShareTenant
<1> QED
  BY <1>5, <1>6, <1>7, <1>8

\* Steps of a publish that write neither an event nor inventory: reading the event,
\* and failing.
LEMMA PublishReadIInv ==
    ASSUME IInv, NEW p \in Proc,
           \/ \E t \in Tenant, e \in Event, c \in Category : PublishEvent(p, t, e, c)
           \/ PublishFails(p)
    PROVE  IInv'
<1> USE ConstantsAssumption DEF IInv
<1>0. UNCHANGED <<venue, seatCat, event, cat, rows>>
  BY DEF PublishEvent, PublishFails
<1>1. PICK r \in Publish : /\ req' = [req EXCEPT ![p] = r] /\ r.pc \in {"idle", "insert"}
                           /\ r.pc = "insert" => /\ r.key \in Key
                                                 /\ event[r.key[2]].tenant = r.key[1]
  <2>1. CASE PublishFails(p)
    <3>1. Idle \in Publish /\ Idle.pc = "idle"
      BY DEF Idle, Publish
    <3> QED
      BY <2>1, <3>1 DEF PublishFails
  <2>2. CASE \E t \in Tenant, e \in Event, c \in Category : PublishEvent(p, t, e, c)
    <3>1. PICK t \in Tenant, e \in Event, c \in Category : PublishEvent(p, t, e, c)
      BY <2>2
    <3> DEFINE r == [pc |-> "insert", key |-> <<t, e, c>>, status |-> event[e].status]
    <3>2. event[e].tenant = t /\ req' = [req EXCEPT ![p] = r]
      BY <3>1 DEF PublishEvent, GetEvent
    <3>3. event[e].status \in {"none", "draft", "on_sale"}
      BY DEF Types, EventRow
    <3>4. <<t, e, c>> \in Key
      BY DEF Key
    <3>5. r \in Publish
      BY <3>3, <3>4 DEF Publish
    <3> QED
      BY <3>2, <3>4, <3>5
  <2> QED
    BY <2>1, <2>2
<1>2. Types'
  BY <1>0, <1>1 DEF Types
<1>3. RowsAreComplete' /\ OnSaleHasInventory' /\ ParentsShareTenant'
  BY <1>0 DEF RowsAreComplete, OnSaleHasInventory, OnSaleEvents, ParentsShareTenant
<1>4. \A q \in Proc : req'[q] = IF q = p THEN r ELSE req[q]
  BY <1>1 DEF Types
<1>5. PublishInHand'
  BY <1>0, <1>1, <1>4 DEF PublishInHand
<1> QED
  BY <1>2, <1>3, <1>5

\* The insert of the inventory: the foreign keys make the rows the club's own.
LEMMA BulkCreateIInv ==
    ASSUME IInv, NEW p \in Proc, NEW n \in Quantity, BulkCreate(p, n)
    PROVE  IInv'
<1> USE ConstantsAssumption DEF IInv
<1> DEFINE k == req[p].key
           r == IF req[p].status \in {"draft", "scheduled"}
                THEN [req[p] EXCEPT !.pc = "update"] ELSE Idle
<1>0. /\ req[p] \in Publish /\ req[p].pc = "insert" /\ k \in Key
      /\ event[k[2]].tenant = k[1] /\ cat[k[3]].tenant = k[1]
      /\ UNCHANGED <<venue, seatCat, event, cat>>
  BY DEF BulkCreate, At, PublishInHand, Types, ForeignKey
<1>1. rows' = [rows EXCEPT ![k] = @ + n] /\ req' = [req EXCEPT ![p] = r]
  BY DEF BulkCreate
<1>2. n \in Nat /\ n > 0
  OBVIOUS
<1>3. /\ rows' \in [Key -> Nat] /\ rows'[k] > 0
      /\ \A j \in Key : rows[j] > 0 => rows'[j] > 0
      /\ \A j \in Key : j # k => rows'[j] = rows[j]
  BY <1>0, <1>1, <1>2 DEF Types
<1>4. r \in Publish /\ (r.pc = "idle" \/ (r.pc = "update" /\ r.key = k))
  BY <1>0 DEF Publish, Idle
<1> HIDE DEF r
<1>5. Types'
  BY <1>0, <1>1, <1>3, <1>4 DEF Types
<1>6. RowsAreComplete'
  BY <1>0 DEF RowsAreComplete
<1>7. \A q \in Proc : req'[q] = IF q = p THEN r ELSE req[q]
  BY <1>1 DEF Types
<1>8. PublishInHand'
  BY <1>0, <1>3, <1>4, <1>7 DEF PublishInHand
<1>9. \A t \in Tenant, e \in Event, c \in Category : <<t, e, c>> \in Key
  BY DEF Key
<1>10. OnSaleHasInventory'
  BY <1>0, <1>3, <1>9 DEF OnSaleHasInventory, OnSaleEvents
<1>11. ParentsShareTenant'
  <2>1. \A t \in Tenant, e \in Event, c \in Category :
            rows'[<<t, e, c>>] > 0 => event[e].tenant = t /\ cat[c].tenant = t
    BY <1>0, <1>3, <1>9 DEF ParentsShareTenant
  <2> QED
    BY <1>0, <2>1 DEF ParentsShareTenant
<1> QED
  BY <1>5, <1>6, <1>8, <1>10, <1>11

\* The move to 'on_sale': the publish has inserted rows for this event, under the
\* event's own club.
LEMMA UpdateEventIInv ==
    ASSUME IInv, NEW p \in Proc, UpdateEvent(p)
    PROVE  IInv'
<1> USE ConstantsAssumption DEF IInv
<1> DEFINE k == req[p].key
<1>0. /\ k \in Key /\ k[2] \in Event /\ k[1] \in Tenant /\ k[3] \in Category
      /\ k = <<k[1], k[2], k[3]>> /\ rows[k] > 0 /\ event[k[2]].tenant = k[1]
      /\ UNCHANGED <<venue, seatCat, cat, rows>>
  BY DEF UpdateEvent, At, PublishInHand, Key
<1>1. /\ event' = [event EXCEPT ![k[2]].status = "on_sale"]
      /\ req' = [req EXCEPT ![p] = Idle]
  BY DEF UpdateEvent
<1>2. /\ \A e \in Event : event[e] \in EventRow /\ event' \in [Event -> EventRow]
      /\ \A e \in Event : /\ event'[e].tenant = event[e].tenant
                          /\ event'[e].venue = event[e].venue
                          /\ e # k[2] => event'[e].status = event[e].status
  <2>1. event \in [Event -> EventRow] /\ k[2] \in Event
    BY <1>0 DEF Types
  <2>2. PICK d, x : /\ d = k[2] /\ x = [event[d] EXCEPT !.status = "on_sale"]
                    /\ event' = [event EXCEPT ![d] = x]
    BY <1>1, <2>1
  <2>3. x \in EventRow /\ x.tenant = event[d].tenant /\ x.venue = event[d].venue
    BY ONLY <2>1, <2>2 DEF EventRow
  <2>4. event' \in [Event -> EventRow]
    BY ONLY <2>1, <2>2, <2>3
  <2>5. \A e \in Event : event'[e] = IF e = d THEN x ELSE event[e]
    BY ONLY <2>1, <2>2
  <2> QED
    BY ONLY <2>1, <2>2, <2>3, <2>4, <2>5
<1>3. Idle \in Publish /\ Idle.pc = "idle"
  BY DEF Idle, Publish
<1>4. Types'
  BY <1>0, <1>1, <1>2, <1>3 DEF Types
<1>5. RowsAreComplete'
  BY <1>0, <1>2 DEF RowsAreComplete
<1>6. \A q \in Proc : req'[q] = IF q = p THEN Idle ELSE req[q]
  BY <1>1 DEF Types
<1>7. PublishInHand'
  <2>1. \A j \in Key : j[2] \in Event
    BY DEF Key
  <2> QED
    BY <1>0, <1>2, <1>3, <1>6, <2>1 DEF PublishInHand
<1>8. OnSaleHasInventory'
  BY <1>0, <1>2 DEF OnSaleHasInventory, OnSaleEvents
<1>9. ParentsShareTenant'
  BY <1>0, <1>2 DEF ParentsShareTenant, RowsAreComplete
<1> QED
  BY <1>4, <1>5, <1>7, <1>8, <1>9

\* The clock moves the sales window of an event, which no part of the invariant
\* reads.
LEMMA ClockIInv ==
    ASSUME IInv, NEW d \in Event, Clock(d)
    PROVE  IInv'
<1> USE ConstantsAssumption DEF IInv
<1>1. UNCHANGED <<venue, seatCat, cat, rows, req>>
  BY DEF Clock
<1>2. PICK w \in {"open", "closed"} : event' = [event EXCEPT ![d].window = w]
  BY DEF Clock, Types
<1>3. /\ \A e \in Event : event[e] \in EventRow /\ event' \in [Event -> EventRow]
      /\ \A e \in Event : /\ event'[e].tenant = event[e].tenant
                          /\ event'[e].venue = event[e].venue
                          /\ event'[e].status = event[e].status
  BY <1>2 DEF Types, EventRow
<1>4. Types'
  BY <1>1, <1>3 DEF Types
<1>5. RowsAreComplete' /\ OnSaleHasInventory'
  BY <1>1, <1>3 DEF RowsAreComplete, OnSaleHasInventory, OnSaleEvents
<1>6. PublishInHand'
  <2>1. \A j \in Key : j[2] \in Event
    BY DEF Key
  <2> QED
    BY <1>1, <1>3, <2>1 DEF PublishInHand
<1>7. ParentsShareTenant'
  BY <1>1, <1>3 DEF ParentsShareTenant, RowsAreComplete
<1> QED
  BY <1>4, <1>5, <1>6, <1>7

\* Every step of admins, publishes, fans and the clock keeps the inductive
\* invariant; holds touch nothing it is about.
LEMMA NextIInv == IInv /\ [Next]_vars => IInv'
<1> SUFFICES ASSUME IInv, [Next]_vars PROVE IInv'
  OBVIOUS
<1>1. ASSUME UNCHANGED <<venue, seatCat, event, cat, rows, req>> PROVE IInv'
  <2>1. Types' /\ RowsAreComplete' /\ PublishInHand'
    BY <1>1 DEF IInv, Types, RowsAreComplete, PublishInHand
  <2>2. OnSaleHasInventory'
    BY <1>1 DEF IInv, OnSaleHasInventory, OnSaleEvents
  <2>3. ParentsShareTenant'
    BY <1>1 DEF IInv, ParentsShareTenant
  <2> QED
    BY <2>1, <2>2, <2>3 DEF IInv
<1>2. ASSUME NEW t \in Tenant, AdminStep(t) PROVE IInv'
  BY <1>2, CreateParentIInv, CreateEventIInv, CreateTicketCategoryIInv, PublishReadIInv
     DEF AdminStep
<1>3. ASSUME NEW k \in Key, HoldSeat(k) \/ ReleaseSeat(k) PROVE IInv'
  BY <1>1, <1>3 DEF HoldSeat, ReleaseSeat
<1>4. CASE UNCHANGED vars
  BY <1>1, <1>4 DEF vars
<1> QED
  BY <1>2, <1>3, <1>4, UpdateEventIInv, PublishReadIInv, BulkCreateIInv, ClockIInv DEF Next

\* The inductive invariant holds of every reachable state.
THEOREM Invariance == Spec => []IInv
  BY InitIInv, NextIInv, PTL DEF Spec

\* An event that EventHandler.List shows on sale has inventory rows, whatever failed
\* in PublishEvent and however many publishes of it ran at once.
THEOREM NothingOnSaleWithoutTickets == Spec => []OnSaleHasInventory
<1>1. IInv => OnSaleHasInventory
  BY DEF IInv
<1> QED
  BY <1>1, Invariance, PTL

\* The composite foreign keys suffice: every row hangs below rows of its own club,
\* although the admin handlers check none of the ids they are given.
THEOREM ClubsStayApart == Spec => []ParentsShareTenant
<1>1. IInv => ParentsShareTenant
  BY DEF IInv
<1> QED
  BY <1>1, Invariance, PTL
-----------------------------------------------------------------------------
(***************************************************************************)
(* When the generated inventory is sellable.                               *)
(***************************************************************************)

\* The category a publish names, once it exists, is one of the event it names.
OwnCategories ==
    \A p \in Proc : At(p, "insert") => cat[req[p].key[3]].event \in {None, req[p].key[2]}

\* Rows, also those that are held, have a price, and no more are held than there are.
RowsArePriced ==
    /\ held \in [Key -> Nat]
    /\ \A t \in Tenant, e \in Event, c \in Category :
          /\ held[<<t, e, c>>] <= rows[<<t, e, c>>]
          /\ rows[<<t, e, c>>] > 0 => cat[c].tenant = t /\ cat[c].event = e

\* A ticket category is inserted once and never changed.
LEMMA CategoriesStay ==
    ASSUME IInv, [Next]_vars, NEW c \in Category, cat[c].tenant \in Tenant
    PROVE  cat'[c] = cat[c]
<1>1. ASSUME NEW t \in Tenant, NEW d \in Category, NEW e \in Event, NEW k \in SeatCategory,
             CreateTicketCategory(t, d, e, k)
      PROVE  cat'[c] = cat[c]
  <2>1. /\ cat[d] = NoCategory
        /\ cat' = [cat EXCEPT ![d] = [tenant |-> t, event |-> e, seatCat |-> k]]
    BY <1>1 DEF CreateTicketCategory, InsertTicketCategory
  <2>2. c # d
    BY <2>1, ConstantsAssumption DEF NoCategory
  <2> QED
    BY <2>1, <2>2 DEF IInv, Types
<1>2. ASSUME cat' = cat PROVE cat'[c] = cat[c]
  BY <1>2
<1>3. ASSUME NEW t \in Tenant, AdminStep(t) PROVE cat'[c] = cat[c]
  BY <1>1, <1>2, <1>3, Zenon
     DEF AdminStep, CreateVenue, CreateEvent, CreateSeatCategory, PublishEvent
<1> QED
  BY <1>2, <1>3, Zenon
     DEF Next, UpdateEvent, PublishFails, BulkCreate, HoldSeat, ReleaseSeat, Clock, vars

\* What changes the rows of a category: BulkCreate, holds and releases.
LEMMA PricedStep ==
    ASSUME IInv, OwnCategories, RowsArePriced, [Next]_vars
    PROVE  RowsArePriced'
<1>0. /\ rows \in [Key -> Nat] /\ held \in [Key -> Nat]
      /\ \A k \in Key : held[k] <= rows[k]
      /\ \A k \in Key : rows[k] > 0 => cat[k[3]].tenant = k[1] /\ cat[k[3]].event = k[2]
  BY DEF IInv, Types, RowsArePriced, Key
<1>1. SUFFICES /\ held' \in [Key -> Nat]
               /\ \A k \in Key : held'[k] <= rows'[k]
               /\ \A k \in Key : rows'[k] > 0 => cat'[k[3]].tenant = k[1] /\ cat'[k[3]].event = k[2]
  BY DEF RowsArePriced, Key
<1>2. \A k \in Key : k[1] \in Tenant /\ k[2] \in Event /\ k[3] \in Category
  BY DEF Key
<1>3. ASSUME NEW k \in Key, cat[k[3]].tenant = k[1] PROVE cat'[k[3]] = cat[k[3]]
  BY <1>2, <1>3, CategoriesStay
<1>4. CASE rows' = rows /\ held' = held
  BY <1>0, <1>3, <1>4
<1>5. ASSUME NEW k \in Key, HoldSeat(k) \/ ReleaseSeat(k)
      PROVE  /\ held' \in [Key -> Nat] /\ rows' = rows /\ cat' = cat
             /\ \A j \in Key : held'[j] <= rows'[j]
  <2>1. CASE HoldSeat(k)
    BY <1>0, <2>1 DEF HoldSeat
  <2>2. CASE ReleaseSeat(k)
    BY <1>0, <2>2 DEF ReleaseSeat
  <2> QED
    BY <1>5, <2>1, <2>2
<1>6. CASE \E k \in Key : HoldSeat(k) \/ ReleaseSeat(k)
  BY <1>0, <1>5, <1>6
<1>7. ASSUME NEW p \in Proc, NEW n \in Quantity, BulkCreate(p, n)
      PROVE  /\ held' = held /\ cat' = cat
             /\ \A j \in Key : held[j] <= rows'[j]
             /\ \A j \in Key : rows'[j] > 0 => cat[j[3]].tenant = j[1] /\ cat[j[3]].event = j[2]
  <2>1. PICK k \in Key : k = req[p].key
    BY <1>7 DEF BulkCreate, At, IInv, PublishInHand
  <2>2. /\ held' = held /\ cat' = cat /\ rows' = [rows EXCEPT ![k] = @ + n]
        /\ cat[k[3]].tenant = k[1] /\ At(p, "insert")
    BY <1>7, <2>1 DEF BulkCreate, ForeignKey
  <2>3. cat[k[3]].event = k[2]
    <3>1. cat[k[3]].event \in {None, k[2]}
      BY <2>1, <2>2 DEF OwnCategories
    <3>2. cat[k[3]].event \in Event
      BY <1>2, <2>2, ConstantsAssumption DEF IInv, RowsAreComplete
    <3> QED
      BY <3>1, <3>2, ConstantsAssumption
  <2>4. n \in Nat
    BY ConstantsAssumption
  <2>5. \A j \in Key : rows'[j] = IF j = k THEN rows[j] + n ELSE rows[j]
    BY <1>0, <2>2
  <2>6. \A j \in Key : held[j] <= rows'[j]
    BY ONLY <1>0, <2>4, <2>5
  <2>7. \A j \in Key : rows'[j] > 0 => cat[j[3]].tenant = j[1] /\ cat[j[3]].event = j[2]
    BY ONLY <1>0, <2>2, <2>3, <2>5
  <2> QED
    BY <2>2, <2>6, <2>7
<1>8. CASE \E p \in Proc, n \in Quantity : BulkCreate(p, n)
  BY <1>0, <1>7, <1>8
<1>9. \/ rows' = rows /\ held' = held
      \/ \E k \in Key : HoldSeat(k) \/ ReleaseSeat(k)
      \/ \E p \in Proc, n \in Quantity : BulkCreate(p, n)
  BY Zenon DEF Next, AdminStep, CreateVenue, CreateEvent, CreateSeatCategory, CreateTicketCategory,
               PublishEvent, UpdateEvent, PublishFails, Clock, vars
<1> QED
  BY <1>4, <1>6, <1>8, <1>9

\* PublishEvent generates sellable inventory, as its comment says, whenever every
\* publish names a category of its own event: the foreign keys leave only that
\* much to the request.
THEOREM OwnCategoriesSell == Spec /\ []OwnCategories => []InventoryIsSellable
<1>1. Init => RowsArePriced
  BY DEF Init, RowsArePriced, Key
<1>2. IInv /\ OwnCategories /\ RowsArePriced /\ [Next]_vars => RowsArePriced'
  BY PricedStep
<1>3. IInv /\ RowsArePriced => InventoryIsSellable
  <2>1. SUFFICES ASSUME IInv, RowsArePriced, NEW t \in Tenant, NEW e \in Event, NEW c \in Category,
                        rows[<<t, e, c>>] - held[<<t, e, c>>] > 0
                 PROVE  c \in ListTicketCategories(t, e)
    BY DEF InventoryIsSellable, Available
  <2>2. rows[<<t, e, c>>] \in Nat /\ held[<<t, e, c>>] \in Nat
    BY <2>1 DEF IInv, Types, RowsArePriced, Key
  <2>3. rows[<<t, e, c>>] > 0
    BY ONLY <2>1, <2>2
  <2> QED
    BY <2>1, <2>3 DEF RowsArePriced, ListTicketCategories
<1> QED
  BY <1>1, <1>2, <1>3, Invariance, PTL DEF Spec
=============================================================================
