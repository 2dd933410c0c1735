----------------------------- MODULE Catalogue ------------------------------
(***************************************************************************)
(* What is on offer: venues, seat categories, events, their ticket         *)
(* categories (prices), and the general-admission inventory that           *)
(* PublishEvent generates.  The admin handlers take the club from the      *)
(* token and every other id from the request; what keeps the clubs apart   *)
(* are the composite foreign keys (id, tenant_id) of the schema.           *)
(*                                                                         *)
(* PublishEvent is three statements: it reads the event, inserts the rows  *)
(* in one batch, and moves the event to 'on_sale'.  Two publishes may      *)
(* interleave, and each may fail between two statements.                   *)
(***************************************************************************)
EXTENDS Naturals

CONSTANTS
    Tenant, Venue, SeatCategory, Event, Category,  \* ids; Category: ticket categories
    Proc,      \* HTTP request handlers
    None,      \* no row
    Quantity,  \* quantities an admin may ask for
    MaxRows    \* bound: inventory rows of one event and ticket category

ASSUME ConstantsAssumption ==
    /\ Quantity \subseteq Nat \ {0} /\ MaxRows \in Nat
    /\ None \notin Tenant \cup Venue \cup SeatCategory \cup Event \cup Category

VARIABLES
    venue,    \* venue[v]: the club that owns it, None before it is created
    seatCat,  \* seatCat[k]: likewise
    event,    \* event[e]: [tenant, venue, status, window]
    cat,      \* cat[c]: [tenant, event, seatCat]
    rows,     \* rows[t, e, c]: inventory rows of club t for event e, category c
    held,     \* held[t, e, c]: how many of them are not available
    req       \* req[p]: the publish p is running

vars == <<venue, seatCat, event, cat, rows, held, req>>

Key == Tenant \X Event \X Category

NoEvent == [tenant |-> None, venue |-> None, status |-> "none", window |-> "before"]

NoCategory == [tenant |-> None, event |-> None, seatCat |-> None]

Idle == [pc |-> "idle", key |-> None, status |-> "none"]

Init ==
    /\ venue = [v \in Venue |-> None]
    /\ seatCat = [k \in SeatCategory |-> None]
    /\ event = [e \in Event |-> NoEvent]
    /\ cat = [c \in Category |-> NoCategory]
    /\ rows = [k \in Key |-> 0]
    /\ held = [k \in Key |-> 0]
    /\ req = [p \in Proc |-> Idle]

-----------------------------------------------------------------------------
\* FOREIGN KEY (parent_id, tenant_id) REFERENCES parent(id, tenant_id), where
\* owner is the tenant_id of the parent row.  Mutant: REFERENCES parent(id).
RowExists(owner, t) == owner # None

ForeignKey(owner, t) == owner = t

\* VenueRepo.CreateVenue
InsertVenue(t, v) == venue[v] = None /\ venue' = [venue EXCEPT ![v] = t]

\* SeatCategoryRepo.Create
InsertSeatCategory(t, k) == seatCat[k] = None /\ seatCat' = [seatCat EXCEPT ![k] = t]

\* EventRepo.Create
InsertEvent(t, e, row) ==
    /\ event[e] = NoEvent
    /\ ForeignKey(venue[row.venue], t)
    /\ event' = [event EXCEPT ![e] = row]

\* EventRepo.CreateTicketCategory; (event_id, seat_category_id) is UNIQUE.
InsertTicketCategory(t, c, row) ==
    /\ cat[c] = NoCategory
    /\ ForeignKey(event[row.event].tenant, t)
    /\ ForeignKey(seatCat[row.seatCat], t)
    /\ \A d \in Category : <<cat[d].event, cat[d].seatCat>> # <<row.event, row.seatCat>>
    /\ cat' = [cat EXCEPT ![c] = row]

CreateVenue(t, v) ==
    /\ InsertVenue(t, v)
    /\ UNCHANGED <<seatCat, event, cat, rows, held, req>>

CreateSeatCategory(t, k) ==
    /\ InsertSeatCategory(t, k)
    /\ UNCHANGED <<venue, event, cat, rows, held, req>>

\* An event starts as a draft, whatever its sales window.
CreateEvent(t, e, v) ==
    /\ InsertEvent(t, e, [tenant |-> t, venue |-> v, status |-> "draft", window |-> "before"])
    /\ UNCHANGED <<venue, seatCat, cat, rows, held, req>>

CreateTicketCategory(t, c, e, k) ==
    /\ InsertTicketCategory(t, c, [tenant |-> t, event |-> e, seatCat |-> k])
    /\ UNCHANGED <<venue, seatCat, event, rows, held, req>>

-----------------------------------------------------------------------------
\* EventRepo.GetByID is scoped to the club of the admin (404 otherwise).
GetEvent(t, e) == event[e].tenant = t

At(p, pc) == req[p].pc = pc

\* PublishEvent reads the event.  Mutant: the event goes on sale first.
PublishStatusFirst(p, t, e, c) ==
    /\ At(p, "idle")
    /\ GetEvent(t, e)
    /\ event' = [event EXCEPT ![e].status = "on_sale"]
    /\ req' = [req EXCEPT ![p] = [pc |-> "insert", key |-> <<t, e, c>>, status |-> "on_sale"]]
    /\ UNCHANGED <<venue, seatCat, cat, rows, held>>

PublishEvent(p, t, e, c) ==
    /\ At(p, "idle")
    /\ GetEvent(t, e)
    /\ req' = [req EXCEPT ![p] = [pc |-> "insert", key |-> <<t, e, c>>,
                                  status |-> event[e].status]]
    /\ UNCHANGED <<venue, seatCat, event, cat, rows, held>>

\* InventoryRepo.BulkCreate: one pipelined batch, so all the rows or none.  The
\* event goes on sale next, unless it was past that when it was read.
BulkCreate(p, n) ==
    LET k == req[p].key
        first == req[p].status \in {"draft", "scheduled"}
    IN  /\ At(p, "insert")
        /\ ForeignKey(event[k[2]].tenant, k[1])
        /\ ForeignKey(cat[k[3]].tenant, k[1])
        /\ rows[k] + n <= MaxRows
        /\ rows' = [rows EXCEPT ![k] = @ + n]
        /\ req' = [req EXCEPT ![p] = IF first THEN [@ EXCEPT !.pc = "update"] ELSE Idle]
        /\ UNCHANGED <<venue, seatCat, event, cat, held>>

\* EventRepo.Update writes the event back as it was read, but for the status.
UpdateEvent(p) ==
    /\ At(p, "update")
    /\ event' = [event EXCEPT ![req[p].key[2]].status = "on_sale"]
    /\ req' = [req EXCEPT ![p] = Idle]
    /\ UNCHANGED <<venue, seatCat, cat, rows, held>>

\* The next statement fails (a foreign key, the database) or the process dies:
\* there is no transaction around the three.
PublishFails(p) ==
    /\ ~At(p, "idle")
    /\ req' = [req EXCEPT ![p] = Idle]
    /\ UNCHANGED <<venue, seatCat, event, cat, rows, held>>

-----------------------------------------------------------------------------
\* A fan holds a row, and gives it back: the row's status alone decides.
HoldSeat(k) ==
    /\ held[k] < rows[k]
    /\ held' = [held EXCEPT ![k] = @ + 1]
    /\ UNCHANGED <<venue, seatCat, event, cat, rows, req>>

ReleaseSeat(k) ==
    /\ held[k] > 0
    /\ held' = [held EXCEPT ![k] = @ - 1]
    /\ UNCHANGED <<venue, seatCat, event, cat, rows, req>>

\* The clock reaches sales_start_at, and then sales_end_at.
Clock(e) ==
    /\ event[e].status # "none"
    /\ event[e].window # "closed"
    /\ event' = [event EXCEPT ![e].window = IF @ = "before" THEN "open" ELSE "closed"]
    /\ UNCHANGED <<venue, seatCat, cat, rows, held, req>>

AdminStep(t) ==
    \/ \E v \in Venue : CreateVenue(t, v) \/ \E e \in Event : CreateEvent(t, e, v)
    \/ \E k \in SeatCategory :
          \/ CreateSeatCategory(t, k)
          \/ \E c \in Category, e \in Event : CreateTicketCategory(t, c, e, k)
    \/ \E p \in Proc, e \in Event, c \in Category : PublishEvent(p, t, e, c)

Next ==
    \/ \E t \in Tenant : AdminStep(t)
    \/ \E p \in Proc : UpdateEvent(p) \/ PublishFails(p) \/ \E n \in Quantity : BulkCreate(p, n)
    \/ \E k \in Key : HoldSeat(k) \/ ReleaseSeat(k)
    \/ \E e \in Event : Clock(e)

Spec == Init /\ [][Next]_vars

-----------------------------------------------------------------------------
\* EventHandler.List, the public browse surface.
OnSaleEvents(t) == {e \in Event : event[e].tenant = t /\ event[e].status = "on_sale"}

\* EventRepo.ListTicketCategories, what CreateOrder prices an item from and what
\* EventHandler.Get shows.
ListTicketCategories(t, e) == {c \in Category : cat[c].tenant = t /\ cat[c].event = e}

\* InventoryRepo.CountByStatus
Available(t, e, c) == rows[<<t, e, c>>] - held[<<t, e, c>>]

\* Event.IsOnSale
IsOnSale(e) == event[e].status = "on_sale" /\ event[e].window = "open"

\* An event that fans can see on sale has tickets, whatever failed while it was
\* published and however many publishes ran at once.
OnSaleHasInventory ==
    \A t \in Tenant : \A e \in OnSaleEvents(t) : \E c \in Category : rows[<<t, e, c>>] > 0

\* "cross-tenant data leakage a schema-level impossibility": every row that any
\* admin request creates hangs below rows of the same club.
ParentsShareTenant ==
    /\ \A e \in Event : event[e].tenant # None => venue[event[e].venue] = event[e].tenant
    /\ \A c \in Category : cat[c].tenant # None =>
          event[cat[c].event].tenant = cat[c].tenant /\ seatCat[cat[c].seatCat] = cat[c].tenant
    /\ \A t \in Tenant, e \in Event, c \in Category :
          rows[<<t, e, c>>] > 0 => event[e].tenant = t /\ cat[c].tenant = t

-----------------------------------------------------------------------------
(***************************************************************************)
(* Sentences of the repository that the code does not keep; the README     *)
(* says how each is broken.                                                *)
(***************************************************************************)
\* PublishEvent "generates sellable general-admission inventory": every available
\* row has a price among the ticket categories of its event, so that CreateOrder
\* accepts it once it is held.
InventoryIsSellable ==
    \A t \in Tenant, e \in Event, c \in Category :
        Available(t, e, c) > 0 => c \in ListTicketCategories(t, e)

\* IsOnSale says "whether the event should currently accept purchase attempts":
\* a seat is held only while its event is on sale.
HeldWhileOnSale == [][\A k \in Key : HoldSeat(k) => IsOnSale(k[2])]_vars
=============================================================================
