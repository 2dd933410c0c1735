---------------------------- MODULE WaitingRoom ----------------------------
(***************************************************************************)
(* The virtual queue in front of the seats: Join, Position and Admit of    *)
(* the Redis waiting room, the worker's admission service that decides how *)
(* many fans to let in, and the HTTP handlers that join the queue, ask for *)
(* one's place and hold a seat.                                            *)
(*                                                                         *)
(* A queue is a sorted set, here a function from fans to scores in which 0 *)
(* means "not a member".  Every Redis command and every SQL statement is a *)
(* step of its own, so other requests and other workers run in between.    *)
(* Seats are counted; SeatHold looks inside a hold, RateLimiter inside the *)
(* check that may refuse one, Catalogue inside the publication of an       *)
(* event.                                                                  *)
(***************************************************************************)
EXTENDS Integers, FiniteSets, FiniteSetsExt

CONSTANTS
    Fan,         \* fans
    Event,       \* events, numbers in the order of starts_at
    Tenant,      \* the active tenants, numbers in the order of their names
    TenantOf,    \* TenantOf[e]: the club that runs event e
    Proc,        \* request goroutines of the API instances
    Worker,      \* worker instances, each running one admission loop
    NoFan, NoEvent,
    Seats,       \* seats generated for an event
    MaxPerTick,  \* AdmissionMaxPerTick: fans admitted per event and tick
    ListLimit,   \* rows a List query returns (1000 in RunOnce)
    Faulty,      \* events some of whose calls may return an error
    CanCrash,    \* whether workers die and listings fail
    MaxSeq       \* bound: numbers drawn per event

ASSUME ConstantsAssumption ==
    /\ Event \subseteq Nat /\ Tenant \subseteq Nat
    /\ IsFiniteSet(Fan)
    /\ TenantOf \in [Event -> Tenant]
    /\ NoFan \notin Fan /\ NoEvent \notin Event
    /\ Seats \in Nat /\ MaxPerTick \in Nat \ {0} /\ ListLimit \in Nat \ {0}
    /\ Faulty \subseteq Event /\ CanCrash \in BOOLEAN /\ MaxSeq \in Nat

VARIABLES
    seq,       \* seq[e]: the counter INCR'd by Join
    queue,     \* queue[e][u]: the score of fan u in the sorted set, or 0
    admitted,  \* admitted[e]: the fans inside their admission window
    avail,     \* avail[e]: available rows of event_seat_inventory
    onSale,    \* events with status 'on_sale'
    req,       \* req[p]: where the request p is, and its local variables
    tick,      \* tick[w]: where the RunOnce of w is
    entered,   \* history: entered[e], the places ever taken in the queue
    served,    \* history: served[e], the places whose fan was marked admitted
    ahead      \* history: ahead[e][n], who was waiting when n was drawn and is still

roomVars == <<seq, queue, entered, ahead>>
seatVars == <<avail, onSale>>
vars == <<seq, queue, admitted, avail, onSale, req, tick, entered, served, ahead>>

Place == [fan : Fan, num : 1 .. MaxSeq]

\* ev: the event the request names.  row: the event of the inventory row it names.
Idle == [pc |-> "idle", ev |-> NoEvent, fan |-> NoFan, num |-> 0, row |-> NoEvent]

NoTick == [pc |-> "idle", tenants |-> {}, events |-> {}, ev |-> NoEvent, n |-> 0, batch |-> {}]

Init ==
    /\ seq = [e \in Event |-> 0]
    /\ queue = [e \in Event |-> [u \in Fan |-> 0]]
    /\ admitted = [e \in Event |-> {}]
    /\ avail = [e \in Event |-> 0]
    /\ onSale = {}
    /\ req = [p \in Proc |-> Idle]
    /\ tick = [w \in Worker |-> NoTick]
    /\ entered = [e \in Event |-> {}]
    /\ served = [e \in Event |-> {}]
    /\ ahead = [e \in Event |-> [n \in 1 .. MaxSeq |-> {}]]

Waiting(e) == {u \in Fan : queue[e][u] # 0}

\* ZRANK plus one; 0 stands for redis.Nil, which becomes ErrNotQueued.
Position(e, u) ==
    IF u \in Waiting(e)
    THEN Cardinality({v \in Waiting(e) : queue[e][v] <= queue[e][u]})
    ELSE 0

IsAdmitted(e, u) == u \in admitted[e]

At(p, pc) == req[p].pc = pc

Begin(p, pc, e, u, n, f) ==
    req' = [req EXCEPT ![p] = [pc |-> pc, ev |-> e, fan |-> u, num |-> n, row |-> f]]

Answer(p) == req' = [req EXCEPT ![p] = Idle]

-----------------------------------------------------------------------------
(***************************************************************************)
(* Join: INCR, ZADD NX, ZRANK.                                             *)
(***************************************************************************)

JoinQueue(p, e, u) ==
    /\ At(p, "idle")
    /\ seq[e] < MaxSeq
    /\ seq' = [seq EXCEPT ![e] = @ + 1]
    /\ ahead' = [ahead EXCEPT ![e][seq[e] + 1] = Waiting(e)]
    /\ Begin(p, "zadd", e, u, seq[e] + 1, NoEvent)
    /\ UNCHANGED <<queue, admitted, seatVars, tick, entered, served>>

\* Mutant: ZADD without NX moves a fan who joins again.
ZAdd(p) ==
    LET r == req[p] IN
    /\ At(p, "zadd")
    /\ queue' = [queue EXCEPT ![r.ev][r.fan] = r.num]
    /\ entered' = [entered EXCEPT ![r.ev] = @ \cup {[fan |-> r.fan, num |-> r.num]}]
    /\ req' = [req EXCEPT ![p].pc = "rank", ![p].num = 0]
    /\ UNCHANGED <<seq, admitted, seatVars, tick, served, ahead>>

ZAddNX(p) ==
    LET r == req[p] IN
    /\ At(p, "zadd")
    /\ \/ /\ r.fan \notin Waiting(r.ev)
          /\ queue' = [queue EXCEPT ![r.ev][r.fan] = r.num]
          /\ entered' = [entered EXCEPT ![r.ev] = @ \cup {[fan |-> r.fan, num |-> r.num]}]
       \/ /\ r.fan \in Waiting(r.ev)
          /\ UNCHANGED <<queue, entered>>
    /\ req' = [req EXCEPT ![p].pc = "rank", ![p].num = 0]
    /\ UNCHANGED <<seq, admitted, seatVars, tick, served, ahead>>

\* Join's own call of Position.  ErrNotQueued is an error like any other here, and
\* the handler answers 500.
JoinAnswer(p) ==
    /\ At(p, "rank")
    /\ Answer(p)
    /\ UNCHANGED <<roomVars, admitted, seatVars, tick, served>>

-----------------------------------------------------------------------------
(***************************************************************************)
(* QueueStatus: EXISTS, then ZRANK.                                        *)
(***************************************************************************)

\* A fan inside the admission window is told so at once, which changes nothing.
QueueStatus(p, e, u) ==
    /\ At(p, "idle")
    /\ ~IsAdmitted(e, u)
    /\ Begin(p, "status", e, u, 0, NoEvent)
    /\ UNCHANGED <<roomVars, admitted, seatVars, tick, served>>

\* The answer is the position, or 404 for ErrNotQueued.
QueueStatusPosition(p) ==
    /\ At(p, "status")
    /\ Answer(p)
    /\ UNCHANGED <<roomVars, admitted, seatVars, tick, served>>

-----------------------------------------------------------------------------
(***************************************************************************)
(* The seats, and HoldSeat behind the waiting room.                        *)
(***************************************************************************)

\* PublishEvent generates the rows and puts the event on sale.
PublishEvent(e) ==
    /\ e \notin onSale
    /\ onSale' = onSale \cup {e}
    /\ avail' = [avail EXCEPT ![e] = Seats]
    /\ UNCHANGED <<roomVars, admitted, req, tick, served>>

\* Mutant of HoldSeat: the admission checked is that to the event of the row.
HoldSeatOfRow(p, e, u, f) ==
    /\ At(p, "idle")
    /\ IsAdmitted(f, u)
    /\ Begin(p, "hold", e, u, 0, f)
    /\ UNCHANGED <<roomVars, admitted, seatVars, tick, served>>

\* The request names an event e and an inventory row, here by its event f; e is
\* what the admission check is about.  ErrNotAdmitted changes nothing.
HoldSeat(p, e, u, f) ==
    /\ At(p, "idle")
    /\ IsAdmitted(e, u)
    /\ Begin(p, "hold", e, u, 0, f)
    /\ UNCHANGED <<roomVars, admitted, seatVars, tick, served>>

\* The compare-and-swap takes a seat, or the request is refused: by the rate
\* limiter, by the lock, or because no seat is left.  Mutant: it never fails.
TakeSeatBlindly(p) ==
    LET f == req[p].row IN
    /\ At(p, "hold")
    /\ avail' = [avail EXCEPT ![f] = @ - 1]
    /\ Answer(p)
    /\ UNCHANGED <<roomVars, admitted, onSale, tick, served>>

TakeSeat(p) ==
    LET f == req[p].row IN
    /\ At(p, "hold")
    /\ \/ /\ avail[f] > 0
          /\ avail' = [avail EXCEPT ![f] = @ - 1]
          /\ Answer(p)
       \/ /\ Answer(p)
          /\ UNCHANGED avail
    /\ UNCHANGED <<roomVars, admitted, onSale, tick, served>>

\* A hold is released or swept.
SeatReturns(e) ==
    /\ e \in onSale
    /\ avail[e] < Seats
    /\ avail' = [avail EXCEPT ![e] = @ + 1]
    /\ UNCHANGED <<roomVars, admitted, onSale, req, tick, served>>

\* The admission key's TTL runs out.
AdmissionExpires(e, u) ==
    /\ u \in admitted[e]
    /\ admitted' = [admitted EXCEPT ![e] = @ \ {u}]
    /\ UNCHANGED <<roomVars, seatVars, req, tick, served>>

-----------------------------------------------------------------------------
(***************************************************************************)
(* RunOnce of the admission service: the active tenants, for each of them  *)
(* its events on sale, for each of these admitForEvent.  An event whose    *)
(* calls fail is logged and skipped.                                       *)
(***************************************************************************)

\* ORDER BY ... LIMIT ListLimit OFFSET 0
FirstRows(S) == {x \in S : Cardinality({y \in S : y < x}) < ListLimit}

EventsOnSale(t) == FirstRows({e \in onSale : TenantOf[e] = t})

TickAt(w, pc) == tick[w].pc = pc

\* The rest of the tick when the event at hand is done with.
Skip(w) == [tick[w] EXCEPT !.pc = "next", !.events = @ \ {tick[w].ev}, !.ev = NoEvent,
                           !.n = 0, !.batch = {}]

RunOnce(w) ==
    /\ TickAt(w, "idle")
    /\ tick' = [tick EXCEPT ![w] = [NoTick EXCEPT !.pc = "next", !.tenants = FirstRows(Tenant)]]
    /\ UNCHANGED <<roomVars, admitted, seatVars, req, served>>

NextTenant(w) ==
    /\ TickAt(w, "next") /\ tick[w].events = {} /\ tick[w].tenants # {}
    /\ tick' = [tick EXCEPT ![w].tenants = @ \ {Min(@)},
                            ![w].events = EventsOnSale(Min(tick[w].tenants))]
    /\ UNCHANGED <<roomVars, admitted, seatVars, req, served>>

\* The listing of a tenant's events returns an error, which is logged.
ListEventsFails(w) ==
    /\ CanCrash
    /\ TickAt(w, "next") /\ tick[w].events = {} /\ tick[w].tenants # {}
    /\ tick' = [tick EXCEPT ![w].tenants = @ \ {Min(@)}]
    /\ UNCHANGED <<roomVars, admitted, seatVars, req, served>>

TickEnds(w) ==
    /\ TickAt(w, "next") /\ tick[w].events = {} /\ tick[w].tenants = {}
    /\ tick' = [tick EXCEPT ![w] = NoTick]
    /\ UNCHANGED <<roomVars, admitted, seatVars, req, served>>

\* admitForEvent reads the queue's length; an empty queue is done.
QueueLength(w) ==
    LET e == Min(tick[w].events)
        n == Cardinality(Waiting(e))
    IN
    /\ TickAt(w, "next") /\ tick[w].events # {}
    /\ tick' = [tick EXCEPT ![w] =
                   IF n = 0 THEN [@ EXCEPT !.events = tick[w].events \ {e}]
                            ELSE [@ EXCEPT !.pc = "count", !.ev = e, !.n = n]]
    /\ UNCHANGED <<roomVars, admitted, seatVars, req, served>>

min64(a, b, c) == Min({a, b, c})

\* CountByStatus, and how many fans to admit.
CountByStatus(w) ==
    LET e == tick[w].ev IN
    /\ TickAt(w, "count")
    /\ tick' = [tick EXCEPT ![w] =
                   IF avail[e] = 0 THEN Skip(w)
                   ELSE [@ EXCEPT !.pc = "pop", !.n = min64(tick[w].n, avail[e], MaxPerTick)]]
    /\ UNCHANGED <<roomVars, admitted, seatVars, req, served>>

\* The n lowest scores of the queue.
Front(e, n) ==
    {[fan |-> u, num |-> queue[e][u]] : u \in {v \in Waiting(e) : Position(e, v) <= n}}

FansOf(batch) == {b.fan : b \in batch}

\* Mutant: ZRANGE reads the front of the queue, and removes nothing.
ZRange(w) ==
    LET e == tick[w].ev
        batch == Front(e, tick[w].n)
    IN
    /\ TickAt(w, "pop")
    /\ tick' = [tick EXCEPT ![w] = IF batch = {} THEN Skip(w)
                                   ELSE [@ EXCEPT !.pc = "mark", !.n = 0, !.batch = batch]]
    /\ UNCHANGED <<roomVars, admitted, seatVars, req, served>>

\* Mutant: one more is popped than is marked.
ZPopMinOneMore(w) ==
    LET e == tick[w].ev
        batch == Front(e, tick[w].n)
        gone == FansOf(Front(e, tick[w].n + 1))
    IN
    /\ TickAt(w, "pop")
    /\ queue' = [queue EXCEPT ![e] = [u \in Fan |-> IF u \in gone THEN 0 ELSE @[u]]]
    /\ ahead' = [ahead EXCEPT ![e] = [n \in 1 .. MaxSeq |-> @[n] \ gone]]
    /\ tick' = [tick EXCEPT ![w] = IF batch = {} THEN Skip(w)
                                   ELSE [@ EXCEPT !.pc = "mark", !.n = 0, !.batch = batch]]
    /\ UNCHANGED <<seq, entered, admitted, seatVars, req, served>>

ZPopMin(w) ==
    LET e == tick[w].ev
        batch == Front(e, tick[w].n)
    IN
    /\ TickAt(w, "pop")
    /\ queue' = [queue EXCEPT ![e] = [u \in Fan |-> IF u \in FansOf(batch) THEN 0 ELSE @[u]]]
    /\ ahead' = [ahead EXCEPT ![e] = [n \in 1 .. MaxSeq |-> @[n] \ FansOf(batch)]]
    /\ tick' = [tick EXCEPT ![w] = IF batch = {} THEN Skip(w)
                                   ELSE [@ EXCEPT !.pc = "mark", !.n = 0, !.batch = batch]]
    /\ UNCHANGED <<seq, entered, admitted, seatVars, req, served>>

\* SET for the places of S, which is all of the batch when the pipeline succeeds.
MarkAdmitted(w, S) ==
    LET e == tick[w].ev IN
    /\ admitted' = [admitted EXCEPT ![e] = @ \cup FansOf(S)]
    /\ served' = [served EXCEPT ![e] = @ \cup S]
    /\ tick' = [tick EXCEPT ![w] = Skip(w)]
    /\ UNCHANGED <<roomVars, seatVars, req>>

Admit(w) ==
    /\ TickAt(w, "mark")
    /\ MarkAdmitted(w, tick[w].batch)

\* A call for this event returns an error.  A pipeline that fails may have set
\* some of its keys; the popped fans are not put back.  Mutant: the error ends
\* the tick.
EventFailsTick(w) ==
    /\ \/ /\ tick[w].ev \in Faulty
          /\ tick' = [tick EXCEPT ![w] = NoTick]
          /\ UNCHANGED <<admitted, served>>
       \/ /\ TickAt(w, "next") /\ tick[w].events # {} /\ Min(tick[w].events) \in Faulty
          /\ tick' = [tick EXCEPT ![w] = NoTick]
          /\ UNCHANGED <<admitted, served>>
    /\ UNCHANGED <<roomVars, seatVars, req>>

EventFails(w) ==
    \/ /\ tick[w].ev \in Faulty
       /\ \E S \in SUBSET tick[w].batch : MarkAdmitted(w, S)
    \/ /\ TickAt(w, "next") /\ tick[w].events # {} /\ Min(tick[w].events) \in Faulty
       /\ tick' = [tick EXCEPT ![w].events = @ \ {Min(@)}]
       /\ UNCHANGED <<roomVars, admitted, seatVars, req, served>>

\* The worker process dies and is started again.
WorkerCrash(w) ==
    /\ CanCrash
    /\ ~TickAt(w, "idle")
    /\ tick' = [tick EXCEPT ![w] = NoTick]
    /\ UNCHANGED <<roomVars, admitted, seatVars, req, served>>

-----------------------------------------------------------------------------
WorkerStep(w) ==
    \/ RunOnce(w) \/ NextTenant(w) \/ TickEnds(w)
    \/ QueueLength(w) \/ CountByStatus(w) \/ ZPopMin(w) \/ Admit(w)
    \/ EventFails(w)

Next ==
    \/ \E p \in Proc, e \in Event, u \in Fan :
          JoinQueue(p, e, u) \/ QueueStatus(p, e, u) \/ \E f \in Event : HoldSeat(p, e, u, f)
    \/ \E p \in Proc :
          ZAddNX(p) \/ JoinAnswer(p) \/ QueueStatusPosition(p) \/ TakeSeat(p)
    \/ \E e \in Event : PublishEvent(e) \/ SeatReturns(e)
    \/ \E e \in Event, u \in Fan : AdmissionExpires(e, u)
    \/ \E w \in Worker : WorkerStep(w) \/ ListEventsFails(w) \/ WorkerCrash(w)

Spec == Init /\ [][Next]_vars

\* The ticker of runAdmissionLoop fires again and again, and a tick ends.
FairSpec == Spec /\ \A w \in Worker : WF_vars(WorkerStep(w))

-----------------------------------------------------------------------------
\* Types and bounds; in particular the compare-and-swap of a hold never takes more
\* seats than PublishEvent generated.
TypeOK ==
    /\ seq \in [Event -> 0 .. MaxSeq]
    /\ queue \in [Event -> [Fan -> 0 .. MaxSeq]]
    /\ admitted \in [Event -> SUBSET Fan]
    /\ avail \in [Event -> 0 .. Seats]
    /\ onSale \subseteq Event
    /\ req \in [Proc -> [pc : {"idle", "zadd", "rank", "status", "hold"},
                         ev : Event \cup {NoEvent}, fan : Fan \cup {NoFan}, num : 0 .. MaxSeq,
                         row : Event \cup {NoEvent}]]
    /\ tick \in [Worker -> [pc : {"idle", "next", "count", "pop", "mark"},
                            tenants : SUBSET Tenant, events : SUBSET Event,
                            ev : Event \cup {NoEvent}, n : Nat, batch : SUBSET Place]]
    /\ entered \in [Event -> SUBSET Place]
    /\ served \in [Event -> SUBSET Place]
    /\ ahead \in [Event -> [1 .. MaxSeq -> SUBSET Fan]]

Queued(e) == {[fan |-> u, num |-> queue[e][u]] : u \in Waiting(e)}

\* The places of event e that a worker has popped and not yet marked.
InFlight(e, w) == IF tick[w].ev = e THEN tick[w].batch ELSE {}

\* "exact FIFO ordering even across multiple app instances": whoever was in the
\* queue when a fan's Join began leaves it no later than that fan, however INCR
\* and ZADD of different requests interleave and however often somebody joins
\* again.
FirstComeFirstServed ==
    [][\A e \in Event, v \in Fan :
          v \in Waiting(e) /\ queue'[e][v] = 0 =>
              \A u \in ahead[e][queue[e][v]] : queue'[e][u] = 0]_vars

\* "concurrent Admit calls ... can never double-admit the same fan": a place in
\* the queue is waiting, or popped by one worker, or served, and only one of
\* these.
NoDoubleAdmit ==
    \A e \in Event :
        /\ Queued(e) \cap served[e] = {}
        /\ \A w \in Worker :
              /\ InFlight(e, w) \cap (Queued(e) \cup served[e]) = {}
              /\ \A x \in Worker \ {w} : InFlight(e, w) \cap InFlight(e, x) = {}

\* The places of event e that are waiting, about to be marked, or served.
Kept(e) == Queued(e) \cup served[e] \cup UNION {InFlight(e, w) : w \in Worker}

\* Admit "pops up to count fans ... and marks each as admitted": a place that was
\* taken is never lost, except in a step in which a call for the event fails or
\* the worker dies.
NobodyLost ==
    [][\A e \in Event :
          \/ Kept(e) \cup (entered'[e] \ entered[e]) \subseteq Kept(e)'
          \/ \E w \in Worker : EventFails(w) \/ WorkerCrash(w)]_vars

\* HoldSeat's first check: whoever gets a seat has waited in the queue of the event
\* the request named and was admitted from it, however long the request takes and
\* whatever else the fan queues for.
SeatsGoToAdmittedFans ==
    [][\A p \in Proc :
          TakeSeat(p) /\ avail' # avail => req[p].fan \in FansOf(served[req[p].ev])]_vars

\* "one bad event must never block admission for every other tenant", and "every
\* active tenant's on-sale events" are processed: a fan waiting for an event that
\* is on sale gets out of the queue, unless there is no seat.
WaitingEnds ==
    \A e \in Event \ Faulty, u \in Fan :
        (e \in onSale /\ u \in Waiting(e)) ~> (u \notin Waiting(e) \/ avail[e] = 0)

-----------------------------------------------------------------------------
(***************************************************************************)
(* Two sentences of the repository that the code does not keep; the README *)
(* says how each is broken.                                                *)
(***************************************************************************)

\* "ErrNotQueued is returned by QueueStatus when the caller has never joined the
\* waiting room for that event (or was already admitted ...)".
NotQueuedIsTrue ==
    [][\A p \in Proc :
          QueueStatusPosition(p) /\ Position(req[p].ev, req[p].fan) = 0 =>
              \/ req[p].fan \notin FansOf(entered[req[p].ev])
              \/ req[p].fan \in FansOf(served[req[p].ev])]_vars

\* Join "simply returns their current position": a Join whose commands all went
\* through does not answer with an error.
JoinReturnsPosition ==
    [][\A p \in Proc : JoinAnswer(p) => Position(req[p].ev, req[p].fan) # 0]_vars
=============================================================================
