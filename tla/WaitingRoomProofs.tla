------------------------ MODULE WaitingRoomProofs --------------------------
(***************************************************************************)
(* Proofs about WaitingRoom, for any fans, events, requests and workers,   *)
(* and for any failures of calls and of workers: the queue is first come,  *)
(* first served, no place in it is served twice, none is lost as long as   *)
(* nothing fails, and no tick takes more fans than it may.                 *)
(***************************************************************************)
EXTENDS WaitingRoom, FiniteSetTheorems, WellFoundedInduction, TLAPS

Request == [pc : {"idle", "zadd", "rank", "status", "hold"},
            ev : Event \cup {NoEvent}, fan : Fan \cup {NoFan}, num : 0 .. MaxSeq,
            row : Event \cup {NoEvent}]

Tick == [pc : {"idle", "next", "count", "pop", "mark"},
         tenants : SUBSET Tenant, events : SUBSET Event,
         ev : Event \cup {NoEvent}, n : Nat, batch : SUBSET Place]

\* A request that is under way names a fan and an event, a hold a row as well.
RequestOK(r) ==
    /\ r \in Request
    /\ r.pc # "idle" => r.ev \in Event /\ r.fan \in Fan
    /\ r.pc = "hold" => r.row \in Event

\* A worker is at an event from ZCARD on, and has a batch only between ZPOPMIN
\* and the pipeline of SETs.
TickOK(t) ==
    /\ t \in Tick
    /\ t.pc \in {"count", "pop", "mark"} => t.ev \in Event
    /\ t.pc # "mark" => t.batch = {}

Types ==
    /\ TypeOK
    /\ \A p \in Proc : RequestOK(req[p])
    /\ \A w \in Worker : TickOK(tick[w])

Joining(p, e) == At(p, "zadd") /\ req[p].ev = e

\* A number of INCR is used once: the number with which a request is about to ZADD
\* was drawn, no place has it, and no other request.
FreshNumbers ==
    \A e \in Event :
        /\ \A x \in entered[e] : x.num <= seq[e]
        /\ \A p \in Proc : Joining(p, e) =>
              /\ req[p].num \in 1 .. seq[e]
              /\ \A x \in entered[e] : x.num # req[p].num
              /\ \A q \in Proc \ {p} : Joining(q, e) => req[q].num # req[p].num

\* Whatever waits, is about to be marked or is served has entered the queue.
AllEntered ==
    \A e \in Event :
        /\ Queued(e) \subseteq entered[e] /\ served[e] \subseteq entered[e]
        /\ \A w \in Worker : InFlight(e, w) \subseteq entered[e]

\* Whoever was waiting when n was drawn, and still is, has a smaller number.
SmallerNumbers ==
    \A e \in Event, n \in 1 .. MaxSeq : \A u \in ahead[e][n] :
        queue[e][u] # 0 /\ queue[e][u] < n

\* Admission keys, and holds behind one, belong to fans served for that event.
AdmittedWereServed ==
    /\ \A e \in Event : admitted[e] \subseteq FansOf(served[e])
    /\ \A p \in Proc : At(p, "hold") => req[p].fan \in FansOf(served[req[p].ev])

\* The inductive invariant.
IInv ==
    /\ Types /\ FreshNumbers /\ AllEntered /\ SmallerNumbers /\ AdmittedWereServed
    /\ NoDoubleAdmit
-----------------------------------------------------------------------------
\* ORDER BY and the loops over rows take the least one first, and there is one.
LEMMA LeastRow ==
    ASSUME NEW S, S \subseteq Nat, S # {}
    PROVE  Min(S) \in S /\ \A y \in S : Min(S) <= y
<1>1. PICK x \in S : \A y \in S : <<y, x>> \notin OpToRel(<, Nat)
  BY NatLessThanWellFounded, WFMin, Zenon
<1>2. \A y \in S : y < x => <<y, x>> \in OpToRel(<, Nat)
  BY DEF OpToRel
<1>3. \A y \in S : ~(y < x)
  BY <1>1, <1>2, Zenon
<1>4. \A y \in S : x <= y
  BY <1>3
<1> QED
  BY <1>4, Zenon DEF Min

\* Queues are finite, so ZCARD and ZRANK are numbers.
LEMMA FiniteQueues ==
    ASSUME NEW S \in SUBSET Fan
    PROVE  IsFiniteSet(S) /\ Cardinality(S) \in Nat
BY ConstantsAssumption, FS_Subset, FS_CardinalityType

\* ZRANK follows the scores.
LEMMA PositionFollowsScore ==
    ASSUME TypeOK, NEW e \in Event, NEW u \in Waiting(e), NEW v \in Waiting(e),
           queue[e][u] <= queue[e][v]
    PROVE  /\ Position(e, u) \in Nat /\ Position(e, v) \in Nat
           /\ Position(e, u) <= Position(e, v)
<1> DEFINE Upto(x) == {y \in Waiting(e) : queue[e][y] <= queue[e][x]}
<1>1. \A x \in Waiting(e) : Upto(x) \in SUBSET Fan /\ Position(e, x) = Cardinality(Upto(x))
  BY DEF Waiting, Position
<1>2. Upto(u) \subseteq Upto(v)
  <2>1. SUFFICES ASSUME NEW y \in Waiting(e), queue[e][y] <= queue[e][u]
                 PROVE  queue[e][y] <= queue[e][v]
    OBVIOUS
  <2>2. queue[e] \in [Fan -> Nat] /\ u \in Fan /\ v \in Fan /\ y \in Fan
    BY ConstantsAssumption DEF TypeOK, Waiting
  <2>3. queue[e][u] \in Nat /\ queue[e][v] \in Nat /\ queue[e][y] \in Nat
    BY ONLY <2>2
  <2> QED
    BY ONLY <2>1, <2>3, queue[e][u] <= queue[e][v]
<1> HIDE DEF Upto
<1>3. IsFiniteSet(Upto(v)) /\ Cardinality(Upto(u)) \in Nat /\ Cardinality(Upto(v)) \in Nat
  BY <1>1, FiniteQueues
<1>4. Cardinality(Upto(u)) <= Cardinality(Upto(v))
  BY <1>2, <1>3, FS_Subset
<1> QED
  BY <1>1, <1>3, <1>4

-----------------------------------------------------------------------------
\* With empty queues and nothing under way the inductive invariant holds.
LEMMA InitIInv == Init => IInv
<1> SUFFICES ASSUME Init PROVE IInv
  OBVIOUS
<1> USE ConstantsAssumption DEF Init
<1>1. \A p \in Proc : req[p] = Idle /\ RequestOK(req[p])
  BY DEF Idle, RequestOK, Request
<1>2. \A w \in Worker : tick[w] = NoTick /\ TickOK(tick[w])
  BY DEF NoTick, TickOK, Tick
<1>3. TypeOK
  <2>1. req \in [Proc -> Request] /\ tick \in [Worker -> Tick]
    BY <1>1, <1>2 DEF RequestOK, TickOK
  <2>2. /\ seq \in [Event -> 0 .. MaxSeq]
        /\ queue \in [Event -> [Fan -> 0 .. MaxSeq]]
        /\ admitted \in [Event -> SUBSET Fan]
        /\ avail \in [Event -> 0 .. Seats]
        /\ onSale \subseteq Event
        /\ entered \in [Event -> SUBSET Place]
        /\ served \in [Event -> SUBSET Place]
        /\ ahead \in [Event -> [1 .. MaxSeq -> SUBSET Fan]]
    OBVIOUS
  <2> QED
    BY <2>1, <2>2 DEF TypeOK, Request, Tick
<1>4. \A e \in Event : Queued(e) = {} /\ served[e] = {} /\ entered[e] = {} /\ admitted[e] = {}
  BY DEF Queued, Waiting
<1>5. \A e \in Event, w \in Worker : InFlight(e, w) = {}
  BY <1>2 DEF InFlight, NoTick
<1>6. \A p \in Proc : ~At(p, "zadd") /\ ~At(p, "hold")
  BY <1>1 DEF At, Idle
<1>7. FreshNumbers /\ SmallerNumbers
  BY <1>4, <1>6 DEF FreshNumbers, Joining, SmallerNumbers
<1>8. AllEntered /\ AdmittedWereServed /\ NoDoubleAdmit
  BY <1>4, <1>5, <1>6 DEF AllEntered, AdmittedWereServed, NoDoubleAdmit
<1> QED
  BY <1>1, <1>2, <1>3, <1>7, <1>8 DEF IInv, Types

\* A step of a worker after which it has no batch: it reads tables and queues only,
\* or the worker dies.
LEMMA TickOnly ==
    ASSUME IInv, NEW w \in Worker, NEW t, TickOK(t), t.batch = {},
           tick' = [tick EXCEPT ![w] = t],
           UNCHANGED <<roomVars, admitted, seatVars, req, served>>
    PROVE  IInv'
<1> USE DEF roomVars, seatVars, IInv, Types
<1>1. tick \in [Worker -> Tick]
  BY DEF TypeOK, Tick
<1>2. tick'[w] = t /\ \A x \in Worker \ {w} : tick'[x] = tick[x]
  BY <1>1
<1>3. tick' \in [Worker -> Tick] /\ \A x \in Worker : TickOK(tick[x])'
  BY <1>1, <1>2 DEF TickOK
<1>4. \A p \in Proc : RequestOK(req[p])'
  OBVIOUS
<1>5. TypeOK'
  BY <1>3 DEF TypeOK, Tick
<1>6. \A e \in Event, x \in Worker : InFlight(e, x)' \subseteq InFlight(e, x)
  BY <1>2 DEF InFlight
<1>7. \A e \in Event : Queued(e)' = Queued(e)
  BY DEF Queued, Waiting
<1>8. FreshNumbers' /\ SmallerNumbers' /\ AdmittedWereServed'
  BY DEF FreshNumbers, Joining, At, SmallerNumbers, AdmittedWereServed
<1>9. AllEntered' /\ NoDoubleAdmit'
  BY <1>6, <1>7 DEF AllEntered, NoDoubleAdmit
<1> QED
  BY <1>3, <1>4, <1>5, <1>8, <1>9

\* A step of a request that leaves the queue alone, or a change to the seats.
LEMMA RequestOnly ==
    ASSUME IInv, NEW p \in Proc, NEW r, RequestOK(r), r.pc # "zadd",
           r.pc = "hold" => r.fan \in FansOf(served[r.ev]),
           req' = [req EXCEPT ![p] = r],
           avail' \in [Event -> 0 .. Seats], onSale' \subseteq Event,
           UNCHANGED <<roomVars, admitted, tick, served>>
    PROVE  IInv'
<1> USE DEF roomVars, IInv, Types
<1>1. req \in [Proc -> Request]
  BY DEF TypeOK, Request
<1>2. req'[p] = r /\ \A q \in Proc \ {p} : req'[q] = req[q]
  BY <1>1
<1>3. req' \in [Proc -> Request] /\ \A q \in Proc : RequestOK(req[q])'
  BY <1>1, <1>2 DEF RequestOK
<1>4. \A w \in Worker : TickOK(tick[w])'
  OBVIOUS
<1>5. TypeOK'
  BY <1>3 DEF TypeOK, Request
<1>6. \A q \in Proc, e \in Event : Joining(q, e)' => Joining(q, e) /\ q # p
  BY <1>2 DEF Joining, At
<1>7. FreshNumbers'
  BY <1>2, <1>6 DEF FreshNumbers
<1>8. AllEntered' /\ NoDoubleAdmit' /\ SmallerNumbers'
  BY DEF AllEntered, NoDoubleAdmit, SmallerNumbers, Queued, Waiting, InFlight
<1>9. AdmittedWereServed'
  BY <1>2 DEF AdmittedWereServed, At
<1> QED
  BY <1>3, <1>4, <1>5, <1>7, <1>8, <1>9
-----------------------------------------------------------------------------
\* PublishEvent and a hold that ends change the seats only.
LEMMA SeatsIInv ==
    ASSUME IInv, NEW e \in Event, PublishEvent(e) \/ SeatReturns(e)
    PROVE  IInv'
<1> USE DEF roomVars, IInv, Types
<1>1. avail' \in [Event -> 0 .. Seats] /\ onSale' \subseteq Event
  <2>1. CASE PublishEvent(e)
    BY <2>1, ConstantsAssumption DEF PublishEvent, TypeOK
  <2>2. CASE SeatReturns(e)
    BY <2>2, ConstantsAssumption DEF SeatReturns, TypeOK
  <2> QED
    BY <2>1, <2>2
<1>2. UNCHANGED <<seq, queue, entered, ahead, admitted, req, tick, served>>
  BY DEF PublishEvent, SeatReturns
<1>3. Types'
  BY <1>1, <1>2 DEF TypeOK
<1>4. FreshNumbers' /\ SmallerNumbers' /\ AdmittedWereServed'
  BY <1>2 DEF FreshNumbers, Joining, At, SmallerNumbers, AdmittedWereServed
<1>5. AllEntered' /\ NoDoubleAdmit'
  <2>1. \A f \in Event : Queued(f)' = Queued(f) /\ served'[f] = served[f] /\ entered'[f] = entered[f]
    BY <1>2, Zenon DEF Queued, Waiting
  <2>2. \A f \in Event, w \in Worker : InFlight(f, w)' = InFlight(f, w)
    BY <1>2, Zenon DEF InFlight
  <2>3. AllEntered'
    BY <2>1, <2>2 DEF AllEntered
  <2>4. NoDoubleAdmit'
    BY <2>1, <2>2 DEF NoDoubleAdmit
  <2> QED
    BY <2>3, <2>4
<1> QED
  BY <1>3, <1>4, <1>5

\* An admission key that expires takes nothing but itself away.
LEMMA AdmissionExpiresIInv ==
    ASSUME IInv, NEW e \in Event, NEW u \in Fan, AdmissionExpires(e, u)
    PROVE  IInv'
<1> USE DEF roomVars, seatVars, IInv, Types, AdmissionExpires
<1>1. admitted' \in [Event -> SUBSET Fan] /\ \A f \in Event : admitted'[f] \subseteq admitted[f]
  BY DEF TypeOK
<1>2. UNCHANGED <<seq, queue, entered, ahead, avail, onSale, req, tick, served>>
  OBVIOUS
<1>3. Types'
  BY <1>1, <1>2 DEF TypeOK
<1>4. FreshNumbers' /\ SmallerNumbers' /\ AdmittedWereServed'
  BY <1>1, <1>2 DEF FreshNumbers, Joining, At, SmallerNumbers, AdmittedWereServed
<1>5. AllEntered' /\ NoDoubleAdmit'
  BY <1>2 DEF AllEntered, NoDoubleAdmit, Queued, Waiting, InFlight
<1> QED
  BY <1>3, <1>4, <1>5

\* QueueStatus, the answers, and HoldSeat with its seat.
LEMMA RequestIInv ==
    ASSUME IInv, NEW p \in Proc,
           \/ JoinAnswer(p) \/ QueueStatusPosition(p) \/ TakeSeat(p)
           \/ \E e \in Event, u \in Fan :
                 QueueStatus(p, e, u) \/ \E f \in Event : HoldSeat(p, e, u, f)
    PROVE  IInv'
<1>1. TypeOK /\ AdmittedWereServed /\ avail \in [Event -> 0 .. Seats] /\ onSale \subseteq Event
      /\ RequestOK(req[p])
  BY DEF IInv, Types, TypeOK
<1>2. RequestOK(Idle) /\ Idle.pc = "idle"
  BY ConstantsAssumption DEF RequestOK, Request, Idle
<1>3. CASE JoinAnswer(p) \/ QueueStatusPosition(p)
  <2>1. req' = [req EXCEPT ![p] = Idle] /\ UNCHANGED <<roomVars, admitted, seatVars, tick, served>>
    BY <1>3 DEF JoinAnswer, QueueStatusPosition, Answer
  <2> QED
    BY <1>1, <1>2, <2>1, RequestOnly, Zenon DEF seatVars
<1>4. CASE TakeSeat(p)
  <2>1. /\ req' = [req EXCEPT ![p] = Idle]
        /\ onSale' = onSale /\ UNCHANGED <<roomVars, admitted, tick, served>>
    BY <1>4 DEF TakeSeat, Answer
  <2>2. avail' \in [Event -> 0 .. Seats]
    BY <1>1, <1>4, ConstantsAssumption DEF TakeSeat, At, RequestOK
  <2> QED
    BY <1>1, <1>2, <2>1, <2>2, RequestOnly, Zenon
<1>5. ASSUME NEW e \in Event, NEW u \in Fan, QueueStatus(p, e, u) PROVE IInv'
  <2> DEFINE r == [pc |-> "status", ev |-> e, fan |-> u, num |-> 0, row |-> NoEvent]
  <2>1. RequestOK(r) /\ r.pc = "status"
    BY ConstantsAssumption DEF RequestOK, Request
  <2>2. req' = [req EXCEPT ![p] = r] /\ UNCHANGED <<roomVars, admitted, seatVars, tick, served>>
    BY <1>5 DEF QueueStatus, Begin
  <2> HIDE DEF r
  <2> QED
    BY <1>1, <2>1, <2>2, RequestOnly, Zenon DEF seatVars
<1>6. ASSUME NEW e \in Event, NEW u \in Fan, NEW f \in Event, HoldSeat(p, e, u, f) PROVE IInv'
  <2> DEFINE r == [pc |-> "hold", ev |-> e, fan |-> u, num |-> 0, row |-> f]
  <2>1. RequestOK(r) /\ r.pc = "hold" /\ r.fan = u /\ r.ev = e
    BY ConstantsAssumption DEF RequestOK, Request
  <2>2. req' = [req EXCEPT ![p] = r] /\ UNCHANGED <<roomVars, admitted, seatVars, tick, served>>
    BY <1>6 DEF HoldSeat, Begin
  <2>3. u \in FansOf(served[e])
    BY <1>1, <1>6 DEF HoldSeat, IsAdmitted, AdmittedWereServed
  <2> HIDE DEF r
  <2> QED
    BY <1>1, <2>1, <2>2, <2>3, RequestOnly, Zenon DEF seatVars
<1> QED
  BY <1>3, <1>4, <1>5, <1>6

\* INCR: the number is new, and larger than the number of everybody waiting.
LEMMA JoinQueueIInv ==
    ASSUME IInv, NEW p \in Proc, NEW e \in Event, NEW u \in Fan, JoinQueue(p, e, u)
    PROVE  IInv'
<1> USE DEF seatVars, IInv, Types
<1>1. PICK k \in Nat : k = seq[e] + 1 /\ k \in 1 .. MaxSeq /\ seq[e] \in Nat
  BY ConstantsAssumption DEF TypeOK, JoinQueue
<1> DEFINE r == [pc |-> "zadd", ev |-> e, fan |-> u, num |-> k, row |-> NoEvent]
<1>2. /\ seq' = [seq EXCEPT ![e] = k] /\ ahead' = [ahead EXCEPT ![e][k] = Waiting(e)]
      /\ req' = [req EXCEPT ![p] = r]
      /\ UNCHANGED <<queue, admitted, avail, onSale, tick, entered, served>>
  BY <1>1 DEF JoinQueue, Begin
<1>3. RequestOK(r) /\ r.pc = "zadd" /\ r.ev = e /\ r.num = k
  BY <1>1, ConstantsAssumption DEF RequestOK, Request
<1> HIDE DEF r
<1>4. req'[p] = r /\ \A q \in Proc \ {p} : req'[q] = req[q]
  BY <1>2 DEF TypeOK
<1>5. Types'
  <2>1. req' \in [Proc -> Request] /\ \A q \in Proc : RequestOK(req[q])'
    BY <1>2, <1>3, <1>4 DEF RequestOK, TypeOK
  <2>2. \A w \in Worker : TickOK(tick[w])'
    BY <1>2
  <2>3. seq' \in [Event -> 0 .. MaxSeq]
    BY <1>1, <1>2 DEF TypeOK
  <2>4. ahead' \in [Event -> [1 .. MaxSeq -> SUBSET Fan]]
    BY <1>1, <1>2 DEF TypeOK, Waiting
  <2> QED
    BY <1>2, <2>1, <2>2, <2>3, <2>4, Zenon DEF TypeOK, Request
<1>6. seq'[e] = k /\ \A f \in Event \ {e} : seq'[f] = seq[f]
  BY <1>2 DEF TypeOK
<1>7. \A x \in entered[e] : x.num \in Nat /\ x.num <= seq[e]
  BY DEF TypeOK, Place, FreshNumbers
<1>8. FreshNumbers'
  <2>1. \A f \in Event \ {e}, q \in Proc : Joining(q, f)' <=> Joining(q, f) /\ q # p
    BY <1>3, <1>4 DEF Joining, At, JoinQueue
  <2>2. \A q \in Proc \ {p} : Joining(q, e)' <=> Joining(q, e)
    BY <1>4 DEF Joining, At
  <2>3. \A q \in Proc \ {p} : Joining(q, e) => req[q].num \in 1 .. seq[e]
    BY DEF FreshNumbers
  <2>4. ASSUME NEW f \in Event, f # e
        PROVE  /\ \A x \in entered'[f] : x.num <= seq'[f]
               /\ \A q \in Proc : Joining(q, f)' =>
                     /\ req'[q].num \in 1 .. seq'[f]
                     /\ \A x \in entered'[f] : x.num # req'[q].num
                     /\ \A o \in Proc \ {q} : Joining(o, f)' => req'[o].num # req'[q].num
    BY <1>2, <1>4, <1>6, <2>1, <2>4 DEF FreshNumbers
  <2>5. \A x \in entered'[e] : x.num <= seq'[e] /\ x.num # k
    BY <1>1, <1>2, <1>6, <1>7
  <2>6. ASSUME NEW q \in Proc \ {p}, Joining(q, e)'
        PROVE  req'[q].num \in 1 .. seq'[e] /\ req'[q].num # k
    <3>1. PICK m \in Nat : m = seq[e] /\ k = m + 1
      BY <1>1
    <3>2. PICK n \in 1 .. m : n = req[q].num
      BY <2>2, <2>3, <2>6, <3>1
    <3>3. n \in 1 .. k /\ n # k
      BY ONLY <3>1, n \in 1 .. m
    <3>4. req'[q].num = n /\ seq'[e] = k
      BY <1>4, <1>6, <3>2
    <3> QED
      BY ONLY <3>3, <3>4
  <2>7. \A q \in Proc : Joining(q, e)' =>
           /\ req'[q].num \in 1 .. seq'[e]
           /\ \A x \in entered'[e] : x.num # req'[q].num
           /\ \A o \in Proc \ {q} : Joining(o, e)' => req'[o].num # req'[q].num
    BY <1>1, <1>2, <1>3, <1>4, <1>6, <2>2, <2>5, <2>6 DEF FreshNumbers
  <2> QED
    BY <2>4, <2>5, <2>7, Zenon DEF FreshNumbers
<1>9. AllEntered' /\ NoDoubleAdmit'
  BY <1>2 DEF AllEntered, NoDoubleAdmit, Queued, Waiting, InFlight
<1>10. AdmittedWereServed'
  BY <1>2, <1>3, <1>4 DEF AdmittedWereServed, At
<1>11. \A v \in Waiting(e) : queue[e][v] # 0 /\ queue[e][v] < k
  <2>1. SUFFICES ASSUME NEW v \in Waiting(e) PROVE queue[e][v] # 0 /\ queue[e][v] < k
    OBVIOUS
  <2>2. [fan |-> v, num |-> queue[e][v]] \in entered[e]
    BY DEF AllEntered, Queued
  <2>3. PICK m \in Nat : m = queue[e][v] /\ m <= seq[e]
    BY <1>7, <2>2
  <2> QED
    BY <1>1, <2>3 DEF Waiting
<1>12. SmallerNumbers'
  <2>1. \A f \in Event, n \in 1 .. MaxSeq :
           ahead'[f][n] = IF f = e /\ n = k THEN Waiting(e) ELSE ahead[f][n]
    BY <1>1, <1>2, Zenon DEF TypeOK
  <2> QED
    BY <1>2, <1>11, <2>1 DEF SmallerNumbers
<1> QED
  BY <1>5, <1>8, <1>9, <1>10, <1>12
-----------------------------------------------------------------------------
\* Fan u takes a place in the queue of e, with number k.
PlaceTaken(e, u, k) ==
    /\ e \in Event /\ u \in Fan /\ k \in 1 .. MaxSeq /\ k <= seq[e] /\ queue[e][u] = 0
    /\ queue' \in [Event -> [Fan -> 0 .. MaxSeq]]
    /\ \A f \in Event, v \in Fan : queue'[f][v] = IF f = e /\ v = u THEN k ELSE queue[f][v]
    /\ entered' \in [Event -> SUBSET Place]
    /\ [fan |-> u, num |-> k] \notin entered[e]
    /\ \A f \in Event \ {e} : Queued(f)' = Queued(f) /\ entered'[f] = entered[f]
    /\ Queued(e)' = Queued(e) \cup {[fan |-> u, num |-> k]}
    /\ entered'[e] = entered[e] \cup {[fan |-> u, num |-> k]}

\* What ZADD NX does for a fan who is not in the queue: the place has the number
\* drawn for the request.
LEMMA TakesPlace ==
    ASSUME IInv, NEW p \in Proc, ZAddNX(p), req[p].fan \notin Waiting(req[p].ev)
    PROVE  PlaceTaken(req[p].ev, req[p].fan, req[p].num)
<1>0. PICK e, u, k : e = req[p].ev /\ u = req[p].fan /\ k = req[p].num
  OBVIOUS
<1> USE <1>0
<1> USE DEF IInv, Types
<1>1. At(p, "zadd") /\ e \in Event /\ u \in Fan
  BY DEF ZAddNX, At, RequestOK
<1>2. k \in 1 .. seq[e] /\ \A x \in entered[e] : x.num # k
  BY <1>1 DEF FreshNumbers, Joining
<1>3. seq[e] \in 0 .. MaxSeq
  BY <1>1 DEF TypeOK
<1>4. k \in 1 .. MaxSeq /\ k <= seq[e]
  BY <1>2, <1>3, ConstantsAssumption
<1>5. queue[e][u] = 0
  BY <1>1 DEF Waiting
<1>6. /\ queue' = [queue EXCEPT ![e][u] = k]
      /\ entered' = [entered EXCEPT ![e] = @ \cup {[fan |-> u, num |-> k]}]
  BY DEF ZAddNX
<1>7. queue' \in [Event -> [Fan -> 0 .. MaxSeq]]
  BY <1>1, <1>4, <1>6 DEF TypeOK
<1>8. \A f \in Event, v \in Fan : queue'[f][v] = IF f = e /\ v = u THEN k ELSE queue[f][v]
  BY <1>1, <1>6 DEF TypeOK
<1>9. /\ entered'[e] = entered[e] \cup {[fan |-> u, num |-> k]}
      /\ \A f \in Event \ {e} : entered'[f] = entered[f]
  BY <1>1, <1>6 DEF TypeOK
<1>10. entered' \in [Event -> SUBSET Place]
  <2>1. [fan |-> u, num |-> k] \in Place
    BY <1>1, <1>4 DEF Place
  <2> QED
    BY <1>6, <2>1, Zenon DEF TypeOK
<1>11. ASSUME NEW f \in Event, f # e PROVE Queued(f)' = Queued(f)
  BY <1>8, <1>11 DEF Queued, Waiting
<1>12. Queued(e)' = Queued(e) \cup {[fan |-> u, num |-> k]}
  <2>1. Waiting(e)' = Waiting(e) \cup {u}
    <3>1. k # 0
      BY <1>4
    <3>2. \A v \in Fan : queue'[e][v] # 0 <=> v = u \/ queue[e][v] # 0
      BY ONLY <1>1, <1>8, <3>1
    <3> QED
      BY ONLY <1>1, <3>2 DEF Waiting
  <2>2. queue'[e][u] = k /\ \A v \in Waiting(e) : queue'[e][v] = queue[e][v]
    BY <1>1, <1>8, Zenon DEF Waiting
  <2> QED
    BY <2>1, <2>2 DEF Queued
<1>13. [fan |-> u, num |-> k] \notin entered[e]
  BY <1>2
<1>14. \A f \in Event \ {e} : Queued(f)' = Queued(f)
  BY <1>11
<1>15. PlaceTaken(e, u, k)
  BY ONLY <1>1, <1>4, <1>5, <1>7, <1>8, <1>9, <1>12, <1>13, <1>10, <1>14 DEF PlaceTaken
<1> QED
  BY <1>15, Zenon

\* ZADD NX keeps the inductive invariant, however many requests have drawn their
\* numbers before.
LEMMA ZAddNXIInv == ASSUME IInv, NEW p \in Proc, ZAddNX(p) PROVE IInv'
<1>0. PICK e, u, k : e = req[p].ev /\ u = req[p].fan /\ k = req[p].num
  OBVIOUS
<1> DEFINE r == [req[p] EXCEPT !.pc = "rank", !.num = 0]
<1>1. /\ RequestOK(req[p]) /\ At(p, "zadd")
      /\ UNCHANGED <<seq, admitted, avail, onSale, tick, served, ahead>>
      /\ req' = [req EXCEPT ![p] = r]
  BY Zenon DEF IInv, Types, ZAddNX, seatVars
<1>2. RequestOK(r) /\ r.pc = "rank"
  <2>1. req[p] \in Request /\ req[p].ev \in Event /\ req[p].fan \in Fan
    BY <1>1 DEF RequestOK, At
  <2>2. 0 \in 0 .. MaxSeq
    BY ConstantsAssumption
  <2>3. [req[p] EXCEPT !.pc = "rank"] \in Request
    BY <2>1 DEF Request
  <2>4. [req[p] EXCEPT !.pc = "rank"].pc = "rank"
    BY <2>1 DEF Request
  <2>5. /\ [req[p] EXCEPT !.pc = "rank"].ev = req[p].ev
        /\ [req[p] EXCEPT !.pc = "rank"].fan = req[p].fan
    BY <2>1 DEF Request
  <2>6. PICK q \in Request : /\ q = [req[p] EXCEPT !.pc = "rank"] /\ q.pc = "rank"
                            /\ q.ev = req[p].ev /\ q.fan = req[p].fan
    BY <2>3, <2>4, <2>5, Zenon
  <2>7. r = [q EXCEPT !.num = 0]
    BY <2>6
  <2>8. r \in Request /\ r.pc = "rank" /\ r.ev = q.ev /\ r.fan = q.fan
    BY ONLY <2>2, <2>7, q \in Request, q.pc = "rank", Zenon DEF Request
  <2> QED
    BY <2>1, <2>6, <2>8 DEF RequestOK
<1> HIDE DEF r
<1>3. CASE u \in Waiting(e)
  <2>1. UNCHANGED <<queue, entered>>
    BY <1>0, <1>3 DEF ZAddNX
  <2>2. avail' \in [Event -> 0 .. Seats] /\ onSale' \subseteq Event
    BY <1>1 DEF IInv, Types, TypeOK
  <2> QED
    BY <1>1, <1>2, <2>1, <2>2, RequestOnly, Zenon DEF roomVars
<1>4. CASE u \notin Waiting(e)
  <2>0. PlaceTaken(e, u, k)
    BY <1>0, <1>4, TakesPlace
  <2>1. /\ e \in Event /\ u \in Fan /\ k \in 1 .. MaxSeq /\ k <= seq[e] /\ queue[e][u] = 0
        /\ queue' \in [Event -> [Fan -> 0 .. MaxSeq]] /\ entered' \in [Event -> SUBSET Place]
        /\ \A f \in Event, v \in Fan : queue'[f][v] = IF f = e /\ v = u THEN k ELSE queue[f][v]
    BY <2>0 DEF PlaceTaken
  <2>2. PICK x : x = [fan |-> u, num |-> k] /\ x.num = k /\ x \notin entered[e]
    BY <2>0 DEF PlaceTaken
  <2>3. \A f \in Event : \/ f # e /\ Queued(f)' = Queued(f) /\ entered'[f] = entered[f]
                         \/ /\ f = e /\ Queued(f)' = Queued(f) \cup {x}
                            /\ entered'[f] = entered[f] \cup {x}
    BY ONLY <2>0, <2>2 DEF PlaceTaken
  <2>4. req'[p] = r /\ \A q \in Proc \ {p} : req'[q] = req[q]
    BY <1>1 DEF IInv, Types, TypeOK
  <2>5. Types'
    <3>1. req' \in [Proc -> Request] /\ \A q \in Proc : RequestOK(req[q])'
      BY <1>1, <1>2, <2>4 DEF IInv, Types, TypeOK, RequestOK
    <3>2. \A w \in Worker : TickOK(tick[w])'
      BY <1>1 DEF IInv, Types
    <3> QED
      BY <1>1, <2>1, <3>1, <3>2, Zenon DEF IInv, Types, TypeOK, Request
  <2>6. FreshNumbers'
    <3>1. \A q \in Proc, f \in Event : Joining(q, f)' => Joining(q, f) /\ q # p /\ req'[q].num = req[q].num
      BY <1>2, <2>4 DEF Joining, At
    <3>2. Joining(p, e) /\ req[p].num = k
      BY <1>0, <1>1 DEF Joining
    <3>3. \A q \in Proc \ {p} : Joining(q, e) => req[q].num # k
      BY <2>1, <3>2 DEF IInv, FreshNumbers
    <3>4. ASSUME NEW f \in Event, NEW y \in entered'[f]
          PROVE  y \in entered[f] \/ (f = e /\ y.num = k)
      <4>1. entered'[f] = entered[f] \/ (f = e /\ entered'[f] = entered[f] \cup {x})
        BY <2>3
      <4> QED
        BY ONLY <2>2, <4>1, y \in entered'[f], Zenon
    <3>5. FreshNumbers /\ seq' = seq
      BY <1>1 DEF IInv
    <3>6. ASSUME NEW f \in Event PROVE \A y \in entered'[f] : y.num <= seq'[f]
      BY ONLY f \in Event, <2>1, <3>4, <3>5 DEF FreshNumbers
    <3>7. ASSUME NEW f \in Event, NEW q \in Proc, Joining(q, f)'
          PROVE  /\ req'[q].num \in 1 .. seq'[f]
                 /\ \A y \in entered'[f] : y.num # req'[q].num
                 /\ \A o \in Proc \ {q} : Joining(o, f)' => req'[o].num # req'[q].num
      <4>1. Joining(q, f) /\ q # p /\ req'[q].num = req[q].num
        BY <3>1, <3>7
      <4>2. req[q].num \in 1 .. seq[f] /\ \A y \in entered[f] : y.num # req[q].num
        BY ONLY f \in Event, q \in Proc, <3>5, <4>1 DEF FreshNumbers
      <4>3. \A o \in Proc \ {q} : Joining(o, f) => req[o].num # req[q].num
        BY ONLY f \in Event, q \in Proc, <3>5, <4>1 DEF FreshNumbers
      <4>4. f = e => req[q].num # k
        BY <3>3, <4>1
      <4>5. \A o \in Proc \ {q} : Joining(o, f)' => req'[o].num # req'[q].num
        BY ONLY f \in Event, <3>1, <4>1, <4>3
      <4>6. \A y \in entered'[f] : y.num # req'[q].num
        BY ONLY f \in Event, <3>4, <4>1, <4>2, <4>4
      <4> QED
        BY <3>5, <4>1, <4>2, <4>5, <4>6
    <3> QED
      BY ONLY <3>6, <3>7 DEF FreshNumbers
  <2>7. \A f \in Event, w \in Worker : InFlight(f, w)' = InFlight(f, w)
    BY <1>1 DEF InFlight
  <2>8. AllEntered'
    <3>1. AllEntered /\ served' = served
      BY <1>1 DEF IInv
    <3> QED
      BY ONLY <2>3, <2>7, <3>1 DEF AllEntered
  <2>9. NoDoubleAdmit'
    <3>1. x \notin served[e] /\ \A w \in Worker : x \notin InFlight(e, w)
      BY <2>1, <2>2 DEF IInv, AllEntered
    <3>2. NoDoubleAdmit /\ served' = served
      BY <1>1 DEF IInv
    <3>3. ASSUME NEW f \in Event
          PROVE  /\ Queued(f)' \cap served'[f] = {}
                 /\ \A w \in Worker : InFlight(f, w)' \cap (Queued(f)' \cup served'[f]) = {}
      <4>1. Queued(f)' = Queued(f) \/ (f = e /\ Queued(f)' = Queued(f) \cup {x})
        BY <2>3
      <4>2. Queued(f) \cap served[f] = {}
        BY <3>2 DEF NoDoubleAdmit
      <4>3. Queued(f)' \cap served'[f] = {}
        BY ONLY <3>1, <3>2, <4>1, <4>2
      <4>4. ASSUME NEW w \in Worker PROVE InFlight(f, w)' \cap (Queued(f)' \cup served'[f]) = {}
        <5>1. InFlight(f, w) \cap (Queued(f) \cup served[f]) = {}
          BY <3>2 DEF NoDoubleAdmit
        <5>2. InFlight(f, w)' = InFlight(f, w)
          BY <2>7
        <5> QED
          BY ONLY w \in Worker, <3>1, <3>2, <4>1, <5>1, <5>2
      <4> QED
        BY <4>3, <4>4
    <3>4. ASSUME NEW f \in Event, NEW w \in Worker, NEW y \in Worker \ {w}
          PROVE  InFlight(f, w)' \cap InFlight(f, y)' = {}
      <4>1. InFlight(f, w) \cap InFlight(f, y) = {}
        BY <3>2 DEF NoDoubleAdmit
      <4>2. InFlight(f, w)' = InFlight(f, w) /\ InFlight(f, y)' = InFlight(f, y)
        BY <2>7
      <4> QED
        BY ONLY <4>1, <4>2
    <3> QED
      BY ONLY <3>3, <3>4, Zenon DEF NoDoubleAdmit
  <2>10. SmallerNumbers'
    <3>1. SUFFICES ASSUME NEW f \in Event, NEW n \in 1 .. MaxSeq, NEW v \in ahead'[f][n]
                   PROVE  queue'[f][v] # 0 /\ queue'[f][v] < n
      BY DEF SmallerNumbers
    <3>2. v \in ahead[f][n] /\ SmallerNumbers /\ ahead \in [Event -> [1 .. MaxSeq -> SUBSET Fan]]
      BY <1>1, <3>1 DEF IInv, Types, TypeOK
    <3>4. v \in Fan /\ queue[f][v] # 0 /\ queue[f][v] < n
      BY ONLY f \in Event, n \in 1 .. MaxSeq, <3>2, Zenon DEF SmallerNumbers
    <3>3. queue'[f][v] = queue[f][v]
      BY ONLY f \in Event, <2>1, <3>4
    <3> QED
      BY ONLY <3>3, <3>4
  <2>11. AdmittedWereServed'
    BY <1>1, <1>2, <2>4 DEF IInv, AdmittedWereServed, At
  <2> QED
    BY <2>5, <2>6, <2>8, <2>9, <2>10, <2>11 DEF IInv
<1> QED
  BY <1>3, <1>4
-----------------------------------------------------------------------------
\* The number of fans to admit is the least of three naturals.
LEMMA LeastOfThree ==
    ASSUME NEW a \in Nat, NEW b \in Nat, NEW c \in Nat
    PROVE  min64(a, b, c) \in Nat /\ min64(a, b, c) <= c
<1>1. {a, b, c} \subseteq Nat /\ {a, b, c} # {}
  OBVIOUS
<1>2. Min({a, b, c}) \in {a, b, c} /\ \A y \in {a, b, c} : Min({a, b, c}) <= y
  BY ONLY <1>1, LeastRow
<1> QED
  BY <1>1, <1>2 DEF min64

\* What is left of a tick when the event at hand is done with.
LEMMA SkipOK ==
    ASSUME Types, NEW w \in Worker
    PROVE  TickOK(Skip(w)) /\ Skip(w).batch = {} /\ Skip(w).ev = NoEvent
<1>1. PICK t \in Tick : t = tick[w]
  BY DEF Types, TypeOK, Tick
<1>2. Skip(w) = [t EXCEPT !.pc = "next", !.events = @ \ {t.ev}, !.ev = NoEvent, !.n = 0, !.batch = {}]
  BY <1>1 DEF Skip
<1>3. Skip(w) \in Tick
  <2>1. [t EXCEPT !.pc = "next", !.events = @ \ {t.ev}] \in Tick
    BY Zenon DEF Tick
  <2>2. PICK a \in Tick : a = [t EXCEPT !.pc = "next", !.events = @ \ {t.ev}]
    BY <2>1
  <2>3. [a EXCEPT !.ev = NoEvent, !.n = 0, !.batch = {}] \in Tick
    BY Zenon DEF Tick
  <2> QED
    BY <1>2, <2>2, <2>3
<1>4. Skip(w).pc = "next" /\ Skip(w).batch = {} /\ Skip(w).ev = NoEvent
  BY <1>2 DEF Tick
<1> QED
  BY <1>3, <1>4 DEF TickOK

\* The steps of a worker up to ZPOPMIN, an error before it, and the end of the
\* process.
LEMMA WorkerReadsIInv ==
    ASSUME IInv, NEW w \in Worker,
           \/ RunOnce(w) \/ NextTenant(w) \/ ListEventsFails(w) \/ TickEnds(w)
           \/ QueueLength(w) \/ CountByStatus(w) \/ WorkerCrash(w)
           \/ /\ TickAt(w, "next") /\ tick[w].events # {}
              /\ tick' = [tick EXCEPT ![w].events = @ \ {Min(@)}]
              /\ UNCHANGED <<roomVars, admitted, seatVars, req, served>>
    PROVE  IInv'
<1>1. Types /\ TypeOK /\ tick \in [Worker -> Tick] /\ TickOK(tick[w])
  BY DEF IInv, Types, TypeOK, Tick
<1>2. PICK t \in Tick : t = tick[w]
  BY <1>1
<1>3. UNCHANGED <<roomVars, admitted, seatVars, req, served>>
  BY DEF RunOnce, NextTenant, ListEventsFails, TickEnds, QueueLength, CountByStatus, WorkerCrash
<1>4. SUFFICES \E x : TickOK(x) /\ x.batch = {} /\ tick' = [tick EXCEPT ![w] = x]
  BY <1>3, TickOnly, Zenon
<1>5. TickOK(NoTick) /\ NoTick.batch = {}
  BY DEF TickOK, Tick, NoTick
<1>6. CASE TickEnds(w) \/ WorkerCrash(w)
  BY <1>5, <1>6 DEF TickEnds, WorkerCrash
<1>7. CASE RunOnce(w)
  <2> DEFINE x == [NoTick EXCEPT !.pc = "next", !.tenants = FirstRows(Tenant)]
  <2>1. FirstRows(Tenant) \in SUBSET Tenant
    BY DEF FirstRows
  <2>2. TickOK(x) /\ x.batch = {}
    BY <2>1, Zenon DEF TickOK, Tick, NoTick
  <2>3. tick' = [tick EXCEPT ![w] = x]
    BY <1>7 DEF RunOnce
  <2> HIDE DEF x
  <2> QED
    BY <2>2, <2>3, Zenon
<1>8. ASSUME TickAt(w, "next") PROVE t.batch = {} /\ t.pc = "next"
  BY <1>1, <1>2, <1>8 DEF TickOK, TickAt
<1>9. CASE NextTenant(w)
  <2> DEFINE E == EventsOnSale(Min(t.tenants))
             x == [t EXCEPT !.tenants = @ \ {Min(@)}, !.events = E]
  <2>1. E \in SUBSET Event
    BY <1>1 DEF EventsOnSale, FirstRows, TypeOK
  <2>2. tick' = [tick EXCEPT ![w] = x]
    BY <1>1, <1>2, <1>9, Zenon DEF NextTenant
  <2> HIDE DEF E
  <2>3. x \in Tick /\ x.pc = "next" /\ x.batch = {}
    BY <1>8, <1>9, <2>1, Zenon DEF Tick, NextTenant
  <2> HIDE DEF x
  <2> QED
    BY <2>2, <2>3, Zenon DEF TickOK
<1>10. CASE ListEventsFails(w)
  <2> DEFINE x == [t EXCEPT !.tenants = @ \ {Min(@)}]
  <2>1. tick' = [tick EXCEPT ![w] = x]
    BY <1>1, <1>2, <1>10 DEF ListEventsFails
  <2>2. x \in Tick /\ x.pc = "next" /\ x.batch = {}
    BY <1>8, <1>10 DEF Tick, ListEventsFails
  <2> HIDE DEF x
  <2> QED
    BY <2>1, <2>2, Zenon DEF TickOK
<1>11. CASE TickAt(w, "next") /\ tick' = [tick EXCEPT ![w].events = @ \ {Min(@)}]
  <2> DEFINE x == [t EXCEPT !.events = @ \ {Min(@)}]
  <2>1. tick' = [tick EXCEPT ![w] = x]
    BY <1>1, <1>2, <1>11
  <2>2. x \in Tick /\ x.pc = "next" /\ x.batch = {}
    BY <1>8, <1>11 DEF Tick
  <2> HIDE DEF x
  <2> QED
    BY <2>1, <2>2, Zenon DEF TickOK
<1>12. CASE QueueLength(w)
  <2>1. PICK e : e = Min(tick[w].events)
    OBVIOUS
  <2>2. PICK m : m = Cardinality(Waiting(e))
    OBVIOUS
  <2>3. t.events \subseteq Nat /\ t.events # {} /\ t.events \subseteq Event
    BY <1>2, <1>12, ConstantsAssumption DEF Tick, QueueLength
  <2>4. e \in Event
    BY <1>2, <2>1, <2>3, LeastRow
  <2>5. m \in Nat
    BY <2>2, FiniteQueues DEF Waiting
  <2> DEFINE x == [t EXCEPT !.events = @ \ {e}]
             y == [t EXCEPT !.pc = "count", !.ev = e, !.n = m]
  <2>6. tick' = [tick EXCEPT ![w] = x] \/ tick' = [tick EXCEPT ![w] = y]
    <3>1. tick' = [tick EXCEPT ![w] = IF m = 0 THEN [@ EXCEPT !.events = tick[w].events \ {e}]
                                      ELSE [@ EXCEPT !.pc = "count", !.ev = e, !.n = m]]
      BY <1>12, <2>1, <2>2 DEF QueueLength
    <3>2. CASE m = 0
      <4>1. tick' = [tick EXCEPT ![w] = [tick[w] EXCEPT !.events = tick[w].events \ {e}]]
        BY ONLY <3>1, <3>2, Zenon
      <4> QED
        BY <1>2, <4>1, Zenon
    <3>3. CASE m # 0
      <4>1. tick' = [tick EXCEPT ![w] = [tick[w] EXCEPT !.pc = "count", !.ev = e, !.n = m]]
        BY ONLY <3>1, <3>3, Zenon
      <4> QED
        BY <1>2, <4>1, Zenon
    <3> QED
      BY <3>2, <3>3
  <2>7. t.batch = {} /\ t.pc = "next"
    BY <1>8, <1>12 DEF QueueLength
  <2>8. x \in Tick /\ x.pc = "next" /\ x.batch = {}
    BY <2>7 DEF Tick
  <2>9. y \in Tick /\ y.ev = e /\ y.pc = "count" /\ y.batch = {}
    BY <2>4, <2>5, <2>7, Zenon DEF Tick
  <2> HIDE DEF x, y
  <2> QED
    BY <2>4, <2>6, <2>8, <2>9 DEF TickOK
<1>13. CASE CountByStatus(w)
  <2>1. t.pc = "count" /\ t.batch = {} /\ t.ev \in Event /\ t.n \in Nat
    BY <1>1, <1>2, <1>13 DEF CountByStatus, TickAt, TickOK, Tick
  <2>2. PICK m : m = min64(t.n, avail[t.ev], MaxPerTick)
    OBVIOUS
  <2>3. m \in Nat
    BY <1>1, <2>1, <2>2, LeastOfThree, ConstantsAssumption DEF TypeOK
  <2> DEFINE y == [t EXCEPT !.pc = "pop", !.n = m]
  <2>4. tick' = [tick EXCEPT ![w] = Skip(w)] \/ tick' = [tick EXCEPT ![w] = y]
    <3>1. tick' = [tick EXCEPT ![w] = IF avail[t.ev] = 0 THEN Skip(w)
                                      ELSE [@ EXCEPT !.pc = "pop", !.n = min64(t.n, avail[t.ev], MaxPerTick)]]
      BY <1>2, <1>13 DEF CountByStatus
    <3>2. CASE avail[t.ev] = 0
      BY ONLY <3>1, <3>2, Zenon
    <3>3. CASE avail[t.ev] # 0
      <4>1. tick' = [tick EXCEPT ![w] =
                        [tick[w] EXCEPT !.pc = "pop", !.n = min64(t.n, avail[t.ev], MaxPerTick)]]
        BY ONLY <3>1, <3>3, Zenon
      <4> QED
        BY <1>2, <2>2, <4>1, Zenon
    <3> QED
      BY <3>2, <3>3
  <2>5. y \in Tick /\ y.ev = t.ev /\ y.pc = "pop" /\ y.batch = {}
    BY <2>1, <2>3, Zenon DEF Tick
  <2> HIDE DEF y
  <2> QED
    BY <1>1, <2>1, <2>4, <2>5, SkipOK DEF TickOK
<1> QED
  BY <1>6, <1>7, <1>9, <1>10, <1>11, <1>12, <1>13
-----------------------------------------------------------------------------
\* Worker w takes the places B from the front of the queue of e.
BatchPopped(w, e, B) ==
    /\ e \in Event /\ B \subseteq Queued(e) /\ B \subseteq Place /\ FansOf(B) \subseteq Fan
    /\ queue' \in [Event -> [Fan -> 0 .. MaxSeq]]
    /\ \A f \in Event, v \in Fan :
          queue'[f][v] = IF f = e /\ v \in FansOf(B) THEN 0 ELSE queue[f][v]
    /\ \A f \in Event \ {e} : Queued(f)' = Queued(f)
    /\ Queued(e)' = Queued(e) \ B
    /\ \A f \in Event \ {e} : InFlight(f, w)' = {}
    /\ InFlight(e, w)' = B
    /\ \A f \in Event, x \in Worker \ {w} : InFlight(f, x)' = InFlight(f, x)
    /\ tick' \in [Worker -> Tick] /\ \A x \in Worker : TickOK(tick[x])'

\* The front of a queue: a fan stands there once.
LEMMA FrontPlaces ==
    ASSUME TypeOK, NEW e \in Event, NEW n \in Nat
    PROVE  /\ Front(e, n) \subseteq Queued(e) /\ Front(e, n) \subseteq Place
           /\ FansOf(Front(e, n)) = {v \in Waiting(e) : Position(e, v) <= n}
           /\ \A b \in Front(e, n) : b.num = queue[e][b.fan]
<1>1. \A v \in Waiting(e) : [fan |-> v, num |-> queue[e][v]] \in Place
  <2>1. SUFFICES ASSUME NEW v \in Waiting(e) PROVE v \in Fan /\ queue[e][v] \in 1 .. MaxSeq
    BY DEF Place
  <2>2. v \in Fan /\ queue[e] \in [Fan -> 0 .. MaxSeq] /\ queue[e][v] # 0
    BY DEF TypeOK, Waiting
  <2>3. PICK m \in 0 .. MaxSeq : m = queue[e][v] /\ m # 0
    BY ONLY <2>2
  <2>4. m \in 1 .. MaxSeq
    BY ONLY <2>3
  <2> QED
    BY ONLY <2>2, <2>3, <2>4, Zenon
<1>2. Front(e, n) \subseteq Queued(e)
  BY DEF Front, Queued
<1>3. Front(e, n) \subseteq Place
  BY <1>1 DEF Front
<1>4. \A b \in Front(e, n) : b.num = queue[e][b.fan]
  BY DEF Front
<1>5. FansOf(Front(e, n)) = {v \in Waiting(e) : Position(e, v) <= n}
  <2> DEFINE V == {v \in Waiting(e) : Position(e, v) <= n}
  <2>1. Front(e, n) = {[fan |-> v, num |-> queue[e][v]] : v \in V}
    BY DEF Front
  <2> HIDE DEF V
  <2>2. \A b \in Front(e, n) : b.fan \in V
    BY <2>1
  <2>3. ASSUME NEW v \in V PROVE \E b \in Front(e, n) : b.fan = v
    <3>1. [fan |-> v, num |-> queue[e][v]] \in Front(e, n)
      BY <2>1
    <3>2. [fan |-> v, num |-> queue[e][v]].fan = v
      OBVIOUS
    <3> QED
      BY <3>1, <3>2, Zenon
  <2>4. FansOf(Front(e, n)) = V
    BY ONLY <2>2, <2>3 DEF FansOf
  <2> QED
    BY <2>4 DEF V
<1> QED
  BY <1>2, <1>3, <1>4, <1>5, Zenon

\* What ZPOPMIN does: the batch is in the worker's hands and no longer queued.
LEMMA PopsFront ==
    ASSUME IInv, NEW w \in Worker, ZPopMin(w)
    PROVE  /\ BatchPopped(w, tick[w].ev, Front(tick[w].ev, tick[w].n))
           /\ tick[w].batch = {} /\ tick[w].n \in Nat
<1>0. PICK e, n, B : e = tick[w].ev /\ n = tick[w].n /\ B = Front(e, n)
  OBVIOUS
<1>1. TypeOK /\ tick \in [Worker -> Tick] /\ \A x \in Worker : TickOK(tick[x])
  BY DEF IInv, Types, TypeOK, Tick
<1>2. e \in Event /\ n \in Nat /\ tick[w].batch = {}
  BY <1>0, <1>1 DEF ZPopMin, TickAt, TickOK, Tick
<1>3. /\ B \subseteq Queued(e) /\ B \subseteq Place /\ FansOf(B) \subseteq Waiting(e)
      /\ \A b \in B : b.num = queue[e][b.fan]
  <2>1. /\ B \subseteq Queued(e) /\ B \subseteq Place
        /\ FansOf(B) = {v \in Waiting(e) : Position(e, v) <= n}
        /\ \A b \in B : b.num = queue[e][b.fan]
    BY ONLY <1>0, <1>1, <1>2, FrontPlaces, Zenon
  <2> QED
    BY ONLY <2>1, Zenon
<1>4. /\ queue' = [queue EXCEPT ![e] = [u \in Fan |-> IF u \in FansOf(B) THEN 0 ELSE @[u]]]
      /\ tick' = [tick EXCEPT ![w] = IF B = {} THEN Skip(w)
                                     ELSE [@ EXCEPT !.pc = "mark", !.n = 0, !.batch = B]]
  BY <1>0 DEF ZPopMin
<1>5. FansOf(B) \subseteq Fan
  BY <1>3, Zenon DEF Waiting
<1>6. queue' \in [Event -> [Fan -> 0 .. MaxSeq]]
  <2>1. 0 \in 0 .. MaxSeq
    BY ConstantsAssumption
  <2>2. [u \in Fan |-> IF u \in FansOf(B) THEN 0 ELSE queue[e][u]] \in [Fan -> 0 .. MaxSeq]
    BY <1>1, <1>2, <2>1 DEF TypeOK
  <2> QED
    BY <1>1, <1>4, <2>2, Zenon DEF TypeOK
<1>7. \A f \in Event, v \in Fan :
         queue'[f][v] = IF f = e /\ v \in FansOf(B) THEN 0 ELSE queue[f][v]
  BY <1>1, <1>2, <1>4 DEF TypeOK
<1>8. \A f \in Event \ {e} : Queued(f)' = Queued(f)
  BY <1>7 DEF Queued, Waiting
<1>9. Queued(e)' = Queued(e) \ B
  <2>1. Waiting(e)' = Waiting(e) \ FansOf(B)
    BY <1>2, <1>7 DEF Waiting
  <2>2. \A v \in Waiting(e) \ FansOf(B) : queue'[e][v] = queue[e][v]
    BY <1>2, <1>7 DEF Waiting
  <2>3. Queued(e)' = {[fan |-> v, num |-> queue[e][v]] : v \in Waiting(e) \ FansOf(B)}
    BY <2>1, <2>2 DEF Queued
  <2>4. \A v \in Waiting(e) : [fan |-> v, num |-> queue[e][v]] \in B <=> v \in FansOf(B)
    <3>1. SUFFICES ASSUME NEW v \in Waiting(e)
                   PROVE  [fan |-> v, num |-> queue[e][v]] \in B <=> v \in FansOf(B)
      OBVIOUS
    <3>2. ASSUME [fan |-> v, num |-> queue[e][v]] \in B PROVE v \in FansOf(B)
      BY <3>2 DEF FansOf
    <3>3. ASSUME v \in FansOf(B) PROVE [fan |-> v, num |-> queue[e][v]] \in B
      <4>1. PICK b \in B : b.fan = v
        BY <3>3 DEF FansOf
      <4>2. b \in Place /\ b.num = queue[e][v]
        BY <1>3, <4>1
      <4>3. b = [fan |-> v, num |-> queue[e][v]]
        BY <4>1, <4>2 DEF Place
      <4> QED
        BY <4>1, <4>3
    <3> QED
      BY <3>2, <3>3
  <2> QED
    BY <2>3, <2>4 DEF Queued
<1>10. PICK t \in Tick : t = tick[w]
  BY <1>1
<1>11. /\ tick'[w] = IF B = {} THEN Skip(w) ELSE [t EXCEPT !.pc = "mark", !.n = 0, !.batch = B]
       /\ \A x \in Worker \ {w} : tick'[x] = tick[x]
  BY <1>1, <1>4, <1>10
<1>12. TickOK(tick'[w]) /\ tick'[w].batch = B /\ tick'[w].ev \in {e, NoEvent}
       /\ (B # {} => tick'[w].ev = e)
  <2>1. CASE B = {}
    <3>1. tick'[w] = Skip(w)
      BY <1>11, <2>1
    <3>2. TickOK(Skip(w)) /\ Skip(w).batch = {} /\ Skip(w).ev = NoEvent
      BY SkipOK DEF IInv
    <3> QED
      BY <2>1, <3>1, <3>2
  <2>2. CASE B # {}
    <3> DEFINE y == [t EXCEPT !.pc = "mark", !.n = 0, !.batch = B]
    <3>1. y \in Tick /\ y.pc = "mark" /\ y.batch = B /\ y.ev = e
      BY <1>0, <1>3, <1>10, Zenon DEF Tick
    <3>2. tick'[w] = y
      BY <1>11, <2>2
    <3> HIDE DEF y
    <3> QED
      BY <1>2, <3>1, <3>2 DEF TickOK
  <2> QED
    BY <2>1, <2>2
<1>13. tick' \in [Worker -> Tick] /\ \A x \in Worker : TickOK(tick[x])'
  BY <1>1, <1>4, <1>11, <1>12 DEF TickOK
<1>14. InFlight(e, w)' = B /\ \A f \in Event \ {e} : InFlight(f, w)' = {}
  BY <1>2, <1>12, ConstantsAssumption DEF InFlight
<1>15. \A f \in Event, x \in Worker \ {w} : InFlight(f, x)' = InFlight(f, x)
  BY <1>11 DEF InFlight
<1>16. BatchPopped(w, e, B)
  BY ONLY <1>2, <1>3, <1>5, <1>6, <1>7, <1>8, <1>9, <1>13, <1>14, <1>15, Zenon DEF BatchPopped
<1> QED
  BY <1>0, <1>2, <1>16, Zenon

\* ZPOPMIN keeps the inductive invariant: what is popped was queued, so nobody else
\* has it.
LEMMA ZPopMinIInv == ASSUME IInv, NEW w \in Worker, ZPopMin(w) PROVE IInv'
<1>0. PICK e, B : e = tick[w].ev /\ B = Front(e, tick[w].n)
  OBVIOUS
<1>1. BatchPopped(w, e, B)
  BY <1>0, PopsFront
<1>2. /\ ahead' = [ahead EXCEPT ![e] = [n \in 1 .. MaxSeq |-> @[n] \ FansOf(B)]]
      /\ UNCHANGED <<seq, entered, admitted, avail, onSale, req, served>>
  BY <1>0 DEF ZPopMin, seatVars
<1>3. /\ e \in Event /\ B \subseteq Queued(e) /\ Queued(e)' = Queued(e) \ B
      /\ \A f \in Event \ {e} : Queued(f)' = Queued(f) /\ InFlight(f, w)' = {}
      /\ InFlight(e, w)' = B
      /\ \A f \in Event, x \in Worker \ {w} : InFlight(f, x)' = InFlight(f, x)
  BY <1>1, Zenon DEF BatchPopped
<1>4. Types'
  <2>1. ahead' \in [Event -> [1 .. MaxSeq -> SUBSET Fan]]
    <3>1. ahead[e] \in [1 .. MaxSeq -> SUBSET Fan]
      BY <1>3 DEF IInv, Types, TypeOK
    <3>2. [n \in 1 .. MaxSeq |-> ahead[e][n] \ FansOf(B)] \in [1 .. MaxSeq -> SUBSET Fan]
      BY ONLY <3>1, Zenon
    <3> QED
      BY <1>2, <1>3, <3>2 DEF IInv, Types, TypeOK
  <2>2. \A p \in Proc : RequestOK(req[p])'
    BY <1>2 DEF IInv, Types
  <2> QED
    BY <1>1, <1>2, <2>1, <2>2 DEF IInv, Types, TypeOK, BatchPopped, Tick
<1>5. FreshNumbers' /\ AdmittedWereServed'
  BY <1>2 DEF IInv, FreshNumbers, Joining, At, AdmittedWereServed
<1>6. AllEntered'
  BY <1>2, <1>3 DEF IInv, AllEntered
<1>7. NoDoubleAdmit'
  <2>1. ASSUME NEW f \in Event, f # e
        PROVE  /\ Queued(f)' \cap served'[f] = {}
               /\ \A x \in Worker :
                     /\ InFlight(f, x)' \cap (Queued(f)' \cup served'[f]) = {}
                     /\ \A y \in Worker \ {x} : InFlight(f, x)' \cap InFlight(f, y)' = {}
    <3>1. \A x \in Worker : InFlight(f, x)' \subseteq InFlight(f, x)
      BY <1>3, <2>1
    <3>2. Queued(f)' = Queued(f) /\ served' = served
      BY <1>2, <1>3, <2>1
    <3> QED
      BY <3>1, <3>2 DEF IInv, NoDoubleAdmit
  <2>2. /\ Queued(e)' \cap served'[e] = {}
        /\ \A x \in Worker :
              /\ InFlight(e, x)' \cap (Queued(e)' \cup served'[e]) = {}
              /\ \A y \in Worker \ {x} : InFlight(e, x)' \cap InFlight(e, y)' = {}
    <3>1. B \cap served[e] = {} /\ \A x \in Worker : InFlight(e, x) \cap B = {}
      BY <1>3 DEF IInv, NoDoubleAdmit
    <3>2. \A x \in Worker : x = w \/ InFlight(e, x)' = InFlight(e, x)
      BY <1>3
    <3>3. /\ Queued(e) \cap served[e] = {}
          /\ \A x \in Worker :
                /\ InFlight(e, x) \cap (Queued(e) \cup served[e]) = {}
                /\ \A y \in Worker \ {x} : InFlight(e, x) \cap InFlight(e, y) = {}
      BY <1>3 DEF IInv, NoDoubleAdmit
    <3>4. Queued(e)' \cap served'[e] = {}
      BY <1>2, <1>3, <3>3
    <3>5. ASSUME NEW x \in Worker PROVE InFlight(e, x)' \cap (Queued(e)' \cup served'[e]) = {}
      <4>1. Queued(e)' = Queued(e) \ B /\ served' = served
        BY <1>2, <1>3
      <4>2. CASE x = w
        BY ONLY <1>3, <3>1, <4>1, <4>2
      <4>3. CASE x # w
        <5>1. InFlight(e, x)' = InFlight(e, x) /\ InFlight(e, x) \cap (Queued(e) \cup served[e]) = {}
          BY <3>2, <3>3, <4>3
        <5> QED
          BY ONLY <4>1, <5>1
      <4> QED
        BY <4>2, <4>3
    <3>6. ASSUME NEW x \in Worker, NEW y \in Worker \ {x}
          PROVE  InFlight(e, x)' \cap InFlight(e, y)' = {}
      <4>1. x = w \/ InFlight(e, x)' = InFlight(e, x)
        BY <3>2
      <4>2. y = w \/ InFlight(e, y)' = InFlight(e, y)
        BY <3>2
      <4>3. /\ InFlight(e, x) \cap InFlight(e, y) = {}
            /\ InFlight(e, x) \cap B = {} /\ InFlight(e, y) \cap B = {}
        BY <3>1, <3>3
      <4> QED
        BY ONLY <1>3, <4>1, <4>2, <4>3, y \in Worker \ {x}
    <3> QED
      BY ONLY <3>4, <3>5, <3>6
  <2> QED
    BY <2>1, <2>2 DEF NoDoubleAdmit
<1>8. SmallerNumbers'
  <2>1. SUFFICES ASSUME NEW f \in Event, NEW n \in 1 .. MaxSeq, NEW u \in ahead'[f][n]
                 PROVE  queue'[f][u] # 0 /\ queue'[f][u] < n
    BY DEF SmallerNumbers
  <2>2. u \in ahead[f][n] /\ ~(f = e /\ u \in FansOf(B))
    BY <1>2, <1>3, <2>1 DEF IInv, Types, TypeOK
  <2>3. u \in Fan /\ queue[f][u] # 0 /\ queue[f][u] < n
    <3>1. SmallerNumbers /\ ahead \in [Event -> [1 .. MaxSeq -> SUBSET Fan]]
      BY Zenon DEF IInv, Types, TypeOK
    <3> QED
      BY ONLY f \in Event, n \in 1 .. MaxSeq, <2>2, <3>1, Zenon DEF SmallerNumbers
  <2>4. queue'[f][u] = queue[f][u]
    BY <1>1, <2>2, <2>3 DEF BatchPopped
  <2> QED
    BY ONLY <2>3, <2>4
<1> QED
  BY <1>4, <1>5, <1>6, <1>7, <1>8 DEF IInv

\* The pipeline of SETs, all of it or a part: the fans of S are served, and the
\* worker has no batch any more.
LEMMA MarkAdmittedIInv ==
    ASSUME IInv, NEW w \in Worker, tick[w].ev \in Event,
           NEW S \in SUBSET tick[w].batch, MarkAdmitted(w, S)
    PROVE  IInv'
<1>0. PICK e : e = tick[w].ev /\ e \in Event
  OBVIOUS
<1>1. /\ admitted' = [admitted EXCEPT ![e] = @ \cup FansOf(S)]
      /\ served' = [served EXCEPT ![e] = @ \cup S]
      /\ tick' = [tick EXCEPT ![w] = Skip(w)]
      /\ UNCHANGED <<seq, queue, entered, ahead, avail, onSale, req>>
  BY <1>0, Zenon DEF MarkAdmitted, roomVars, seatVars
<1>2. TypeOK /\ tick \in [Worker -> Tick] /\ Types
  BY DEF IInv, Types, TypeOK, Tick
<1>3. TickOK(Skip(w)) /\ Skip(w).batch = {} /\ Skip(w).ev = NoEvent
  BY <1>2, SkipOK, Zenon
<1>4. S \subseteq InFlight(e, w) /\ S \subseteq Place
  BY <1>0, <1>2 DEF InFlight, Tick
<1>5. FansOf(S) \subseteq Fan
  BY <1>4 DEF FansOf, Place
<1>6. tick'[w] = Skip(w) /\ \A x \in Worker \ {w} : tick'[x] = tick[x]
  BY <1>1, <1>2, Zenon
<1>7. /\ served'[e] = served[e] \cup S /\ admitted'[e] = admitted[e] \cup FansOf(S)
      /\ \A f \in Event \ {e} : served'[f] = served[f] /\ admitted'[f] = admitted[f]
  BY <1>0, <1>1, <1>2 DEF TypeOK
<1>8. Types'
  <2>1. tick' \in [Worker -> Tick] /\ \A x \in Worker : TickOK(tick[x])'
    BY <1>1, <1>2, <1>3, <1>6, Zenon DEF Types, TickOK
  <2>2. served' \in [Event -> SUBSET Place] /\ admitted' \in [Event -> SUBSET Fan]
    BY <1>0, <1>1, <1>2, <1>4, <1>5 DEF TypeOK
  <2>3. \A p \in Proc : RequestOK(req[p])'
    BY <1>1, <1>2, Zenon DEF Types
  <2> QED
    BY <1>1, <1>2, <2>1, <2>2, <2>3 DEF Types, TypeOK, Tick
<1>9. \A f \in Event : InFlight(f, w)' = {} /\ Queued(f)' = Queued(f)
  BY <1>1, <1>3, <1>6, Zenon DEF InFlight, Queued, Waiting
<1>10. \A f \in Event, x \in Worker \ {w} : InFlight(f, x)' = InFlight(f, x)
  BY <1>6 DEF InFlight
<1>11. FreshNumbers' /\ SmallerNumbers'
  BY <1>1, Zenon DEF IInv, FreshNumbers, Joining, At, SmallerNumbers
<1>12. AllEntered'
  <2>1. AllEntered /\ entered' = entered
    BY <1>1 DEF IInv
  <2>2. ASSUME NEW f \in Event
        PROVE  /\ Queued(f)' \subseteq entered'[f]
               /\ \A x \in Worker : InFlight(f, x)' \subseteq entered'[f]
    BY ONLY f \in Event, <1>9, <1>10, <2>1 DEF AllEntered
  <2>3. S \subseteq entered[e]
    BY <1>0, <1>4, <2>1 DEF AllEntered
  <2>4. ASSUME NEW f \in Event PROVE served'[f] \subseteq entered'[f]
    BY ONLY f \in Event, <1>7, <2>1, <2>3 DEF AllEntered
  <2> QED
    BY ONLY <2>2, <2>4 DEF AllEntered
<1>13. NoDoubleAdmit'
  <2>1. S \cap Queued(e) = {} /\ \A x \in Worker \ {w} : S \cap InFlight(e, x) = {}
    BY <1>0, <1>4 DEF IInv, NoDoubleAdmit
  <2>2. \A f \in Event : served'[f] = served[f] \/ (f = e /\ served'[f] = served[f] \cup S)
    BY <1>7
  <2>3. ASSUME NEW f \in Event
        PROVE  /\ Queued(f)' \cap served'[f] = {}
               /\ \A x \in Worker \ {w} : InFlight(f, x)' \cap (Queued(f)' \cup served'[f]) = {}
               /\ \A x \in Worker : \A y \in Worker \ {x} : InFlight(f, x)' \cap InFlight(f, y)' = {}
    <3>1. /\ Queued(f) \cap served[f] = {}
          /\ \A x \in Worker :
                /\ InFlight(f, x) \cap (Queued(f) \cup served[f]) = {}
                /\ \A y \in Worker \ {x} : InFlight(f, x) \cap InFlight(f, y) = {}
      BY DEF IInv, NoDoubleAdmit
    <3>2. Queued(f)' \cap served'[f] = {}
      BY ONLY f \in Event, <1>9, <2>1, <2>2, <3>1, Zenon
    <3>3. ASSUME NEW x \in Worker \ {w} PROVE InFlight(f, x)' \cap (Queued(f)' \cup served'[f]) = {}
      <4>1. /\ InFlight(f, x)' = InFlight(f, x) /\ Queued(f)' = Queued(f)
            /\ InFlight(f, x) \cap (Queued(f) \cup served[f]) = {}
        BY <1>9, <1>10, <3>1
      <4>2. f = e => S \cap InFlight(f, x) = {}
        BY <2>1
      <4>3. served'[f] = served[f] \/ (f = e /\ served'[f] = served[f] \cup S)
        BY <2>2
      <4> QED
        BY ONLY <4>1, <4>2, <4>3
    <3>4. \A x \in Worker : InFlight(f, x)' \subseteq InFlight(f, x)
      BY ONLY f \in Event, <1>9, <1>10
    <3>5. ASSUME NEW x \in Worker, NEW y \in Worker \ {x} PROVE InFlight(f, x)' \cap InFlight(f, y)' = {}
      <4>1. InFlight(f, x) \cap InFlight(f, y) = {}
        BY <3>1
      <4>2. InFlight(f, x)' \subseteq InFlight(f, x) /\ InFlight(f, y)' \subseteq InFlight(f, y)
        BY <3>4
      <4> QED
        BY ONLY <4>1, <4>2
    <3> QED
      BY ONLY <3>2, <3>3, <3>5
  <2> QED
    BY <1>9, <2>3, Zenon DEF NoDoubleAdmit
<1>14. AdmittedWereServed'
  <2>1. FansOf(served'[e]) = FansOf(served[e]) \cup FansOf(S)
    BY <1>7 DEF FansOf
  <2>2. \A f \in Event : FansOf(served[f]) \subseteq FansOf(served'[f])
    BY <1>7, <2>1, Zenon
  <2>3. \A q \in Proc : At(q, "hold") => req[q].ev \in Event
    BY <1>1 DEF IInv, Types, RequestOK, At
  <2> QED
    BY <1>1, <1>7, <2>1, <2>2, <2>3, Zenon DEF IInv, AdmittedWereServed, At
<1> QED
  BY <1>8, <1>11, <1>12, <1>13, <1>14 DEF IInv

-----------------------------------------------------------------------------
\* The inductive invariant, for any number of fans, events, requests and workers.
THEOREM Invariance == Spec => []IInv
<1>1. ASSUME IInv, Next PROVE IInv'
  <2>1. CASE \E p \in Proc, e \in Event, u \in Fan :
                JoinQueue(p, e, u) \/ QueueStatus(p, e, u) \/ \E f \in Event : HoldSeat(p, e, u, f)
    BY <1>1, <2>1, JoinQueueIInv, RequestIInv
  <2>2. CASE \E p \in Proc :
                ZAddNX(p) \/ JoinAnswer(p) \/ QueueStatusPosition(p) \/ TakeSeat(p)
    BY <1>1, <2>2, ZAddNXIInv, RequestIInv
  <2>3. CASE \E e \in Event : PublishEvent(e) \/ SeatReturns(e)
    BY <1>1, <2>3, SeatsIInv
  <2>4. CASE \E e \in Event, u \in Fan : AdmissionExpires(e, u)
    BY <1>1, <2>4, AdmissionExpiresIInv
  <2>5. ASSUME NEW w \in Worker, WorkerStep(w) \/ ListEventsFails(w) \/ WorkerCrash(w)
        PROVE  IInv'
    <3>1. CASE ZPopMin(w)
      BY <1>1, <3>1, ZPopMinIInv
    <3>2. CASE Admit(w)
      <4>1. tick[w].ev \in Event
        BY <1>1, <3>2 DEF IInv, Types, TickOK, Admit, TickAt
      <4> QED
        BY <1>1, <3>2, <4>1, MarkAdmittedIInv DEF Admit
    <3>3. CASE EventFails(w)
      BY <1>1, <3>3, MarkAdmittedIInv, WorkerReadsIInv, ConstantsAssumption DEF EventFails
    <3>4. CASE \/ RunOnce(w) \/ NextTenant(w) \/ ListEventsFails(w) \/ TickEnds(w)
               \/ QueueLength(w) \/ CountByStatus(w) \/ WorkerCrash(w)
      BY <1>1, <3>4, WorkerReadsIInv
    <3> QED
      BY <2>5, <3>1, <3>2, <3>3, <3>4 DEF WorkerStep
  <2> QED
    BY <1>1, <2>1, <2>2, <2>3, <2>4, <2>5 DEF Next
<1>2. ASSUME IInv, UNCHANGED vars PROVE IInv'
  <2> USE <1>2 DEF vars, IInv
  <2>1. Types'
    BY DEF Types, TypeOK
  <2>2. FreshNumbers'
    BY Zenon DEF FreshNumbers, Joining, At
  <2>3. SmallerNumbers' /\ AdmittedWereServed'
    BY DEF SmallerNumbers, AdmittedWereServed, At
  <2>4. AllEntered'
    BY DEF AllEntered, Queued, Waiting, InFlight
  <2>5. NoDoubleAdmit'
    <3>1. /\ \A e \in Event : Queued(e)' = Queued(e) /\ served' = served
          /\ \A e \in Event, w \in Worker : InFlight(e, w)' = InFlight(e, w)
      BY DEF Queued, Waiting, InFlight
    <3> QED
      BY ONLY NoDoubleAdmit, <3>1, Zenon DEF NoDoubleAdmit
  <2> QED
    BY <2>1, <2>2, <2>3, <2>4, <2>5
<1>3. IInv /\ [Next]_vars => IInv'
  BY <1>1, <1>2
<1> QED
  BY <1>3, InitIInv, PTL DEF Spec

\* The sets and numbers are what the code takes them for; in particular a hold
\* never takes a seat that PublishEvent did not generate.
THEOREM TypeCorrect == Spec => []TypeOK
<1>1. IInv => TypeOK
  BY DEF IInv, Types
<1> QED
  BY <1>1, Invariance, PTL

\* Concurrent Admit calls, of any number of workers, never serve the same place in
\* a queue twice, even when calls fail and workers die half way.
THEOREM ServedOnce == Spec => []NoDoubleAdmit
<1>1. IInv => NoDoubleAdmit
  BY DEF IInv
<1> QED
  BY <1>1, Invariance, PTL

\* Only ZPOPMIN takes a fan out of a queue.
LEMMA OnlyPopRemoves ==
    ASSUME IInv, Next, NEW e \in Event, NEW v \in Fan, v \in Waiting(e), queue'[e][v] = 0
    PROVE  \E w \in Worker : ZPopMin(w)
<1>1. queue' # queue
  BY DEF Waiting
<1>2. ASSUME NEW p \in Proc, ZAddNX(p) PROVE FALSE
  <2>1. req[p].fan \notin Waiting(req[p].ev)
    BY <1>1, <1>2 DEF ZAddNX
  <2>2. PlaceTaken(req[p].ev, req[p].fan, req[p].num)
    BY <1>2, <2>1, TakesPlace
  <2>3. req[p].num \in 1 .. MaxSeq /\ queue'[e][v] \in {req[p].num, queue[e][v]}
    BY <2>2, Zenon DEF PlaceTaken
  <2> QED
    BY <2>3 DEF Waiting
<1> QED
  BY <1>1, <1>2, Zenon
     DEF Next, WorkerStep, JoinQueue, QueueStatus, HoldSeat, JoinAnswer, QueueStatusPosition,
         TakeSeat, PublishEvent, SeatReturns, AdmissionExpires, RunOnce, NextTenant, TickEnds,
         QueueLength, CountByStatus, Admit, EventFails, MarkAdmitted, ListEventsFails,
         WorkerCrash, roomVars

\* The queue is first come, first served across all instances of the API and of the
\* worker: nobody leaves it before those who were waiting when their number was
\* drawn.
THEOREM Fifo == Spec => FirstComeFirstServed
<1>1. ASSUME IInv, Next, NEW e \in Event, NEW v \in Fan, v \in Waiting(e), queue'[e][v] = 0,
             NEW u \in ahead[e][queue[e][v]]
      PROVE  queue'[e][u] = 0
  <2>1. PICK w \in Worker : ZPopMin(w)
    BY <1>1, OnlyPopRemoves
  <2>2. TypeOK /\ SmallerNumbers
    BY <1>1 DEF IInv, Types
  <2>3. PICK f, n, B : f = tick[w].ev /\ n = tick[w].n /\ B = Front(f, n)
    OBVIOUS
  <2>4. BatchPopped(w, f, B) /\ n \in Nat
    BY <1>1, <2>1, <2>3, PopsFront, Zenon
  <2>5. f = e /\ v \in FansOf(B)
    BY <1>1, <2>4, Zenon DEF BatchPopped, Waiting
  <2>6. FansOf(B) = {x \in Waiting(e) : Position(e, x) <= n}
    <3>1. B = Front(e, n) /\ n \in Nat
      BY <2>3, <2>4, <2>5
    <3> QED
      BY ONLY e \in Event, <2>2, <3>1, FrontPlaces, Zenon
  <2>7. PICK m \in 0 .. MaxSeq : m = queue[e][v] /\ m # 0
    <3>1. queue[e] \in [Fan -> 0 .. MaxSeq] /\ queue[e][v] # 0
      BY <1>1, <2>2, Zenon DEF TypeOK, Waiting
    <3> QED
      BY ONLY <3>1, v \in Fan
  <2>8. m \in 1 .. MaxSeq
    BY ONLY <2>7
  <2>9. u \in ahead[e][m] /\ ahead \in [Event -> [1 .. MaxSeq -> SUBSET Fan]]
    BY <1>1, <2>2, <2>7 DEF TypeOK
  <2>10. u \in Fan /\ queue[e][u] # 0 /\ queue[e][u] < m
    BY ONLY e \in Event, <2>2, <2>8, <2>9, Zenon DEF SmallerNumbers
  <2>11. u \in Waiting(e) /\ queue[e][u] <= queue[e][v]
    <3>1. queue[e] \in [Fan -> 0 .. MaxSeq]
      BY <2>2 DEF TypeOK
    <3>2. PICK k \in 0 .. MaxSeq : k = queue[e][u]
      BY ONLY <2>10, <3>1
    <3>3. k <= m
      BY ONLY <2>7, <2>10, <3>2
    <3>4. u \in Waiting(e)
      BY <2>10 DEF Waiting
    <3> QED
      BY ONLY <2>7, <3>2, <3>3, <3>4
  <2>12. Position(e, u) \in Nat /\ Position(e, v) \in Nat /\ Position(e, u) <= Position(e, v)
    BY <1>1, <2>2, <2>11, PositionFollowsScore
  <2>13. Position(e, v) <= n
    BY <2>5, <2>6
  <2>14. Position(e, u) <= n
    <3>1. PICK i \in Nat, j \in Nat : i = Position(e, u) /\ j = Position(e, v)
      BY <2>12, Zenon
    <3> QED
      BY ONLY <2>4, <2>12, <2>13, <3>1
  <2>15. u \in FansOf(B)
    BY <2>6, <2>11, <2>14
  <2> QED
    BY <2>4, <2>5, <2>10, <2>15, Zenon DEF BatchPopped
<1>2. IInv /\ [Next]_vars =>
         [\A e \in Event, v \in Fan :
             v \in Waiting(e) /\ queue'[e][v] = 0 =>
                 \A u \in ahead[e][queue[e][v]] : queue'[e][u] = 0]_vars
  BY <1>1
<1> QED
  BY <1>2, Invariance, PTL DEF Spec, FirstComeFirstServed

\* Whoever gets a seat has waited in the queue of the event they named and was
\* admitted from it: the check of HoldSeat cannot be passed otherwise, and the served
\* places only grow.
THEOREM SeatsBehindTheQueue == Spec => SeatsGoToAdmittedFans
<1>1. IInv /\ [Next]_vars =>
         [\A p \in Proc :
             TakeSeat(p) /\ avail' # avail => req[p].fan \in FansOf(served[req[p].ev])]_vars
  BY DEF IInv, AdmittedWereServed, TakeSeat
<1> QED
  BY <1>1, Invariance, PTL DEF Spec, SeatsGoToAdmittedFans

\* A step that moves no place out of the queue, out of a worker's hands or out of
\* the served ones keeps them all.
LEMMA NothingMoves ==
    ASSUME UNCHANGED <<queue, entered, served>>,
           \A e \in Event, w \in Worker : InFlight(e, w) \subseteq InFlight(e, w)',
           NEW e \in Event
    PROVE  Kept(e) \cup (entered'[e] \ entered[e]) \subseteq Kept(e)'
<1>1. Queued(e)' = Queued(e)
  BY DEF Queued, Waiting
<1> QED
  BY <1>1 DEF Kept

\* No fan who has taken a place falls out of the waiting room, as long as no call
\* fails and no worker dies: what Join puts into the queue is there until ZPOPMIN,
\* what is popped is in the batch, and all of the batch is marked.
THEOREM NobodyForgotten == Spec => NobodyLost
<1>1. ASSUME IInv, Next, NEW e \in Event, ~\E w \in Worker : EventFails(w) \/ WorkerCrash(w)
      PROVE  Kept(e) \cup (entered'[e] \ entered[e]) \subseteq Kept(e)'
  <2>1. Types /\ TypeOK /\ tick \in [Worker -> Tick] /\ \A w \in Worker : TickOK(tick[w])
    BY <1>1 DEF IInv, Types, TypeOK, Tick
  <2>2. ASSUME UNCHANGED <<queue, entered, served, tick>>
        PROVE  Kept(e) \cup (entered'[e] \ entered[e]) \subseteq Kept(e)'
    BY <2>2, NothingMoves, Zenon DEF InFlight
  <2>3. CASE \/ \E p \in Proc, f \in Event, u \in Fan :
                   \/ JoinQueue(p, f, u) \/ QueueStatus(p, f, u)
                   \/ \E g \in Event : HoldSeat(p, f, u, g)
             \/ \E p \in Proc : JoinAnswer(p) \/ QueueStatusPosition(p) \/ TakeSeat(p)
             \/ \E f \in Event : PublishEvent(f) \/ SeatReturns(f)
             \/ \E f \in Event, u \in Fan : AdmissionExpires(f, u)
    <3>1. UNCHANGED <<queue, entered, served, tick>>
      BY <2>3 DEF JoinQueue, QueueStatus, HoldSeat, JoinAnswer, QueueStatusPosition, TakeSeat,
                  PublishEvent, SeatReturns, AdmissionExpires, roomVars
    <3> QED
      BY ONLY <2>2, <3>1
  <2>4. ASSUME NEW p \in Proc, ZAddNX(p)
        PROVE  Kept(e) \cup (entered'[e] \ entered[e]) \subseteq Kept(e)'
    <3>1. CASE req[p].fan \in Waiting(req[p].ev)
      BY <2>2, <2>4, <3>1 DEF ZAddNX
    <3>2. CASE req[p].fan \notin Waiting(req[p].ev)
      <4>1. PICK f, u, k : PlaceTaken(f, u, k)
        BY <1>1, <2>4, <3>2, TakesPlace
      <4>2. Queued(e) \cup (entered'[e] \ entered[e]) \subseteq Queued(e)'
        BY <4>1, Zenon DEF PlaceTaken
      <4>3. served' = served /\ \A w \in Worker : InFlight(e, w)' = InFlight(e, w)
        BY <2>4 DEF ZAddNX, InFlight
      <4> QED
        BY <4>2, <4>3, Zenon DEF Kept
    <3> QED
      BY <3>1, <3>2, Zenon
  <2>5. ASSUME NEW w \in Worker, ZPopMin(w)
        PROVE  Kept(e) \cup (entered'[e] \ entered[e]) \subseteq Kept(e)'
    <3>1. PICK f, B : BatchPopped(w, f, B) /\ tick[w].batch = {}
      BY <1>1, <2>5, PopsFront, Zenon
    <3>2. served' = served /\ entered' = entered
      BY <2>5 DEF ZPopMin
    <3>3. InFlight(e, w) = {} /\ Queued(e) \subseteq Queued(e)' \cup InFlight(e, w)'
      <4>1. InFlight(e, w) = {}
        BY <3>1 DEF InFlight
      <4>2. Queued(e) \subseteq Queued(e)' \cup InFlight(e, w)'
        BY <3>1, Zenon DEF BatchPopped
      <4> QED
        BY <4>1, <4>2
    <3>4. \A x \in Worker \ {w} : InFlight(e, x)' = InFlight(e, x)
      BY <3>1, Zenon DEF BatchPopped
    <3>5. \A x \in Worker : InFlight(e, x) \subseteq InFlight(e, x)'
      BY <3>3, <3>4
    <3> QED
      BY <3>2, <3>3, <3>5 DEF Kept
  <2>6. ASSUME NEW w \in Worker, Admit(w)
        PROVE  Kept(e) \cup (entered'[e] \ entered[e]) \subseteq Kept(e)'
    <3>1. tick[w].ev \in Event
      BY <2>1, <2>6 DEF Admit, TickAt, TickOK
    <3>2. /\ served' = [served EXCEPT ![tick[w].ev] = @ \cup tick[w].batch]
          /\ tick' = [tick EXCEPT ![w] = Skip(w)]
          /\ queue' = queue /\ entered' = entered
      BY <2>6, Zenon DEF Admit, MarkAdmitted, roomVars
    <3>3. served[e] \cup InFlight(e, w) \subseteq served'[e]
      BY <2>1, <3>1, <3>2 DEF TypeOK, InFlight
    <3>4. \A x \in Worker \ {w} : InFlight(e, x)' = InFlight(e, x)
      BY <2>1, <3>2 DEF InFlight
    <3>5. Queued(e)' = Queued(e)
      BY <3>2 DEF Queued, Waiting
    <3>6. \A x \in Worker : InFlight(e, x) \subseteq served'[e] \cup InFlight(e, x)'
      BY <3>3, <3>4
    <3>7. ASSUME NEW y \in Kept(e) PROVE y \in Kept(e)'
      <4>1. y \in Queued(e) \/ y \in served[e] \/ \E x \in Worker : y \in InFlight(e, x)
        BY Zenon DEF Kept
      <4>2. y \in Queued(e)' \/ y \in served'[e] \/ \E x \in Worker : y \in InFlight(e, x)'
        BY ONLY <3>3, <3>5, <3>6, <4>1, Zenon
      <4> QED
        BY ONLY <4>2, Zenon DEF Kept
    <3> QED
      BY <3>2, <3>7, Zenon
  <2>7. ASSUME NEW w \in Worker,
               \/ RunOnce(w) \/ NextTenant(w) \/ ListEventsFails(w) \/ TickEnds(w)
               \/ QueueLength(w) \/ CountByStatus(w)
        PROVE  Kept(e) \cup (entered'[e] \ entered[e]) \subseteq Kept(e)'
    <3>1. UNCHANGED <<queue, entered, served>>
      BY <2>7 DEF RunOnce, NextTenant, ListEventsFails, TickEnds, QueueLength, CountByStatus, roomVars
    <3>2. ~TickAt(w, "mark")
      BY <2>7 DEF RunOnce, NextTenant, ListEventsFails, TickEnds, QueueLength, CountByStatus, TickAt
    <3>3. \A f \in Event : InFlight(f, w) = {}
      BY <2>1, <3>2 DEF TickOK, TickAt, InFlight
    <3>4. \A x \in Worker \ {w} : tick'[x] = tick[x]
      BY <2>1, <2>7 DEF RunOnce, NextTenant, ListEventsFails, TickEnds, QueueLength, CountByStatus
    <3>5. \A f \in Event, x \in Worker : InFlight(f, x) \subseteq InFlight(f, x)'
      BY <3>3, <3>4 DEF InFlight
    <3> QED
      BY <3>1, <3>5, NothingMoves, Zenon
  <2> QED
    BY <1>1, <2>3, <2>4, <2>5, <2>6, <2>7, Zenon DEF Next, WorkerStep
<1>2. IInv /\ [Next]_vars =>
         [\A e \in Event :
             \/ Kept(e) \cup (entered'[e] \ entered[e]) \subseteq Kept(e)'
             \/ \E w \in Worker : EventFails(w) \/ WorkerCrash(w)]_vars
  BY <1>1
<1> QED
  BY <1>2, Invariance, PTL DEF Spec, NobodyLost
-----------------------------------------------------------------------------
(***************************************************************************)
(* What Redis's ranks mean: one fan per position, and so a batch that is   *)
(* no larger than the number the worker asked for.                         *)
(***************************************************************************)

\* A number of INCR is the number of one place.
UniqueNumbers ==
    \A e \in Event : \A x, y \in entered[e] : x.num = y.num => x = y

\* Two fans of a queue are never at the same position, whatever requests and
\* workers have done: INCR gives no number twice.
OnePerPosition ==
    \A e \in Event : \A u, v \in Waiting(e) : Position(e, u) = Position(e, v) => u = v

\* AdmissionMaxPerTick: no worker ever has more fans of one event in its hands.
\* The bound is computed from a length and a count read before ZPOPMIN runs.
BatchesAreBounded ==
    \A w \in Worker :
        /\ TickAt(w, "pop") => tick[w].n <= MaxPerTick
        /\ Cardinality(tick[w].batch) <= MaxPerTick

\* Places are taken by ZADD NX and by nothing else.
LEMMA OnlyJoinEnters ==
    ASSUME Next, entered' # entered
    PROVE  \E p \in Proc : ZAddNX(p) /\ req[p].fan \notin Waiting(req[p].ev)
BY Zenon
   DEF Next, WorkerStep, ZAddNX, JoinQueue, QueueStatus, HoldSeat, JoinAnswer,
       QueueStatusPosition, TakeSeat, PublishEvent, SeatReturns, AdmissionExpires, RunOnce,
       NextTenant, TickEnds, QueueLength, CountByStatus, ZPopMin, Admit, EventFails,
       MarkAdmitted, ListEventsFails, WorkerCrash, roomVars

\* INCR gives no number twice, however the steps of Joins interleave.
THEOREM NumbersAreUnique == Spec => []UniqueNumbers
<1>1. Init => UniqueNumbers
  BY DEF Init, UniqueNumbers
<1>2. ASSUME IInv, UniqueNumbers, Next, entered' # entered PROVE UniqueNumbers'
  <2>1. PICK p \in Proc : ZAddNX(p) /\ req[p].fan \notin Waiting(req[p].ev)
    BY <1>2, OnlyJoinEnters
  <2>2. PICK e, u, k : e = req[p].ev /\ u = req[p].fan /\ k = req[p].num
    OBVIOUS
  <2>3. PlaceTaken(e, u, k)
    BY <1>2, <2>1, <2>2, TakesPlace
  <2>4. \A x \in entered[e] : x.num # k
    <3>1. Joining(p, e) /\ e \in Event
      BY <2>1, <2>2, <2>3 DEF Joining, ZAddNX, PlaceTaken
    <3> QED
      BY <1>2, <2>2, <3>1 DEF IInv, FreshNumbers
  <2>5. /\ entered'[e] = entered[e] \cup {[fan |-> u, num |-> k]}
        /\ \A f \in Event \ {e} : entered'[f] = entered[f]
    BY <2>3 DEF PlaceTaken
  <2>6. PICK z : z = [fan |-> u, num |-> k]
    BY Zenon
  <2>7. SUFFICES ASSUME NEW f \in Event, NEW x \in entered'[f], NEW y \in entered'[f],
                        x.num = y.num
                 PROVE  x = y
    BY Zenon DEF UniqueNumbers
  <2>8. CASE f # e
    BY <1>2, <2>5, <2>7, <2>8, Zenon DEF UniqueNumbers
  <2>9. CASE f = e
    <3>1. x \in entered[e] \cup {z} /\ y \in entered[e] \cup {z}
      BY <2>5, <2>6, <2>7, <2>9
    <3>2. \A a, b \in entered[e] : a.num = b.num => a = b
      BY <1>2, <2>9 DEF UniqueNumbers
    <3>3. z.num = k
      BY ONLY <2>6
    <3> QED
      BY ONLY <2>4, <2>7, <3>1, <3>2, <3>3, Zenon
  <2> QED
    BY <2>8, <2>9
<1>3. ASSUME UniqueNumbers, entered' = entered PROVE UniqueNumbers'
  BY <1>3, Zenon DEF UniqueNumbers
<1>4. IInv /\ UniqueNumbers /\ [Next]_vars => UniqueNumbers'
  BY <1>2, <1>3, Zenon DEF vars
<1> QED
  BY <1>1, <1>4, Invariance, PTL DEF Spec

\* ZRANK counts from the front: a position is at least 1, and belongs to one fan.
LEMMA PositionsDiffer ==
    ASSUME IInv, UniqueNumbers, NEW e \in Event
    PROVE  /\ \A u \in Waiting(e) : Position(e, u) \in Nat \ {0}
           /\ \A u, v \in Waiting(e) : Position(e, u) = Position(e, v) => u = v
<1> DEFINE Upto(x) == {y \in Waiting(e) : queue[e][y] <= queue[e][x]}
<1>1. TypeOK /\ Queued(e) \subseteq entered[e]
  BY DEF IInv, Types, AllEntered
<1>2. \A x \in Waiting(e) : x \in Fan /\ queue[e][x] \in Nat
  BY <1>1, ConstantsAssumption DEF TypeOK, Waiting
<1>3. \A x \in Waiting(e) : Upto(x) \in SUBSET Fan /\ Position(e, x) = Cardinality(Upto(x))
  BY Zenon DEF Waiting, Position
<1>4. \A x \in Waiting(e) : x \in Upto(x)
  BY <1>2
<1>5. ASSUME NEW u \in Waiting(e), NEW v \in Waiting(e), queue[e][u] = queue[e][v] PROVE u = v
  <2> DEFINE x == [fan |-> u, num |-> queue[e][u]]
             y == [fan |-> v, num |-> queue[e][v]]
  <2>1. x \in entered[e] /\ y \in entered[e]
    BY <1>1 DEF Queued
  <2>2. x.num = y.num /\ x.fan = u /\ y.fan = v
    BY <1>5
  <2> HIDE DEF x, y
  <2> QED
    BY <2>1, <2>2 DEF UniqueNumbers
<1>6. ASSUME NEW u \in Waiting(e), NEW v \in Waiting(e), queue[e][u] < queue[e][v]
      PROVE  Upto(u) \subseteq Upto(v) /\ v \notin Upto(u)
  <2>1. ASSUME NEW y \in Waiting(e), queue[e][y] <= queue[e][u] PROVE queue[e][y] <= queue[e][v]
    BY ONLY <1>2, <1>6, <2>1
  <2>2. ~(queue[e][v] <= queue[e][u])
    BY ONLY <1>2, <1>6
  <2> QED
    BY <2>1, <2>2
<1> HIDE DEF Upto
<1>7. \A x \in Waiting(e) : IsFiniteSet(Upto(x)) /\ Cardinality(Upto(x)) \in Nat \ {0}
  BY <1>3, <1>4, FiniteQueues, FS_EmptySet
<1>8. ASSUME NEW u \in Waiting(e), NEW v \in Waiting(e), queue[e][u] < queue[e][v]
      PROVE  Position(e, u) # Position(e, v)
  <2>1. Upto(u) \in SUBSET Upto(v) /\ Upto(v) # Upto(u) /\ IsFiniteSet(Upto(v))
    BY <1>4, <1>6, <1>7, <1>8, Zenon
  <2>2. Cardinality(Upto(v)) # Cardinality(Upto(u))
    BY ONLY <2>1, FS_Subset
  <2> QED
    BY <1>3, <2>2, Zenon
<1>9. ASSUME NEW u \in Waiting(e), NEW v \in Waiting(e), Position(e, u) = Position(e, v)
      PROVE  u = v
  <2>1. queue[e][u] < queue[e][v] \/ queue[e][v] < queue[e][u] \/ queue[e][u] = queue[e][v]
    BY ONLY <1>2
  <2> QED
    BY <1>5, <1>8, <1>9, <2>1, Zenon
<1> QED
  BY <1>3, <1>7, <1>9, Zenon

\* No two fans are told the same position at the same time.
THEOREM PositionsAreDistinct == Spec => []OnePerPosition
<1>1. IInv /\ UniqueNumbers => OnePerPosition
  BY PositionsDiffer, Zenon DEF OnePerPosition
<1> QED
  BY <1>1, Invariance, NumbersAreUnique, PTL

\* ZPOPMIN key n takes at most n members.
LEMMA FrontIsBounded ==
    ASSUME IInv, UniqueNumbers, NEW e \in Event, NEW n \in Nat
    PROVE  Cardinality(Front(e, n)) \in Nat /\ Cardinality(Front(e, n)) <= n
<1> DEFINE B == Front(e, n)
           f == [b \in B |-> Position(e, b.fan)]
<1>1. TypeOK
  BY DEF IInv, Types
<1>2. /\ \A b \in B : b.fan \in Waiting(e) /\ Position(e, b.fan) <= n
      /\ \A b \in B : b = [fan |-> b.fan, num |-> queue[e][b.fan]]
  BY DEF Front
<1>3. \A b \in B : Position(e, b.fan) \in 1 .. n
  <2>1. \A b \in B : Position(e, b.fan) \in Nat \ {0}
    BY <1>2, PositionsDiffer, Zenon
  <2> QED
    BY ONLY <1>2, <2>1, n \in Nat
<1>4. ASSUME NEW b \in B, NEW c \in B, Position(e, b.fan) = Position(e, c.fan) PROVE b = c
  <2>1. b.fan = c.fan
    BY <1>2, <1>4, PositionsDiffer, Zenon
  <2> QED
    BY <1>2, <2>1, Zenon
<1> HIDE DEF B
<1>5. f \in Injection(B, 1 .. n)
  BY <1>3, <1>4 DEF Injection, IsInjective
<1>6. IsFiniteSet(1 .. n) /\ Cardinality(1 .. n) = n
  BY FS_Interval
<1>7. IsFiniteSet(B) /\ Cardinality(B) <= n
  BY <1>5, <1>6, FS_Injection
<1>8. Cardinality(B) \in Nat
  BY <1>7, FS_CardinalityType
<1> QED
  BY <1>7, <1>8 DEF B

\* Only CountByStatus sends a worker to ZPOPMIN, and only ZPOPMIN gives it a batch.
LEMMA TickMoves ==
    ASSUME IInv, Next, NEW w \in Worker
    PROVE  \/ tick'[w] = tick[w] \/ tick'[w].pc \in {"idle", "next", "count"}
           \/ CountByStatus(w) \/ ZPopMin(w)
<1>1. tick \in [Worker -> Tick]
  BY DEF IInv, Types, TypeOK, Tick
<1>2. CASE \/ \E p \in Proc, e \in Event, u \in Fan :
                 JoinQueue(p, e, u) \/ QueueStatus(p, e, u) \/ \E f \in Event : HoldSeat(p, e, u, f)
           \/ \E p \in Proc :
                 ZAddNX(p) \/ JoinAnswer(p) \/ QueueStatusPosition(p) \/ TakeSeat(p)
           \/ \E e \in Event : PublishEvent(e) \/ SeatReturns(e)
           \/ \E e \in Event, u \in Fan : AdmissionExpires(e, u)
  <2>1. tick' = tick
    BY <1>2, Zenon
       DEF JoinQueue, QueueStatus, HoldSeat, ZAddNX, JoinAnswer, QueueStatusPosition, TakeSeat,
           PublishEvent, SeatReturns, AdmissionExpires
  <2> QED
    BY <2>1
<1>3. ASSUME NEW x \in Worker, WorkerStep(x) \/ ListEventsFails(x) \/ WorkerCrash(x), x # w
      PROVE  tick'[w] = tick[w]
  BY <1>1, <1>3
     DEF WorkerStep, RunOnce, NextTenant, TickEnds, QueueLength, CountByStatus, ZPopMin, Admit,
         EventFails, MarkAdmitted, ListEventsFails, WorkerCrash
<1>4. PICK t \in Tick : t = tick[w]
  BY <1>1
<1>5. Skip(w).pc = "next"
  BY <1>4 DEF Skip, Tick
<1>6. ASSUME RunOnce(w) \/ TickEnds(w) \/ WorkerCrash(w) PROVE tick'[w].pc \in {"idle", "next"}
  <2>1. NoTick.pc = "idle" /\ \A T : [NoTick EXCEPT !.pc = "next", !.tenants = T].pc = "next"
    BY DEF NoTick
  <2>2. tick'[w] = NoTick \/ \E T : tick'[w] = [NoTick EXCEPT !.pc = "next", !.tenants = T]
    BY <1>1, <1>6, Zenon DEF RunOnce, TickEnds, WorkerCrash
  <2> QED
    BY ONLY <2>1, <2>2, Zenon
<1>7. ASSUME \/ NextTenant(w) \/ ListEventsFails(w)
             \/ TickAt(w, "next") /\ tick' = [tick EXCEPT ![w].events = @ \ {Min(@)}]
      PROVE  tick'[w].pc = "next"
  BY <1>1, <1>4, <1>7 DEF NextTenant, ListEventsFails, TickAt, Tick
<1>8. ASSUME QueueLength(w) PROVE tick'[w].pc \in {"next", "count"}
  <2>1. PICK e, n : tick'[w] = IF n = 0 THEN [t EXCEPT !.events = t.events \ {e}]
                                        ELSE [t EXCEPT !.pc = "count", !.ev = e, !.n = n]
    BY <1>1, <1>4, <1>8, Zenon DEF QueueLength
  <2>2. t.pc = "next"
    BY <1>4, <1>8 DEF QueueLength, TickAt
  <2> QED
    BY ONLY <1>4, <2>1, <2>2 DEF Tick
<1>9. ASSUME EventFails(w) PROVE tick'[w].pc = "next"
  <2>1. CASE tick' = [tick EXCEPT ![w] = Skip(w)]
    BY <1>1, <1>5, <2>1
  <2>2. CASE TickAt(w, "next") /\ tick' = [tick EXCEPT ![w].events = @ \ {Min(@)}]
    BY <1>7, <2>2
  <2> QED
    BY <1>9, <2>1, <2>2, Zenon DEF EventFails, MarkAdmitted
<1>10. ASSUME Admit(w) PROVE tick'[w].pc = "next"
  BY <1>1, <1>5, <1>10 DEF Admit, MarkAdmitted
<1>11. CASE WorkerStep(w) \/ ListEventsFails(w) \/ WorkerCrash(w)
  <2>1. \/ tick'[w].pc \in {"idle", "next"} \/ tick'[w].pc \in {"next", "count"}
        \/ tick'[w].pc = "next" \/ CountByStatus(w) \/ ZPopMin(w)
    BY <1>6, <1>7, <1>8, <1>9, <1>10, <1>11, Zenon DEF WorkerStep
  <2> QED
    BY ONLY <2>1
<1> QED
  BY <1>2, <1>3, <1>11, Zenon DEF Next

\* A tick never takes more fans out of a queue than AdmissionMaxPerTick, although
\* the queue and the seats move on between ZCARD, CountByStatus and ZPOPMIN.
THEOREM TicksAreBounded == Spec => []BatchesAreBounded
<1>1. Init => BatchesAreBounded
  <2>1. NoTick.pc = "idle" /\ NoTick.batch = {}
    BY DEF NoTick
  <2>2. Cardinality({}) <= MaxPerTick
    BY FS_EmptySet, ConstantsAssumption
  <2>3. Init => \A w \in Worker : tick[w] = NoTick
    BY DEF Init
  <2> QED
    BY <2>1, <2>2, <2>3 DEF BatchesAreBounded, TickAt
<1>2. ASSUME IInv, IInv', UniqueNumbers, BatchesAreBounded, Next, NEW w \in Worker
      PROVE  /\ tick'[w].pc = "pop" => tick'[w].n <= MaxPerTick
             /\ Cardinality(tick'[w].batch) <= MaxPerTick
  <2>1. tick \in [Worker -> Tick] /\ TypeOK /\ TickOK(tick[w]) /\ TickOK(tick'[w])
    BY <1>2 DEF IInv, Types, TypeOK, Tick
  <2>2. ASSUME tick'[w].pc # "mark" PROVE Cardinality(tick'[w].batch) <= MaxPerTick
    <3>1. tick'[w].batch = {}
      BY <2>1, <2>2, Zenon DEF TickOK
    <3>2. Cardinality({}) <= MaxPerTick
      BY ONLY FS_EmptySet, ConstantsAssumption
    <3> QED
      BY <3>1, <3>2, Zenon
  <2>3. CASE tick'[w] = tick[w]
    BY <1>2, <2>3 DEF BatchesAreBounded, TickAt
  <2>4. CASE tick'[w].pc \in {"idle", "next", "count"}
    BY <2>2, <2>4
  <2>5. CASE CountByStatus(w)
    <3>1. PICK t \in Tick : t = tick[w]
      BY <2>1
    <3>2. t.ev \in Event /\ t.n \in Nat
      BY <2>1, <2>5, <3>1 DEF CountByStatus, TickAt, TickOK, Tick
    <3>3. avail[t.ev] \in Nat
      <4>1. avail[t.ev] \in 0 .. Seats
        BY <2>1, <3>2, Zenon DEF TypeOK
      <4> QED
        BY ONLY <4>1
    <3>4. PICK m : m = min64(t.n, avail[t.ev], MaxPerTick) /\ m <= MaxPerTick
      BY <3>2, <3>3, LeastOfThree, ConstantsAssumption, Zenon
    <3>5. tick'[w] = IF avail[t.ev] = 0 THEN Skip(w) ELSE [t EXCEPT !.pc = "pop", !.n = m]
      BY <2>1, <2>5, <3>1, <3>4 DEF CountByStatus
    <3>6. Skip(w).pc = "next"
      BY <3>1 DEF Skip, Tick
    <3>7. CASE avail[t.ev] = 0
      BY <2>2, <3>5, <3>6, <3>7
    <3>8. CASE avail[t.ev] # 0
      <4>1. tick'[w].pc = "pop" /\ tick'[w].n = m
        BY <3>1, <3>5, <3>8 DEF Tick
      <4> QED
        BY <2>2, <3>4, <4>1
    <3> QED
      BY <3>7, <3>8
  <2>6. CASE ZPopMin(w)
    <3>1. PICK t \in Tick : t = tick[w]
      BY <2>1
    <3>2. t.ev \in Event /\ t.n \in Nat /\ t.n <= MaxPerTick
      BY <1>2, <2>1, <2>6, <3>1 DEF ZPopMin, TickAt, TickOK, Tick, BatchesAreBounded
    <3>3. PICK B : B = Front(t.ev, t.n) /\ Cardinality(B) \in Nat /\ Cardinality(B) <= t.n
      BY <1>2, <3>2, FrontIsBounded
    <3>4. tick'[w] = IF B = {} THEN Skip(w) ELSE [t EXCEPT !.pc = "mark", !.n = 0, !.batch = B]
      BY <2>1, <2>6, <3>1, <3>3 DEF ZPopMin
    <3>5. Skip(w).pc = "next"
      BY <3>1 DEF Skip, Tick
    <3>6. CASE B = {}
      BY <2>2, <3>4, <3>5, <3>6
    <3>7. CASE B # {}
      <4>1. tick'[w].pc = "mark" /\ tick'[w].batch = B
        BY <3>1, <3>4, <3>7 DEF Tick
      <4> QED
        BY <3>2, <3>3, <4>1, ConstantsAssumption
    <3> QED
      BY <3>6, <3>7
  <2> QED
    BY <1>2, <2>3, <2>4, <2>5, <2>6, TickMoves, Zenon
<1>3. IInv /\ IInv' /\ UniqueNumbers /\ BatchesAreBounded /\ [Next]_vars => BatchesAreBounded'
  <2>1. ASSUME IInv, IInv', UniqueNumbers, BatchesAreBounded, Next PROVE BatchesAreBounded'
    BY <1>2, <2>1, Zenon DEF BatchesAreBounded, TickAt
  <2>2. ASSUME BatchesAreBounded, UNCHANGED vars PROVE BatchesAreBounded'
    BY <2>2 DEF BatchesAreBounded, TickAt, vars
  <2> QED
    BY <2>1, <2>2, Zenon
<1> QED
  BY <1>1, <1>3, Invariance, NumbersAreUnique, PTL DEF Spec
-----------------------------------------------------------------------------
(***************************************************************************)
(* The waiting room when no call fails and no worker dies.                 *)
(***************************************************************************)

\* Every place ever taken is waiting, in a worker's hands, or served.
NothingMissing == \A e \in Event : entered[e] \subseteq Kept(e)

\* What ErrNotQueued means, to QueueStatus and to Join: every place the fan has
\* taken has been served, or a worker has popped it and is about to mark the fan.
\* NotQueuedIsTrue forgets the second case.
NotQueuedMeansTaken ==
    [][\A p \in Proc :
          (JoinAnswer(p) \/ QueueStatusPosition(p)) /\ Position(req[p].ev, req[p].fan) = 0 =>
              \A x \in entered[req[p].ev] : x.fan = req[p].fan =>
                  \/ x \in served[req[p].ev]
                  \/ \E w \in Worker : x \in InFlight(req[p].ev, w)]_vars

\* Without failures the waiting room accounts for every fan who has ever joined.
THEOREM NothingGoesMissing ==
    ASSUME Faulty = {}, ~CanCrash
    PROVE  Spec => []NothingMissing
<1> DEFINE Step == \A e \in Event :
                      \/ Kept(e) \cup (entered'[e] \ entered[e]) \subseteq Kept(e)'
                      \/ \E w \in Worker : EventFails(w) \/ WorkerCrash(w)
<1>1. Init => NothingMissing
  BY DEF Init, NothingMissing
<1>2. ASSUME NothingMissing, Step PROVE NothingMissing'
  <2>1. ~\E w \in Worker : EventFails(w) \/ WorkerCrash(w)
    BY Zenon DEF EventFails, WorkerCrash
  <2>2. \A e \in Event : Kept(e) \cup (entered'[e] \ entered[e]) \subseteq Kept(e)'
    BY <1>2, <2>1, Zenon
  <2>3. \A e \in Event : entered[e] \subseteq Kept(e)
    BY <1>2 DEF NothingMissing
  <2>4. \A e \in Event : entered'[e] \subseteq Kept(e)'
    BY ONLY <2>2, <2>3, Zenon
  <2> QED
    BY <2>4, Zenon DEF NothingMissing
<1>3. ASSUME NothingMissing, UNCHANGED vars PROVE NothingMissing'
  <2>1. \A e \in Event : Queued(e)' = Queued(e) /\ \A w \in Worker : InFlight(e, w)' = InFlight(e, w)
    BY <1>3 DEF Queued, Waiting, InFlight, vars
  <2>2. \A e \in Event : Kept(e)' = Kept(e)
    BY <1>3, <2>1 DEF Kept, vars
  <2> QED
    BY <1>3, <2>2 DEF NothingMissing, vars
<1>4. NothingMissing /\ [Step]_vars => NothingMissing'
  BY <1>2, <1>3, Zenon
<1>5. Spec => [][Step]_vars
  BY NobodyForgotten, Zenon DEF NobodyLost
<1> HIDE DEF Step
<1> QED
  BY <1>1, <1>4, <1>5, PTL DEF Spec

\* Without failures ErrNotQueued is never the answer to a fan who still has a place
\* in the queue, or whose place was lost.
THEOREM NotQueuedIsExplained ==
    ASSUME Faulty = {}, ~CanCrash
    PROVE  Spec => NotQueuedMeansTaken
<1>1. ASSUME IInv, NothingMissing, NEW p \in Proc, JoinAnswer(p) \/ QueueStatusPosition(p),
             Position(req[p].ev, req[p].fan) = 0,
             NEW x \in entered[req[p].ev], x.fan = req[p].fan
      PROVE  x \in served[req[p].ev] \/ \E w \in Worker : x \in InFlight(req[p].ev, w)
  <2>1. PICK e, u : e = req[p].ev /\ u = req[p].fan
    BY Zenon
  <2>2. e \in Event /\ u \in Fan
    BY <1>1, <2>1, Zenon DEF IInv, Types, RequestOK, JoinAnswer, QueueStatusPosition, At
  <2>3. u \notin Waiting(e)
    <3> DEFINE S == {v \in Waiting(e) : queue[e][v] <= queue[e][u]}
    <3>1. SUFFICES ASSUME u \in Waiting(e) PROVE FALSE
      BY Zenon
    <3>2. S \in SUBSET Fan /\ Cardinality(S) = 0
      BY <1>1, <2>1, <3>1, Zenon DEF Position, Waiting
    <3>3. u \in S
      <4>1. queue \in [Event -> [Fan -> 0 .. MaxSeq]]
        BY <1>1, Zenon DEF IInv, Types, TypeOK
      <4>2. queue[e][u] <= queue[e][u]
        BY ONLY <2>2, <4>1
      <4> QED
        BY <3>1, <4>2
    <3> HIDE DEF S
    <3> QED
      BY <3>2, <3>3, FiniteQueues, FS_EmptySet
  <2>4. x \notin Queued(e)
    <3>1. \A y \in Queued(e) : y.fan \in Waiting(e)
      BY DEF Queued
    <3> QED
      BY <1>1, <2>1, <2>3, <3>1, Zenon
  <2>5. x \in Kept(e)
    BY <1>1, <2>1, <2>2 DEF NothingMissing
  <2> QED
    BY <2>1, <2>4, <2>5, Zenon DEF Kept
<1>2. IInv /\ NothingMissing /\ [Next]_vars =>
         [\A p \in Proc :
             (JoinAnswer(p) \/ QueueStatusPosition(p)) /\ Position(req[p].ev, req[p].fan) = 0 =>
                 \A x \in entered[req[p].ev] : x.fan = req[p].fan =>
                     \/ x \in served[req[p].ev]
                     \/ \E w \in Worker : x \in InFlight(req[p].ev, w)]_vars
  BY <1>1, Zenon
<1>3. Spec => []NothingMissing
  BY NothingGoesMissing
<1> QED
  BY <1>2, <1>3, Invariance, PTL DEF Spec, NotQueuedMeansTaken
=============================================================================
