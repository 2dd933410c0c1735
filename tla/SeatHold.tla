------------------------------ MODULE SeatHold ------------------------------
(***************************************************************************)
(* The seat-purchase hot path of internal/service/inventory: HoldSeat from *)
(* the Redis lock on, ReleaseHold, ConfirmSale and the worker's            *)
(* SweepExpiredHolds, over the rows of InventoryRow.                       *)
(*                                                                         *)
(* A request that IsAdmitted or Allow turns away returns before it touches *)
(* anything modelled here, so a request starts with Acquire.  Requests and *)
(* sweeps can fail between any two of their calls, because a call returned *)
(* an error or because the process died.  The lock's TTL may run out at    *)
(* any moment, since a request may be slow without bound; the expiry of a  *)
(* hold is compared with a clock, as the code does.                        *)
(***************************************************************************)
EXTENDS InventoryRow, FiniteSets

CONSTANTS
    Seat,          \* the rows of event_seat_inventory of one event
    Proc,          \* request goroutines of the API instances
    Worker,        \* worker instances, each running one sweep loop
    NoSeat, NoProc,
    HoldDuration,  \* Config.HoldDuration, in clock ticks
    BatchSize,     \* the batch size of one sweep
    BadSeat,       \* rows on which the sweep's Release always returns an error
    MaxToken,      \* bound: the hold tokens ever drawn
    MaxTime        \* bound: the clock stops here

ASSUME ConstantsAssumption ==
    /\ NoSeat \notin Seat
    /\ NoProc \notin Proc
    /\ BadSeat \subseteq Seat
    /\ HoldDuration \in Nat /\ BatchSize \in Nat \ {0}
    /\ MaxToken \in Nat /\ MaxTime \in Nat

VARIABLES
    inv,      \* inv[s]: the row of seat s
    lock,     \* lock[s]: whose token the Redis key of s holds, or NoProc
    req,      \* req[p]: where the HoldSeat of p is, and its local variables
    sweep,    \* sweep[w]: the listed rows the sweep of w has yet to release
    now,      \* the clock
    nextTok,  \* the next uuid
    issued,   \* hold tokens returned to a fan in a HoldResult
    lapsed    \* history: running requests whose lock ran out under them

vars == <<inv, lock, req, sweep, now, nextTok, issued, lapsed>>

Idle == [pc |-> "idle", seat |-> NoSeat, tok |-> NoToken, exp |-> 0]

Request == [pc : {"idle", "locked", "won", "lost"}, seat : Seat \cup {NoSeat},
            tok : Nat, exp : Nat]

Listed == [seat : Seat, tok : Nat, exp : Nat]

Init ==
    /\ inv = [s \in Seat |-> Available]
    /\ lock = [s \in Seat |-> NoProc]
    /\ req = [p \in Proc |-> Idle]
    /\ sweep = [w \in Worker |-> {}]
    /\ now = 0
    /\ nextTok = 1
    /\ issued = {}
    /\ lapsed = {}

-----------------------------------------------------------------------------
(***************************************************************************)
(* HoldSeat.                                                               *)
(***************************************************************************)

\* Mutant of Acquire: the hold token is a function of something that can recur.
AcquireReusesToken(p, s) ==
    /\ req[p].pc = "idle"
    /\ lock[s] = NoProc
    /\ now + HoldDuration < MaxTime
    /\ lock' = [lock EXCEPT ![s] = p]
    /\ req' = [req EXCEPT ![p] = [pc |-> "locked", seat |-> s, tok |-> nextTok,
                                  exp |-> now + HoldDuration]]
    /\ UNCHANGED <<inv, sweep, now, nextTok, issued, lapsed>>

\* The SETNX found no key.  The hold token and the expiry are drawn now, the
\* row is written later.  (When the key exists the request returns
\* ErrLockContention and nothing changes.)
Acquire(p, s) ==
    /\ req[p].pc = "idle"
    /\ lock[s] = NoProc
    /\ nextTok <= MaxToken
    /\ now + HoldDuration < MaxTime
    /\ lock' = [lock EXCEPT ![s] = p]
    /\ req' = [req EXCEPT ![p] = [pc |-> "locked", seat |-> s, tok |-> nextTok,
                                  exp |-> now + HoldDuration]]
    /\ nextTok' = nextTok + 1
    /\ UNCHANGED <<inv, sweep, now, issued, lapsed>>

\* The SETNX took effect but its answer was lost: the request returns an
\* error and the key stays until its TTL.
AcquireAnswerLost(p, s) ==
    /\ req[p].pc = "idle"
    /\ lock[s] = NoProc
    /\ lock' = [lock EXCEPT ![s] = p]
    /\ UNCHANGED <<inv, req, sweep, now, nextTok, issued, lapsed>>

\* The compare-and-swap answered: the row is held under this request's token,
\* or someone else had it and HoldSeat returns ErrUnavailable.
Hold(p) ==
    LET r == req[p] IN
    /\ r.pc = "locked"
    /\ inv' = [inv EXCEPT ![r.seat] = HoldRow(@, r.tok, r.exp)]
    /\ req' = [req EXCEPT ![p].pc =
                  IF inv[r.seat].status = "available" THEN "won" ELSE "lost"]
    /\ UNCHANGED <<lock, sweep, now, nextTok, issued, lapsed>>

\* The compare-and-swap returned an error, with or without having committed.
HoldFails(p) ==
    LET r == req[p] IN
    /\ r.pc = "locked"
    /\ \/ inv' = [inv EXCEPT ![r.seat] = HoldRow(@, r.tok, r.exp)]
       \/ UNCHANGED inv
    /\ req' = [req EXCEPT ![p].pc = "lost"]
    /\ UNCHANGED <<lock, sweep, now, nextTok, issued, lapsed>>

\* unlockScript: GET and DEL only when the key still holds p's token.
\* Mutant: a plain DEL.
UnlockedByDel(s, p) == [lock EXCEPT ![s] = NoProc]

Unlocked(s, p) == IF lock[s] = p THEN [lock EXCEPT ![s] = NoProc] ELSE lock

\* The deferred Release, whose error is ignored, and the return of HoldSeat:
\* a winner's token reaches the fan.
Return(p) ==
    LET r == req[p] IN
    /\ r.pc \in {"won", "lost"}
    /\ \/ lock' = Unlocked(r.seat, p)
       \/ UNCHANGED lock
    /\ req' = [req EXCEPT ![p] = Idle]
    /\ issued' = IF r.pc = "won" THEN issued \cup {r.tok} ELSE issued
    /\ lapsed' = lapsed \ {p}
    /\ UNCHANGED <<inv, sweep, now, nextTok>>

\* The process of p dies; its lock and its hold are left behind.
Crash(p) ==
    /\ req[p].pc # "idle"
    /\ req' = [req EXCEPT ![p] = Idle]
    /\ lapsed' = lapsed \ {p}
    /\ UNCHANGED <<inv, lock, sweep, now, nextTok, issued>>

InSection(p, s) == req[p].pc # "idle" /\ req[p].seat = s

\* Redis drops the key after LockTTL.
LockExpires(s) ==
    /\ lock[s] # NoProc
    /\ lock' = [lock EXCEPT ![s] = NoProc]
    /\ lapsed' = lapsed \cup {p \in Proc : p = lock[s] /\ InSection(p, s)}
    /\ UNCHANGED <<inv, req, sweep, now, nextTok, issued>>

-----------------------------------------------------------------------------
(***************************************************************************)
(* A fan uses a hold token: once, late, or again.                          *)
(***************************************************************************)

ReleaseHold(s, t) ==
    /\ inv' = [inv EXCEPT ![s] = ReleaseRow(@, t)]
    /\ UNCHANGED <<lock, req, sweep, now, nextTok, issued, lapsed>>

ConfirmSale(s, t) ==
    /\ inv' = [inv EXCEPT ![s] = ConfirmSaleRow(@, t)]
    /\ UNCHANGED <<lock, req, sweep, now, nextTok, issued, lapsed>>

-----------------------------------------------------------------------------
(***************************************************************************)
(* SweepExpiredHolds.                                                      *)
(***************************************************************************)

ExpiredSeats == {s \in Seat : Expired(inv[s], now)}

\* ORDER BY hold_expires_at LIMIT BatchSize
OldestBatch(B) ==
    /\ IF Cardinality(ExpiredSeats) <= BatchSize
       THEN B = ExpiredSeats
       ELSE Cardinality(B) = BatchSize
    /\ \A s \in B, u \in ExpiredSeats \ B : inv[s].exp <= inv[u].exp

\* Mutant of ListExpiredHolds: hold_token is missing from the column list, and
\* every row falls into the sweep's defensive "continue".
ListWithoutToken(w) ==
    /\ sweep[w] = {}
    /\ ExpiredSeats # {}
    /\ \E B \in SUBSET ExpiredSeats :
          /\ OldestBatch(B)
          /\ sweep' = [sweep EXCEPT ![w] =
                {[seat |-> s, tok |-> NoToken, exp |-> inv[s].exp] : s \in B}]
    /\ UNCHANGED <<inv, lock, req, now, nextTok, issued, lapsed>>

\* One tick of the loop reads the expired rows; it releases them afterwards.
ListExpiredHolds(w) ==
    /\ sweep[w] = {}
    /\ ExpiredSeats # {}
    /\ \E B \in SUBSET ExpiredSeats :
          /\ OldestBatch(B)
          /\ sweep' = [sweep EXCEPT ![w] =
                {[seat |-> s, tok |-> inv[s].token, exp |-> inv[s].exp] : s \in B}]
    /\ UNCHANGED <<inv, lock, req, now, nextTok, issued, lapsed>>

\* The rows are released in the order of the listing.
NextListed(w) == {r \in sweep[w] : \A q \in sweep[w] : r.exp <= q.exp}

SweepRelease(w) ==
    /\ \E r \in NextListed(w) :
          /\ r.seat \notin BadSeat
          /\ inv' = [inv EXCEPT ![r.seat] = ReleaseRow(@, r.tok)]
          /\ sweep' = [sweep EXCEPT ![w] = @ \ {r}]
    /\ UNCHANGED <<lock, req, now, nextTok, issued, lapsed>>

\* Release returned an error and the rest of the batch is dropped, or the
\* worker was restarted.
SweepAborts(w) ==
    /\ sweep[w] # {}
    /\ sweep' = [sweep EXCEPT ![w] = {}]
    /\ UNCHANGED <<inv, lock, req, now, nextTok, issued, lapsed>>

Tick ==
    /\ now < MaxTime
    /\ now' = now + 1
    /\ UNCHANGED <<inv, lock, req, sweep, nextTok, issued, lapsed>>

Next ==
    \/ \E p \in Proc, s \in Seat : Acquire(p, s) \/ AcquireAnswerLost(p, s)
    \/ \E p \in Proc : Hold(p) \/ HoldFails(p) \/ Return(p) \/ Crash(p)
    \/ \E s \in Seat : LockExpires(s)
    \/ \E s \in Seat, t \in issued : ReleaseHold(s, t) \/ ConfirmSale(s, t)
    \/ \E w \in Worker : ListExpiredHolds(w) \/ SweepRelease(w) \/ SweepAborts(w)
    \/ Tick

Spec == Init /\ [][Next]_vars

-----------------------------------------------------------------------------
\* The variables have their types: the one type invariant of the module,
\* including the CHECK constraint of migration 000006, that a row has a hold
\* token exactly while it is held.
TypeOK ==
    /\ inv \in [Seat -> Row]
    /\ \A s \in Seat : (inv[s].status = "held") <=> (inv[s].token # NoToken)
    /\ lock \in [Seat -> Proc \cup {NoProc}]
    /\ req \in [Proc -> Request]
    /\ \A p \in Proc : req[p].pc # "idle" => req[p].seat \in Seat /\ req[p].tok # NoToken
    /\ sweep \in [Worker -> SUBSET Listed]
    /\ now \in Nat
    /\ nextTok \in Nat \ {0}
    /\ issued \subseteq Nat
    /\ lapsed \subseteq Proc

\* A hold token names one hold of one seat: no two rows are held under the
\* same token, and a token a request has drawn but not yet written is on no row.
TokenNamesOneHold ==
    /\ \A s, u \in Seat :
          inv[s].status = "held" /\ inv[s].token = inv[u].token => s = u
    /\ \A p \in Proc, s \in Seat :
          req[p].pc = "locked" => inv[s].token # req[p].tok

\* When HoldSeat is about to report success, the seat really is held under the
\* token it reports, unless the hold has expired in the meantime: no sweep
\* working from an older listing, and no other request, can have taken it.
WinnerHasTheSeat ==
    \A p \in Proc :
        req[p].pc = "won" =>
            \/ inv[req[p].seat] = Held(req[p].tok, req[p].exp)
            \/ req[p].exp < now

\* A request in its critical section has its lock until the TTL ends: the unlock
\* of a request that has lost its own lock never takes away the one that someone
\* else has acquired since (unlockScript).
OwnsLockUnlessLapsed ==
    \A p \in Proc, s \in Seat : InSection(p, s) /\ p \notin lapsed => lock[s] = p

\* What follows from it: two requests are in the critical section of one seat
\* together only if the lock of one of them has run out.
ExclusiveUnlessLapsed ==
    \A p, q \in Proc, s \in Seat :
        p # q /\ InSection(p, s) /\ InSection(q, s) => p \in lapsed \/ q \in lapsed

\* A sweep gives a seat back only when the hold it takes away has expired, also
\* when the listed hold is gone and the seat was held again in between.
SweepTakesOnlyExpired ==
    [][\A s \in Seat :
          sweep' # sweep /\ inv'[s] # inv[s] => Expired(inv[s], now)]_vars

-----------------------------------------------------------------------------
(***************************************************************************)
(* Why those invariants hold: the inductive invariant of SeatHoldProofs.   *)
(***************************************************************************)

\* Every token in use was drawn from the counter, which respects its bound.
TokensDrawn ==
    /\ nextTok <= MaxToken + 1
    /\ \A s \in Seat : inv[s].token < nextTok
    /\ \A p \in Proc : req[p].tok < nextTok
    /\ \A w \in Worker : \A r \in sweep[w] : r.tok < nextTok
    /\ \A t \in issued : t < nextTok

\* The token of a running request is its own and is not with a fan yet.
TokensPrivate ==
    /\ \A p \in Proc : req[p].pc # "idle" => req[p].tok \notin issued
    /\ \A p, q \in Proc :
          p # q /\ req[p].pc # "idle" /\ req[q].pc # "idle" => req[p].tok # req[q].tok

\* No sweep has listed a hold that has not been written yet.
LockedNotListed ==
    \A p \in Proc, w \in Worker :
        req[p].pc = "locked" => \A r \in sweep[w] : r.tok # req[p].tok

\* A listed hold had expired, and its seat has not been given a later expiry
\* under the same token.
ListedExpired ==
    \A w \in Worker : \A r \in sweep[w] :
        /\ r.exp < now
        /\ HeldBy(inv[r.seat], r.tok) => inv[r.seat].exp = r.exp

IInv ==
    /\ TypeOK
    /\ TokensDrawn
    /\ TokensPrivate
    /\ TokenNamesOneHold
    /\ LockedNotListed
    /\ ListedExpired
    /\ WinnerHasTheSeat
    /\ OwnsLockUnlessLapsed

-----------------------------------------------------------------------------
(***************************************************************************)
(* The seats and the tokens, as the ledger sees them: a token is used up   *)
(* unless a request is still about to write it.                            *)
(***************************************************************************)
SeatsView == [s \in Seat |-> [status |-> inv[s].status, token |-> inv[s].token]]

UsedView ==
    {t \in 1 .. (nextTok - 1) :
        \A p \in Proc : ~(req[p].pc = "locked" /\ req[p].tok = t)}

Ledger == INSTANCE SeatLedger WITH
    Token <- 1 .. MaxToken, seats <- SeatsView, used <- UsedView

\* Every step of the hot path is a step of the seat ledger, or none: the locks,
\* the sweeps and the crashes never let a seat change hands in another way.
LedgerSpec == Ledger!Spec

-----------------------------------------------------------------------------
(***************************************************************************)
(* The clock moves on, the sweep loop ticks for ever (runSweepLoop) and a  *)
(* Release that is retried on every tick does not fail every time.         *)
(***************************************************************************)
SweepFairness ==
    /\ WF_vars(Tick)
    /\ \A w \in Worker :
          /\ WF_vars(ListExpiredHolds(w))
          /\ SF_vars(SweepRelease(w))
          /\ WF_vars(SweepAborts(w) /\ \E r \in NextListed(w) : r.seat \in BadSeat)

FairSpec == Spec /\ SweepFairness

\* No seat stays held for ever under one token, whatever became of the request
\* that made the hold: the sweep reclaims what nobody sold or released.
EveryHoldEnds ==
    \A s \in Seat, t \in 1 .. MaxToken :
        HeldBy(inv[s], t) ~> ~HeldBy(inv[s], t)

\* "one bad row must not block everything behind it" (the principle that
\* notification.ProcessPending says SweepExpiredHolds already follows): a row
\* the sweep can release is released even if another one always fails.
BadRowBlocksNothing ==
    \A s \in Seat \ BadSeat, t \in 1 .. MaxToken :
        HeldBy(inv[s], t) ~> ~HeldBy(inv[s], t)
=============================================================================
