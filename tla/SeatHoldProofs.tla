--------------------------- MODULE SeatHoldProofs ---------------------------
(***************************************************************************)
(* Proofs about SeatHold: the inductive invariant IInv, the safety         *)
(* properties that follow from it, and the refinement of SeatLedger.       *)
(***************************************************************************)
EXTENDS SeatHold, TLAPS

USE DEF NoToken

\* The initial state satisfies the inductive invariant.
LEMMA InitIInv == Init => IInv
<1> SUFFICES ASSUME Init PROVE IInv
  OBVIOUS
<1> USE ConstantsAssumption DEF Init, Available, Idle
<1>1. TypeOK
  BY DEF TypeOK, Row, Request, Listed
<1>2. TokensDrawn /\ TokensPrivate /\ TokenNamesOneHold
  BY DEF TokensDrawn, TokensPrivate, TokenNamesOneHold
<1>3. LockedNotListed /\ ListedExpired /\ WinnerHasTheSeat
  BY DEF LockedNotListed, ListedExpired, WinnerHasTheSeat
<1>4. OwnsLockUnlessLapsed
  BY DEF OwnsLockUnlessLapsed, InSection
<1> QED
  BY <1>1, <1>2, <1>3, <1>4 DEF IInv

\* Acquire keeps the inductive invariant: the token it draws is new to
\* everyone, and the seat had no lock, so no unlapsed request was in its section.
LEMMA AcquireIInv ==
    ASSUME IInv, NEW p \in Proc, NEW s \in Seat, Acquire(p, s)
    PROVE  IInv'
<1> USE ConstantsAssumption DEF IInv, Acquire
<1>1. TypeOK'
  BY DEF TypeOK, Request, TokensDrawn
<1>2. TokensDrawn'
  BY DEF TokensDrawn, TypeOK, Row, Request, Listed
<1>3. TokensPrivate'
  BY DEF TokensPrivate, TokensDrawn, TypeOK, Request
<1>4. TokenNamesOneHold'
  BY DEF TokenNamesOneHold, TokensDrawn, TypeOK, Row, Request
<1>5. LockedNotListed'
  BY DEF LockedNotListed, TokensDrawn, TypeOK, Request, Listed
<1>6. ListedExpired'
  BY DEF ListedExpired
<1>7. WinnerHasTheSeat'
  BY DEF WinnerHasTheSeat, TypeOK, Request
<1>8. OwnsLockUnlessLapsed'
  BY DEF OwnsLockUnlessLapsed, InSection, TypeOK, Request
<1> QED
  BY <1>1, <1>2, <1>3, <1>4, <1>5, <1>6, <1>7, <1>8 DEF IInv

\* So does an Acquire whose answer is lost.
LEMMA AcquireAnswerLostIInv ==
    ASSUME IInv, NEW p \in Proc, NEW s \in Seat, AcquireAnswerLost(p, s)
    PROVE  IInv'
<1> USE ConstantsAssumption DEF IInv, AcquireAnswerLost
<1>1. TypeOK'
  BY DEF TypeOK
<1>2. TokensDrawn' /\ TokensPrivate' /\ TokenNamesOneHold'
  BY DEF TokensDrawn, TokensPrivate, TokenNamesOneHold
<1>3. LockedNotListed' /\ ListedExpired' /\ WinnerHasTheSeat'
  BY DEF LockedNotListed, ListedExpired, WinnerHasTheSeat
<1>4. OwnsLockUnlessLapsed'
  BY DEF OwnsLockUnlessLapsed, InSection, TypeOK
<1> QED
  BY <1>1, <1>2, <1>3, <1>4 DEF IInv

\* A compare-and-swap by Hold, with whatever answer the request sees, keeps the
\* inductive invariant, provided a request that thinks it won did find the seat
\* available.
LEMMA WriteIInv ==
    ASSUME IInv, NEW p \in Proc, req[p].pc = "locked",
           NEW pc \in {"won", "lost"},
           \/ inv' = [inv EXCEPT ![req[p].seat] = HoldRow(@, req[p].tok, req[p].exp)]
           \/ inv' = inv /\ pc = "lost",
           pc = "won" => inv[req[p].seat].status = "available",
           req' = [req EXCEPT ![p].pc = pc],
           UNCHANGED <<lock, sweep, now, nextTok, issued, lapsed>>
    PROVE  IInv'
<1> USE ConstantsAssumption DEF IInv
<1>0. /\ req[p].seat \in Seat
      /\ req[p].tok \in Nat \ {0}
      /\ req[p].exp \in Nat
      /\ req[p] \in Request
  BY DEF TypeOK, Request
<1>a. \A s \in Seat : \/ inv'[s] = inv[s]
                      \/ /\ s = req[p].seat
                         /\ inv[s].status = "available"
                         /\ inv'[s] = Held(req[p].tok, req[p].exp)
  BY <1>0 DEF TypeOK, HoldRow
<1>b. /\ \A q \in Proc : q # p => req'[q] = req[q]
      /\ req'[p].pc = pc
      /\ req'[p].seat = req[p].seat
      /\ req'[p].tok = req[p].tok
      /\ req'[p].exp = req[p].exp
  BY <1>0 DEF TypeOK, Request
<1>1. TypeOK'
  <2>1. inv' \in [Seat -> Row]
    BY <1>0 DEF TypeOK, HoldRow, Held, Row
  <2>2. req' \in [Proc -> Request]
    BY <1>0 DEF TypeOK, Request
  <2>3. \A s \in Seat : (inv'[s].status = "held") <=> (inv'[s].token # NoToken)
    BY <1>0, <1>a DEF TypeOK, Held
  <2> QED
    BY <2>1, <2>2, <2>3, <1>b, <1>0 DEF TypeOK
<1>2. TokensDrawn'
  BY <1>a, <1>b, <1>0 DEF TokensDrawn, Held
<1>3. TokensPrivate'
  BY <1>b, <1>0 DEF TokensPrivate
<1>4. TokenNamesOneHold'
  BY <1>a, <1>b, <1>0 DEF TokenNamesOneHold, TokensPrivate, Held
<1>5. LockedNotListed'
  BY <1>b DEF LockedNotListed
<1>6. ListedExpired'
  <2> SUFFICES ASSUME NEW w \in Worker, NEW r \in sweep[w], HeldBy(inv'[r.seat], r.tok)
               PROVE  inv'[r.seat].exp = r.exp
    BY DEF ListedExpired
  <2>1. r.seat \in Seat
    BY DEF TypeOK, Listed
  <2>2. inv'[r.seat] = inv[r.seat]
    BY <1>a, <2>1 DEF LockedNotListed, Held, HeldBy
  <2> QED
    BY <2>2 DEF ListedExpired
<1>7. WinnerHasTheSeat'
  <2> SUFFICES ASSUME NEW q \in Proc, req'[q].pc = "won", ~(req'[q].exp < now)
               PROVE  inv'[req'[q].seat] = Held(req'[q].tok, req'[q].exp)
    BY DEF WinnerHasTheSeat
  <2>1. CASE q = p
    BY <2>1, <1>b, <1>0 DEF HoldRow, TypeOK
  <2>2. CASE q # p
    BY <2>2, <1>a, <1>b DEF WinnerHasTheSeat, Held, TypeOK, Request
  <2> QED
    BY <2>1, <2>2
<1>8. OwnsLockUnlessLapsed'
  BY <1>b DEF OwnsLockUnlessLapsed, InSection
<1> QED
  BY <1>1, <1>2, <1>3, <1>4, <1>5, <1>6, <1>7, <1>8 DEF IInv

\* Return and Crash end a request: its token may go to the fan, and the key is
\* deleted only if it is the request's own.
LEMMA EndIInv ==
    ASSUME IInv, NEW p \in Proc, req[p].pc # "idle",
           lock' = Unlocked(req[p].seat, p) \/ lock' = lock,
           req' = [req EXCEPT ![p] = Idle],
           issued' = issued \/ issued' = issued \cup {req[p].tok},
           lapsed' = lapsed \ {p},
           UNCHANGED <<inv, sweep, now, nextTok>>,
           req[p].pc = "locked" => issued' = issued
    PROVE  IInv'
<1> USE ConstantsAssumption DEF IInv
<1>0. req[p].seat \in Seat /\ req[p].tok \in Nat /\ req[p] \in Request
  BY DEF TypeOK, Request
<1>b. /\ \A q \in Proc : q # p => req'[q] = req[q]
      /\ req'[p] = Idle
  BY DEF TypeOK
<1>1. TypeOK'
  BY <1>0, <1>b DEF TypeOK, Request, Idle, Unlocked
<1>2. TokensDrawn'
  <2>1. \A q \in Proc : req'[q].tok < nextTok
    BY <1>b DEF TokensDrawn, TypeOK, Idle
  <2>2. \A t \in issued' : t < nextTok
    BY <1>0 DEF TokensDrawn
  <2> QED
    BY <2>1, <2>2 DEF TokensDrawn
<1>3. TokensPrivate'
  BY <1>0, <1>b DEF TokensPrivate, Idle
<1>4. TokenNamesOneHold'
  BY <1>b DEF TokenNamesOneHold, Idle
<1>5. LockedNotListed'
  BY <1>b DEF LockedNotListed, Idle
<1>6. ListedExpired'
  BY DEF ListedExpired
<1>7. WinnerHasTheSeat'
  BY <1>b DEF WinnerHasTheSeat, Idle
<1>8. OwnsLockUnlessLapsed'
  BY <1>0, <1>b DEF OwnsLockUnlessLapsed, InSection, Idle, Unlocked, TypeOK
<1> QED
  BY <1>1, <1>2, <1>3, <1>4, <1>5, <1>6, <1>7, <1>8 DEF IInv

\* Redis dropping a key only touches the lock and the history of lapses.
LEMMA LockExpiresIInv ==
    ASSUME IInv, NEW s \in Seat, LockExpires(s)
    PROVE  IInv'
<1> USE ConstantsAssumption DEF IInv, LockExpires
<1>1. TypeOK'
  BY DEF TypeOK
<1>2. TokensDrawn' /\ TokensPrivate' /\ TokenNamesOneHold'
  BY DEF TokensDrawn, TokensPrivate, TokenNamesOneHold
<1>3. LockedNotListed' /\ ListedExpired' /\ WinnerHasTheSeat'
  BY DEF LockedNotListed, ListedExpired, WinnerHasTheSeat
<1>4. OwnsLockUnlessLapsed'
  BY DEF OwnsLockUnlessLapsed, InSection, TypeOK
<1> QED
  BY <1>1, <1>2, <1>3, <1>4 DEF IInv

\* A row given back or sold: whoever asks for it presents a token that is with a
\* fan, or one that a sweep has listed.
LEMMA EndHoldIInv ==
    ASSUME IInv, NEW s \in Seat, NEW row \in {Available, Sold}, NEW t,
           inv' = [inv EXCEPT ![s] = IF HeldBy(@, t) THEN row ELSE @],
           t \in issued \/ inv[s].exp < now \/ ~HeldBy(inv[s], t),
           UNCHANGED <<lock, req, now, nextTok, issued, lapsed>>,
           \A w \in Worker : sweep'[w] \subseteq sweep[w],
           sweep' \in [Worker -> SUBSET Listed]
    PROVE  IInv'
<1> USE ConstantsAssumption DEF IInv
<1>0. /\ row.token = NoToken
      /\ row.status # "held"
      /\ row \in Row
  BY DEF Available, Sold, Row
<1>a. \A u \in Seat : \/ inv'[u] = inv[u]
                      \/ u = s /\ HeldBy(inv[s], t) /\ inv'[u] = row
  BY DEF TypeOK
<1>1. TypeOK'
  <2>1. inv' \in [Seat -> Row]
    BY <1>0 DEF TypeOK
  <2> QED
    BY <2>1, <1>0, <1>a DEF TypeOK
<1>2. TokensDrawn'
  BY <1>0, <1>a DEF TokensDrawn, TypeOK
<1>3. TokensPrivate'
  BY DEF TokensPrivate
<1>4. TokenNamesOneHold'
  BY <1>0, <1>a DEF TokenNamesOneHold, TypeOK
<1>5. LockedNotListed'
  BY DEF LockedNotListed
<1>6. ListedExpired'
  BY <1>0, <1>a DEF ListedExpired, HeldBy, TypeOK, Listed
<1>7. WinnerHasTheSeat'
  <2> SUFFICES ASSUME NEW q \in Proc, req[q].pc = "won", ~(req[q].exp < now)
               PROVE  inv'[req[q].seat] = Held(req[q].tok, req[q].exp)
    BY DEF WinnerHasTheSeat
  <2>1. /\ inv[req[q].seat] = Held(req[q].tok, req[q].exp)
        /\ req[q].seat \in Seat
        /\ req[q].tok \notin issued
    BY DEF WinnerHasTheSeat, TypeOK, TokensPrivate
  <2> QED
    BY <2>1, <1>a DEF Held, HeldBy
<1>8. OwnsLockUnlessLapsed'
  BY DEF OwnsLockUnlessLapsed, InSection
<1> QED
  BY <1>1, <1>2, <1>3, <1>4, <1>5, <1>6, <1>7, <1>8 DEF IInv

\* Listing copies rows that are held and expired at that moment.
LEMMA ListExpiredHoldsIInv ==
    ASSUME IInv, NEW w \in Worker, ListExpiredHolds(w)
    PROVE  IInv'
<1> USE DEF IInv
<1> PICK B \in SUBSET ExpiredSeats :
        sweep' = [sweep EXCEPT ![w] =
            {[seat |-> s, tok |-> inv[s].token, exp |-> inv[s].exp] : s \in B}]
  BY DEF ListExpiredHolds
<1>0. UNCHANGED <<inv, lock, req, now, nextTok, issued, lapsed>>
  BY DEF ListExpiredHolds
<1>a. \A v \in Worker : \A r \in sweep'[v] :
          \/ r \in sweep[v]
          \/ \E s \in Seat : /\ Expired(inv[s], now)
                             /\ r = [seat |-> s, tok |-> inv[s].token, exp |-> inv[s].exp]
  BY DEF TypeOK, ExpiredSeats
<1>1. TypeOK'
  <2>1. sweep' \in [Worker -> SUBSET Listed]
    <3>1. {[seat |-> s, tok |-> inv[s].token, exp |-> inv[s].exp] : s \in B} \subseteq Listed
      BY DEF TypeOK, Row, Listed, ExpiredSeats
    <3> QED
      BY <3>1 DEF TypeOK
  <2> QED
    BY <2>1, <1>0 DEF TypeOK
<1>2. TokensDrawn'
  BY <1>0, <1>a DEF TokensDrawn
<1>3. TokensPrivate' /\ TokenNamesOneHold' /\ WinnerHasTheSeat'
  BY <1>0 DEF TokensPrivate, TokenNamesOneHold, WinnerHasTheSeat
<1>4. LockedNotListed'
  BY <1>0, <1>a DEF LockedNotListed, TokenNamesOneHold
<1>5. ListedExpired'
  BY <1>0, <1>a DEF ListedExpired, Expired
<1>6. OwnsLockUnlessLapsed'
  BY <1>0 DEF OwnsLockUnlessLapsed, InSection
<1> QED
  BY <1>1, <1>2, <1>3, <1>4, <1>5, <1>6 DEF IInv

\* The clock only moves forward: what had expired stays expired.
LEMMA TickIInv ==
    ASSUME IInv, Tick
    PROVE  IInv'
<1> USE DEF IInv, Tick
<1>1. TypeOK'
  BY DEF TypeOK
<1>2. TokensDrawn' /\ TokensPrivate' /\ TokenNamesOneHold' /\ LockedNotListed'
  BY DEF TokensDrawn, TokensPrivate, TokenNamesOneHold, LockedNotListed
<1>3. ListedExpired'
  BY DEF ListedExpired, TypeOK, Listed
<1>4. WinnerHasTheSeat'
  BY DEF WinnerHasTheSeat, TypeOK, Request
<1>5. OwnsLockUnlessLapsed'
  BY DEF OwnsLockUnlessLapsed, InSection
<1> QED
  BY <1>1, <1>2, <1>3, <1>4, <1>5 DEF IInv

\* A sweep's Release takes its token from a listing, which names an expired hold.
LEMMA SweepReleaseIInv ==
    ASSUME IInv, NEW w \in Worker, SweepRelease(w)
    PROVE  IInv'
<1> USE DEF IInv
<1> PICK r \in NextListed(w) :
        /\ inv' = [inv EXCEPT ![r.seat] = ReleaseRow(@, r.tok)]
        /\ sweep' = [sweep EXCEPT ![w] = @ \ {r}]
  BY DEF SweepRelease
<1>0. r \in sweep[w] /\ r.seat \in Seat
  BY DEF NextListed, TypeOK, Listed
<1>1. inv[r.seat].exp < now \/ ~HeldBy(inv[r.seat], r.tok)
  BY <1>0 DEF ListedExpired
<1>2. /\ \A v \in Worker : sweep'[v] \subseteq sweep[v]
      /\ sweep' \in [Worker -> SUBSET Listed]
  BY DEF TypeOK
<1>3. inv' = [inv EXCEPT ![r.seat] = IF HeldBy(@, r.tok) THEN Available ELSE @]
  BY DEF ReleaseRow
<1> QED
  BY <1>0, <1>1, <1>2, <1>3, EndHoldIInv DEF SweepRelease

\* Every step of the hot path keeps the inductive invariant.
LEMMA NextIInv == IInv /\ [Next]_vars => IInv'
<1> SUFFICES ASSUME IInv, [Next]_vars PROVE IInv'
  OBVIOUS
<1>1. ASSUME NEW p \in Proc, NEW s \in Seat, Acquire(p, s) \/ AcquireAnswerLost(p, s)
      PROVE  IInv'
  BY <1>1, AcquireIInv, AcquireAnswerLostIInv
<1>2. ASSUME NEW p \in Proc, Hold(p)
      PROVE  IInv'
  <2>1. CASE inv[req[p].seat].status = "available"
    BY <1>2, <2>1, WriteIInv DEF Hold
  <2>2. CASE inv[req[p].seat].status # "available"
    BY <1>2, <2>2, WriteIInv DEF Hold
  <2> QED
    BY <2>1, <2>2
<1>3. ASSUME NEW p \in Proc, HoldFails(p)
      PROVE  IInv'
  BY <1>3, WriteIInv DEF HoldFails
<1>4. ASSUME NEW p \in Proc, Return(p)
      PROVE  IInv'
  BY <1>4, EndIInv DEF Return
<1>5. ASSUME NEW p \in Proc, Crash(p)
      PROVE  IInv'
  BY <1>5, EndIInv DEF Crash
<1>6. ASSUME NEW s \in Seat, LockExpires(s)
      PROVE  IInv'
  BY <1>6, LockExpiresIInv
<1>7. ASSUME NEW s \in Seat, NEW t \in issued, ReleaseHold(s, t)
      PROVE  IInv'
  BY <1>7, EndHoldIInv DEF ReleaseHold, ReleaseRow, IInv, TypeOK
<1>8. ASSUME NEW s \in Seat, NEW t \in issued, ConfirmSale(s, t)
      PROVE  IInv'
  BY <1>8, EndHoldIInv DEF ConfirmSale, ConfirmSaleRow, IInv, TypeOK
<1>9. ASSUME NEW w \in Worker, ListExpiredHolds(w) \/ SweepRelease(w)
      PROVE  IInv'
  BY <1>9, ListExpiredHoldsIInv, SweepReleaseIInv
<1>10. ASSUME NEW w \in Worker, SweepAborts(w)
       PROVE  IInv'
  BY <1>10 DEF SweepAborts, IInv, TypeOK, TokensDrawn, TokensPrivate,
               TokenNamesOneHold, LockedNotListed, ListedExpired,
               WinnerHasTheSeat, OwnsLockUnlessLapsed, InSection
<1>11. CASE Tick
  BY <1>11, TickIInv
<1>12. CASE UNCHANGED vars
  BY <1>12 DEF vars, IInv, TypeOK, TokensDrawn, TokensPrivate, TokenNamesOneHold,
               LockedNotListed, ListedExpired, WinnerHasTheSeat,
               OwnsLockUnlessLapsed, InSection
<1> QED
  BY <1>1, <1>2, <1>3, <1>4, <1>5, <1>6, <1>7, <1>8, <1>9, <1>10, <1>11, <1>12
     DEF Next

\* The inductive invariant holds in every reachable state, for any number of
\* seats, requests and workers.
THEOREM Invariance == Spec => []IInv
  BY InitIInv, NextIInv, PTL DEF Spec

\* The hot path is type correct, the CHECK constraint of the table included.
THEOREM TypeCorrect == Spec => []TypeOK
<1>1. IInv => TypeOK
  BY DEF IInv
<1> QED
  BY <1>1, Invariance, PTL

\* A hold token names one hold of one seat.
THEOREM TokensUnique == Spec => []TokenNamesOneHold
<1>1. IInv => TokenNamesOneHold
  BY DEF IInv
<1> QED
  BY <1>1, Invariance, PTL

\* HoldSeat never reports a hold that someone else has taken away unexpired.
THEOREM NoFalseWinner == Spec => []WinnerHasTheSeat
<1>1. IInv => WinnerHasTheSeat
  BY DEF IInv
<1> QED
  BY <1>1, Invariance, PTL

\* A running request keeps its lock until the TTL ends, whoever unlocks meanwhile.
THEOREM LockIsKept == Spec => []OwnsLockUnlessLapsed
<1>1. IInv => OwnsLockUnlessLapsed
  BY DEF IInv
<1> QED
  BY <1>1, Invariance, PTL

\* The Redis lock excludes, as long as it does not run out under its owner.
THEOREM LockExcludes == Spec => []ExclusiveUnlessLapsed
<1>1. OwnsLockUnlessLapsed => ExclusiveUnlessLapsed
  BY DEF OwnsLockUnlessLapsed, ExclusiveUnlessLapsed
<1> QED
  BY <1>1, LockIsKept, PTL

\* SweepExpiredHolds never takes a seat from a hold that has not expired,
\* although it releases rows it listed earlier.
THEOREM SweepSafe == Spec => SweepTakesOnlyExpired
<1>1. ASSUME IInv, [Next]_vars, NEW s \in Seat, sweep' # sweep, inv'[s] # inv[s]
      PROVE  Expired(inv[s], now)
  <2>1. PICK w \in Worker : SweepRelease(w)
    BY <1>1 DEF Next, vars, Acquire, AcquireAnswerLost, Hold, HoldFails, Return,
                Crash, LockExpires, ReleaseHold, ConfirmSale, ListExpiredHolds,
                SweepAborts, Tick
  <2>2. PICK r \in NextListed(w) : inv' = [inv EXCEPT ![r.seat] = ReleaseRow(@, r.tok)]
    BY <2>1 DEF SweepRelease
  <2>3. r \in sweep[w] /\ r.seat = s /\ HeldBy(inv[s], r.tok)
    BY <1>1, <2>2 DEF NextListed, ReleaseRow, IInv, TypeOK
  <2> QED
    BY <1>1, <2>3 DEF IInv, ListedExpired, Expired, HeldBy
<1>2. IInv /\ [Next]_vars =>
        [\A s \in Seat : sweep' # sweep /\ inv'[s] # inv[s]
                             => Expired(inv[s], now)]_vars
  BY <1>1
<1> QED
  BY <1>2, Invariance, PTL DEF Spec, SweepTakesOnlyExpired

-----------------------------------------------------------------------------
(***************************************************************************)
(* SeatHold implements SeatLedger.                                         *)
(***************************************************************************)

\* Drawing a token for a request that has not written it leaves the ledger alone.
LEMMA AcquireStutters ==
    ASSUME IInv, NEW p \in Proc, NEW s \in Seat, Acquire(p, s)
    PROVE  UNCHANGED <<SeatsView, UsedView>>
<1>1. SeatsView' = SeatsView
  BY DEF Acquire, SeatsView
<1>2. \A t : t \in UsedView' <=> t \in UsedView
  <2> SUFFICES ASSUME NEW t \in Nat PROVE t \in UsedView' <=> t \in UsedView
    BY DEF UsedView, Acquire, IInv, TypeOK
  <2>1. t \in 1 .. (nextTok' - 1) <=> t \in 1 .. (nextTok - 1) \/ t = nextTok
    BY DEF Acquire, IInv, TypeOK
  <2>2. /\ req'[p].pc = "locked" /\ req'[p].tok = nextTok
        /\ req[p].pc = "idle"
        /\ \A q \in Proc : q # p => req'[q] = req[q]
    BY DEF Acquire, IInv, TypeOK
  <2>3. ~(nextTok \in 1 .. (nextTok - 1))
    BY DEF IInv, TypeOK
  <2> QED
    BY <2>1, <2>2, <2>3 DEF UsedView
<1> QED
  BY <1>1, <1>2 DEF UsedView

\* The end of a request's "locked" phase uses its token up, and nothing else.
LEMMA TokenUsedUp ==
    ASSUME IInv, NEW p \in Proc, req[p].pc = "locked",
           nextTok' = nextTok, req'[p].pc # "locked",
           \A q \in Proc : q # p => req'[q] = req[q]
    PROVE  /\ UsedView' = UsedView \cup {req[p].tok}
           /\ req[p].tok \notin UsedView
           /\ req[p].tok \in 1 .. MaxToken
<1>1. /\ req[p].tok \in 1 .. (nextTok - 1)
      /\ req[p].tok \in 1 .. MaxToken
  BY ConstantsAssumption DEF IInv, TypeOK, Request, TokensDrawn
<1>2. \A q \in Proc : q # p /\ req[q].pc = "locked" => req[q].tok # req[p].tok
  BY DEF IInv, TokensPrivate
<1>3. \A t : t \in UsedView' <=> t \in UsedView \/ t = req[p].tok
  BY <1>1, <1>2 DEF UsedView
<1> QED
  BY <1>1, <1>3 DEF UsedView

\* A request that leaves its section later changes nothing the ledger sees.
LEMMA LaterStutters ==
    ASSUME IInv, NEW p \in Proc, req[p].pc # "locked",
           inv' = inv, nextTok' = nextTok, req'[p].pc # "locked",
           \A q \in Proc : q # p => req'[q] = req[q]
    PROVE  UNCHANGED <<SeatsView, UsedView>>
<1>1. \A t : t \in UsedView' <=> t \in UsedView
  BY DEF UsedView
<1> QED
  BY <1>1 DEF UsedView, SeatsView

\* The compare-and-swap of Hold is a Hold or a Discard of the ledger.
LEMMA WriteRefines ==
    ASSUME IInv, NEW p \in Proc, req[p].pc = "locked",
           \/ inv' = [inv EXCEPT ![req[p].seat] = HoldRow(@, req[p].tok, req[p].exp)]
           \/ inv' = inv,
           nextTok' = nextTok, req'[p].pc # "locked",
           \A q \in Proc : q # p => req'[q] = req[q]
    PROVE  Ledger!Next
<1>0. req[p].seat \in Seat
  BY DEF IInv, TypeOK
<1>1. CASE inv' = inv
  <2>1. Ledger!Discard(req[p].tok)
    BY <1>1, TokenUsedUp DEF Ledger!Discard, SeatsView
  <2> QED
    BY <2>1, TokenUsedUp DEF Ledger!Next
<1>2. CASE /\ inv[req[p].seat].status = "available"
           /\ inv' = [inv EXCEPT ![req[p].seat] = Held(req[p].tok, req[p].exp)]
  <2>1. SeatsView[req[p].seat].status = "available"
    BY <1>0, <1>2 DEF SeatsView
  <2>2. SeatsView' = [SeatsView EXCEPT ![req[p].seat] =
                         [status |-> "held", token |-> req[p].tok]]
    BY <1>0, <1>2 DEF SeatsView, Held, IInv, TypeOK
  <2>3. Ledger!Hold(req[p].seat, req[p].tok)
    BY <2>1, <2>2, TokenUsedUp DEF Ledger!Hold
  <2> QED
    BY <1>0, <2>3, TokenUsedUp DEF Ledger!Next
<1>3. CASE /\ inv[req[p].seat].status # "available"
           /\ inv' = [inv EXCEPT ![req[p].seat] = HoldRow(@, req[p].tok, req[p].exp)]
  <2>1. inv' = inv
    BY <1>0, <1>3 DEF HoldRow, IInv, TypeOK
  <2> QED
    BY <2>1, <1>1
<1> QED
  BY <1>0, <1>1, <1>2, <1>3 DEF HoldRow

\* Giving a row back or selling it is a Release or a Sell of the ledger, or no
\* step when the token does not match.
LEMMA EndHoldRefines ==
    ASSUME IInv, NEW s \in Seat, NEW t,
           \/ inv' = [inv EXCEPT ![s] = ReleaseRow(@, t)]
           \/ inv' = [inv EXCEPT ![s] = ConfirmSaleRow(@, t)],
           UNCHANGED <<req, nextTok>>
    PROVE  Ledger!Next \/ UNCHANGED <<SeatsView, UsedView>>
<1>0. UsedView' = UsedView
  BY DEF UsedView
<1>1. CASE ~HeldBy(inv[s], t)
  <2>1. inv' = inv
    BY <1>1 DEF ReleaseRow, ConfirmSaleRow, IInv, TypeOK
  <2> QED
    BY <2>1, <1>0 DEF SeatsView
<1>2. CASE HeldBy(inv[s], t) /\ inv' = [inv EXCEPT ![s] = Available]
  <2>1. SeatsView[s].status = "held"
    BY <1>2 DEF SeatsView, HeldBy
  <2>2. SeatsView' = [SeatsView EXCEPT ![s] = Ledger!Free]
    BY <1>2 DEF SeatsView, Available, Ledger!Free, IInv, TypeOK
  <2> QED
    BY <1>0, <2>1, <2>2 DEF Ledger!Release, Ledger!Next
<1>3. CASE HeldBy(inv[s], t) /\ inv' = [inv EXCEPT ![s] = Sold]
  <2>1. \A u \in {s} : SeatsView[u].status = "held"
    BY <1>3 DEF SeatsView, HeldBy
  <2>2. SeatsView' = [u \in Seat |-> IF u \in {s} THEN Ledger!Gone ELSE SeatsView[u]]
    BY <1>3 DEF SeatsView, Sold, Ledger!Gone, IInv, TypeOK
  <2>3. Ledger!Sell({s})
    BY <1>0, <2>1, <2>2 DEF Ledger!Sell
  <2> QED
    BY <2>3 DEF Ledger!Next
<1> QED
  BY <1>1, <1>2, <1>3 DEF ReleaseRow, ConfirmSaleRow

\* Every step of the hot path is a step of the ledger or leaves it alone.
LEMMA StepRefines ==
    ASSUME IInv, [Next]_vars
    PROVE  [Ledger!Next]_(Ledger!ledgerVars)
<1> SUFFICES Ledger!Next \/ UNCHANGED <<SeatsView, UsedView>>
  BY DEF Ledger!ledgerVars
<1>0. ASSUME UNCHANGED <<inv, req, nextTok>>
      PROVE  UNCHANGED <<SeatsView, UsedView>>
  BY <1>0 DEF SeatsView, UsedView
<1>1. ASSUME NEW p \in Proc, NEW s \in Seat, Acquire(p, s)
      PROVE  UNCHANGED <<SeatsView, UsedView>>
  BY <1>1, AcquireStutters
<1>2. ASSUME NEW p \in Proc, Hold(p) \/ HoldFails(p)
      PROVE  Ledger!Next
  <2>1. /\ req'[p].pc # "locked"
        /\ \A q \in Proc : q # p => req'[q] = req[q]
    BY <1>2 DEF Hold, HoldFails, IInv, TypeOK, Request
  <2> QED
    BY <1>2, <2>1, WriteRefines DEF Hold, HoldFails
<1>3. ASSUME NEW p \in Proc, Return(p) \/ Crash(p)
      PROVE  Ledger!Next \/ UNCHANGED <<SeatsView, UsedView>>
  <2>1. /\ inv' = inv
        /\ nextTok' = nextTok
        /\ req'[p].pc # "locked"
        /\ \A q \in Proc : q # p => req'[q] = req[q]
    BY <1>3 DEF Return, Crash, Idle, IInv, TypeOK
  <2> QED
    BY <2>1, WriteRefines, LaterStutters
<1>4. ASSUME NEW s \in Seat, NEW t \in issued, ReleaseHold(s, t) \/ ConfirmSale(s, t)
      PROVE  Ledger!Next \/ UNCHANGED <<SeatsView, UsedView>>
  BY <1>4, EndHoldRefines DEF ReleaseHold, ConfirmSale
<1>5. ASSUME NEW w \in Worker, SweepRelease(w)
      PROVE  Ledger!Next \/ UNCHANGED <<SeatsView, UsedView>>
  <2>1. PICK r \in NextListed(w) : inv' = [inv EXCEPT ![r.seat] = ReleaseRow(@, r.tok)]
    BY <1>5 DEF SweepRelease
  <2>2. r.seat \in Seat
    BY DEF NextListed, IInv, TypeOK, Listed
  <2> QED
    BY <1>5, <2>1, <2>2, EndHoldRefines DEF SweepRelease
<1>6. ASSUME NEW p \in Proc, NEW s \in Seat, AcquireAnswerLost(p, s)
      PROVE  UNCHANGED <<SeatsView, UsedView>>
  BY <1>6, <1>0 DEF AcquireAnswerLost
<1>7. ASSUME NEW s \in Seat, LockExpires(s)
      PROVE  UNCHANGED <<SeatsView, UsedView>>
  BY <1>7, <1>0 DEF LockExpires
<1>8. ASSUME NEW w \in Worker, ListExpiredHolds(w) \/ SweepAborts(w)
      PROVE  UNCHANGED <<SeatsView, UsedView>>
  BY <1>8, <1>0 DEF ListExpiredHolds, SweepAborts
<1>9. CASE Tick \/ UNCHANGED vars
  BY <1>9, <1>0 DEF Tick, vars
<1> QED
  BY <1>1, <1>2, <1>3, <1>4, <1>5, <1>6, <1>7, <1>8, <1>9 DEF Next

\* The seat-purchase hot path implements the seat ledger, for any number of
\* seats, requests and workers: no seat changes hands in a way the ledger does
\* not allow.
THEOREM ImplementsLedger == Spec => LedgerSpec
<1>1. Init => Ledger!Init
  BY DEF Init, Ledger!Init, Ledger!Free, SeatsView, UsedView, Available
<1>2. IInv /\ [Next]_vars => [Ledger!Next]_(Ledger!ledgerVars)
  BY StepRefines
<1> QED
  BY <1>1, <1>2, Invariance, PTL DEF Spec, LedgerSpec, Ledger!Spec

-----------------------------------------------------------------------------
(***************************************************************************)
(* What fans get from the ledger: a token they know can only lose a seat.  *)
(***************************************************************************)

\* The ledger never gives up a sold seat, and starts no hold under a token that is
\* used up.
LEMMA LedgerKeeps ==
    ASSUME Ledger!Next, NEW s \in Seat
    PROVE  /\ SeatsView[s].status = "sold" => SeatsView'[s].status = "sold"
           /\ \A t \in UsedView :
                 SeatsView'[s].status = "held" /\ SeatsView'[s].token = t =>
                     SeatsView[s].status = "held" /\ SeatsView[s].token = t
<1> DEFINE v == SeatsView
<1>0. DOMAIN v = Seat /\ v = [x \in Seat |-> v[x]]
  BY DEF SeatsView
<1> HIDE DEF v
<1>1. ASSUME NEW u \in Seat, NEW n, Ledger!Hold(u, n)
      PROVE  /\ v[u].status = "available" /\ n \notin UsedView
             /\ v' = [v EXCEPT ![u] = [status |-> "held", token |-> n]]
  BY <1>1, Zenon DEF Ledger!Hold, v
<1>2. ASSUME NEW u \in Seat, Ledger!Release(u)
      PROVE  v[u].status = "held" /\ v' = [v EXCEPT ![u] = Ledger!Free]
  BY <1>2, Zenon DEF Ledger!Release, v
<1>3. ASSUME NEW S \in SUBSET Seat, Ledger!Sell(S)
      PROVE  /\ \A u \in S : v[u].status = "held"
             /\ v' = [u \in Seat |-> IF u \in S THEN Ledger!Gone ELSE v[u]]
  BY <1>3, Zenon DEF Ledger!Sell, v
<1>4. ASSUME NEW n, Ledger!Discard(n) PROVE v' = v
  BY <1>4, Zenon DEF Ledger!Discard, v
<1>5. /\ Ledger!Free.status = "available" /\ Ledger!Gone.status = "sold"
  BY DEF Ledger!Free, Ledger!Gone
<1> DEFINE Keeps == /\ v[s].status = "sold" => v'[s].status = "sold"
                    /\ \A t \in UsedView : v'[s].status = "held" /\ v'[s].token = t =>
                           v[s].status = "held" /\ v[s].token = t
<1>6. ASSUME NEW u \in Seat, NEW n, Ledger!Hold(u, n) PROVE Keeps
  BY <1>0, <1>1, <1>6
<1>7. ASSUME NEW u \in Seat, Ledger!Release(u) PROVE Keeps
  BY <1>0, <1>2, <1>5, <1>7
<1>8. ASSUME NEW S \in SUBSET Seat, Ledger!Sell(S) PROVE Keeps
  BY <1>3, <1>5, <1>8
<1>9. ASSUME NEW n, Ledger!Discard(n) PROVE Keeps
  BY <1>4, <1>9
<1> HIDE DEF Keeps
<1>10. Keeps
  BY <1>6, <1>7, <1>8, <1>9, Zenon DEF Ledger!Next
<1> QED
  BY <1>10, Zenon DEF Keeps, v

\* A sold seat stays sold, and a token that is with a fan never gains a seat: once its
\* hold has been released, swept or sold it is worth nothing for ever, so a
\* ReleaseHold or ConfirmSale that comes late or twice cannot touch a later hold.
EndedForGood ==
    [][\A s \in Seat :
          /\ inv[s].status = "sold" => inv'[s].status = "sold"
          /\ \A t \in issued : HeldBy(inv'[s], t) => HeldBy(inv[s], t)]_vars

\* EndedForGood, by way of the ledger: HoldSeat writes a hold under a token that no
\* fan has been given.
THEOREM StaleTokensAreDead == Spec => EndedForGood
<1>1. ASSUME IInv, IInv', [Next]_vars, NEW s \in Seat
      PROVE  /\ inv[s].status = "sold" => inv'[s].status = "sold"
             /\ \A t \in issued : HeldBy(inv'[s], t) => HeldBy(inv[s], t)
  <2>1. /\ SeatsView[s].status = inv[s].status /\ SeatsView[s].token = inv[s].token
        /\ SeatsView'[s].status = inv'[s].status /\ SeatsView'[s].token = inv'[s].token
    BY DEF SeatsView
  <2>2. Ledger!Next \/ SeatsView' = SeatsView
    BY <1>1, StepRefines DEF Ledger!ledgerVars
  <2>3. \A t \in issued : t # NoToken => t \in UsedView
    BY <1>1 DEF IInv, TypeOK, TokensDrawn, TokensPrivate, UsedView, NoToken
  <2>4. inv'[s].status = "held" => inv'[s].token # NoToken
    BY <1>1 DEF IInv, TypeOK
  <2>5. CASE Ledger!Next
    BY <2>1, <2>3, <2>4, <2>5, LedgerKeeps DEF HeldBy
  <2>6. CASE SeatsView' = SeatsView
    BY <2>1, <2>6 DEF HeldBy
  <2> QED
    BY <2>2, <2>5, <2>6
<1>2. IInv /\ IInv' /\ [Next]_vars =>
          [\A s \in Seat :
              /\ inv[s].status = "sold" => inv'[s].status = "sold"
              /\ \A t \in issued : HeldBy(inv'[s], t) => HeldBy(inv[s], t)]_vars
  BY <1>1, Zenon
<1> QED
  BY <1>2, Invariance, PTL DEF Spec, EndedForGood
=============================================================================
