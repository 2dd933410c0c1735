------------------------- MODULE RateLimiterProofs --------------------------
(***************************************************************************)
(* Proofs about RateLimiter, for any keys, requests, limit and window: in  *)
(* a stretch as long as the window at most twice the limit is let through, *)
(* and a counter that gets no TTL is one whose EXPIRE failed.              *)
(***************************************************************************)
EXTENDS RateLimiter, FiniteSetTheorems, TLAPS

Attempt == [n : 1 .. Limit, age : 1 .. Window]

Types ==
    /\ count \in [Key -> 0 .. MaxCount]
    /\ ttl \in [Key -> 0 .. Window]
    /\ req \in [Proc -> Key \cup {NoKey}]
    /\ allowed \in [Key -> SUBSET Attempt]

\* Some request is on its way to the EXPIRE of k.
Starting(k) == \E p \in Proc : req[p] = k

\* Only the request that created a counter sends its EXPIRE, while the counter
\* has no TTL and so cannot be deleted; without a counter there is no TTL.
OneCreator ==
    /\ \A p, q \in Proc : req[p] = req[q] /\ req[p] # NoKey => p = q
    /\ \A k \in Key : Starting(k) => count[k] > 0 /\ ttl[k] = 0
    /\ \A k \in Key : count[k] = 0 => ttl[k] = 0

\* The recent attempts belong to the present counter (the ones of age b or less) or
\* to the one before it.  No two attempts on one counter counted to the same
\* number.  Once the TTL is set, the attempts on the earlier counter stop being
\* recent before the present one is deleted.
Counters(k, b) ==
    /\ ttl[k] > 0 => b >= Window - ttl[k] + 1
    /\ \A a, c \in allowed[k] : a.n = c.n /\ (a.age <= b <=> c.age <= b) => a = c
    /\ \A a \in allowed[k] : a.age <= b => a.n <= count[k] /\ (Starting(k) => a.n > 1)

TwoCounters == \A k \in Key : \E b \in 1 .. Window : Counters(k, b)

\* The inductive invariant.
IInv == Types /\ OneCreator /\ TwoCounters /\ EveryKeyExpires

-----------------------------------------------------------------------------
\* The counter saturates: what INCR leaves behind is n, unless n is beyond the
\* bound, where every attempt is refused anyway.
LEMMA Saturates ==
    ASSUME NEW n \in Nat, n <= MaxCount + 1
    PROVE  /\ Min({n, MaxCount}) \in 0 .. MaxCount
           /\ Min({n, MaxCount}) = IF n <= MaxCount THEN n ELSE MaxCount
<1>1. \E x \in {n, MaxCount} : \A y \in {n, MaxCount} : x <= y
  BY ConstantsAssumption
<1>2. Min({n, MaxCount}) \in {n, MaxCount} /\ \A y \in {n, MaxCount} : Min({n, MaxCount}) <= y
  BY <1>1 DEF Min
<1> QED
  BY <1>2, ConstantsAssumption

\* With no counter and no attempt the inductive invariant holds.
LEMMA InitIInv == Init => IInv
<1> SUFFICES ASSUME Init PROVE IInv
  OBVIOUS
<1> USE ConstantsAssumption
<1>1. Types
  BY DEF Init, Types
<1>2. OneCreator
  BY DEF Init, OneCreator, Starting
<1>3. ASSUME NEW k \in Key PROVE Counters(k, 1)
  BY DEF Init, Counters
<1>4. EveryKeyExpires
  BY DEF Init, EveryKeyExpires
<1> QED
  BY <1>1, <1>2, <1>3, <1>4 DEF IInv, TwoCounters

\* An attempt that counts to n, more than any attempt on the present counter or
\* its first while EXPIRE was on its way, is a new one of the present counter.
LEMMA DecideKeeps ==
    ASSUME Types, NEW k \in Key, NEW n \in Nat \ {0}, NEW b \in 1 .. Window, Counters(k, b),
           Decide(k, n), \A a \in allowed[k] : a.age <= b => a.n # n
    PROVE  /\ allowed' \in [Key -> SUBSET Attempt]
           /\ \A l \in Key : l # k => allowed'[l] = allowed[l]
           /\ allowed'[k] \subseteq allowed[k] \cup {[n |-> n, age |-> 1]}
           /\ \A a, c \in allowed'[k] : a.n = c.n /\ (a.age <= b <=> c.age <= b) => a = c
<1> DEFINE new == [n |-> n, age |-> 1]
<1>1. new.n = n /\ new.age = 1 /\ new.age <= b
  OBVIOUS
<1>2. CASE WithinLimit(n)
  <2>1. new \in Attempt
    BY <1>2, ConstantsAssumption DEF WithinLimit, Attempt
  <2>2. allowed' = [allowed EXCEPT ![k] = allowed[k] \cup {new}]
    BY <1>2 DEF Decide, Types
  <2>3. allowed'[k] = allowed[k] \cup {new}
    BY <2>2 DEF Types
  <2> HIDE DEF new
  <2>4. \A a, c \in allowed'[k] : a.n = c.n /\ (a.age <= b <=> c.age <= b) => a = c
    BY <1>1, <2>3 DEF Counters
  <2>5. allowed' \in [Key -> SUBSET Attempt] /\ \A l \in Key : l # k => allowed'[l] = allowed[l]
    BY <2>1, <2>2 DEF Types
  <2> QED
    BY <2>3, <2>4, <2>5 DEF new
<1>3. CASE ~WithinLimit(n)
  BY <1>3 DEF Decide, Types, Counters
<1> QED
  BY <1>2, <1>3

-----------------------------------------------------------------------------
\* Allow keeps the inductive invariant.  The attempt that creates the counter finds
\* none, so no attempt on it and no other request on its way to EXPIRE.
LEMMA AllowIInv ==
    ASSUME IInv, NEW p \in Proc, NEW k \in Key, Allow(p, k)
    PROVE  IInv'
<1> USE ConstantsAssumption DEF IInv
<1> DEFINE n == count[k] + 1
<1>1. n \in Nat \ {0} /\ n <= MaxCount + 1 /\ count[k] \in 0 .. MaxCount
  BY DEF Types
<1>2. /\ count' = [count EXCEPT ![k] = Min({n, MaxCount})]
      /\ ttl' = ttl /\ failed' = failed /\ req[p] = NoKey
      /\ \/ n = 1 /\ req' = [req EXCEPT ![p] = k] /\ allowed' = allowed
         \/ n > 1 /\ Decide(k, n) /\ req' = req
  BY DEF Allow
<1>3. Min({n, MaxCount}) \in 0 .. MaxCount /\ Min({n, MaxCount}) = IF n <= MaxCount THEN n ELSE MaxCount
  BY <1>1, Saturates
<1> HIDE DEF n
<1>4. /\ count' \in [Key -> 0 .. MaxCount] /\ count'[k] > 0 /\ count'[k] >= count[k]
      /\ n <= MaxCount => count'[k] = n
      /\ \A l \in Key : l # k => count'[l] = count[l]
  BY <1>1, <1>2, <1>3 DEF Types, n
<1>5. PICK b \in 1 .. Window : Counters(k, b)
  BY DEF TwoCounters
<1>6. CASE n = 1
  <2>1. req' = [req EXCEPT ![p] = k] /\ allowed' = allowed
    BY <1>2, <1>6
  <2>2. count[k] = 0 /\ ~Starting(k) /\ \A a \in allowed[k] : ~(a.age <= b)
    BY <1>1, <1>5, <1>6 DEF n, OneCreator, Counters, Types, Attempt
  <2>3. req' \in [Proc -> Key \cup {NoKey}] /\ \A q \in Proc : req'[q] = IF q = p THEN k ELSE req[q]
    BY <2>1 DEF Types
  <2>4. ttl[k] = 0
    BY <2>2 DEF OneCreator
  <2>5. Starting(k)' /\ \A l \in Key : l # k => (Starting(l)' <=> Starting(l))
    <3>1. req'[p] = k
      BY <2>3
    <3>2. \A l \in Key, q \in Proc : l # k => (req'[q] = l <=> req[q] = l)
      BY <1>2, <2>3
    <3> QED
      BY <3>1, <3>2, Zenon DEF Starting
  <2>6. Types'
    BY <1>2, <1>4, <2>1, <2>3 DEF Types
  <2>7. OneCreator'
    <3>1. \A q \in Proc : q # p => req[q] # k
      BY <2>2 DEF Starting
    <3>2. \A q, r \in Proc : req'[q] = req'[r] /\ req'[q] # NoKey => q = r
      BY <2>3, <3>1 DEF OneCreator
    <3> QED
      BY <1>2, <1>4, <2>4, <2>5, <3>2 DEF OneCreator
  <2>8. Counters(k, b)'
    BY <1>2, <1>5, <2>1, <2>2, <2>4 DEF Counters
  <2>9. \A l \in Key, c \in 1 .. Window : l # k /\ Counters(l, c) => Counters(l, c)'
    BY <1>2, <1>4, <2>1, <2>5 DEF Counters
  <2>10. EveryKeyExpires'
    BY <1>2, <1>4, <2>5 DEF EveryKeyExpires, Starting
  <2> QED
    BY <2>6, <2>7, <2>8, <2>9, <2>10 DEF TwoCounters
<1>7. CASE n > 1
  <2>1. Decide(k, n) /\ req' = req
    BY <1>2, <1>7
  <2>2. \A a \in allowed[k] : a.age <= b => a.n # n
    BY <1>1, <1>5 DEF Counters, n, Types, Attempt
  <2>3. /\ allowed' \in [Key -> SUBSET Attempt]
        /\ \A l \in Key : l # k => allowed'[l] = allowed[l]
        /\ allowed'[k] \subseteq allowed[k] \cup {[n |-> n, age |-> 1]}
        /\ \A a, c \in allowed'[k] : a.n = c.n /\ (a.age <= b <=> c.age <= b) => a = c
    BY <1>1, <1>5, <2>1, <2>2, DecideKeeps
  <2>4. \A l \in Key : Starting(l)' <=> Starting(l)
    BY <2>1 DEF Starting
  <2>5. Types'
    BY <1>2, <1>4, <2>1, <2>3 DEF Types
  <2>6. OneCreator'
    <3>1. \A l \in Key : Starting(l)' => count'[l] > 0 /\ ttl'[l] = 0
      BY <1>2, <1>4, <2>4 DEF OneCreator
    <3>2. \A l \in Key : count'[l] = 0 => ttl'[l] = 0
      BY <1>2, <1>4 DEF OneCreator
    <3> QED
      BY <2>1, <3>1, <3>2 DEF OneCreator
  <2>7. \A a \in allowed'[k] : a.age <= b => a.n <= count'[k] /\ (Starting(k) => a.n > 1)
    <3> SUFFICES ASSUME NEW a \in allowed'[k], a.age <= b
                 PROVE  a.n <= count'[k] /\ (Starting(k) => a.n > 1)
      OBVIOUS
    <3>1. CASE a \in allowed[k]
      <4>1. a.n <= count[k] /\ (Starting(k) => a.n > 1) /\ a.n \in Nat
        BY <1>5, <3>1 DEF Counters, Types, Attempt
      <4> QED
        BY <1>1, <1>4, <4>1
    <3>2. CASE a = [n |-> n, age |-> 1]
      <4>1. a \in Attempt
        BY <2>3
      <4>2. a.n = n /\ n <= MaxCount
        BY <3>2, <4>1 DEF Attempt
      <4> QED
        BY <1>4, <1>7, <4>2
    <3> QED
      BY <2>3, <3>1, <3>2
  <2>8. Counters(k, b)'
    BY <1>2, <1>5, <2>3, <2>4, <2>7 DEF Counters
  <2>9. \A l \in Key, c \in 1 .. Window : l # k /\ Counters(l, c) => Counters(l, c)'
    BY <1>2, <1>4, <2>3, <2>4 DEF Counters
  <2>10. EveryKeyExpires'
    BY <1>1, <1>2, <1>4, <1>7, <2>1 DEF EveryKeyExpires, n
  <2> QED
    BY <1>5, <2>5, <2>6, <2>8, <2>9, <2>10 DEF TwoCounters
<1> QED
  BY <1>1, <1>6, <1>7

\* The request that created the counter is done, with the TTL set or (when its
\* EXPIRE failed) not, and let through or not: the inductive invariant is kept.
LEMMA StartEndsIInv ==
    ASSUME IInv, NEW p \in Proc, NEW k \in Key, req[p] = k,
           count' = count, req' = [req EXCEPT ![p] = NoKey],
           ttl' = [ttl EXCEPT ![k] = Window] \/ (ttl' = ttl /\ k \in failed'),
           failed \subseteq failed',
           Decide(k, 1) \/ allowed' = allowed
    PROVE  IInv'
<1> USE ConstantsAssumption DEF IInv
<1>1. PICK b \in 1 .. Window : Counters(k, b)
  BY DEF TwoCounters
<1>2. Starting(k) /\ count[k] > 0
  BY DEF Starting, OneCreator
<1>3. /\ allowed' \in [Key -> SUBSET Attempt]
      /\ \A l \in Key : l # k => allowed'[l] = allowed[l]
      /\ allowed'[k] \subseteq allowed[k] \cup {[n |-> 1, age |-> 1]}
      /\ \A a, c \in allowed'[k] : a.n = c.n /\ (a.age <= b <=> c.age <= b) => a = c
  <2>1. CASE Decide(k, 1)
    <3>1. \A a \in allowed[k] : a.age <= b => a.n # 1
      BY <1>1, <1>2 DEF Counters
    <3> QED
      BY <1>1, <2>1, <3>1, DecideKeeps
  <2>2. CASE allowed' = allowed
    BY <1>1, <2>2 DEF Types, Counters
  <2> QED
    BY <2>1, <2>2
<1>4. /\ req' \in [Proc -> Key \cup {NoKey}]
      /\ \A q \in Proc : req'[q] = IF q = p THEN NoKey ELSE req[q]
  BY DEF Types
<1>5. \A q \in Proc : req'[q] # k
  BY <1>4 DEF OneCreator
<1>6. ~Starting(k)' /\ \A l \in Key : l # k => (Starting(l)' <=> Starting(l))
  <2>1. \A l \in Key, q \in Proc : l # k => (req'[q] = l <=> req[q] = l)
    BY <1>4
  <2> QED
    BY <1>5, <2>1, Zenon DEF Starting
<1>7. /\ ttl' \in [Key -> 0 .. Window]
      /\ \A l \in Key : l # k => ttl'[l] = ttl[l]
      /\ ttl'[k] > 0 => ttl'[k] = Window
      /\ k \notin failed' => ttl'[k] > 0
  BY <1>2 DEF Types, OneCreator
<1>8. Types'
  BY <1>3, <1>4, <1>7 DEF Types
<1>9. OneCreator'
  <2>1. \A q, r \in Proc : req'[q] = req'[r] /\ req'[q] # NoKey => q = r
    BY <1>4 DEF OneCreator
  <2>2. \A l \in Key : Starting(l)' => count'[l] > 0 /\ ttl'[l] = 0
    BY <1>6, <1>7 DEF OneCreator
  <2>3. \A l \in Key : count'[l] = 0 => ttl'[l] = 0
    BY <1>2, <1>7 DEF OneCreator
  <2> QED
    BY <2>1, <2>2, <2>3 DEF OneCreator
<1>10. Counters(k, b)'
  <2>1. \A a \in allowed'[k] : a.age <= b => a.n <= count[k]
    <3>1. \A a \in allowed[k] : a.age <= b => a.n <= count[k]
      BY <1>1 DEF Counters
    <3>2. count[k] >= 1
      BY <1>2 DEF Types
    <3> QED
      BY <1>3, <3>1, <3>2
  <2> QED
    BY <1>3, <1>6, <1>7, <2>1 DEF Counters
<1>11. \A l \in Key, c \in 1 .. Window : l # k /\ Counters(l, c) => Counters(l, c)'
  BY <1>3, <1>6, <1>7 DEF Counters
<1>12. EveryKeyExpires'
  <2>1. \A l \in Key : l # k /\ count'[l] > 0 /\ ttl'[l] = 0 => l \in failed' \/ Starting(l)'
    BY <1>6, <1>7 DEF EveryKeyExpires, Starting
  <2> QED
    BY <1>7, <2>1 DEF EveryKeyExpires, Starting
<1> QED
  BY <1>8, <1>9, <1>10, <1>11, <1>12 DEF TwoCounters

\* Tick keeps the inductive invariant.  When it deletes a counter, the attempts on
\* the counter before that one are no longer recent, and the attempts on the
\* deleted counter, none of them new any more, take their place.
LEMMA TickIInv == ASSUME IInv, Tick PROVE IInv'
<1> USE ConstantsAssumption DEF IInv
<1> DEFINE Older(a) == [n |-> a.n, age |-> a.age + 1]
<1>1. \A l \in Key : /\ ttl[l] \in 0 .. Window /\ count[l] \in 0 .. MaxCount
                     /\ ttl'[l] = IF ttl[l] = 0 THEN 0 ELSE ttl[l] - 1
                     /\ count'[l] = IF ttl[l] = 1 THEN 0 ELSE count[l]
  BY DEF Tick, Types
<1>2. /\ req' = req
      /\ \A l \in Key : allowed'[l] = {Older(a) : a \in Ageing(l)}
      /\ failed' = {l \in failed : ttl[l] # 1}
  BY DEF Tick
<1>3. \A l \in Key : \A a \in Ageing(l) :
         /\ a \in allowed[l] /\ a \in Attempt /\ a.age < Window
         /\ Older(a).n = a.n /\ Older(a).age = a.age + 1 /\ Older(a) \in Attempt
  BY DEF Ageing, Types, Attempt
<1>4. \A l \in Key : Starting(l)' <=> Starting(l)
  BY <1>2 DEF Starting
<1>5. Types'
  <2>1. ttl' \in [Key -> 0 .. Window] /\ count' \in [Key -> 0 .. MaxCount]
    BY DEF Tick, Types
  <2>2. allowed' \in [Key -> SUBSET Attempt]
    <3>1. \A l \in Key : {Older(a) : a \in Ageing(l)} \subseteq Attempt
      BY <1>3
    <3>2. allowed' = [l \in Key |-> {Older(a) : a \in Ageing(l)}]
      BY DEF Tick
    <3> QED
      BY <3>1, <3>2
  <2> QED
    BY <1>2, <2>1, <2>2 DEF Types
<1>6. OneCreator'
  <2>1. \A l \in Key : Starting(l)' => count'[l] > 0 /\ ttl'[l] = 0
    BY <1>1, <1>4 DEF OneCreator
  <2>2. \A l \in Key : count'[l] = 0 => ttl'[l] = 0
    BY <1>1 DEF OneCreator
  <2> QED
    BY <1>2, <2>1, <2>2 DEF OneCreator
<1>7. EveryKeyExpires'
  <2>1. \A l \in Key : count'[l] > 0 /\ ttl'[l] = 0 => count[l] > 0 /\ ttl[l] = 0
    BY <1>1
  <2> QED
    BY <1>2, <2>1 DEF EveryKeyExpires
<1>8. ASSUME NEW k \in Key PROVE \E b \in 1 .. Window : Counters(k, b)'
  <2>1. PICK b \in 1 .. Window : Counters(k, b)
    BY DEF TwoCounters
  <2>2. CASE ttl[k] = 1
    <3>1. b = Window
      BY <2>1, <2>2 DEF Counters
    <3>2. \A a \in Ageing(k) : a.age <= b /\ ~(Older(a).age <= 1)
      BY <1>3, <3>1 DEF Attempt
    <3>3. \A x, y \in allowed'[k] : x.n = y.n => x = y
      <4>1. \A a, c \in Ageing(k) : a.n = c.n => a = c
        BY <1>3, <2>1, <3>2 DEF Counters
      <4> QED
        BY <1>2, <1>3, <4>1
    <3>4. \A x \in allowed'[k] : ~(x.age <= 1)
      BY <1>2, <3>2
    <3>5. ~(ttl'[k] > 0)
      BY <1>1, <2>2
    <3>6. Counters(k, 1)'
      BY <3>3, <3>4, <3>5 DEF Counters
    <3> QED
      BY <3>6
  <2>3. CASE ttl[k] # 1
    <3> DEFINE c == IF b = Window THEN b ELSE b + 1
    <3>1. c \in 1 .. Window
      OBVIOUS
    <3>2. count'[k] = count[k]
      BY <1>1, <2>3
    <3>3. ttl'[k] > 0 => c >= Window - ttl'[k] + 1
      BY <1>1, <2>1, <2>3 DEF Counters
    <3>4. \A a \in Ageing(k) : Older(a).age <= c <=> a.age <= b
      BY <1>3 DEF Attempt
    <3> HIDE DEF c
    <3>5. \A x, y \in allowed'[k] : x.n = y.n /\ (x.age <= c <=> y.age <= c) => x = y
      <4>1. \A a, d \in Ageing(k) : a.n = d.n /\ (a.age <= b <=> d.age <= b) => a = d
        BY <1>3, <2>1 DEF Counters
      <4> QED
        BY <1>2, <1>3, <3>4, <4>1
    <3>6. \A x \in allowed'[k] : x.age <= c => x.n <= count'[k] /\ (Starting(k) => x.n > 1)
      <4>1. \A a \in Ageing(k) : a.age <= b => a.n <= count[k] /\ (Starting(k) => a.n > 1)
        BY <1>3, <2>1 DEF Counters
      <4> QED
        BY <1>2, <1>3, <3>2, <3>4, <4>1
    <3>7. Counters(k, c)'
      BY <1>4, <3>3, <3>5, <3>6 DEF Counters
    <3> QED
      BY <3>1, <3>7
  <2> QED
    BY <2>2, <2>3
<1> QED
  BY <1>5, <1>6, <1>7, <1>8 DEF TwoCounters

-----------------------------------------------------------------------------
\* The inductive invariant of the limiter: whatever requests do, in whatever
\* order their INCR and EXPIRE reach Redis and whichever of them fail.
THEOREM Invariance == Spec => []IInv
<1>1. ASSUME IInv, [Next]_vars PROVE IInv'
  <2>1. CASE \E p \in Proc, k \in Key : Allow(p, k)
    BY <1>1, <2>1, AllowIInv
  <2>2. ASSUME NEW p \in Proc, Expire(p) PROVE IInv'
    <3>1. req[p] \in Key
      BY <1>1, <2>2 DEF IInv, Types, Expire
    <3> QED
      BY <1>1, <2>2, <3>1, StartEndsIInv DEF Expire
  <2>3. ASSUME NEW p \in Proc, ExpireFails(p) PROVE IInv'
    <3>1. req[p] \in Key
      BY <2>3, ConstantsAssumption DEF ExpireFails
    <3> QED
      BY <1>1, <2>3, <3>1, StartEndsIInv DEF ExpireFails
  <2>4. CASE Tick
    BY <1>1, <2>4, TickIInv
  <2>5. CASE UNCHANGED vars
    <3> USE <1>1, <2>5 DEF vars, IInv
    <3>1. Types' /\ OneCreator' /\ EveryKeyExpires'
      BY DEF Types, OneCreator, Starting, EveryKeyExpires
    <3>2. \A k \in Key, b \in 1 .. Window : Counters(k, b) => Counters(k, b)'
      BY DEF Counters, Starting
    <3> QED
      BY <3>1, <3>2 DEF TwoCounters
  <2> QED
    BY <1>1, <2>1, <2>2, <2>3, <2>4, <2>5 DEF Next
<1> QED
  BY <1>1, InitIInv, PTL DEF Spec

\* No counter is left without a TTL for good, unless its EXPIRE failed: EXPIRE is
\* sent by the request whose INCR returned 1.
THEOREM CountersExpire == Spec => []EveryKeyExpires
<1>1. IInv => EveryKeyExpires
  BY DEF IInv
<1> QED
  BY <1>1, Invariance, PTL

\* Attempts that counted to different numbers up to the limit are at most as many
\* as the limit.
LEMMA AtMostLimit ==
    ASSUME NEW S, S \subseteq Attempt, \A a, c \in S : a.n = c.n => a = c
    PROVE  IsFiniteSet(S) /\ Cardinality(S) \in Nat /\ Cardinality(S) <= Limit
<1> DEFINE f == [a \in S |-> a.n]
<1>1. f \in Injection(S, 1 .. Limit)
  BY DEF Injection, IsInjective, Attempt
<1>2. IsFiniteSet(1 .. Limit) /\ Cardinality(1 .. Limit) = Limit
  BY ConstantsAssumption, FS_Interval
<1>3. IsFiniteSet(S) /\ Cardinality(S) <= Limit
  BY <1>1, <1>2, FS_Injection
<1> QED
  BY <1>3, FS_CardinalityType

\* The fixed windows of Allow let through at most twice the limit in any stretch
\* as long as a window: the limit on the present counter, and the limit on the
\* one before it.
THEOREM TwiceTheLimit == Spec => []AtMostTwiceTheLimit
<1>1. ASSUME IInv, NEW k \in Key PROVE Cardinality(allowed[k]) <= 2 * Limit
  <2>1. PICK b \in 1 .. Window : Counters(k, b)
    BY <1>1 DEF IInv, TwoCounters
  <2> DEFINE present == {a \in allowed[k] : a.age <= b}
             earlier == {a \in allowed[k] : ~(a.age <= b)}
  <2>2. allowed[k] \subseteq Attempt
    BY <1>1 DEF IInv, Types
  <2>3. IsFiniteSet(present) /\ Cardinality(present) \in Nat /\ Cardinality(present) <= Limit
    BY <2>1, <2>2, AtMostLimit DEF Counters
  <2>4. IsFiniteSet(earlier) /\ Cardinality(earlier) \in Nat /\ Cardinality(earlier) <= Limit
    BY <2>1, <2>2, AtMostLimit DEF Counters
  <2>5. allowed[k] = present \cup earlier /\ present \cap earlier = {}
    OBVIOUS
  <2> HIDE DEF present, earlier
  <2>6. Cardinality(allowed[k]) = Cardinality(present) + Cardinality(earlier) - 0
    <3>1. Cardinality(present \cup earlier) =
             Cardinality(present) + Cardinality(earlier) - Cardinality(present \cap earlier)
      BY <2>3, <2>4, FS_Union
    <3> QED
      BY <2>5, <3>1, FS_EmptySet
  <2> QED
    BY <2>3, <2>4, <2>6, ConstantsAssumption
<1>2. IInv => AtMostTwiceTheLimit
  BY <1>1 DEF AtMostTwiceTheLimit
<1> QED
  BY <1>2, Invariance, PTL

\* The attempt that a step lets through is not in the history yet.
NewAttempt ==
    \A p \in Proc, k \in Key :
        /\ Allow(p, k) /\ count[k] > 0 => [n |-> count[k] + 1, age |-> 1] \notin allowed[k]
        /\ Expire(p) /\ req[p] = k => [n |-> 1, age |-> 1] \notin allowed[k]

\* The history misses no attempt: whoever is let through is added to it, so that
\* its cardinality counts them.
THEOREM EveryAttemptCounts == Spec => [][NewAttempt]_vars
<1>1. ASSUME IInv, NEW p \in Proc, NEW k \in Key
      PROVE  /\ Allow(p, k) /\ count[k] > 0 =>
                  [n |-> count[k] + 1, age |-> 1] \notin allowed[k]
             /\ Expire(p) /\ req[p] = k => [n |-> 1, age |-> 1] \notin allowed[k]
  <2>1. PICK b \in 1 .. Window : Counters(k, b)
    BY <1>1 DEF IInv, TwoCounters
  <2>2. count[k] \in Nat
    BY <1>1, ConstantsAssumption DEF IInv, Types
  <2>3. \A a \in allowed[k] : a.age = 1 => a.n <= count[k] /\ (Starting(k) => a.n > 1)
    BY <2>1 DEF Counters
  <2>4. req[p] = k => Starting(k)
    BY DEF Starting
  <2> QED
    BY <2>2, <2>3, <2>4
<1>2. IInv => NewAttempt
  BY <1>1 DEF NewAttempt
<1> QED
  BY <1>2, Invariance, PTL
=============================================================================
