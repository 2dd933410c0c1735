---------------------------- MODULE RateLimiter ----------------------------
(***************************************************************************)
(* The fixed-window limiter in front of HoldSeat: INCR, EXPIRE on the      *)
(* first increment, compare with the limit.  INCR and EXPIRE are two       *)
(* commands, and the caller can fail between them.                         *)
(*                                                                         *)
(* A counter above MaxCount behaves like MaxCount, as both are refused.    *)
(***************************************************************************)
EXTENDS Integers, FiniteSets, FiniteSetsExt

CONSTANTS
    Key,      \* rate-limit keys: one per tenant, event and user
    Proc,     \* request goroutines
    NoKey,
    Limit,    \* Config.HoldRateLimit
    Window,   \* Config.HoldRateLimitWindow, in clock ticks
    Flaky,    \* keys whose EXPIRE may fail, or whose caller may die before it
    MaxCount  \* bound: the counter saturates here

ASSUME ConstantsAssumption ==
    /\ NoKey \notin Key
    /\ Limit \in Nat \ {0} /\ Window \in Nat \ {0}
    /\ MaxCount \in Nat /\ MaxCount > Limit + 1
    /\ Flaky \subseteq Key

VARIABLES
    count,   \* count[k]: the value of the key, 0 when it does not exist
    ttl,     \* ttl[k]: the ticks left to the key, 0 when it has no TTL
    req,     \* req[p]: the key whose EXPIRE p is about to send, or NoKey
    allowed, \* history: allowed[k], the attempts let through in the last Window
             \* ticks: what each counted to, and its age (1: since the last tick)
    failed   \* history: the keys whose present counter had its EXPIRE fail

vars == <<count, ttl, req, allowed, failed>>

Init ==
    /\ count = [k \in Key |-> 0]
    /\ ttl = [k \in Key |-> 0]
    /\ req = [p \in Proc |-> NoKey]
    /\ allowed = [k \in Key |-> {}]
    /\ failed = {}

\* count <= limit.  Mutant: off by one.
WithinLimitPlusOne(n) == n - 1 <= Limit

WithinLimit(n) == n <= Limit

\* The attempt that counted to n is let through, or refused with ErrRateLimited.
Decide(k, n) ==
    allowed' = IF WithinLimit(n)
               THEN [allowed EXCEPT ![k] = @ \cup {[n |-> n, age |-> 1]}]
               ELSE allowed

\* Mutants of Allow: the window starts anew with every attempt; a window is
\* never set.
AllowRestartsWindow(p, k) ==
    LET n == count[k] + 1 IN
    /\ req[p] = NoKey
    /\ count' = [count EXCEPT ![k] = Min({n, MaxCount})]
    /\ ttl' = [ttl EXCEPT ![k] = Window]
    /\ Decide(k, n)
    /\ UNCHANGED <<req, failed>>

AllowWithoutExpire(p, k) ==
    LET n == count[k] + 1 IN
    /\ req[p] = NoKey
    /\ count' = [count EXCEPT ![k] = Min({n, MaxCount})]
    /\ Decide(k, n)
    /\ UNCHANGED <<ttl, req, failed>>

\* INCR; the attempt that created the key goes on to EXPIRE.
Allow(p, k) ==
    LET n == count[k] + 1 IN
    /\ req[p] = NoKey
    /\ count' = [count EXCEPT ![k] = Min({n, MaxCount})]
    /\ \/ /\ n = 1
          /\ req' = [req EXCEPT ![p] = k]
          /\ UNCHANGED allowed
       \/ /\ n > 1
          /\ Decide(k, n)
          /\ UNCHANGED req
    /\ UNCHANGED <<ttl, failed>>

Expire(p) ==
    LET k == req[p] IN
    /\ k # NoKey
    /\ ttl' = [ttl EXCEPT ![k] = Window]
    /\ Decide(k, 1)
    /\ req' = [req EXCEPT ![p] = NoKey]
    /\ UNCHANGED <<count, failed>>

\* EXPIRE returns an error, with or without having taken effect, or is never
\* sent; the attempt is not let through.
ExpireFails(p) ==
    LET k == req[p] IN
    /\ k \in Flaky
    /\ \/ ttl' = [ttl EXCEPT ![k] = Window]
       \/ UNCHANGED ttl
    /\ req' = [req EXCEPT ![p] = NoKey]
    /\ failed' = failed \cup {k}
    /\ UNCHANGED <<count, allowed>>

\* The attempts that are recent for another tick.
Ageing(k) == {a \in allowed[k] : a.age < Window}

\* Time passes, and Redis deletes the keys whose TTL is over.
Tick ==
    /\ ttl' = [k \in Key |-> IF ttl[k] = 0 THEN 0 ELSE ttl[k] - 1]
    /\ count' = [k \in Key |-> IF ttl[k] = 1 THEN 0 ELSE count[k]]
    /\ allowed' = [k \in Key |-> {[n |-> a.n, age |-> a.age + 1] : a \in Ageing(k)}]
    /\ failed' = {k \in failed : ttl[k] # 1}
    /\ UNCHANGED req

Next ==
    \/ \E p \in Proc, k \in Key : Allow(p, k)
    \/ \E p \in Proc : Expire(p) \/ ExpireFails(p)
    \/ Tick

Spec == Init /\ [][Next]_vars

\* Time passes, and a request is answered.
FairSpec == Spec /\ WF_vars(Tick) /\ \A p \in Proc : WF_vars(Expire(p) \/ ExpireFails(p))

-----------------------------------------------------------------------------
\* "EXPIRE it on first increment": a counter that no TTL will ever delete is one
\* whose own EXPIRE failed, or is about to be sent by the request that created it.
\* No interleaving of requests, and no failure on an earlier counter of the key,
\* leaves one behind.
EveryKeyExpires ==
    \A k \in Key :
        count[k] > 0 /\ ttl[k] = 0 => k \in failed \/ \E p \in Proc : req[p] = k

\* "fixed windows allow up to ~2x the stated limit right at a window boundary":
\* twice the limit, and never more, in any stretch as long as the window.
AtMostTwiceTheLimit ==
    \A k \in Key : Cardinality(allowed[k]) <= 2 * Limit

\* ErrRateLimited "means the caller has made too many hold attempts in the
\* current window": windows end, and attempts that are refused do not prolong them,
\* so a fan over the limit gets below it again, unless the EXPIRE of that counter
\* failed.
RefusalEnds ==
    \A k \in Key : count[k] > Limit ~> (count[k] <= Limit \/ k \in failed)
=============================================================================
