---------------------------- MODULE MCOrderFlow ----------------------------
(***************************************************************************)
(* OrderFlow for TLC.  Seats, keys and handlers are interchangeable in the *)
(* runs that check no liveness.                                            *)
(***************************************************************************)
EXTENDS OrderFlow, TLC

Symmetry == Permutations(Seat) \cup Permutations(Key) \cup Permutations(Proc)

\* No step depends on the order in which a cart lists its items: one listing of
\* each cart is enough.
InTokenOrder ==
    \A p \in Proc : \A i, j \in DOMAIN req[p].items :
        i < j => req[p].items[i].tok <= req[p].items[j].tok
=============================================================================
