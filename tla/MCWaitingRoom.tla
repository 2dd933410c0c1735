--------------------------- MODULE MCWaitingRoom ---------------------------
(***************************************************************************)
(* WaitingRoom for TLC.  Fans, requests and workers are interchangeable in *)
(* the run that checks no liveness; all events belong to one club.         *)
(***************************************************************************)
EXTENDS WaitingRoom, TLC

Symmetry == Permutations(Fan) \cup Permutations(Proc) \cup Permutations(Worker)

OneClub == [e \in Event |-> 1]
=============================================================================
