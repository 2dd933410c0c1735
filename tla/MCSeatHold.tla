---------------------------- MODULE MCSeatHold ----------------------------
(***************************************************************************)
(* SeatHold for TLC.  The runs check liveness, so they use no symmetry.    *)
(***************************************************************************)
EXTENDS SeatHold, TLC
=============================================================================
