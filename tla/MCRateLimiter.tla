--------------------------- MODULE MCRateLimiter ---------------------------
(***************************************************************************)
(* RateLimiter for TLC.  The run checks liveness, so it uses no symmetry.  *)
(***************************************************************************)
EXTENDS RateLimiter, TLC
=============================================================================
