--------------------------- MODULE MCCatalogue ----------------------------
(***************************************************************************)
(* Catalogue for TLC.                                                      *)
(***************************************************************************)
EXTENDS Catalogue, TLC

Symmetry ==
    UNION {Permutations(S) : S \in {Tenant, Venue, SeatCategory, Event, Category, Proc}}
=============================================================================
