---------------------------- MODULE MCPricing -----------------------------
(***************************************************************************)
(* Pricing for TLC: four seats in three categories, one of them priced in  *)
(* another currency.                                                       *)
(***************************************************************************)
EXTENDS Pricing, TLC

CategoryOfSeat == <<"vip", "vip", "terrace", "guest">>

Expiries == <<3, 1, 2, 2>>

Limits == [vip |-> 2, terrace |-> 3, guest |-> 2]

Kes(n) == [cents |-> n, currency |-> "KES"]

UsualPrices ==
    [vip |-> Kes(9), terrace |-> Kes(2), guest |-> [cents |-> 4, currency |-> "USD"]]
=============================================================================
