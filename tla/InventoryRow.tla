---------------------------- MODULE InventoryRow ----------------------------
(***************************************************************************)
(* One row of event_seat_inventory and the compare-and-swap statements of  *)
(* InventoryRepo on it.  Each statement is a single UPDATE whose WHERE     *)
(* clause is the whole concurrency control: the operators below return     *)
(* the row the statement leaves behind, the row itself when no row         *)
(* matched (RowsAffected() = 0).                                           *)
(*                                                                         *)
(* The tenant, the seat's category and held_by_user_id are left out: no    *)
(* WHERE clause here reads them for anything but addressing the row.       *)
(***************************************************************************)
EXTENDS Naturals

\* A uuid is a positive number; hold_token IS NULL is 0.
NoToken == 0

Row == [status : {"available", "held", "sold"}, token : Nat, exp : Nat]

Available == [status |-> "available", token |-> NoToken, exp |-> 0]

Sold == [status |-> "sold", token |-> NoToken, exp |-> 0]

Held(token, exp) == [status |-> "held", token |-> token, exp |-> exp]

\* status = 'held' AND hold_token = $3.  Mutant: the token is not compared.
HeldByAnyone(row, token) == row.status = "held"

HeldBy(row, token) == row.status = "held" /\ row.token = token

\* status = 'held' AND hold_expires_at < now
Expired(row, now) == row.status = "held" /\ row.exp < now

\* Hold: WHERE status = 'available'.  Mutant: WHERE status <> 'sold'.
HoldUnlessSold(row, token, exp) ==
    IF row.status # "sold" THEN Held(token, exp) ELSE row

HoldRow(row, token, exp) ==
    IF row.status = "available" THEN Held(token, exp) ELSE row

\* Release: back to 'available', every hold column set to NULL.
ReleaseRow(row, token) == IF HeldBy(row, token) THEN Available ELSE row

\* ConfirmSale: the hold's expiry is not part of the WHERE clause.  Mutant:
\* hold_token is not set to NULL.
ConfirmSaleKeepsToken(row, token) ==
    IF HeldBy(row, token) THEN [row EXCEPT !.status = "sold"] ELSE row

ConfirmSaleRow(row, token) == IF HeldBy(row, token) THEN Sold ELSE row
=============================================================================
