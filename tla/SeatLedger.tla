----------------------------- MODULE SeatLedger -----------------------------
(***************************************************************************)
(* What the ticketing system promises about a seat, whatever the requests, *)
(* workers and crashes behind it: a seat is available, held under one      *)
(* token or sold; only an available seat can be held, and only under a     *)
(* token nobody has used before; only a held seat can be given back or     *)
(* sold; a sold seat stays sold.                                           *)
(***************************************************************************)
EXTENDS Naturals

CONSTANTS Seat, Token

VARIABLES
    seats,   \* seats[s]: the status of s and the token it is held under
    used     \* the tokens that may not start a hold any more

ledgerVars == <<seats, used>>

Free == [status |-> "available", token |-> 0]

Gone == [status |-> "sold", token |-> 0]

Init ==
    /\ seats = [s \in Seat |-> Free]
    /\ used = {}

Hold(s, t) ==
    /\ seats[s].status = "available"
    /\ t \notin used
    /\ seats' = [seats EXCEPT ![s] = [status |-> "held", token |-> t]]
    /\ used' = used \cup {t}

Release(s) ==
    /\ seats[s].status = "held"
    /\ seats' = [seats EXCEPT ![s] = Free]
    /\ UNCHANGED used

\* A transaction may sell several seats at once.
Sell(S) ==
    /\ \A s \in S : seats[s].status = "held"
    /\ seats' = [s \in Seat |-> IF s \in S THEN Gone ELSE seats[s]]
    /\ UNCHANGED used

\* A token drawn for a hold that was never made is lost.
Discard(t) ==
    /\ used' = used \cup {t}
    /\ UNCHANGED seats

Next ==
    \/ \E s \in Seat, t \in Token : Hold(s, t)
    \/ \E s \in Seat : Release(s)
    \/ \E S \in SUBSET Seat : Sell(S)
    \/ \E t \in Token : Discard(t)

Spec == Init /\ [][Next]_ledgerVars
=============================================================================
