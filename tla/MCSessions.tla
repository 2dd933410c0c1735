---------------------------- MODULE MCSessions ----------------------------
(***************************************************************************)
(* Sessions for TLC.  Tokens, requests, accounts and clubs are             *)
(* interchangeable.                                                        *)
(***************************************************************************)
EXTENDS Sessions, TLC

Symmetry == Permutations(Token) \cup Permutations(Proc)
                \cup Permutations(Email) \cup Permutations(Tenant)

\* No step and no property of the run looks at more of an answered request than
\* whether it got a pair and whether its credential was dead when it was sent.
View ==
    <<user, token, cut,
      [p \in Proc |-> IF At(p, "done")
                      THEN <<req[p].ans = "pair", req[p].dead>>
                      ELSE req[p]]>>
=============================================================================
