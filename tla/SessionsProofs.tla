--------------------------- MODULE SessionsProofs ---------------------------
(***************************************************************************)
(* Proofs about Sessions: rotation is single-use, credentials that were    *)
(* not good buy nothing, a logout is final, and the claims of a token are  *)
(* its account's, for any number of accounts, clubs, tokens and concurrent *)
(* requests; and when a logout is idempotent.                              *)
(***************************************************************************)
EXTENDS Sessions, TLAPS

User == [role : {"none", "fan", "admin"}, tenant : Tenant \cup {NoTenant}, active : BOOLEAN]

TokenRow ==
    [owner : Email \cup {NoEmail}, role : {"none", "fan", "admin"},
     tenant : Tenant \cup {NoTenant}, age : 0 .. 2, revoked : BOOLEAN,
     parent : Token \cup {NoToken}, left : BOOLEAN]

Request ==
    [op : {"none", "login", "refresh", "logout"},
     pc : {"done", "user", "revoke", "issue", "logout"},
     tok : Token \cup {NoToken}, email : Email \cup {NoEmail},
     ans : {"none", "refused", "inactive", "error", "pair", "bye"}, dead : BOOLEAN]

Types ==
    /\ user \in [Email -> User]
    /\ token \in [Token -> TokenRow]
    /\ req \in [Proc -> Request]

AdminsHaveAClub == \A e \in Email : user[e].role = "admin" => user[e].tenant \in Tenant

FreshTokens == \A i \in Token : ~Issued(i) => ~token[i].revoked /\ token[i].parent = NoToken

Claims ==
    \A i \in Token : Issued(i) =>
        /\ user[token[i].owner].role # "none"
        /\ user[token[i].owner].role = token[i].role
        /\ user[token[i].owner].tenant = token[i].tenant

\* Whatever was exchanged is revoked: Revoke comes before the insert.
ParentsRevoked ==
    \A i \in Token : token[i].parent # NoToken => token[token[i].parent].revoked

\* What a request has in hand between two statements.
InHand ==
    \A p \in Proc :
        /\ req[p].pc \in {"user", "revoke", "issue"} =>
              req[p].email \in Email /\ user[req[p].email].role # "none"
        /\ req[p].pc \in {"user", "revoke", "logout"} =>
              req[p].tok \in Token /\ Issued(req[p].tok)

\* A request that won the revocation of a token is the only one that did, and the
\* token has not been exchanged yet.
Winner ==
    \A p \in Proc : At(p, "issue") /\ req[p].tok # NoToken =>
        /\ token[req[p].tok].revoked
        /\ \A j \in Token : token[j].parent # req[p].tok
        /\ \A q \in Proc : At(q, "issue") /\ req[q].tok = req[p].tok => p = q

\* A request that presented something not good is over, or about to be.
DeadEnds ==
    \A p \in Proc : req[p].dead =>
        /\ req[p].ans # "pair"
        /\ At(p, "done") \/ (At(p, "user") /\ ~user[req[p].email].active)

\* The inductive invariant.
IInv ==
    /\ Types /\ AdminsHaveAClub /\ FreshTokens /\ Claims /\ ParentsRevoked
    /\ InHand /\ Winner /\ DeadEnds /\ SingleUse

-----------------------------------------------------------------------------
\* The initial state satisfies the inductive invariant.
LEMMA InitIInv == Init => IInv
<1> SUFFICES ASSUME Init PROVE IInv
  OBVIOUS
<1> USE ConstantsAssumption DEF Init, NoUser, Unused, Idle
<1>1. Types
  BY DEF Types, User, TokenRow, Request
<1>2. AdminsHaveAClub /\ FreshTokens /\ Claims /\ ParentsRevoked /\ SingleUse
  BY DEF AdminsHaveAClub, FreshTokens, Claims, ParentsRevoked, SingleUse, Issued
<1>3. InHand /\ Winner /\ DeadEnds
  BY DEF InHand, Winner, DeadEnds, At
<1> QED
  BY <1>1, <1>2, <1>3 DEF IInv

\* Steps that touch accounts only: a row is inserted where there was none, or an
\* account is suspended.
LEMMA UserStepIInv ==
    ASSUME IInv, NEW e \in Email, NEW row \in User,
           user' = [user EXCEPT ![e] = row], UNCHANGED <<token, req>>,
           row.role = "admin" => row.tenant \in Tenant,
           \/ user[e].role = "none"
           \/ row.role = user[e].role /\ row.tenant = user[e].tenant /\ ~row.active
    PROVE  IInv'
<1> USE ConstantsAssumption DEF IInv
<1>1. Types'
  BY DEF Types
<1>a. \A d \in Email : user'[d] = IF d = e THEN row ELSE user[d]
  BY DEF Types
<1>2. AdminsHaveAClub'
  BY <1>a DEF AdminsHaveAClub
<1>3. FreshTokens' /\ ParentsRevoked' /\ SingleUse'
  BY DEF FreshTokens, ParentsRevoked, SingleUse, Issued
<1>4. Claims'
  BY <1>a DEF Claims, Issued, Types, TokenRow
<1>5. InHand'
  BY <1>a DEF InHand, Issued
<1>6. Winner'
  BY DEF Winner, At
<1>7. DeadEnds'
  BY <1>a DEF DeadEnds, At, InHand
<1> QED
  BY <1>1, <1>2, <1>3, <1>4, <1>5, <1>6, <1>7

\* Steps that touch one request only, and do not take it to the insert of a pair
\* with a token in hand.
LEMMA RequestStepIInv ==
    ASSUME IInv, NEW p \in Proc, NEW r \in Request,
           req' = [req EXCEPT ![p] = r], UNCHANGED <<user, token>>,
           r.pc \in {"user", "revoke", "issue"} =>
              r.email \in Email /\ user[r.email].role # "none",
           r.pc \in {"user", "revoke", "logout"} => r.tok \in Token /\ Issued(r.tok),
           r.pc = "issue" => r.tok = NoToken,
           r.dead => /\ r.ans # "pair"
                     /\ r.pc = "done" \/ (r.pc = "user" /\ ~user[r.email].active)
    PROVE  IInv'
<1> USE ConstantsAssumption DEF IInv
<1>1. Types'
  BY DEF Types
<1>a. \A q \in Proc : req'[q] = IF q = p THEN r ELSE req[q]
  BY DEF Types
<1>2. AdminsHaveAClub' /\ FreshTokens' /\ Claims' /\ ParentsRevoked' /\ SingleUse'
  BY DEF AdminsHaveAClub, FreshTokens, Claims, ParentsRevoked, SingleUse, Issued
<1>3. InHand'
  BY <1>a DEF InHand, Issued
<1>4. Winner'
  BY <1>a DEF Winner, At
<1>5. DeadEnds'
  BY <1>a DEF DeadEnds, At
<1> QED
  BY <1>1, <1>2, <1>3, <1>4, <1>5

\* The first statement of Login, Refresh and Logout, and the steps of a request that
\* write nothing.
LEMMA ReadStepIInv ==
    ASSUME IInv, NEW p \in Proc,
           \/ \E e \in Email, right \in BOOLEAN : Login(p, e, right)
           \/ \E i \in Token : Refresh(p, i) \/ Logout(p, i)
           \/ CheckUser(p)
           \/ StoreFails(p)
    PROVE  IInv'
<1> USE ConstantsAssumption
<1>0. req \in [Proc -> Request] /\ req[p] \in Request
  BY DEF IInv, Types
<1>1. CASE \E e \in Email, right \in BOOLEAN : Login(p, e, right)
  <2>1. PICK e \in Email, right \in BOOLEAN : Login(p, e, right)
    BY <1>1
  <2> DEFINE bad == user[e].role = "none" \/ ~user[e].active \/ ~right
             r == [Idle EXCEPT !.op = "login", !.email = e, !.dead = bad,
                       !.pc = IF bad THEN "done" ELSE "issue",
                       !.ans = IF bad THEN "refused" ELSE "none"]
  <2>2. req' = [req EXCEPT ![p] = r] /\ UNCHANGED <<user, token>>
    BY <2>1 DEF Login, BadLogin, UserFound, Start
  <2>3. bad \in BOOLEAN
    OBVIOUS
  <2>4. /\ r.pc = (IF bad THEN "done" ELSE "issue") /\ r.email = e /\ r.tok = NoToken
        /\ r.dead = bad /\ r.ans = (IF bad THEN "refused" ELSE "none") /\ r \in Request
    BY <2>3 DEF Idle, Request
  <2> HIDE DEF r
  <2> QED
    BY <2>2, <2>4, RequestStepIInv
<1>2. CASE \E i \in Token : Refresh(p, i)
  <2>1. PICK i \in Token : Refresh(p, i)
    BY <1>2
  <2> DEFINE t == token[i]
             over == t.revoked \/ t.age = 2
             r == [Idle EXCEPT !.op = "refresh", !.tok = i, !.email = t.owner,
                       !.dead = over \/ ~user[t.owner].active,
                       !.pc = IF over THEN "done" ELSE "user",
                       !.ans = IF over THEN "refused" ELSE "none"]
  <2>2. req' = [req EXCEPT ![p] = r] /\ UNCHANGED <<user, token>> /\ Issued(i)
    BY <2>1 DEF Refresh, BadToken, Start
  <2>3. t.owner \in Email /\ user[t.owner].role # "none"
    BY <2>2 DEF IInv, Types, TokenRow, Claims, Issued
  <2>4. /\ r.pc = (IF over THEN "done" ELSE "user") /\ r.email = t.owner /\ r.tok = i
        /\ r.dead = (over \/ ~user[t.owner].active)
        /\ r.ans = (IF over THEN "refused" ELSE "none") /\ r \in Request
    BY <2>3 DEF Idle, Request
  <2> HIDE DEF r
  <2> QED
    BY <2>2, <2>3, <2>4, RequestStepIInv
<1>3. CASE \E i \in Token : Logout(p, i)
  <2>1. PICK i \in Token : Logout(p, i)
    BY <1>3
  <2> DEFINE over == token[i].revoked
             r == [Idle EXCEPT !.op = "logout", !.tok = i,
                       !.pc = IF over THEN "done" ELSE "logout",
                       !.ans = IF over THEN "bye" ELSE "none"]
  <2>2. req' = [req EXCEPT ![p] = r] /\ UNCHANGED <<user, token>> /\ Issued(i)
    BY <2>1 DEF Logout, Start
  <2>3. r.pc \in {"done", "logout"} /\ r.tok = i /\ ~r.dead /\ r \in Request
    BY DEF Idle, Request
  <2> HIDE DEF r
  <2> QED
    BY <2>2, <2>3, RequestStepIInv
<1>4. CASE CheckUser(p)
  <2> DEFINE go == user[req[p].email].active
             r == IF go THEN [req[p] EXCEPT !.pc = "revoke"]
                  ELSE [req[p] EXCEPT !.pc = "done", !.ans = "inactive"]
  <2>1. req' = [req EXCEPT ![p] = r] /\ UNCHANGED <<user, token>> /\ req[p].pc = "user"
    BY <1>4, <1>0 DEF CheckUser, Goto, Reply, At
  <2>2. /\ r.pc = (IF go THEN "revoke" ELSE "done") /\ r.email = req[p].email
        /\ r.tok = req[p].tok /\ r.dead = req[p].dead
        /\ (~go => r.ans = "inactive") /\ r \in Request
    BY <1>0 DEF Request
  <2>3. /\ req[p].email \in Email /\ user[req[p].email].role # "none"
        /\ req[p].tok \in Token /\ Issued(req[p].tok)
        /\ req[p].dead => ~go
    BY <2>1 DEF IInv, InHand, DeadEnds, At
  <2> HIDE DEF r
  <2> QED
    BY <2>1, <2>2, <2>3, RequestStepIInv
<1>5. CASE StoreFails(p)
  <2> DEFINE r == [req[p] EXCEPT !.pc = "done", !.ans = "error"]
  <2>1. req' = [req EXCEPT ![p] = r] /\ UNCHANGED <<user, token>>
    BY <1>5, <1>0 DEF StoreFails, Reply
  <2>2. r.pc = "done" /\ r.ans = "error" /\ r \in Request
    BY <1>0 DEF Request
  <2> HIDE DEF r
  <2> QED
    BY <2>1, <2>2, RequestStepIInv
<1> QED
  BY <1>1, <1>2, <1>3, <1>4, <1>5

\* The revocation of a token that was not revoked yet, by a refresh or a logout.
\* Such a token has not been exchanged and nobody is about to exchange it, so a
\* refresh may go on to the insert with it.
LEMMA RevocationIInv ==
    ASSUME IInv, NEW p \in Proc, NEW row \in TokenRow, NEW r \in Request,
           req[p].pc \in {"revoke", "logout"},
           ~token[req[p].tok].revoked,
           row.revoked, row.owner = token[req[p].tok].owner,
           row.role = token[req[p].tok].role, row.tenant = token[req[p].tok].tenant,
           row.parent = token[req[p].tok].parent,
           token' = [token EXCEPT ![req[p].tok] = row],
           req' = [req EXCEPT ![p] = r], UNCHANGED user,
           r.tok = req[p].tok, r.email = req[p].email, r.dead = req[p].dead,
           \/ r.pc = "done"
           \/ r.pc = "issue" /\ req[p].pc = "revoke"
    PROVE  IInv'
<1> USE ConstantsAssumption DEF IInv
<1> DEFINE i == req[p].tok
<1>0. i \in Token /\ Issued(i) /\ req[p] \in Request /\ ~req[p].dead
  BY DEF InHand, Types, DeadEnds, At
<1>1. Types'
  BY <1>0 DEF Types
<1>a. \A q \in Proc : req'[q] = IF q = p THEN r ELSE req[q]
  BY DEF Types
<1>b. \A j \in Token : /\ token'[j].owner = token[j].owner
                       /\ token'[j].role = token[j].role
                       /\ token'[j].tenant = token[j].tenant
                       /\ token'[j].parent = token[j].parent
                       /\ token'[j].revoked <=> (j = i \/ token[j].revoked)
  BY <1>0 DEF Types, TokenRow
<1>2. AdminsHaveAClub'
  BY DEF AdminsHaveAClub
<1>3. FreshTokens' /\ Claims' /\ SingleUse'
  <2>1. FreshTokens'
    BY <1>0, <1>b DEF FreshTokens, Issued
  <2>2. Claims'
    BY <1>b DEF Claims, Issued
  <2>3. SingleUse'
    BY ONLY SingleUse, <1>b DEF SingleUse
  <2> QED
    BY <2>1, <2>2, <2>3, Zenon
<1>4. ParentsRevoked'
  BY <1>b DEF ParentsRevoked, Types, TokenRow
<1>5. InHand'
  BY <1>0, <1>a, <1>b DEF InHand, Issued
<1>6. Winner'
  <2>1. \A j \in Token : token[j].parent # i
    BY <1>0 DEF ParentsRevoked
  <2>2. \A q \in Proc : At(q, "issue") => req[q].tok # i
    BY <1>0 DEF Winner
  <2>3. \A q \in Proc : req'[q].tok \in Token \cup {NoToken}
    BY <1>a DEF Types, Request
  <2> QED
    BY <1>0, <1>a, <1>b, <2>1, <2>2, <2>3 DEF Winner, At
<1>7. DeadEnds'
  BY <1>0, <1>a DEF DeadEnds, At
<1> QED
  BY <1>1, <1>2, <1>3, <1>4, <1>5, <1>6, <1>7

\* Revoke and LogoutRevoke: the revocation, or, for the token already revoked, an
\* error and no change.
LEMMA RevokeIInv ==
    ASSUME IInv, NEW p \in Proc, Revoke(p) \/ LogoutRevoke(p)
    PROVE  IInv'
<1> USE ConstantsAssumption
<1> DEFINE i == req[p].tok
<1>0. /\ req \in [Proc -> Request] /\ req[p] \in Request /\ token \in [Token -> TokenRow]
      /\ req[p].pc \in {"revoke", "logout"} /\ i \in Token
      /\ Revoke(p) => req[p].pc = "revoke"
  BY DEF IInv, Types, InHand, Revoke, LogoutRevoke, At
<1>1. CASE token[i].revoked
  <2> DEFINE r == [req[p] EXCEPT !.pc = "done", !.ans = "error"]
  <2>1. Revocable(i) = {}
    BY <1>1 DEF Revocable
  <2>2. token' = token /\ UNCHANGED user
    BY <1>0, <2>1 DEF Revoke, LogoutRevoke
  <2>3. req' = [req EXCEPT ![p] = r]
    BY <1>0, <2>1 DEF Revoke, LogoutRevoke, Reply
  <2>4. r.pc = "done" /\ r.ans = "error" /\ r \in Request
    BY <1>0 DEF Request
  <2> HIDE DEF r
  <2> QED
    BY <2>2, <2>3, <2>4, RequestStepIInv
<1>2. CASE ~token[i].revoked /\ Revoke(p)
  <2> DEFINE r == [req[p] EXCEPT !.pc = "issue"]
             row == [token[i] EXCEPT !.revoked = TRUE]
  <2>1. Revocable(i) = {i}
    BY <1>2 DEF Revocable
  <2>2. token' = [token EXCEPT ![i] = row] /\ UNCHANGED user
    BY <1>0, <1>2, <2>1 DEF Revoke
  <2>3. req' = [req EXCEPT ![p] = r]
    BY <1>0, <1>2, <2>1 DEF Revoke, Goto
  <2>4. /\ r.pc = "issue" /\ r.tok = i /\ r.email = req[p].email
        /\ r.dead = req[p].dead /\ r \in Request
    BY <1>0 DEF Request
  <2>5. token[i] \in TokenRow
    BY <1>0
  <2>6. /\ row \in TokenRow /\ row.revoked /\ row.owner = token[i].owner
        /\ row.role = token[i].role /\ row.tenant = token[i].tenant
        /\ row.parent = token[i].parent
    BY <2>5 DEF TokenRow
  <2> HIDE DEF r, row
  <2> QED
    BY <1>0, <1>2, <2>2, <2>3, <2>4, <2>6, RevocationIInv
<1>3. CASE ~token[i].revoked /\ LogoutRevoke(p)
  <2> DEFINE r == [req[p] EXCEPT !.pc = "done", !.ans = "bye"]
             row == [token[i] EXCEPT !.revoked = TRUE, !.left = TRUE]
  <2>1. Revocable(i) = {i}
    BY <1>3 DEF Revocable
  <2>2. token' = [token EXCEPT ![i] = row] /\ UNCHANGED user
    BY <1>0, <1>3, <2>1 DEF LogoutRevoke
  <2>3. req' = [req EXCEPT ![p] = r]
    BY <1>0, <1>3, <2>1 DEF LogoutRevoke, Reply
  <2>4. /\ r.pc = "done" /\ r.tok = i /\ r.email = req[p].email
        /\ r.dead = req[p].dead /\ r \in Request
    BY <1>0 DEF Request
  <2>5. token[i] \in TokenRow
    BY <1>0
  <2>6. /\ row \in TokenRow /\ row.revoked /\ row.owner = token[i].owner
        /\ row.role = token[i].role /\ row.tenant = token[i].tenant
        /\ row.parent = token[i].parent
    BY <2>5 DEF TokenRow
  <2> HIDE DEF r, row
  <2> QED
    BY <1>0, <1>3, <2>2, <2>3, <2>4, <2>6, RevocationIInv
<1> QED
  BY <1>1, <1>2, <1>3

\* The insert of a new pair: the request that won the revocation is the only one to
\* insert a child of the token, and it does so once.
LEMMA IssueIInv ==
    ASSUME IInv, NEW p \in Proc, NEW i \in Token, IssueTokenPair(p, i)
    PROVE  IInv'
<1> USE ConstantsAssumption DEF IInv
<1> DEFINE u == user[req[p].email]
           row == [Unused EXCEPT !.owner = req[p].email, !.role = u.role,
                       !.tenant = u.tenant, !.parent = req[p].tok]
           r == [req[p] EXCEPT !.pc = "done", !.ans = "pair"]
<1>0. /\ req[p] \in Request /\ req[p].email \in Email /\ u \in User /\ u.role # "none"
      /\ ~req[p].dead /\ At(p, "issue") /\ ~Issued(i)
  BY DEF InHand, Types, DeadEnds, At, IssueTokenPair, InsertToken
<1>1. /\ token' = [token EXCEPT ![i] = row] /\ req' = [req EXCEPT ![p] = r] /\ user' = user
  BY <1>0 DEF IssueTokenPair, InsertToken, Reply, Types
<1>2. /\ row \in TokenRow /\ row.owner = req[p].email /\ row.role = u.role
      /\ row.tenant = u.tenant /\ row.parent = req[p].tok /\ ~row.revoked
  <2>1. Unused \in TokenRow /\ ~Unused.revoked
    BY DEF Unused, TokenRow
  <2>2. /\ req[p].tok \in Token \cup {NoToken} /\ u.role \in {"none", "fan", "admin"}
        /\ u.tenant \in Tenant \cup {NoTenant}
    BY <1>0 DEF Request, User
  <2> QED
    BY <1>0, <2>1, <2>2 DEF TokenRow
<1>3. /\ r \in Request /\ r.pc = "done" /\ r.tok = req[p].tok /\ r.email = req[p].email
      /\ r.dead = req[p].dead
  BY <1>0 DEF Request
<1> HIDE DEF row, r
<1>a. \A q \in Proc : req'[q] = IF q = p THEN r ELSE req[q]
  BY <1>1 DEF Types
<1>b. \A j \in Token : token'[j] = IF j = i THEN row ELSE token[j]
  BY <1>1 DEF Types
<1>c. ~token[i].revoked /\ req[p].tok # i
  BY <1>0 DEF FreshTokens, Winner
<1>4. Types'
  BY <1>1, <1>2, <1>3 DEF Types
<1>5. AdminsHaveAClub'
  BY <1>1 DEF AdminsHaveAClub
<1>6. FreshTokens' /\ Claims'
  BY <1>0, <1>1, <1>2, <1>b DEF FreshTokens, Claims, Issued
<1>7. ParentsRevoked'
  <2> SUFFICES ASSUME NEW j \in Token, token'[j].parent # NoToken
               PROVE  token'[token'[j].parent].revoked
    BY DEF ParentsRevoked
  <2>1. token'[j].parent \in Token
    BY <1>4 DEF Types, TokenRow
  <2>2. token[token'[j].parent].revoked
    BY <1>0, <1>2, <1>b DEF ParentsRevoked, Winner
  <2> QED
    BY <2>1, <2>2, <1>b, <1>c
<1>8. SingleUse'
  BY <1>0, <1>2, <1>b DEF SingleUse, Winner
<1>9. InHand'
  BY <1>0, <1>1, <1>2, <1>3, <1>a, <1>b DEF InHand, Issued
<1>10. Winner'
  <2> SUFFICES ASSUME NEW q \in Proc, req'[q].pc = "issue", req'[q].tok # NoToken
               PROVE  /\ token'[req'[q].tok].revoked
                      /\ \A j \in Token : token'[j].parent # req'[q].tok
                      /\ \A k \in Proc : At(k, "issue")' /\ req'[k].tok = req'[q].tok => q = k
    BY DEF Winner, At
  <2>1. q # p /\ req'[q] = req[q] /\ At(q, "issue")
    BY <1>3, <1>a DEF At
  <2>2. token[req[q].tok].revoked /\ req[q].tok \in Token
    BY <2>1 DEF Winner, Types, Request
  <2>3. req[q].tok # i /\ req[q].tok # req[p].tok
    BY <2>1, <2>2, <1>0, <1>c DEF Winner
  <2> QED
    BY <2>1, <2>2, <2>3, <1>2, <1>3, <1>a, <1>b DEF Winner, At
<1>11. DeadEnds'
  BY <1>0, <1>1, <1>3, <1>a DEF DeadEnds, At
<1> QED
  BY <1>4, <1>5, <1>6, <1>7, <1>8, <1>9, <1>10, <1>11

\* Time changes nothing the invariant is about.
LEMMA AgeIInv ==
    ASSUME IInv, NEW i \in Token, Age(i)
    PROVE  IInv'
<1> USE ConstantsAssumption DEF IInv
<1>1. token[i] \in TokenRow /\ token[i].age \in 0 .. 1
  BY DEF Types, TokenRow, Age
<1>2. [token[i] EXCEPT !.age = @ + 1] \in TokenRow
  BY <1>1 DEF TokenRow
<1>3. token' = [token EXCEPT ![i] = [token[i] EXCEPT !.age = @ + 1]] /\ UNCHANGED <<user, req>>
  BY DEF Age, Types
<1>4. Types'
  BY <1>2, <1>3 DEF Types
<1>a. \A j \in Token : /\ token'[j].owner = token[j].owner
                       /\ token'[j].role = token[j].role
                       /\ token'[j].tenant = token[j].tenant
                       /\ token'[j].parent = token[j].parent
                       /\ token'[j].revoked = token[j].revoked
  BY <1>1, <1>3 DEF Types, TokenRow
<1>5. AdminsHaveAClub' /\ FreshTokens' /\ Claims' /\ SingleUse'
  BY <1>3, <1>a DEF AdminsHaveAClub, FreshTokens, Claims, SingleUse, Issued
<1>6. ParentsRevoked'
  BY <1>a DEF ParentsRevoked, Types, TokenRow
<1>7. InHand' /\ DeadEnds'
  BY <1>3, <1>a DEF InHand, DeadEnds, Issued, At
<1>8. Winner'
  BY <1>3, <1>a DEF Winner, At, Types, Request
<1> QED
  BY <1>4, <1>5, <1>6, <1>7, <1>8

\* Every step of accounts, requests and time keeps the inductive invariant.
LEMMA NextIInv == IInv /\ [Next]_vars => IInv'
<1> SUFFICES ASSUME IInv, [Next]_vars PROVE IInv'
  OBVIOUS
<1> USE ConstantsAssumption
<1>0. user \in [Email -> User]
  BY DEF IInv, Types
<1>1. ASSUME NEW e \in Email, Register(e) PROVE IInv'
  <2>1. [role |-> "fan", tenant |-> NoTenant, active |-> TRUE] \in User
    BY DEF User
  <2> QED
    BY <1>1, <2>1, UserStepIInv DEF Register, FanRow, InsertUser
<1>2. ASSUME NEW e \in Email, NEW t \in Tenant, BootstrapAdmin(e, t) PROVE IInv'
  <2>1. [role |-> "admin", tenant |-> t, active |-> TRUE] \in User
    BY DEF User
  <2> QED
    BY <1>2, <2>1, UserStepIInv DEF BootstrapAdmin, AdminRow, InsertUser
<1>3. ASSUME NEW e \in Email, Suspend(e) PROVE IInv'
  <2> DEFINE row == [user[e] EXCEPT !.active = FALSE]
  <2>1. user[e] \in User
    BY <1>0
  <2>2. row \in User /\ row.role = user[e].role /\ row.tenant = user[e].tenant /\ ~row.active
    BY <2>1 DEF User
  <2>3. row.role = "admin" => row.tenant \in Tenant
    BY <2>2 DEF IInv, AdminsHaveAClub
  <2>4. user' = [user EXCEPT ![e] = row] /\ UNCHANGED <<token, req>>
    BY <1>0, <1>3 DEF Suspend
  <2> HIDE DEF row
  <2> QED
    BY <2>2, <2>3, <2>4, UserStepIInv
<1>4. CASE UNCHANGED vars
  BY <1>4 DEF vars, IInv, Types, AdminsHaveAClub, FreshTokens, Claims, ParentsRevoked,
              InHand, Winner, DeadEnds, SingleUse, Issued, At
<1> QED
  BY <1>1, <1>2, <1>3, <1>4, AgeIInv, ReadStepIInv, RevokeIInv, IssueIInv DEF Next

\* The inductive invariant holds of every reachable state.
THEOREM Invariance == Spec => []IInv
  BY InitIInv, NextIInv, PTL DEF Spec

\* However many refreshes present one token at once, at most one pair is issued for
\* it: the UPDATE ... WHERE revoked_at IS NULL has one winner, and only the winner
\* reaches issueTokenPair.
THEOREM RotationIsSingleUse == Spec => []SingleUse
<1>1. IInv => SingleUse
  BY DEF IInv
<1> QED
  BY <1>1, Invariance, PTL

\* Login and Refresh give a pair only to a request whose credentials were good when
\* it was read.
THEOREM NothingForDeadCredentials == Spec => []DeadCredentialsBuyNothing
<1>1. IInv => DeadCredentialsBuyNothing
  BY DEF IInv, DeadEnds, DeadCredentialsBuyNothing, At
<1> QED
  BY <1>1, Invariance, PTL

\* The claims that RequireAuth and RequireAdmin rely on are the account's own.
THEOREM ClaimsAreTheAccounts == Spec => []ClaimsMatchAccount
<1>1. IInv => ClaimsMatchAccount
  BY DEF IInv, Claims, AdminsHaveAClub, ClaimsMatchAccount, RequireAuth, ParseAccessToken,
         RequireAdmin, Issued, Types, TokenRow
<1> QED
  BY <1>1, Invariance, PTL

\* A step keeps a reason for every revocation: the request that revoked a token
\* inserts its successor before it does anything else, or fails.
LEMMA ReasonStep ==
    ASSUME IInv, RevokedForAReason, [Next]_vars
    PROVE  RevokedForAReason'
<1> USE ConstantsAssumption DEF RevokedForAReason, At
<1>0. /\ req \in [Proc -> Request] /\ token \in [Token -> TokenRow]
      /\ \A p \in Proc : req[p] \in Request
      /\ \A i \in Token : token[i] \in TokenRow
  BY DEF IInv, Types
<1>2. ASSUME UNCHANGED <<token, req, cut>> PROVE RevokedForAReason'
  BY <1>2
<1>3. ASSUME NEW i \in Token, Age(i) PROVE RevokedForAReason'
  <2>1. \A j \in Token : /\ token'[j].revoked = token[j].revoked
                         /\ token'[j].left = token[j].left
                         /\ token'[j].parent = token[j].parent
    BY <1>0, <1>3 DEF Age, TokenRow
  <2> QED
    BY <2>1, <1>3 DEF Age
<1>4. ASSUME NEW p \in Proc, NEW i \in Token, IssueTokenPair(p, i) PROVE RevokedForAReason'
  <2>1. /\ \A j \in Token : j # i => token'[j] = token[j]
        /\ token'[i].parent = req[p].tok /\ ~token'[i].revoked
    BY <1>0, <1>4 DEF IssueTokenPair, InsertToken, Unused
  <2>2. \A q \in Proc : q # p => req'[q] = req[q]
    BY <1>0, <1>4 DEF IssueTokenPair, InsertToken, Reply
  <2>3. token[i].parent = NoToken /\ cut' = cut
    BY <1>4 DEF IssueTokenPair, InsertToken, IInv, FreshTokens
  <2> QED
    BY <2>1, <2>2, <2>3
<1>5. ASSUME NEW p \in Proc, Revoke(p) \/ LogoutRevoke(p) PROVE RevokedForAReason'
  <2>1. req[p].pc \in {"revoke", "logout"} /\ req[p].tok \in Token /\ cut' = cut
    BY <1>5 DEF Revoke, LogoutRevoke, IInv, InHand
  <2>2. \A q \in Proc : req[q].pc = "issue" => req'[q] = req[q]
    BY <1>0, <1>5, <2>1 DEF Revoke, LogoutRevoke, Goto, Reply
  <2>3. CASE token[req[p].tok].revoked
    <3>1. Revocable(req[p].tok) = {}
      BY <2>3 DEF Revocable
    <3>2. \A j \in Token : token'[j] = token[j]
      BY <1>5, <3>1 DEF Revoke, LogoutRevoke
    <3> QED
      BY <3>2, <2>1, <2>2
  <2>4. CASE ~token[req[p].tok].revoked
    <3>1. Revocable(req[p].tok) = {req[p].tok}
      BY <2>4 DEF Revocable
    <3>2. CASE Revoke(p)
      <4>1. req'[p].pc = "issue" /\ req'[p].tok = req[p].tok
        BY <1>0, <3>1, <3>2 DEF Revoke, Goto, Request
      <4>2. \A j \in Token : /\ token'[j].parent = token[j].parent
                             /\ token'[j].left = token[j].left
                             /\ j # req[p].tok => token'[j] = token[j]
        BY <1>0, <3>1, <3>2 DEF Revoke, TokenRow
      <4> QED
        BY <4>1, <4>2, <2>1, <2>2
    <3>3. CASE LogoutRevoke(p)
      <4> DEFINE row == [token[req[p].tok] EXCEPT !.revoked = TRUE, !.left = TRUE]
      <4>1. token[req[p].tok] \in TokenRow
        BY <1>0, <2>1
      <4>2. row.left /\ row.parent = token[req[p].tok].parent
        BY <4>1 DEF TokenRow
      <4>3. /\ token'[req[p].tok] = row
            /\ \A j \in Token : j # req[p].tok => token'[j] = token[j]
        BY <2>1, <3>1, <3>3 DEF LogoutRevoke
      <4> HIDE DEF row
      <4> QED
        BY <4>2, <4>3, <2>1, <2>2
    <3> QED
      BY <1>5, <3>2, <3>3
  <2> QED
    BY <2>3, <2>4
<1>6. ASSUME NEW p \in Proc,
             \/ \E e \in Email, right \in BOOLEAN : Login(p, e, right)
             \/ \E i \in Token : Refresh(p, i) \/ Logout(p, i)
      PROVE  RevokedForAReason'
  <2>1. PICK r : req[p].pc = "done" /\ req' = [req EXCEPT ![p] = r] /\ UNCHANGED <<token, cut>>
    BY <1>6 DEF Login, BadLogin, UserFound, Refresh, BadToken, Logout, Start
  <2>2. \A q \in Proc : req[q].pc = "issue" => req'[q] = req[q]
    BY <1>0, <2>1
  <2> QED
    BY <2>1, <2>2
<1>7. ASSUME NEW p \in Proc, CheckUser(p) PROVE RevokedForAReason'
  <2>1. /\ \A q \in Proc : req[q].pc = "issue" => req'[q] = req[q]
        /\ UNCHANGED <<token, cut>>
    BY <1>0, <1>7 DEF CheckUser, Goto, Reply
  <2> QED
    BY <2>1
<1>8. ASSUME NEW e \in Email, NEW t \in Tenant, Register(e) \/ Suspend(e) \/ BootstrapAdmin(e, t)
      PROVE  RevokedForAReason'
  BY <1>2, <1>8 DEF Register, FanRow, Suspend, BootstrapAdmin, AdminRow
<1>9. ASSUME NEW e \in Email, Register(e) \/ Suspend(e) PROVE RevokedForAReason'
  BY <1>2, <1>9 DEF Register, FanRow, Suspend
<1>10. CASE UNCHANGED vars
  BY <1>2, <1>10 DEF vars
<1>11. ASSUME NEW p \in Proc, StoreFails(p) PROVE RevokedForAReason'
  <2>1. /\ \A q \in Proc : q # p => req'[q] = req[q]
        /\ token' = token
        /\ cut \subseteq cut'
    BY <1>0, <1>11 DEF StoreFails, Reply
  <2>2. \A i \in Token : At(p, "issue") /\ req[p].tok = i => i \in cut'
    BY <1>11 DEF StoreFails
  <2> QED
    BY <2>1, <2>2
<1> QED
  BY <1>3, <1>4, <1>5, <1>6, <1>7, <1>8, <1>9, <1>10, <1>11 DEF Next

\* A refresh token that is revoked was exchanged, is being exchanged, was lost in a
\* failed exchange, or was logged out by its own holder: no request ends another
\* session than its own.
THEOREM NoSessionEndsByAccident == Spec => []RevokedForAReason
<1>1. Init => RevokedForAReason
  BY DEF Init, RevokedForAReason, Unused
<1>2. IInv /\ RevokedForAReason /\ [Next]_vars => RevokedForAReason'
  BY ReasonStep
<1> QED
  BY <1>1, <1>2, Invariance, PTL DEF Spec

\* What a logout revoked is revoked, and out of every exchange.
LoggedOut == LogoutIsFinal /\ \A i \in Token : token[i].left => token[i].revoked

\* A step that logs nothing out, and lets no request go on to the insert of a pair
\* with a token that was logged out.
LEMMA NobodyLeaves ==
    ASSUME LoggedOut,
           \A i \in Token : /\ token'[i].left = token[i].left
                            /\ token'[i].parent = token[i].parent
                            /\ token[i].revoked => token'[i].revoked,
           \A p \in Proc : req'[p].pc = "issue" =>
               \/ req[p].pc = "issue" /\ req'[p].tok = req[p].tok
               \/ req'[p].tok \notin Token \/ ~token[req'[p].tok].left
    PROVE  LoggedOut'
<1> SUFFICES ASSUME NEW i \in Token, token'[i].left
             PROVE  /\ token'[i].revoked /\ \A j \in Token : token'[j].parent # i
                    /\ \A p \in Proc : ~(req'[p].pc = "issue" /\ req'[p].tok = i)
  BY Zenon DEF LoggedOut, LogoutIsFinal, At
<1>1. token[i].left /\ token[i].revoked /\ \A j \in Token : token[j].parent # i
  BY DEF LoggedOut, LogoutIsFinal
<1>2. \A p \in Proc : ~(req[p].pc = "issue" /\ req[p].tok = i)
  BY <1>1 DEF LoggedOut, LogoutIsFinal, At
<1> QED
  BY <1>1, <1>2

\* Every step keeps it: the winner of the revocation decides whether the token is
\* exchanged or logged out.
LEMMA LoggedOutStep ==
    ASSUME IInv, LoggedOut, [Next]_vars
    PROVE  LoggedOut'
<1> USE ConstantsAssumption
<1>0. /\ req \in [Proc -> Request] /\ token \in [Token -> TokenRow]
      /\ \A p \in Proc : req[p] \in Request
      /\ \A i \in Token : token[i] \in TokenRow
  BY DEF IInv, Types
<1>1. ASSUME UNCHANGED <<token, req>> PROVE LoggedOut'
  BY <1>1, Zenon DEF LoggedOut, LogoutIsFinal, At
<1>2. ASSUME NEW i \in Token, Age(i) PROVE LoggedOut'
  <2>1. \A j \in Token : /\ token'[j].revoked = token[j].revoked
                         /\ token'[j].left = token[j].left
                         /\ token'[j].parent = token[j].parent
    BY <1>0, <1>2 DEF Age, TokenRow
  <2>2. req' = req
    BY <1>2 DEF Age
  <2> QED
    BY <2>1, <2>2, NobodyLeaves
<1>3. ASSUME NEW p \in Proc, token' = token, \A q \in Proc : q # p => req'[q] = req[q],
             req'[p].pc = "issue" => req'[p].tok = NoToken
      PROVE  LoggedOut'
  BY <1>3, NobodyLeaves
<1>4. ASSUME NEW p \in Proc,
             \/ \E e \in Email, right \in BOOLEAN : Login(p, e, right)
             \/ \E i \in Token : Refresh(p, i) \/ Logout(p, i)
             \/ CheckUser(p) \/ StoreFails(p)
      PROVE  LoggedOut'
  <2>1. token' = token /\ \A q \in Proc : q # p => req'[q] = req[q]
    BY <1>0, <1>4 DEF Login, Refresh, Logout, CheckUser, StoreFails, Start, Goto, Reply
  <2>2. ASSUME NEW e \in Email, NEW right \in BOOLEAN, Login(p, e, right)
        PROVE  req'[p].tok = NoToken
    BY <1>0, <2>2 DEF Login, Start, Idle
  <2>3. ASSUME NEW i \in Token, Refresh(p, i) \/ Logout(p, i)
        PROVE  req'[p].pc # "issue"
    <3>1. ASSUME Refresh(p, i) PROVE req'[p].pc \in {"done", "user"}
      BY <1>0, <3>1 DEF Refresh, Start, Idle
    <3>2. ASSUME Logout(p, i) PROVE req'[p].pc \in {"done", "logout"}
      BY <1>0, <3>2 DEF Logout, Start, Idle
    <3> QED
      BY <2>3, <3>1, <3>2
  <2>4. ASSUME CheckUser(p) \/ StoreFails(p)
        PROVE  req'[p].pc # "issue"
    BY <1>0, <2>4 DEF CheckUser, StoreFails, Goto, Reply, Request
  <2> QED
    BY <1>3, <1>4, <2>1, <2>2, <2>3, <2>4
<1>5. ASSUME NEW p \in Proc, NEW i \in Token, IssueTokenPair(p, i) PROVE LoggedOut'
  <2>1. /\ token'[i].parent = req[p].tok /\ ~token'[i].left
        /\ \A j \in Token : j # i => token'[j] = token[j]
    BY <1>0, <1>5 DEF IssueTokenPair, InsertToken, Unused
  <2>2. /\ req[p].pc = "issue" /\ req'[p].pc = "done"
        /\ \A q \in Proc : q # p => req'[q] = req[q]
    BY <1>0, <1>5 DEF IssueTokenPair, Reply, At, Request
  <2> SUFFICES ASSUME NEW k \in Token, token'[k].left
               PROVE  /\ token'[k].revoked /\ \A j \in Token : token'[j].parent # k
                      /\ \A q \in Proc : ~(req'[q].pc = "issue" /\ req'[q].tok = k)
    BY Zenon DEF LoggedOut, LogoutIsFinal, At
  <2>3. k # i /\ token'[k] = token[k]
    BY <2>1
  <2>4. /\ token[k].revoked /\ \A j \in Token : token[j].parent # k
        /\ \A q \in Proc : ~(req[q].pc = "issue" /\ req[q].tok = k)
    BY <2>3 DEF LoggedOut, LogoutIsFinal, At
  <2> QED
    BY <2>1, <2>2, <2>3, <2>4
<1>6. ASSUME NEW p \in Proc, Revoke(p) \/ LogoutRevoke(p) PROVE LoggedOut'
  <2>0. PICK i \in Token : i = req[p].tok
    BY <1>6 DEF Revoke, LogoutRevoke, IInv, InHand, At
  <2>1. req[p].pc \in {"revoke", "logout"} /\ token[i] \in TokenRow /\ req[p] \in Request
    BY <1>0, <1>6 DEF Revoke, LogoutRevoke, At
  <2>2. \A q \in Proc : q # p => req'[q] = req[q]
    BY <1>0, <1>6 DEF Revoke, LogoutRevoke, Goto, Reply
  <2>3. CASE token[i].revoked
    <3>1. Revocable(i) = {}
      BY <2>3 DEF Revocable
    <3>2. \A j \in Token : token'[j] = token[j]
      BY <1>6, <2>0, <3>1 DEF Revoke, LogoutRevoke
    <3>3. req'[p].pc = "done"
      BY <1>0, <1>6, <2>0, <2>1, <3>1 DEF Revoke, LogoutRevoke, Reply, Request
    <3> QED
      BY <2>2, <3>2, <3>3, NobodyLeaves
  <2>4. CASE ~token[i].revoked /\ Revoke(p)
    <3>1. Revocable(i) = {i}
      BY <2>4 DEF Revocable
    <3>2. \A j \in Token : /\ token'[j].left = token[j].left
                           /\ token'[j].parent = token[j].parent
                           /\ token[j].revoked => token'[j].revoked
      BY <1>0, <2>0, <2>4, <3>1 DEF Revoke, TokenRow
    <3>3. req'[p].tok = i /\ ~token[i].left
      BY <1>0, <2>0, <2>1, <2>4, <3>1 DEF Revoke, Goto, Request, LoggedOut
    <3> QED
      BY <2>2, <3>2, <3>3, NobodyLeaves
  <2>5. CASE ~token[i].revoked /\ LogoutRevoke(p)
    <3>1. Revocable(i) = {i}
      BY <2>5 DEF Revocable
    <3>2. PICK row : row.revoked /\ row.parent = token[i].parent
                     /\ token'[i] = row /\ \A j \in Token : j # i => token'[j] = token[j]
      <4>1. /\ token'[i] = [token[i] EXCEPT !.revoked = TRUE, !.left = TRUE]
            /\ \A j \in Token : j # i => token'[j] = token[j]
        BY <2>0, <2>5, <3>1 DEF LogoutRevoke
      <4> QED
        BY <2>1, <4>1 DEF TokenRow
    <3>3. req'[p].pc = "done"
      BY <1>0, <2>0, <2>1, <2>5, <3>1 DEF LogoutRevoke, Reply, Request
    <3>4. \A j \in Token : token[j].parent # i
      BY <2>5 DEF IInv, ParentsRevoked
    <3>5. \A q \in Proc : ~(req[q].pc = "issue" /\ req[q].tok = i)
      BY <2>5 DEF IInv, Winner, At
    <3> SUFFICES ASSUME NEW k \in Token, token'[k].left
                 PROVE  /\ token'[k].revoked /\ \A j \in Token : token'[j].parent # k
                        /\ \A q \in Proc : ~(req'[q].pc = "issue" /\ req'[q].tok = k)
      BY Zenon DEF LoggedOut, LogoutIsFinal, At
    <3>6. \A j \in Token : token'[j].parent = token[j].parent
      BY <3>2
    <3>7. /\ token'[k].revoked /\ \A j \in Token : token[j].parent # k
          /\ \A q \in Proc : ~(req[q].pc = "issue" /\ req[q].tok = k)
      <4>1. CASE k = i
        BY <3>2, <3>4, <3>5, <4>1
      <4>2. CASE k # i
        BY <3>2, <4>2 DEF LoggedOut, LogoutIsFinal, At
      <4> QED
        BY <4>1, <4>2
    <3> QED
      BY <2>2, <3>3, <3>6, <3>7
  <2> QED
    BY <1>6, <2>3, <2>4, <2>5
<1>7. ASSUME NEW e \in Email, Register(e) \/ Suspend(e) \/ \E t \in Tenant : BootstrapAdmin(e, t)
      PROVE  LoggedOut'
  BY <1>1, <1>7 DEF Register, Suspend, BootstrapAdmin
<1>8. CASE UNCHANGED vars
  BY <1>1, <1>8 DEF vars
<1> QED
  BY <1>2, <1>4, <1>5, <1>6, <1>7, <1>8 DEF Next

\* Of a logout and the refreshes that race it for one token only one wins: what was
\* logged out has no successor, for any number of requests and failures.
THEOREM LogoutsAreFinal == Spec => []LogoutIsFinal
<1>1. Init => LoggedOut
  BY DEF Init, LoggedOut, LogoutIsFinal, Unused
<1>2. IInv /\ LoggedOut /\ [Next]_vars => LoggedOut'
  BY LoggedOutStep
<1>3. LoggedOut => LogoutIsFinal
  BY DEF LoggedOut
<1> QED
  BY <1>1, <1>2, <1>3, Invariance, PTL DEF Spec
-----------------------------------------------------------------------------
(***************************************************************************)
(* When logout is idempotent.                                              *)
(***************************************************************************)

\* A logout past its lookup shares its token with no other request that may still
\* revoke it.
OneRevokes ==
    \A p, q \in Proc :
        /\ At(p, "logout") /\ req[q].pc \in {"user", "revoke", "logout"}
        /\ req[p].tok = req[q].tok
        => p = q

\* The token of a logout past its lookup is still to be revoked, and only a
\* logout is at that statement.
LogoutInHand ==
    \A p \in Proc :
        /\ At(p, "logout") => ~token[req[p].tok].revoked
        /\ req[p].op = "logout" => req[p].pc \in {"logout", "done"} /\ req[p].ans # "error"

\* A step that leaves the tokens' revocation alone and starts no logout keeps what
\* logouts have in hand.
LEMMA LogoutsUndisturbed ==
    ASSUME LogoutInHand,
           \A i \in Token : token'[i].revoked = token[i].revoked,
           \A p \in Proc : req'[p] = req[p] \/ (req'[p].pc # "logout" /\ req'[p].op # "logout"),
           \A p \in Proc : At(p, "logout") => req[p].tok \in Token
    PROVE  LogoutInHand'
<1>1. SUFFICES ASSUME NEW p \in Proc
               PROVE  /\ req'[p].pc = "logout" => ~token'[req'[p].tok].revoked
                      /\ req'[p].op = "logout" =>
                            req'[p].pc \in {"logout", "done"} /\ req'[p].ans # "error"
  BY Zenon DEF LogoutInHand, At
<1>2. CASE req'[p] = req[p]
  BY <1>2 DEF LogoutInHand, At
<1>3. CASE req'[p].pc # "logout" /\ req'[p].op # "logout"
  BY <1>3
<1> QED
  BY <1>2, <1>3

\* The same for a step that revokes token i, when no logout has i in hand.
LEMMA RevocationSparesLogouts ==
    ASSUME LogoutInHand, NEW p \in Proc,
           \A i \in Token : i # req[p].tok => token'[i].revoked = token[i].revoked,
           \A q \in Proc : q # p => req'[q] = req[q],
           \A q \in Proc : q # p /\ At(q, "logout") => req[q].tok \in Token \ {req[p].tok},
           req'[p].pc # "logout",
           req'[p].op = "logout" => req'[p].pc = "done" /\ req'[p].ans # "error"
    PROVE  LogoutInHand'
<1>1. SUFFICES ASSUME NEW q \in Proc
               PROVE  /\ req'[q].pc = "logout" => ~token'[req'[q].tok].revoked
                      /\ req'[q].op = "logout" =>
                            req'[q].pc \in {"logout", "done"} /\ req'[q].ans # "error"
  BY Zenon DEF LogoutInHand, At
<1>2. CASE q = p
  BY <1>2
<1>3. CASE q # p
  BY <1>3 DEF LogoutInHand, At
<1> QED
  BY <1>2, <1>3

\* Every step keeps what logouts have in hand, if no call fails and no two requests
\* are about to revoke the token of a logout.
LEMMA LogoutStep ==
    ASSUME ~CanFail, IInv, OneRevokes, LogoutInHand, [Next]_vars
    PROVE  LogoutInHand'
<1>0. /\ token \in [Token -> TokenRow] /\ req \in [Proc -> Request]
      /\ \A p \in Proc : At(p, "logout") => req[p].tok \in Token
  BY DEF IInv, Types, InHand, At
<1>1. ASSUME UNCHANGED <<token, req>> PROVE LogoutInHand'
  BY <1>1, Zenon DEF LogoutInHand, At
<1>2. ASSUME NEW i \in Token, Age(i) PROVE LogoutInHand'
  <2>1. req' = req /\ \A j \in Token : token'[j].revoked = token[j].revoked
    BY <1>0, <1>2 DEF Age, TokenRow
  <2> QED
    BY <1>0, <2>1, LogoutsUndisturbed
<1>3. ASSUME NEW p \in Proc, NEW e \in Email, NEW right \in BOOLEAN, Login(p, e, right)
      PROVE  LogoutInHand'
  <2>1. PICK x : x = [Idle EXCEPT !.op = "login", !.email = e, !.dead = BadLogin(e, right),
                         !.pc = IF BadLogin(e, right) THEN "done" ELSE "issue",
                         !.ans = IF BadLogin(e, right) THEN "refused" ELSE "none"]
    OBVIOUS
  <2>2. \A q \in Proc : req'[q] = req[q] \/ (req'[q].pc # "logout" /\ req'[q].op # "logout")
    <3>1. req' = [req EXCEPT ![p] = x]
      BY <1>3, <2>1 DEF Login, Start
    <3>2. x.pc # "logout" /\ x.op # "logout"
      BY <2>1 DEF Idle
    <3> QED
      BY <1>0, <3>1, <3>2
  <2>3. token' = token
    BY <1>3 DEF Login
  <2> QED
    BY <1>0, <2>2, <2>3, LogoutsUndisturbed
<1>4. ASSUME NEW p \in Proc, NEW i \in Token, Refresh(p, i) PROVE LogoutInHand'
  <2>1. PICK x : x = [Idle EXCEPT !.op = "refresh", !.tok = i, !.email = token[i].owner,
                         !.dead = BadToken(i) \/ ~user[token[i].owner].active,
                         !.pc = IF BadToken(i) THEN "done" ELSE "user",
                         !.ans = IF BadToken(i) THEN "refused" ELSE "none"]
    OBVIOUS
  <2>2. \A q \in Proc : req'[q] = req[q] \/ (req'[q].pc # "logout" /\ req'[q].op # "logout")
    <3>1. req' = [req EXCEPT ![p] = x]
      BY <1>4, <2>1 DEF Refresh, Start
    <3>2. x.pc # "logout" /\ x.op # "logout"
      BY <2>1 DEF Idle
    <3> QED
      BY <1>0, <3>1, <3>2
  <2>3. token' = token
    BY <1>4 DEF Refresh
  <2> QED
    BY <1>0, <2>2, <2>3, LogoutsUndisturbed
<1>5. ASSUME NEW p \in Proc, NEW i \in Token, Logout(p, i) PROVE LogoutInHand'
  <2>1. PICK x : x = [Idle EXCEPT !.op = "logout", !.tok = i,
                         !.pc = IF token[i].revoked THEN "done" ELSE "logout",
                         !.ans = IF token[i].revoked THEN "bye" ELSE "none"]
    OBVIOUS
  <2>2. token' = token /\ req' = [req EXCEPT ![p] = x]
    BY <1>5, <2>1 DEF Logout, Start
  <2>3. /\ x.tok = i /\ x.ans # "error" /\ x.pc \in {"logout", "done"}
        /\ x.pc = "logout" => ~token[i].revoked
    BY <2>1 DEF Idle
  <2>4. req'[p] = x /\ \A q \in Proc : q # p => req'[q] = req[q]
    BY <1>0, <2>2
  <2> QED
    BY <2>2, <2>3, <2>4 DEF LogoutInHand, At
<1>6. ASSUME NEW p \in Proc, ~At(p, "done"), ~At(p, "logout") PROVE req[p].op # "logout"
  BY <1>6 DEF LogoutInHand, At
<1>7. ASSUME NEW p \in Proc, CheckUser(p) PROVE LogoutInHand'
  <2>1. req[p].op # "logout"
    BY <1>6, <1>7 DEF CheckUser, At
  <2>2. /\ req'[p].op = req[p].op /\ req'[p].pc # "logout"
        /\ \A q \in Proc : q # p => req'[q] = req[q]
    BY <1>0, <1>7 DEF CheckUser, Goto, Reply, Request
  <2>3. token' = token
    BY <1>7 DEF CheckUser
  <2> QED
    BY <1>0, <2>1, <2>2, <2>3, LogoutsUndisturbed
<1>8. ASSUME NEW p \in Proc, NEW i \in Token, IssueTokenPair(p, i) PROVE LogoutInHand'
  <2>1. req[p].op # "logout"
    BY <1>6, <1>8 DEF IssueTokenPair, At
  <2>2. /\ req'[p].op = req[p].op /\ req'[p].pc # "logout"
        /\ \A q \in Proc : q # p => req'[q] = req[q]
    BY <1>0, <1>8 DEF IssueTokenPair, Reply, Request
  <2>3. PICK row : /\ row = [Unused EXCEPT !.owner = req[p].email,
                                          !.role = user[req[p].email].role,
                                          !.tenant = user[req[p].email].tenant,
                                          !.parent = req[p].tok]
                  /\ ~Issued(i) /\ token' = [token EXCEPT ![i] = row]
    BY <1>8 DEF IssueTokenPair, InsertToken
  <2>4. ~row.revoked /\ ~token[i].revoked
    BY <2>3 DEF Unused, IInv, FreshTokens
  <2>5. token[i].revoked = FALSE /\ row.revoked = FALSE
    BY <1>0, <2>3, <2>4 DEF TokenRow, Unused
  <2>6. \A j \in Token : token'[j].revoked = token[j].revoked
    BY <1>0, <2>3, <2>5
  <2> QED
    BY <1>0, <2>1, <2>2, <2>6, LogoutsUndisturbed
<1>9. ASSUME NEW p \in Proc, Revoke(p) \/ LogoutRevoke(p)
      PROVE  LogoutInHand'
  <2>1. PICK k \in Token : k = req[p].tok
    BY <1>9 DEF IInv, InHand, Revoke, LogoutRevoke, At
  <2>2. \A j \in Token : j # k => token'[j] = token[j]
    BY <1>9, <2>1 DEF Revoke, LogoutRevoke, Revocable
  <2>3. \A q \in Proc : q # p => req'[q] = req[q]
    BY <1>0, <1>9 DEF Revoke, LogoutRevoke, Goto, Reply
  <2>4. \A q \in Proc : q # p /\ At(q, "logout") => req[q].tok \in Token \ {k}
    BY <1>0, <1>9, <2>1 DEF OneRevokes, Revoke, LogoutRevoke, At
  <2>5. CASE Revoke(p)
    <3>1. req[p].op # "logout"
      BY <1>6, <2>5 DEF Revoke, At
    <3>2. req'[p].op = req[p].op /\ req'[p].pc # "logout"
      BY <1>0, <2>5 DEF Revoke, Goto, Reply, Request
    <3> QED
      BY <2>1, <2>2, <2>3, <2>4, <3>1, <3>2, RevocationSparesLogouts
  <2>6. CASE LogoutRevoke(p)
    <3>1. Revocable(k) # {}
      BY <2>1, <2>6 DEF LogoutInHand, LogoutRevoke, Revocable
    <3>2. req' = [req EXCEPT ![p].pc = "done", ![p].ans = "bye"]
      BY <2>1, <2>6, <3>1 DEF LogoutRevoke, Reply
    <3>3. req'[p].pc = "done" /\ req'[p].ans = "bye"
      BY <1>0, <3>2 DEF Request
    <3> QED
      BY <2>1, <2>2, <2>3, <2>4, <3>3, RevocationSparesLogouts
  <2> QED
    BY <1>9, <2>5, <2>6
<1>10. ASSUME NEW e \in Email, Register(e) \/ Suspend(e) \/ \E t \in Tenant : BootstrapAdmin(e, t)
       PROVE  LogoutInHand'
  BY <1>1, <1>10, Zenon DEF Register, Suspend, BootstrapAdmin
<1>11. CASE UNCHANGED vars
  BY <1>1, <1>11, Zenon DEF vars
<1>12. \A p \in Proc : ~StoreFails(p)
  BY Zenon DEF StoreFails
<1> QED
  BY <1>2, <1>3, <1>4, <1>5, <1>7, <1>8, <1>9, <1>10, <1>11, <1>12, Zenon DEF Next

\* Logout is idempotent, as its comment says, whenever no call to the database fails
\* and no other request is about to revoke the same token: a repeated logout, and a
\* logout after an exchange, are answered with success.
THEOREM LogoutsSucceed ==
    ASSUME ~CanFail
    PROVE  Spec /\ []OneRevokes => []LogoutIsIdempotent
<1>1. Init => LogoutInHand
  BY DEF Init, LogoutInHand, Idle, At
<1>2. IInv /\ OneRevokes /\ LogoutInHand /\ [Next]_vars => LogoutInHand'
  BY LogoutStep
<1>3. LogoutInHand => LogoutIsIdempotent
  BY DEF LogoutInHand, LogoutIsIdempotent
<1> QED
  BY <1>1, <1>2, <1>3, Invariance, PTL DEF Spec
=============================================================================
