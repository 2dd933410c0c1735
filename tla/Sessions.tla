------------------------------ MODULE Sessions ------------------------------
(***************************************************************************)
(* Accounts and sessions: internal/service/auth, its HTTP handlers, and    *)
(* the users and refresh_tokens repositories.  A login opens a session;    *)
(* each refresh exchanges the refresh token presented for a new pair.      *)
(* Every request runs its SQL statements one by one, and several run at    *)
(* once, also with the same token.                                         *)
(*                                                                         *)
(* An access token is a signed copy of the account's role and club; the    *)
(* middleware checks it without looking at the account.  The access and    *)
(* the refresh token of a pair are one element of Token here.              *)
(***************************************************************************)
EXTENDS Naturals, FiniteSets

CONSTANTS
    Email,    \* normalized addresses; an account is known by its address
    Tenant,   \* clubs
    Token,    \* token pairs, fresh random values
    Proc,     \* HTTP request handlers
    NoEmail, NoTenant, NoToken,
    CanFail   \* whether database calls fail

ASSUME ConstantsAssumption ==
    /\ NoEmail \notin Email /\ NoTenant \notin Tenant /\ NoToken \notin Token
    /\ CanFail \in BOOLEAN

VARIABLES
    user,   \* user[e]: the account's row, role "none" when there is none
    token,  \* token[i]: the refresh_tokens row, and the claims signed with it
    req,    \* req[p]: the request p runs, and how it was answered
    cut     \* history: the tokens whose exchange failed after Revoke

vars == <<user, token, req, cut>>

NoUser == [role |-> "none", tenant |-> NoTenant, active |-> FALSE]

\* age: 0 as issued, 1 the access token has expired, 2 the refresh token as well.
\* parent: the token it was exchanged for.  left: revoked by a logout.
Unused == [owner |-> NoEmail, role |-> "none", tenant |-> NoTenant, age |-> 0,
           revoked |-> FALSE, parent |-> NoToken, left |-> FALSE]

\* dead: what the request presents was not good when it started.
Idle == [op |-> "none", pc |-> "done", tok |-> NoToken, email |-> NoEmail,
         ans |-> "none", dead |-> FALSE]

Init ==
    /\ user = [e \in Email |-> NoUser]
    /\ token = [i \in Token |-> Unused]
    /\ req = [p \in Proc |-> Idle]
    /\ cut = {}

Issued(i) == token[i].owner # NoEmail

At(p, pc) == req[p].pc = pc

Goto(p, pc) == req' = [req EXCEPT ![p].pc = pc]

\* The handler writes its response.
Reply(p, ans) == req' = [req EXCEPT ![p].pc = "done", ![p].ans = ans]

\* A request whose first statement has been run: it goes on, or is answered.
Start(p, r) == At(p, "done") /\ req' = [req EXCEPT ![p] = r]

-----------------------------------------------------------------------------
\* UserRepo.Create: email is UNIQUE, a second insert is a conflict (409).
InsertUser(e, row) ==
    /\ user[e].role = "none"
    /\ user' = [user EXCEPT ![e] = row]

\* Service.Register and Service.RegisterAdmin
FanRow == [role |-> "fan", tenant |-> NoTenant, active |-> TRUE]

AdminRow(t) == [role |-> "admin", tenant |-> t, active |-> TRUE]

Register(e) ==
    /\ InsertUser(e, FanRow)
    /\ UNCHANGED <<token, req, cut>>

BootstrapAdmin(e, t) ==
    /\ InsertUser(e, AdminRow(t))
    /\ UNCHANGED <<token, req, cut>>

\* An operator suspends the account: no code of the repository does.
Suspend(e) ==
    /\ user[e].active
    /\ user' = [user EXCEPT ![e].active = FALSE]
    /\ UNCHANGED <<token, req, cut>>

\* Time passes.
Age(i) ==
    /\ Issued(i)
    /\ token[i].age < 2
    /\ token' = [token EXCEPT ![i].age = @ + 1]
    /\ UNCHANGED <<user, req, cut>>

-----------------------------------------------------------------------------
\* GetByEmail finds a row.
UserFound(e) == user[e].role # "none"

\* Login: GetByEmail, the status, the password (right or not), all decided by
\* the one row that was read.
BadLogin(e, right) == ~UserFound(e) \/ ~user[e].active \/ ~right

Login(p, e, right) ==
    LET bad == BadLogin(e, right) IN
    /\ Start(p, [Idle EXCEPT !.op = "login", !.email = e, !.dead = bad,
                     !.pc = IF bad THEN "done" ELSE "issue",
                     !.ans = IF bad THEN "refused" ELSE "none"])
    /\ UNCHANGED <<user, token, cut>>

\* Refresh: GetByTokenHash, then revoked_at and expires_at.
BadToken(i) == token[i].revoked \/ token[i].age = 2

Refresh(p, i) ==
    LET owner == token[i].owner IN
    /\ Issued(i)
    /\ Start(p, [Idle EXCEPT !.op = "refresh", !.tok = i, !.email = owner,
                     !.dead = BadToken(i) \/ ~user[owner].active,
                     !.pc = IF BadToken(i) THEN "done" ELSE "user",
                     !.ans = IF BadToken(i) THEN "refused" ELSE "none"])
    /\ UNCHANGED <<user, token, cut>>

\* GetByID of the token's owner, and its status.  Mutant: the status is not
\* looked at.
SkipUser(p) == At(p, "user") /\ Goto(p, "revoke") /\ UNCHANGED <<user, token, cut>>

CheckUser(p) ==
    /\ At(p, "user")
    /\ IF user[req[p].email].active THEN Goto(p, "revoke") ELSE Reply(p, "inactive")
    /\ UNCHANGED <<user, token, cut>>

\* The tokens that UPDATE ... WHERE id = $1 AND revoked_at IS NULL changes.
\* Mutants: without the second condition; RevokeAllForUser instead of Revoke.
RevocableById(i) == {i}

RevocableByUser(i) ==
    {j \in Token : token[j].owner = token[i].owner /\ ~token[j].revoked}

Revocable(i) == {j \in {i} : ~token[j].revoked}

\* Refresh revokes the token it was given; changing no row is an error (500).
Revoke(p) ==
    LET R == Revocable(req[p].tok) IN
    /\ At(p, "revoke")
    /\ token' = [j \in Token |-> IF j \in R THEN [token[j] EXCEPT !.revoked = TRUE]
                                 ELSE token[j]]
    /\ IF R # {} THEN Goto(p, "issue") ELSE Reply(p, "error")
    /\ UNCHANGED <<user, cut>>

\* RefreshTokenRepo.Create: the value is fresh.
InsertToken(i, row) == ~Issued(i) /\ token' = [token EXCEPT ![i] = row]

\* issueTokenPair: the claims come from the account as it was read before; role
\* and tenant_id are columns no statement updates.
IssueTokenPair(p, i) ==
    LET u == user[req[p].email] IN
    /\ At(p, "issue")
    /\ InsertToken(i, [Unused EXCEPT !.owner = req[p].email, !.role = u.role,
                                     !.tenant = u.tenant, !.parent = req[p].tok])
    /\ Reply(p, "pair")
    /\ UNCHANGED <<user, cut>>

\* Logout: GetByTokenHash; a token already revoked is a success.
Logout(p, i) ==
    LET over == token[i].revoked IN
    /\ Issued(i)
    /\ Start(p, [Idle EXCEPT !.op = "logout", !.tok = i,
                     !.pc = IF over THEN "done" ELSE "logout",
                     !.ans = IF over THEN "bye" ELSE "none"])
    /\ UNCHANGED <<user, token, cut>>

LogoutRevoke(p) ==
    LET R == Revocable(req[p].tok) IN
    /\ At(p, "logout")
    /\ token' = [j \in Token |->
                    IF j \in R THEN [token[j] EXCEPT !.revoked = TRUE, !.left = j = req[p].tok]
                    ELSE token[j]]
    /\ Reply(p, IF R # {} THEN "bye" ELSE "error")
    /\ UNCHANGED <<user, cut>>

\* The next statement of the request fails, or its process dies.
StoreFails(p) ==
    /\ CanFail
    /\ ~At(p, "done")
    /\ Reply(p, "error")
    /\ cut' = IF At(p, "issue") /\ req[p].tok # NoToken THEN cut \cup {req[p].tok} ELSE cut
    /\ UNCHANGED <<user, token>>

Next ==
    \/ \E e \in Email : Register(e) \/ Suspend(e) \/ \E t \in Tenant : BootstrapAdmin(e, t)
    \/ \E i \in Token : Age(i)
    \/ \E p \in Proc :
          \/ \E e \in Email, right \in BOOLEAN : Login(p, e, right)
          \/ \E i \in Token : Refresh(p, i) \/ Logout(p, i) \/ IssueTokenPair(p, i)
          \/ CheckUser(p) \/ Revoke(p) \/ LogoutRevoke(p) \/ StoreFails(p)

Spec == Init /\ [][Next]_vars

-----------------------------------------------------------------------------
\* ParseAccessToken: the signature and the expiry of the access token.
ParseAccessToken(i) == Issued(i) /\ token[i].age = 0

\* What RequireAuth and RequireAdmin accept: a token that parses and the role it
\* carries, and nothing of the account.
RequireAuth(i) == ParseAccessToken(i)

RequireAdmin(i) == RequireAuth(i) /\ token[i].role = "admin"

\* "refresh tokens are single-use": however many requests present a token at
\* once, at most one new pair is ever issued for it.
SingleUse ==
    \A i, j \in Token : token[i].parent = token[j].parent /\ token[i].parent # NoToken
                        => i = j

\* A request that presents something not good when it starts (a wrong password, a
\* revoked or expired token, a suspended account) is never answered with a pair.
DeadCredentialsBuyNothing ==
    \A p \in Proc : req[p].dead => req[p].ans # "pair" /\ ~At(p, "issue")

\* A refresh token is revoked because it was exchanged, because it is being
\* exchanged, because its exchange failed half way, or because its own holder
\* logged out: "a single refresh token ... not every session".
RevokedForAReason ==
    \A i \in Token : token[i].revoked =>
        \/ token[i].left \/ i \in cut
        \/ \E j \in Token : token[j].parent = i
        \/ \E p \in Proc : At(p, "issue") /\ req[p].tok = i

\* Logout "revokes a single refresh token (the one the client is holding)": of a
\* logout and a refresh that present the same token at once only one revokes it, so
\* what a logout revoked was never exchanged, is not being exchanged and never
\* will be.
LogoutIsFinal ==
    \A i \in Token : token[i].left =>
        /\ \A j \in Token : token[j].parent # i
        /\ \A p \in Proc : ~(At(p, "issue") /\ req[p].tok = i)

\* The claims RequireAuth and RequireAdmin rely on are those of the account, as
\* long as the access token is accepted: an admin's token names their own club,
\* and no registration turns an account into another one under its tokens.
ClaimsMatchAccount ==
    \A i \in Token : RequireAuth(i) =>
        LET u == user[token[i].owner] IN
        /\ u.role = token[i].role /\ u.tenant = token[i].tenant
        /\ RequireAdmin(i) => token[i].tenant \in Tenant

-----------------------------------------------------------------------------
(***************************************************************************)
(* A sentence of the repository that the code does not keep; the README    *)
(* says how it is broken.                                                  *)
(***************************************************************************)
\* "logout is idempotent from the caller's perspective": without a failure of the
\* database every logout is answered with success.
LogoutIsIdempotent == \A p \in Proc : req[p].op = "logout" => req[p].ans # "error"
=============================================================================
