SPECIFICATION Spec
CONSTANTS
    Email = {e1}
    Tenant = {c1, c2}
    Token = {t1, t2, t3}
    Proc = {p1, p2}
    NoEmail = NoEmail
    NoTenant = NoTenant
    NoToken = NoToken
    CanFail = TRUE
SYMMETRY Symmetry
VIEW View
INVARIANTS
    SingleUse
    DeadCredentialsBuyNothing
    LogoutIsFinal
    RevokedForAReason
CHECK_DEADLOCK FALSE
