\* One account and two tokens through their whole lifetime, and the refinement.
SPECIFICATION Spec
CONSTANTS
    User = {u1}
    Token = {t1, t2}
    Request = {p1, p2}
    NoUser = NoUser
    NoToken = NoToken
    NoRequest = NoRequest
    RefreshTTL = 1
    MaxTime = 2
SYMMETRY Symmetry
INVARIANTS
    RenewedInTime
    GrantedToActive
PROPERTIES
    ImplementsSessions
