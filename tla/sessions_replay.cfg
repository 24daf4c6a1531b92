\* A replayed token while a rotation of its successor is in flight.
SPECIFICATION Spec
CONSTANTS
    User = {u1}
    Token = {t1, t2, t3}
    Request = {p1, p2}
    NoUser = NoUser
    NoToken = NoToken
    NoRequest = NoRequest
    RefreshTTL = 1
    MaxTime = 0
SYMMETRY Symmetry
INVARIANTS
    ReplayEndsEverySession
