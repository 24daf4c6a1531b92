\* Two accounts, three tokens and two requests racing at one instant.
SPECIFICATION Spec
CONSTANTS
    User = {u1, u2}
    Token = {t1, t2, t3}
    Request = {p1, p2}
    NoUser = NoUser
    NoToken = NoToken
    NoRequest = NoRequest
    RefreshTTL = 1
    MaxTime = 0
SYMMETRY Symmetry
INVARIANTS
    TypeOK
    AtMostOneLive
    SingleSuccessor
    SpentIffReplaced
    EndAllKillsSnapshot
PROPERTIES
    DeadStaysDead
    EndsAreProvoked
