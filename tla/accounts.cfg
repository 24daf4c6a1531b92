\* Two requests over two accounts, two addresses and two numbers.
SPECIFICATION Spec
CONSTANTS
    User = {u1, u2}
    Link = {l1, l2}
    Address = {a1, a2}
    Number = {n1, n2}
    Value = {v1, v2}
    Request = {p1, p2}
    NoUser = NoUser
    NoAddress = NoAddress
    NoNumber = NoNumber
    NoValue = NoValue
SYMMETRY Symmetry
INVARIANTS
    TypeOK
    OneOwner
    AddressFinds
PROPERTIES
    AnswersTrue
    ProfileIsOwn
    ImplementsRegistry
