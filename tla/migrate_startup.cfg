\* Two instances of one release start on an empty database; nothing fails.
SPECIFICATION Spec
CONSTANTS
    sumA = sumA
    sumB = sumB
    sumC = sumC
    Process = {p1, p2}
    Version = {1, 2}
    Sum = {sumA, sumB}
    Release <- OneRelease
    NoProcess = NoProcess
    NoSum = NoSum
    Faults = FALSE
INVARIANTS
    StartupsSucceed
