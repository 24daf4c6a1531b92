\* Two processes of any of four releases, with failures.
SPECIFICATION FairSpec
CONSTANTS
    sumA = sumA
    sumB = sumB
    sumC = sumC
    Process = {p1, p2}
    Version = {1, 2, 3}
    Sum = {sumA, sumB, sumC}
    Release <- Releases
    NoProcess = NoProcess
    NoSum = NoSum
    Faults = TRUE
INVARIANTS
    TypeOK
    AppliedOnce
    NoStaleView
    ServingMatches
    AppliedInOrder
PROPERTIES
    StartsSettle
