\* A process with three connections, two signals and a listener that can break.
SPECIFICATION FairSpec
CONSTANTS
    Conn = {c1, c2, c3}
    MaxSignals = 2
    ListenerMayFail = TRUE
INVARIANTS
    TypeOK
    CutOnlyLate
    PoolOutlivesRequests
    CleanExit
PROPERTIES
    SignalStops
