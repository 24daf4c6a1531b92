\* A query that outlasts the grace period.
SPECIFICATION Spec
CONSTANTS
    Conn = {c1}
    MaxSignals = 1
    ListenerMayFail = FALSE
INVARIANTS
    PoolClosedUnused
