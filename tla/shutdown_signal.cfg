\* A second signal while the first is being handled.
SPECIFICATION Spec
CONSTANTS
    Conn = {c1}
    MaxSignals = 2
    ListenerMayFail = FALSE
INVARIANTS
    SecondSignalKills
