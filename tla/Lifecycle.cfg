CONSTANTS
    Reqs = {r1, r2}
    MaxSignals = 2
SPECIFICATION Spec
CHECK_DEADLOCK FALSE
INVARIANT DrainedBeforeDisconnect
PROPERTIES
    StopEnds
    ServeErrorEnds
