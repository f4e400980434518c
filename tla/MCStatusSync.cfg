CONSTANTS
    Cameras = {k1, k2}
    Paths = {q1, q2}
    NoPath = NoPath
    MaxRows = 2
    MaxEdits = 2
    MaxConfigs = 1
    MaxFaults = 1
SPECIFICATION Spec
INVARIANTS
    RoundIsCurrent
PROPERTIES
    HoldsKept
    RoundComplete
    Converges
CHECK_DEADLOCK FALSE
