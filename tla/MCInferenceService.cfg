CONSTANTS
    Streams = {s1, s2}
    Requests = {q1}
    MaxInference = 1
    MaxBoxes = 2
    MaxFaults = 1
SPECIFICATION Spec
INVARIANTS
    PermitsBalanced
    LoadedOnce
    CaptureReleased
PROPERTIES
    FrameIsProcessed
    StreamRecovers
    RequestAnswered
CHECK_DEADLOCK FALSE
