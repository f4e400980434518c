CONSTANTS
    Slots = {1, 2, 3}
    MaxRetries = 1
SPECIFICATION Spec
INVARIANTS
    IInv
    OneStream
    LoadedIsPlaying
PROPERTIES
    HiddenReleases
    StaysTended
CHECK_DEADLOCK FALSE
