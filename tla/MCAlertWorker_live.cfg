CONSTANTS
    c1 = c1
    c2 = c2
    p1 = p1
    p2 = p2
    w1 = w1
    w2 = w2
    NoCamera = NoCamera
    NoPlate = NoPlate
    NoEntry = NoEntry
    MaxEvents = 3
    BatchSize = 2
    MaxLen = 2
    Cameras <- MCCameras
    Plates <- MCPlates
    Entries <- MCEntries
    CameraOf <- MCCameraOf
    PlateOf <- MCPlateOfUnread
    EntryPlate <- MCEntryPlate
    FaultKinds = {"redis", "db", "crash"}
    MaxFaults = 1
    MaxEdits = 1
SPECIFICATION FairSpec
INVARIANTS
    AlertsComplete
PROPERTIES
    EventuallyHandled
CHECK_DEADLOCK FALSE
