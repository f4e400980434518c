CONSTANTS
    c1 = c1
    c2 = c2
    p1 = p1
    p2 = p2
    w1 = w1
    w2 = w2
    NoCamera = NoCamera
    NoPlate = NoPlate
    NoEntry = NoEntry
    MaxEvents = 3
    BatchSize = 2
    MaxLen = 2
    Cameras <- MCCameras
    Plates <- MCPlates
    Entries <- MCEntries
    CameraOf <- MCCameraOf
    PlateOf <- MCPlateOfClean
    EntryPlate <- MCEntryPlate
    FaultKinds = {"redis", "db", "stream", "crash"}
    MaxFaults = 2
    MaxEdits = 1
SPECIFICATION Spec
INVARIANTS
    AtMostOnce
    AlertsGrounded
    HandledIsStored
    IInv
PROPERTIES
    AckAfterHandling
    StoredInOrder
    RefinesEventFate
CHECK_DEADLOCK FALSE
