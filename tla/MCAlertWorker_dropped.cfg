CONSTANTS
    c1 = c1
    c2 = c2
    p1 = p1
    p2 = p2
    w1 = w1
    w2 = w2
    NoCamera = NoCamera
    NoPlate = NoPlate
    NoEntry = NoEntry
    MaxEvents = 3
    BatchSize = 2
    MaxLen = 2
    Cameras <- MCCameras
    Plates <- MCPlates
    Entries <- MCEntries
    CameraOf <- MCCameraOf
    PlateOf <- MCPlateOf
    EntryPlate <- MCEntryPlate
    FaultKinds = {"redis"}
    MaxFaults = 1
    MaxEdits = 0
SPECIFICATION FairSpec
PROPERTIES
    NoEventDropped
CHECK_DEADLOCK FALSE
