CONSTANTS
    Records = {1, 2}
    Devices = {1}
    Choices = {1, 2}
    MaxCalls = 2
    Online = 10
    Grids = {2, 3}
SPECIFICATION Spec
INVARIANTS
    SpinnersEnd
    FormsMatch
    PasswordIsHis
    ListIsCurrent
    WallShowsCameras
PROPERTIES
    ExpiredIsNoticed
CHECK_DEADLOCK FALSE
