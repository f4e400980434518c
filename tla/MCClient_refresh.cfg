CONSTANTS
    Records = {1}
    Devices = {1}
    Choices = {1}
    MaxCalls = 2
    Online = 1
    Grids = {3}
SPECIFICATION Spec
PROPERTIES
    SessionIsRefreshed
CHECK_DEADLOCK FALSE
