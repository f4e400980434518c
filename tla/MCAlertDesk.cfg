CONSTANTS
    Alerts = {a1}
    MaxCalls = 2
    MaxClicks = 2
    MaxFailures = 1
SPECIFICATION Spec
PROPERTIES
    HandledStays
    Converges
CHECK_DEADLOCK FALSE
