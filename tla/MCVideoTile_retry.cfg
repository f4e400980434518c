CONSTANTS
    Slots = {1, 2}
    MaxRetries = 0
SPECIFICATION Spec
PROPERTIES
    KeepsRetrying
CHECK_DEADLOCK FALSE
