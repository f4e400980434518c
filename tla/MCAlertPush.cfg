CONSTANTS
    Views = {v1, v2}
    MaxSockets = 3
    MaxAlerts = 2
    MaxDrops = 1
SPECIFICATION Spec
INVARIANTS
    ListIsCurrent
    InOrderOnce
    OneSocketPerView
PROPERTIES
    DeliveredIfNoneLeft
    SubscriberSurvives
    DeadAreUnlisted
    Reconnects
CHECK_DEADLOCK FALSE
