CONSTANTS
    a = a
    b = b
    Callers <- Two
    MaxDepth = 1
    Level = 1
    Subscribable = {"EMPTY", "LEVEL"}
    MaxSubscriptions = 2
    Registered = {"monitor", "listener"}
SPECIFICATION Spec
INVARIANTS TypeOK SubscriptionsAnswered EventsAccounted
PROPERTIES EventsDelivered
CHECK_DEADLOCK FALSE
