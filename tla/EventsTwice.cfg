CONSTANTS
    a = a
    b = b
    Callers <- Two
    MaxDepth = 2
    Level = 1
    Subscribable = {"EMPTY", "LEVEL"}
    MaxSubscriptions = 1
    Registered = {"monitor"}
SPECIFICATION Spec
INVARIANTS OneShot
CHECK_DEADLOCK FALSE
