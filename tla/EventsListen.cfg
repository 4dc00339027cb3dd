CONSTANTS
    a = a
    b = b
    Callers <- Two
    MaxDepth = 2
    Level = 1
    Subscribable = {"LEVEL"}
    MaxSubscriptions = 0
    Registered = {"listener"}
SPECIFICATION Spec
INVARIANTS ItemsHeardOf
CHECK_DEADLOCK FALSE
