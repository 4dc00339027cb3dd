CONSTANTS
    a = a
    b = b
    c = c
    i1 = i1
    i2 = i2
    NoItem = NoItem
    Procs <- Three
    Items <- TwoItems
    May <- Roles
    Modes <- Waits
    Options <- AllOptions
    Level = 1
    MaxDepth = 2
    MaxProds = 1
SPECIFICATION Spec
INVARIANTS TypeOK PermitsAccounted CountAccounted ItemsDistinct
PROPERTIES AbsQueueSpec WaitersServed
CHECK_DEADLOCK FALSE
