CONSTANTS
    Procs <- Three
    Files <- TwoFiles
    NoFile = NoFile
    None = None
    Calls <- AllCalls
    Scenarios <- Scenes
    MaxDepth = 2
    MaxCrashes = 1
SPECIFICATION Spec
INVARIANTS TypeOK OneFormatter ReadyWhenUsed PairTogether
PROPERTIES CallCountCovers PullServes
CHECK_DEADLOCK FALSE
