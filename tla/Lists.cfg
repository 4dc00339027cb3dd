CONSTANTS
    Procs <- Three
    Opener = 1
    Programs <- FewCallsAndRounds
    Prologue <- OneRoundAndAnItem
    MaxCalls = 13
    MaxNodes = 4
    MaxDepth = 3
    Mortal <- Third
SPECIFICATION Spec
INVARIANTS TypeOK NodesConserved TailNearEnd ItemsAccounted PermitsConserved EmptyOnlyIfStale
PROPERTIES AbsQueueSpec EveryCallReturns
