CONSTANTS
    Procs <- Two
    Opener = 1
    Programs <- RemoveAgainstRemoveAdd
    Prologue <- TwoItems
    MaxCalls = 4
    MaxNodes = 6
    MaxDepth = 3
    Mortal = {}
SPECIFICATION Spec
INVARIANTS NodesConserved
