CONSTANTS
    Procs <- Three
    BlockSizes <- Blocks
    Scenarios <- Scenes
SPECIFICATION Spec
INVARIANTS TypeOK ItemsReadBack 
PROPERTY MarksForward
CHECK_DEADLOCK FALSE
