CONSTANTS
    Threads <- Two
    Bases <- PAndQ
    BaseOf <- TwoProcesses
    Opener = 1
    Programs <- OneAgainstThree
    Prologue <- Nothing
    PageSlots = 16
    BASE = 4
    MaxPages = 5
SPECIFICATION Spec
INVARIANTS FileHoldsSize
