CONSTANTS
    Threads <- Three
    Bases <- PAndQ
    BaseOf <- TwoThreadsAndAProcess
    Opener = 1
    Programs <- RemovesAgainstAdds
    Prologue <- Nothing
    PageSlots = 16
    BASE = 4
    MaxPages = 7
SPECIFICATION Spec
INVARIANTS SlotInExtent
