CONSTANTS
    Threads <- Three
    Bases <- PAndQ
    BaseOf <- TwoThreadsAndAProcess
    Opener = 1
    Programs <- Mixed
    Prologue <- TwoFree
    PageSlots = 16
    BASE = 4
    MaxPages = 7
SPECIFICATION Spec
INVARIANTS TypeOK SizesFollow BlocksAccounted NoUseAfterUnmap
PROPERTIES EveryCallReturns
