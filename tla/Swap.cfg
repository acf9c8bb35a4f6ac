SPECIFICATION FairSpec
CONSTANTS
    Timeout = 3
    GiveUpMargin = 1
    LockSlack = 1
    Prompt = TRUE
    MaxFaults = 2
INVARIANTS Atomic
PROPERTIES SwapSettles CounterpartiesCovered
CHECK_DEADLOCK FALSE
