SPECIFICATION Spec
CONSTANTS
    Timeout = 2
    GiveUpMargin = 1
    Prompt = TRUE
    MaxCrashes = 1
    MaxLostReceipts = 0
    MaxCancels = 0
    MaxSweepFailures = 0
INVARIANTS
    SuccessMeansSwept
CHECK_DEADLOCK FALSE
