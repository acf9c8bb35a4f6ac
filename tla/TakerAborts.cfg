SPECIFICATION Spec
CONSTANTS
    Timeout = 2
    GiveUpMargin = 1
    Prompt = TRUE
    MaxCrashes = 0
    MaxLostReceipts = 1
    MaxCancels = 0
    MaxSweepFailures = 0
INVARIANTS
    AbortMeansUnlocked
CHECK_DEADLOCK FALSE
