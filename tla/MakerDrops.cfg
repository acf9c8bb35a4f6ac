SPECIFICATION Spec
CONSTANTS
    Timeout = 3
    LockSlack = 1
    Prompt = TRUE
    MaxCrashes = 0
    MaxLostReceipts = 0
    MaxCancels = 1
    MaxWalletFailures = 0
    MaxClears = 0
INVARIANTS
    NoSwapDropped
CHECK_DEADLOCK FALSE
