SPECIFICATION FairSpec
CONSTANTS
    Roles = {"taker", "maker"}
    TakerTimeout = 2
    MakerTimeout = 3
    GiveUpMargin = 1
    LockSlack = 1
    Prompt = TRUE
    MaxCrashes = 2
    TakerLostReceipts = 0
    MakerLostReceipts = 1
    MaxSweepFailures = 0
    MaxWalletFailures = 1
    MaxClears = 0
    TakerCancels = 2
    MakerCancels = 1
    MaxFaults = 0
INVARIANTS NeverPaysForNothing NeverPanics
PROPERTIES EthSettles XmrSettles
CHECK_DEADLOCK FALSE
