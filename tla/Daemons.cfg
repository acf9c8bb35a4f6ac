SPECIFICATION Spec
CONSTANTS
    Roles = {"taker", "maker", "both"}
    TakerTimeout = 2
    MakerTimeout = 3
    GiveUpMargin = 1
    LockSlack = 1
    Prompt = FALSE
    MaxCrashes = 1
    TakerLostReceipts = 1
    MakerLostReceipts = 1
    MaxSweepFailures = 1
    MaxWalletFailures = 1
    MaxClears = 1
    TakerCancels = 2
    MakerCancels = 1
    MaxFaults = 1
INVARIANTS TypeOK ClaimedOnlyOnceLocked RecordsTrue OfferListedIffFree BothAgree
PROPERTIES OutcomeIsFinal
CHECK_DEADLOCK FALSE
