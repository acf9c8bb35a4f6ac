SPECIFICATION Spec
CONSTANTS
    Parts = {"manager", "host", "wallet", "relay", "disk", "monero", "keys", "offers", "events", "swapd"}
    Roles = {"taker", "maker"}
    Subs = {s1}
    MaxSwaps = 2
    MaxRestarts = 1
    MaxDrops = 1
    MaxFailures = 1
    MaxSymbols = 1
    MaxGone = 1
    MaxFaults = 1
    Takers = {p1, p2}
    None = None
    MaxBadKeys = 1
    MaxCancels = 1
    MaxTimeouts = 1
    Callers = {c1, c2}
    Ops = {"NewSwap", "NewTokenSwap", "Claim", "ClaimRelayer", "ManualClaim", "Transfer", "Sweep", "Cancel", "StartRefund"}
    MaxCalls = 2
    GasPrices = {1, 2}
    Ether = 6
    Tokens = 3
    Relayers = {r1}
    Honest = {taker}
    Taker = taker
    Maker = maker
    MaxClaims = 2
    MaxLost = 1
    OfferSwaps = 3
    MaxCrashes = 3
    MaxUnsaved = 1
    MaxNoReceipts = 1
    MaxClears = 1
    MaxPurges = 1
    Age = 2
    SelfConfs = 1
    Ports = {1, 2}
    Groups = {{"transfer", "watch"}, {"watch", "claim"}, {"claim", "sweep"}}
    MaxHeight = 6
    MaxReorg = 1
    MaxReorgs = 1
    Base = 4
    Width = 2
    EdOrder = 11
    SecpOrder = 13
    Secrets = {1, 2, 4, 5, 7}
    Strangers = {3, 6}
    NumMoneroDecimals = 2
    MaxExchangeRateDecimals = 1
    NumEtherDecimals = 3
    MaxCoinPrecision = 7
    XMRAmounts <- MCXMRAmounts
    Rates <- MCRates
    Provided <- MCProvided
    Prices <- MCPrices
    TokenDecimals = 1
    RelayerFee <- MCRelayerFee
    MaxOfferValue <- MCMaxOfferValue
    Gas = 3
    MakerBalances = {300, 2000}
    TakerBalances <- MCTakerBalances
    MaxOffers = 2
    Watches = {"ready", "final", "monitor"}
    LogChSize = 1
    MaxLag = 2
    MaxHead = 3
    MaxErrors = 1
    Programs = {"swapd", "bootnode"}
    MaxStarts = 2
INVARIANTS TypeOK SwapsKnown StatusesDelivered OneSwapPerOffer LockSerializes SuccessIsReal RelayIsSafe
INVARIANTS RecordsCurrent  XmrNotLost SecretsOpenLock AmountsAgree
INVARIANTS SuggestionsWork LogsHandledOnce ServedOnlyWhenWhole NothingLeft
 
CHECK_DEADLOCK FALSE
