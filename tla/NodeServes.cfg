SPECIFICATION FairSpec
CONSTANTS
    Parts = {"manager", "host", "wallet", "relay", "events", "swapd"}
    Roles = {"maker"}
    Subs = {p1}
    MaxSwaps = 1
    MaxRestarts = 1
    MaxDrops = 1
    MaxFailures = 1
    MaxSymbols = 0
    MaxGone = 1
    MaxFaults = 1
    Takers = {p1, p2}
    None = None
    MaxBadKeys = 1
    MaxCancels = 0
    MaxTimeouts = 1
    Callers = {p1, p2}
    Ops = {"NewSwap", "NewTokenSwap", "Claim", "ClaimRelayer", "ManualClaim", "Transfer", "Sweep", "Cancel", "StartRefund"}
    MaxCalls = 2
    GasPrices = {1}
    Ether = 6
    Tokens = 3
    Relayers = {r1}
    Honest = {p1}
    Taker = p1
    Maker = maker
    MaxClaims = 1
    MaxLost = 1
    OfferSwaps = 3
    MaxCrashes = 3
    MaxUnsaved = 1
    MaxNoReceipts = 1
    MaxClears = 1
    MaxPurges = 1
    Age = 2
    SelfConfs = 1
    Ports = {1, 2}
    Groups = {{"transfer", "watch"}, {"watch", "claim"}, {"claim", "sweep"}}
    MaxHeight = 6
    MaxReorg = 1
    MaxReorgs = 0
    Base = 4
    Width = 2
    EdOrder = 11
    SecpOrder = 13
    Secrets = {1, 2, 4, 5, 7}
    Strangers = {3, 6}
    NumMoneroDecimals = 2
    MaxExchangeRateDecimals = 1
    NumEtherDecimals = 3
    MaxCoinPrecision = 7
    XMRAmounts <- MCXMRAmounts
    Rates <- MCRates
    Provided <- MCProvided
    Prices <- MCPrices
    TokenDecimals = 1
    RelayerFee <- MCRelayerFee
    MaxOfferValue <- MCMaxOfferValue
    Gas = 3
    MakerBalances = {300, 2000}
    TakerBalances <- MCTakerBalances
    MaxOffers = 2
    Watches = {"ready", "final"}
    LogChSize = 1
    MaxLag = 2
    MaxHead = 3
    MaxErrors = 1
    Programs = {"swapd", "bootnode"}
    MaxStarts = 1
CHECK_DEADLOCK FALSE
PROPERTY NobodyStuck
