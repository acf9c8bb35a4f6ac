CONSTANTS
    lp = lp  user = user  mon = mon  usdc = usdc  s = s  this = this
    Accounts = {lp, user}
    LPs = {lp, user}
    Assets = {mon, usdc}
    native = mon
    Secrets = {s}
    Amounts = {1, 2}
    Prices = {1}
    Durations = {0}
    InitialFunds = 2
    CollateralUnit = 1
    WsXmrUnit = 1
    XmrPerWsXmr = 2
    Day = 1
    MaxTimestamp = 1
    MaxMints = 2
    MaxBurns = 1
SPECIFICATION MCSpec
INVARIANTS Accounted Redeemable
PROPERTIES RatiosKept
CHECK_DEADLOCK FALSE
