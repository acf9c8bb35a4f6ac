CONSTANTS
    lp = lp  user = user  mon = mon  usdc = usdc  s = s  this = this
    Accounts = {lp, user}
    LPs = {lp}
    Assets = {mon}
    native = mon
    Secrets = {s}
    Amounts = {1, 2, 3}
    Prices = {1, 3}
    Durations = {0}
    InitialFunds = 3
    CollateralUnit = 1
    WsXmrUnit = 1
    XmrPerWsXmr = 1
    Day = 1
    MaxTimestamp = 0
    MaxMints = 1
    MaxBurns = 0
SPECIFICATION Spec
PROPERTIES NoDeathSpiral
CHECK_DEADLOCK FALSE
