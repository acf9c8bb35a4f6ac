CONSTANTS
    alice = alice
    bob = bob
    sA = sA
    sB = sB
    eth = eth
    token = token
    this = this
    Zero = Zero
    Accounts = {alice, bob}
    Assets = {eth, token}
    Secrets = {sA, sB}
    Values = {0, 1, 2}
    Durations = {0, 2}
    Nonces = {1}
    Fees = {0, 1}
    InitialFunds = 2
    MaxUint = 5
    MaxTimestamp = 5
    MaxSwaps = 2
SPECIFICATION Spec
INVARIANTS TypeOK OneSecretPerSwap SettlementWindows Solvent OwnersMadeWhole
PROPERTIES ImplementsEscrow
CHECK_DEADLOCK FALSE
