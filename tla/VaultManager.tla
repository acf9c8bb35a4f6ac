---------------------------- MODULE VaultManager -----------------------------
(***************************************************************************)
(* The collateralised-debt contract behind wsXMR                           *)
(* (ethereum/contracts/VaultManager.sol, wsXMR.sol).  One action per       *)
(* external function; a call that reverts is no step.                      *)
(*                                                                         *)
(* A request id is the hash of the caller, the vault, the amount, the      *)
(* commitment and the block: here, that tuple.  Oracle prices are the      *)
(* normalised prices getXmrPrice and getCollateralPrice return; 0 stands   *)
(* for a feed whose price is missing, older than 60 s or not positive, on  *)
(* which both functions revert.                                            *)
(***************************************************************************)
EXTENDS Integers, FiniteSets, FiniteSetsExt

CONSTANTS
    Accounts,           \* LPs, users and liquidators
    LPs,                \* the accounts that open vaults
    this,               \* the VaultManager's address
    Assets,             \* collateral assets
    native,             \* address(0), supported from the constructor on
    Secrets,            \* secrets behind claim and refund commitments
    Amounts,            \* amounts passed by callers
    Prices,             \* normalised oracle prices, 0 = unusable
    Durations,          \* timeout durations users pass to initiateMint
    InitialFunds,       \* collateral every account starts with
    CollateralUnit,     \* 10 ** decimals of a collateral asset
    WsXmrUnit,          \* 1e8, one wsXMR
    XmrPerWsXmr,        \* 1e4, piconero per atomic wsXMR unit
    Day,                \* 24 hours
    MaxTimestamp,       \* bound: last block timestamp
    MaxMints, MaxBurns  \* bounds: requests ever created

ASSUME VaultManagerAssumption ==
    /\ LPs \subseteq Accounts /\ this \notin Accounts
    /\ native \in Assets
    /\ Amounts \subseteq Nat /\ Prices \subseteq Nat /\ Durations \subseteq Nat
    /\ {CollateralUnit, WsXmrUnit, XmrPerWsXmr} \subseteq Nat \ {0}
    /\ {InitialFunds, Day, MaxTimestamp, MaxMints, MaxBurns} \subseteq Nat

COLLATERAL_RATIO == 150
LIQUIDATION_RATIO == 120
LIQUIDATION_BONUS == 110
RATIO_PRECISION == 100
BURN_TIMEOUT == Day

VARIABLES
    timestamp,
    vaults,                 \* active vaults: lp -> [asset, collateral, debt]
    mintRequests,           \* mint id -> [wsxmrAmount, timeout, status]
    burnRequests,           \* burn id -> [escrow, deadline, status]
    supportedCollateral,    \* assets with a price feed
    xmrPrice,               \* fresh XMR/USD price
    collateralPrice,        \* fresh price per asset
    balance,                \* collateral per asset and holder
    wsXMR                   \* wsXMR per account

vars == <<timestamp, vaults, mintRequests, burnRequests, supportedCollateral,
          xmrPrice, collateralPrice, balance, wsXMR>>
oracle == <<xmrPrice, collateralPrice>>

Holders == Accounts \cup {this}
Vault == [asset : Assets, collateral : Nat, debt : Nat]
MintId == [user : Accounts, lp : Accounts, xmrAmount : Amounts,
           secret : Secrets, at : Nat]
BurnId == [user : Accounts, lp : Accounts, wsxmrAmount : Amounts,
           secret : Secrets, at : Nat]

Init ==
    /\ timestamp = 0
    /\ vaults = [lp \in {} |-> {}]
    /\ mintRequests = [id \in {} |-> {}]
    /\ burnRequests = [id \in {} |-> {}]
    /\ supportedCollateral = {native}
    /\ xmrPrice \in Prices
    /\ collateralPrice \in [Assets -> Prices]
    /\ balance = [asset \in Assets |->
                    [h \in Holders |-> IF h = this THEN 0 ELSE InitialFunds]]
    /\ wsXMR = [a \in Accounts |-> 0]

-----------------------------------------------------------------------------
(* Prices *)

CanPriceXmr == xmrPrice > 0
CanPrice(asset) == asset \in supportedCollateral /\ collateralPrice[asset] > 0

getCollateralValueForDebt(debt) == (debt * xmrPrice) \div WsXmrUnit

CollateralValue(asset, collateral) ==
    (collateral * collateralPrice[asset]) \div CollateralUnit

usdToCollateral(asset, usd) == (usd * CollateralUnit) \div collateralPrice[asset]

\* calculateCollateralRatio is the largest integer for no debt, and otherwise
\* reverts without usable prices or when the debt is worth less than one unit.
HasRatio(asset, debt) ==
    /\ debt # 0
    /\ CanPriceXmr /\ CanPrice(asset)
    /\ getCollateralValueForDebt(debt) # 0

Ratio(asset, collateral, debt) ==
    (CollateralValue(asset, collateral) * RATIO_PRECISION)
        \div getCollateralValueForDebt(debt)

\* calculateCollateralRatio(..) returns, and at least `required`.
RatioAtLeast(asset, collateral, debt, required) ==
    \/ debt = 0
    \/ HasRatio(asset, debt) /\ Ratio(asset, collateral, debt) >= required

\* Faults: the escrow and the seizure at the minting ratio.
EscrowAt150(asset, amount) ==
    usdToCollateral(asset, (getCollateralValueForDebt(amount) * COLLATERAL_RATIO)
                              \div RATIO_PRECISION)

\* What initiateBurn escrows, what liquidate seizes, before it is capped.
Escrow(asset, amount) ==
    usdToCollateral(asset, (getCollateralValueForDebt(amount) * LIQUIDATION_RATIO)
                              \div RATIO_PRECISION)
Seizure(asset, amount) ==
    usdToCollateral(asset, (getCollateralValueForDebt(amount) * LIQUIDATION_BONUS)
                              \div RATIO_PRECISION)

-----------------------------------------------------------------------------
(* Vault management *)

Transfer(asset, from, to, amount) ==
    /\ balance[asset][from] >= amount
    /\ balance' = [balance EXCEPT ![asset][from] = @ - amount,
                                  ![asset][to] = @ + amount]

createVault(sender, asset) ==
    /\ sender \notin DOMAIN vaults
    /\ asset \in supportedCollateral
    /\ vaults' = [lp \in DOMAIN vaults \cup {sender} |->
                    IF lp = sender
                    THEN [asset |-> asset, collateral |-> 0, debt |-> 0]
                    ELSE vaults[lp]]
    /\ UNCHANGED <<timestamp, mintRequests, burnRequests, supportedCollateral,
                   oracle, balance, wsXMR>>

depositCollateral(sender, amount) ==
    /\ sender \in DOMAIN vaults
    /\ amount # 0
    /\ Transfer(vaults[sender].asset, sender, this, amount)
    /\ vaults' = [vaults EXCEPT ![sender].collateral = @ + amount]
    /\ UNCHANGED <<timestamp, mintRequests, burnRequests, supportedCollateral,
                   oracle, wsXMR>>

withdrawCollateral(sender, amount) ==
    /\ sender \in DOMAIN vaults
    /\ amount # 0
    /\ vaults[sender].collateral >= amount
    /\ RatioAtLeast(vaults[sender].asset, vaults[sender].collateral - amount,
                    vaults[sender].debt, COLLATERAL_RATIO)
    /\ vaults' = [vaults EXCEPT ![sender].collateral = @ - amount]
    /\ Transfer(vaults[sender].asset, this, sender, amount)
    /\ UNCHANGED <<timestamp, mintRequests, burnRequests, supportedCollateral,
                   oracle, wsXMR>>

-----------------------------------------------------------------------------
(* Minting *)

initiateMint(sender, lp, xmrAmount, secret, duration) ==
    LET id == [user |-> sender, lp |-> lp, xmrAmount |-> xmrAmount,
               secret |-> secret, at |-> timestamp]
        amount == xmrAmount \div XmrPerWsXmr
    IN /\ xmrAmount # 0
       /\ lp \in DOMAIN vaults
       /\ RatioAtLeast(vaults[lp].asset, vaults[lp].collateral,
                       vaults[lp].debt + amount, COLLATERAL_RATIO)
       /\ id \notin DOMAIN mintRequests
       /\ mintRequests' = [i \in DOMAIN mintRequests \cup {id} |->
                             IF i = id
                             THEN [wsxmrAmount |-> amount,
                                   timeout |-> timestamp + duration,
                                   status |-> "PENDING"]
                             ELSE mintRequests[i]]
       /\ UNCHANGED <<timestamp, vaults, burnRequests, supportedCollateral,
                      oracle, balance, wsXMR>>

setMintReady(sender, id) ==
    /\ mintRequests[id].status = "PENDING"
    /\ sender = id.lp
    /\ mintRequests' = [mintRequests EXCEPT ![id].status = "READY"]
    /\ UNCHANGED <<timestamp, vaults, burnRequests, supportedCollateral,
                   oracle, balance, wsXMR>>

\* Anyone may call, with the secret behind the request's claim commitment.
finalizeMint(id, secret) ==
    /\ mintRequests[id].status = "READY"
    /\ secret = id.secret
    /\ vaults' = [vaults EXCEPT ![id.lp].debt = @ + mintRequests[id].wsxmrAmount]
    /\ wsXMR' = [wsXMR EXCEPT ![id.user] = @ + mintRequests[id].wsxmrAmount]
    /\ mintRequests' = [mintRequests EXCEPT ![id].status = "COMPLETED"]
    /\ UNCHANGED <<timestamp, burnRequests, supportedCollateral, oracle, balance>>

cancelMint(sender, id) ==
    /\ mintRequests[id].status \in {"PENDING", "READY"}
    /\ sender = id.user
    /\ timestamp >= IF mintRequests[id].status = "READY"
                    THEN mintRequests[id].timeout + Day
                    ELSE mintRequests[id].timeout
    /\ mintRequests' = [mintRequests EXCEPT ![id].status = "CANCELLED"]
    /\ UNCHANGED <<timestamp, vaults, burnRequests, supportedCollateral,
                   oracle, balance, wsXMR>>

-----------------------------------------------------------------------------
(* Burning *)

\* Fault: the escrow is that of the vault's whole debt.
initiateBurnEscrowsAll(sender, amount, lp, secret) ==
    LET id == [user |-> sender, lp |-> lp, wsxmrAmount |-> amount,
               secret |-> secret, at |-> timestamp]
        escrow == Escrow(vaults[lp].asset, vaults[lp].debt)
    IN /\ amount # 0
       /\ lp \in DOMAIN vaults
       /\ vaults[lp].debt >= amount
       /\ CanPriceXmr /\ CanPrice(vaults[lp].asset)
       /\ vaults[lp].collateral >= escrow
       /\ id \notin DOMAIN burnRequests
       /\ wsXMR[sender] >= amount
       /\ vaults' = [vaults EXCEPT ![lp].collateral = @ - escrow,
                                   ![lp].debt = @ - amount]
       /\ wsXMR' = [wsXMR EXCEPT ![sender] = @ - amount]
       /\ burnRequests' = [i \in DOMAIN burnRequests \cup {id} |->
                             IF i = id
                             THEN [escrow |-> escrow,
                                   deadline |-> timestamp + BURN_TIMEOUT,
                                   status |-> "PENDING"]
                             ELSE burnRequests[i]]
       /\ UNCHANGED <<timestamp, mintRequests, supportedCollateral, oracle, balance>>

initiateBurn(sender, amount, lp, secret) ==
    LET id == [user |-> sender, lp |-> lp, wsxmrAmount |-> amount,
               secret |-> secret, at |-> timestamp]
        escrow == Escrow(vaults[lp].asset, amount)
    IN /\ amount # 0
       /\ lp \in DOMAIN vaults
       /\ vaults[lp].debt >= amount
       /\ CanPriceXmr /\ CanPrice(vaults[lp].asset)
       /\ vaults[lp].collateral >= escrow
       /\ id \notin DOMAIN burnRequests
       /\ wsXMR[sender] >= amount
       /\ vaults' = [vaults EXCEPT ![lp].collateral = @ - escrow,
                                   ![lp].debt = @ - amount]
       /\ wsXMR' = [wsXMR EXCEPT ![sender] = @ - amount]
       /\ burnRequests' = [i \in DOMAIN burnRequests \cup {id} |->
                             IF i = id
                             THEN [escrow |-> escrow,
                                   deadline |-> timestamp + BURN_TIMEOUT,
                                   status |-> "PENDING"]
                             ELSE burnRequests[i]]
       /\ UNCHANGED <<timestamp, mintRequests, supportedCollateral, oracle, balance>>

finalizeBurn(id, secret) ==
    /\ burnRequests[id].status = "PENDING"
    /\ ~(timestamp >= burnRequests[id].deadline)
    /\ secret = id.secret
    /\ vaults' = [vaults EXCEPT ![id.lp].collateral = @ + burnRequests[id].escrow]
    /\ burnRequests' = [burnRequests EXCEPT ![id].status = "COMPLETED"]
    /\ UNCHANGED <<timestamp, mintRequests, supportedCollateral, oracle,
                   balance, wsXMR>>

\* Fault: the escrow is always paid in the native currency.
claimSlashedNative(sender, id) ==
    /\ burnRequests[id].status = "PENDING"
    /\ sender = id.user
    /\ ~(timestamp < burnRequests[id].deadline)
    /\ Transfer(native, this, id.user, burnRequests[id].escrow)
    /\ burnRequests' = [burnRequests EXCEPT ![id].status = "SLASHED"]
    /\ UNCHANGED <<timestamp, vaults, mintRequests, supportedCollateral,
                   oracle, wsXMR>>

claimSlashedCollateral(sender, id) ==
    /\ burnRequests[id].status = "PENDING"
    /\ sender = id.user
    /\ ~(timestamp < burnRequests[id].deadline)
    /\ Transfer(vaults[id.lp].asset, this, id.user, burnRequests[id].escrow)
    /\ burnRequests' = [burnRequests EXCEPT ![id].status = "SLASHED"]
    /\ UNCHANGED <<timestamp, vaults, mintRequests, supportedCollateral,
                   oracle, wsXMR>>

-----------------------------------------------------------------------------
(* Liquidation *)

liquidate(sender, lp, debtToClear) ==
    LET vault == vaults[lp]
        cleared == Min({debtToClear, vault.debt})
        seized == Min({Seizure(vault.asset, cleared), vault.collateral})
    IN /\ lp \in DOMAIN vaults
       /\ debtToClear # 0
       /\ HasRatio(vault.asset, vault.debt)
       /\ ~(Ratio(vault.asset, vault.collateral, vault.debt) >= LIQUIDATION_RATIO)
       /\ wsXMR[sender] >= cleared
       /\ vaults' = [vaults EXCEPT ![lp].collateral = @ - seized,
                                   ![lp].debt = @ - cleared]
       /\ wsXMR' = [wsXMR EXCEPT ![sender] = @ - cleared]
       /\ Transfer(vault.asset, this, sender, seized)
       /\ UNCHANGED <<timestamp, mintRequests, burnRequests,
                      supportedCollateral, oracle>>

-----------------------------------------------------------------------------
(* Administration, the token and the outside world *)

addCollateralSupport(asset) ==
    /\ supportedCollateral' = supportedCollateral \cup {asset}
    /\ UNCHANGED <<timestamp, vaults, mintRequests, burnRequests, oracle,
                   balance, wsXMR>>

removeCollateralSupport(asset) ==
    /\ supportedCollateral' = supportedCollateral \ {asset}
    /\ UNCHANGED <<timestamp, vaults, mintRequests, burnRequests, oracle,
                   balance, wsXMR>>

\* ERC20 transfer of wsXMR between accounts.
transferWsXMR(from, to, amount) ==
    /\ from # to
    /\ wsXMR[from] >= amount
    /\ wsXMR' = [wsXMR EXCEPT ![from] = @ - amount, ![to] = @ + amount]
    /\ UNCHANGED <<timestamp, vaults, mintRequests, burnRequests,
                   supportedCollateral, oracle, balance>>

\* A Pyth update, or a price that has grown too old.
PriceChange ==
    /\ \/ xmrPrice' \in Prices /\ UNCHANGED collateralPrice
       \/ \E asset \in Assets, p \in Prices :
            /\ collateralPrice' = [collateralPrice EXCEPT ![asset] = p]
            /\ UNCHANGED xmrPrice
    /\ UNCHANGED <<timestamp, vaults, mintRequests, burnRequests,
                   supportedCollateral, balance, wsXMR>>

NewBlock ==
    /\ timestamp < MaxTimestamp
    /\ timestamp' = timestamp + 1
    /\ UNCHANGED <<vaults, mintRequests, burnRequests, supportedCollateral,
                   oracle, balance, wsXMR>>

Next ==
    \/ NewBlock
    \/ PriceChange
    \/ \E asset \in Assets :
         \/ addCollateralSupport(asset)
         \/ removeCollateralSupport(asset)
         \/ \E sender \in LPs : createVault(sender, asset)
    \/ \E sender \in Accounts, amount \in Amounts :
         \/ depositCollateral(sender, amount)
         \/ withdrawCollateral(sender, amount)
         \/ \E to \in Accounts : transferWsXMR(sender, to, amount)
         \/ \E lp \in DOMAIN vaults :
              \/ liquidate(sender, lp, amount)
              \/ \E secret \in Secrets, duration \in Durations :
                   /\ Cardinality(DOMAIN mintRequests) < MaxMints
                   /\ initiateMint(sender, lp, amount, secret, duration)
              \/ \E secret \in Secrets :
                   /\ Cardinality(DOMAIN burnRequests) < MaxBurns
                   /\ initiateBurn(sender, amount, lp, secret)
    \/ \E id \in DOMAIN mintRequests :
         \/ \E sender \in Accounts : setMintReady(sender, id) \/ cancelMint(sender, id)
         \/ \E secret \in Secrets : finalizeMint(id, secret)
    \/ \E id \in DOMAIN burnRequests :
         \/ \E secret \in Secrets : finalizeBurn(id, secret)
         \/ \E sender \in Accounts : claimSlashedCollateral(sender, id)

Spec == Init /\ [][Next]_vars
-----------------------------------------------------------------------------
(* Properties *)

MintRequest == [wsxmrAmount : Nat, timeout : Nat,
                status : {"PENDING", "READY", "COMPLETED", "CANCELLED"}]
BurnRequest == [escrow : Nat, deadline : Nat,
                status : {"PENDING", "COMPLETED", "SLASHED"}]

\* Types of the state.  Amounts are natural numbers: no sequence of calls
\* makes a subtraction of the contract, or of the token, wrap.
TypeOK ==
    /\ timestamp \in 0 .. MaxTimestamp
    /\ DOMAIN vaults \subseteq Accounts
    /\ vaults \in [DOMAIN vaults -> Vault]
    /\ DOMAIN mintRequests \subseteq MintId
    /\ mintRequests \in [DOMAIN mintRequests -> MintRequest]
    /\ DOMAIN burnRequests \subseteq BurnId
    /\ burnRequests \in [DOMAIN burnRequests -> BurnRequest]
    /\ supportedCollateral \subseteq Assets
    /\ xmrPrice \in Prices
    /\ collateralPrice \in [Assets -> Prices]
    /\ balance \in [Assets -> [Holders -> Nat]]
    /\ wsXMR \in [Accounts -> Nat]

PendingEscrow(id) ==
    IF burnRequests[id].status = "PENDING" THEN burnRequests[id].escrow ELSE 0

\* The contract holds, per asset, exactly the vaults' collateral plus the
\* escrow of the burns that are still pending: escrow is paid once, to the
\* LP or to the user, whatever liquidations, withdrawals, price moves and
\* delistings happen between initiateBurn and the deadline.
CollateralAccounted ==
    \A asset \in Assets :
        LET lps == {lp \in DOMAIN vaults : vaults[lp].asset = asset}
            burns == {id \in DOMAIN burnRequests : id.lp \in lps}
        IN balance[asset][this] =
               MapThenSumSet(LAMBDA lp : vaults[lp].collateral, lps)
             + MapThenSumSet(PendingEscrow, burns)

\* Every wsXMR in circulation is the debt of some vault, and every debt can be
\* bought back: finalizeMint, initiateBurn and liquidate move debt and supply
\* together.
SupplyIsDebt ==
    MapThenSumSet(LAMBDA a : wsXMR[a], Accounts) =
        MapThenSumSet(LAMBDA lp : vaults[lp].debt, DOMAIN vaults)

VaultRatio(lp) == Ratio(vaults[lp].asset, vaults[lp].collateral, vaults[lp].debt)
VaultHasRatio(lp) == HasRatio(vaults[lp].asset, vaults[lp].debt)

\* The whole debt of a vault that may not be liquidated can be burnt at once:
\* its collateral covers the 120% escrow initiateBurn takes, in spite of the
\* four integer divisions between the ratio and the escrow.
HealthyVaultRedeemable ==
    \A lp \in DOMAIN vaults :
        VaultHasRatio(lp) /\ VaultRatio(lp) >= LIQUIDATION_RATIO
            => Escrow(vaults[lp].asset, vaults[lp].debt) <= vaults[lp].collateral

\* A vault at or above the liquidation bonus can be liquidated completely
\* with the full bonus paid and no debt left behind.
BonusCovered ==
    \A lp \in DOMAIN vaults :
        VaultHasRatio(lp) /\ VaultRatio(lp) >= LIQUIDATION_BONUS
            => Seizure(vaults[lp].asset, vaults[lp].debt) <= vaults[lp].collateral

Burnt(lp) ==
    \E id \in DOMAIN burnRequests' \ DOMAIN burnRequests : id.lp = lp

\* initiateBurn escrows no more than the burnt debt's share of a healthy
\* vault: it never makes a healthy vault liquidatable.
BurnKeepsHealth ==
    \A lp \in DOMAIN vaults :
        /\ Burnt(lp)
        /\ VaultHasRatio(lp) /\ VaultRatio(lp) >= LIQUIDATION_RATIO
        /\ VaultHasRatio(lp)'
        => VaultRatio(lp)' >= LIQUIDATION_RATIO

PartlyLiquidated(lp) ==
    /\ burnRequests' = burnRequests
    /\ vaults'[lp].debt < vaults[lp].debt
    /\ VaultHasRatio(lp) /\ VaultHasRatio(lp)'

\* Partial liquidation of a vault that can pay the bonus never lowers its
\* ratio.
LiquidationHeals ==
    \A lp \in DOMAIN vaults :
        PartlyLiquidated(lp) /\ VaultRatio(lp) >= LIQUIDATION_BONUS
            => VaultRatio(lp)' >= VaultRatio(lp)

-----------------------------------------------------------------------------
(* What the documentation says *)

\* README: "Bonus (110%) < Threshold (120%) prevents partial liquidation
\* death spiral"; VaultManager.sol, in liquidate: "at liquidation bonus, which
\* is < threshold to prevent death spiral".
NoDeathSpiral ==
    [][\A lp \in DOMAIN vaults :
          PartlyLiquidated(lp) => VaultRatio(lp)' >= VaultRatio(lp)]_vars
=============================================================================
