------------------------------- MODULE MCVaults -------------------------------
(***************************************************************************)
(* Two instances of VaultManager in one run.  "accounts": two vaults in    *)
(* two assets with several requests, at one price.  "ratios": one vault    *)
(* with prices that move, and units small enough for every division of     *)
(* the contract to round.                                                  *)
(***************************************************************************)
EXTENDS MCVaultManager

VARIABLE instance

Ratios == INSTANCE VaultManager WITH
            LPs <- {lp}, Assets <- {mon}, Amounts <- {1, 2, 3, 5}, Prices <- 0 .. 3,
            InitialFunds <- 8, CollateralUnit <- 2, WsXmrUnit <- 2, XmrPerWsXmr <- 1,
            MaxTimestamp <- 0, MaxMints <- 1, MaxBurns <- 1

mcVars == <<vars, instance>>

MCInit ==
    \/ instance = "accounts" /\ Init
    \/ instance = "ratios" /\ Ratios!Init

MCNext ==
    /\ \/ instance = "accounts" /\ Next
       \/ instance = "ratios" /\ Ratios!Next
    /\ UNCHANGED instance

MCSpec == MCInit /\ [][MCNext]_mcVars

\* VaultManager's TypeOK, CollateralAccounted and SupplyIsDebt: no sequence of calls makes a
\* subtraction of the contract wrap, the contract holds, per asset, the vaults' collateral and the
\* escrow of the pending burns, and the wsXMR in circulation are the vaults' debt.
Accounted ==
    IF instance = "accounts"
    THEN TypeOK /\ CollateralAccounted /\ SupplyIsDebt
    ELSE Ratios!CollateralAccounted /\ Ratios!SupplyIsDebt

\* VaultManager's HealthyVaultRedeemable and BonusCovered: in spite of the rounding a vault at
\* 120% covers the escrow of a burn of all its debt (initiateBurn), and a vault at 110% the
\* seizure of a full liquidation.
Redeemable == instance = "ratios" => Ratios!HealthyVaultRedeemable /\ Ratios!BonusCovered

\* VaultManager's BurnKeepsHealth and LiquidationHeals: initiateBurn never makes a healthy vault
\* liquidatable, and a partial liquidation at or above the bonus never lowers the vault's ratio.
RatiosKept == [][instance = "ratios" => Ratios!BurnKeepsHealth /\ Ratios!LiquidationHeals]_mcVars
=============================================================================
