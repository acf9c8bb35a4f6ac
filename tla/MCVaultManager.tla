--------------------------- MODULE MCVaultManager ----------------------------
(* Model values for the runs of VaultManager. *)
EXTENDS VaultManager
CONSTANTS lp, user, mon, usdc, s
=============================================================================
