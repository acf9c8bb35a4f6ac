---------------------------- MODULE MCSwapCreator ----------------------------
(* Constants for model-checking SwapCreator. *)
EXTENDS SwapCreator

CONSTANTS alice, bob, sA, sB, eth, token

=============================================================================
