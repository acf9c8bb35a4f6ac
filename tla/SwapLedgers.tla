----------------------------- MODULE SwapLedgers ------------------------------
(***************************************************************************)
(* What the two daemons of one swap share: Ethereum (the stage of the      *)
(* swap in SwapCreator.sol and the transactions on their way into a        *)
(* block), Monero (who can spend the XMR) and the protocol stream.         *)
(*                                                                         *)
(* Time starts when newSwap is included, so that timeout1 is Timeout and   *)
(* timeout2 is 2 * Timeout.  A transaction may stay in the mempool for as  *)
(* long as it likes; its effect, or its reversion, is decided by the       *)
(* contract when it is included.                                           *)
(***************************************************************************)
EXTENDS Integers, Sequences, FiniteSets

CONSTANT Timeout        \* common.SwapTimeoutFromEnv, the length of both timeouts

ASSUME TimeoutAssumption == Timeout \in Nat \ {0}

VARIABLES
    now,        \* seconds since newSwap was included
    stage,      \* None, PENDING, READY, CLAIMED or REFUNDED
    readyLog,   \* the Ready event has been emitted
    tx,         \* the last transaction of each kind: none, pending, ok,
                \* reverted, cancelled
    xmr,        \* maker, locked, taker (swept by the taker), returned
    wire        \* the protocol stream: messages in flight, stream open

ledgers == <<now, stage, readyLog, tx, xmr, wire>>

T1 == Timeout
T2 == 2 * Timeout
MaxTime == T2 + 1       \* bound: nothing in either daemon or contract changes later

Ops == {"newSwap", "setReady", "claim", "refund"}
Completed == {"CLAIMED", "REFUNDED"}

LedgerTypeOK ==
    /\ now \in 0 .. MaxTime
    /\ stage \in {"None", "PENDING", "READY"} \cup Completed
    /\ readyLog \in BOOLEAN
    /\ tx \in [Ops -> {"none", "pending", "ok", "reverted", "cancelled"}]
    /\ xmr \in {"maker", "locked", "taker", "returned"}
    /\ wire \in [toMaker : {"none", "keys", "ethLocked"}, toTaker : {"none", "keys"},
                 open : BOOLEAN]

LedgerInit ==
    /\ now = 0
    /\ stage = "None"
    /\ readyLog = FALSE
    /\ tx = [op \in Ops |-> "none"]
    /\ xmr = "maker"
    /\ wire = [toMaker |-> "none", toTaker |-> "none", open |-> FALSE]

-----------------------------------------------------------------------------
(* The contract *)

CanClaim ==
    /\ stage \in {"PENDING", "READY"}
    /\ ~(now < T1 /\ stage # "READY")
    /\ ~(now >= T2)

\* Variation: the stage is not compared with Stage.COMPLETED.
CanRefundCompleted == ~(now < T2 /\ (now > T1 \/ stage = "READY"))

CanRefund ==
    /\ stage \in {"PENDING", "READY"}
    /\ ~(now < T2 /\ (now > T1 \/ stage = "READY"))

Allowed(op) ==
    CASE op = "newSwap" -> stage = "None"
      [] op = "setReady" -> stage = "PENDING"
      [] op = "claim" -> CanClaim
      [] op = "refund" -> CanRefund

StageAfter(op) ==
    CASE op = "newSwap" -> "PENDING"
      [] op = "setReady" -> "READY"
      [] op = "claim" -> "CLAIMED"
      [] op = "refund" -> "REFUNDED"

-----------------------------------------------------------------------------
(* Transactions *)

\* Sending a transaction that would revert now fails when its gas is estimated.
Submit(op) == Allowed(op) /\ tx' = [tx EXCEPT ![op] = "pending"]

Include(op) ==
    /\ tx[op] = "pending"
    /\ IF Allowed(op)
       THEN /\ stage' = StageAfter(op)
            /\ readyLog' = (readyLog \/ op = "setReady")
            /\ tx' = [tx EXCEPT ![op] = "ok"]
       ELSE /\ tx' = [tx EXCEPT ![op] = "reverted"]
            /\ UNCHANGED <<stage, readyLog>>
    /\ UNCHANGED <<now, xmr, wire>>

Tick ==
    /\ stage # "None" /\ now < MaxTime
    /\ now' = now + 1
    /\ UNCHANGED <<stage, readyLog, tx, xmr, wire>>
=============================================================================
