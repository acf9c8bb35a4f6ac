------------------------------ MODULE MoneroWallet ------------------------------
(***************************************************************************)
(* The Monero wallet client (monero/wallet_client.go, monero/utils.go) at  *)
(* work for a swap: the transfer that locks the XMR, the view-only wallet  *)
(* that watches for it, the spend wallet that sweeps it, and the sweep of  *)
(* the primary wallet over RPC.  The temporary wallets are child processes *)
(* with a port of their own and files on disk.                             *)
(*                                                                         *)
(* The chain mines transactions in any order, may leave them in the pool,  *)
(* and may reorganise its last blocks.  A wallet sees the chain as of its  *)
(* last refresh.                                                           *)
(***************************************************************************)
EXTENDS Integers, FiniteSets, FiniteSetsExt

CONSTANTS
    Age,            \* blocks until an output can be spent, and MinSpendConfirmations
    SelfConfs,      \* SweepToSelfConfirmations
    Ports,          \* the free TCP ports
    Groups,         \* the sets of calls that run together
    MaxHeight,      \* bound on the blocks of the chain
    MaxReorg,       \* the deepest reorganisation
    MaxReorgs,      \* bound on reorganisations
    MaxFailures     \* bound on RPC errors

VARIABLES
    height,         \* the number of blocks
    at,             \* transaction -> the block that it is in, Pool or Unsent
    taken,          \* transaction -> the transactions whose outputs it spends
    job,            \* the calls in progress
    left            \* what is left of the bounds

vars == <<height, at, taken, job, left>>

Pool == -1
Unsent == -2
Txs == {"lock", "claim", "income", "sweep"}
Jobs == {"transfer", "watch", "claim", "sweep"}
Temporary == {"watch", "claim"}             \* with a wallet of their own
NoPort == 0

\* The account that a transaction pays into, and the account and the transaction of a job.
Into(tx) == CASE tx = "lock" -> "swap" [] tx \in {"claim", "income"} -> "primary" [] tx = "sweep" -> "outside"
Account(j) == IF j \in Temporary THEN "swap" ELSE "primary"
Tx(j) == IF j = "transfer" THEN "lock" ELSE j
Confirmations(j) == IF j = "transfer" THEN Age ELSE SelfConfs

Idle == [pc |-> "idle", port |-> NoPort, proc |-> FALSE, file |-> FALSE, synced |-> 0, target |-> 0, ret |-> "", saw |-> {}]

TypeOK ==
    /\ height \in 1..(MaxHeight + Age)
    /\ \A tx \in Txs : at[tx] \in {Pool, Unsent} \cup 1..(height - 1) /\ taken[tx] \subseteq Txs
    /\ \A j \in Jobs : job[j].synced <= height /\ job[j].port \in Ports \cup {NoPort} /\ (job[j].proc => job[j].port # NoPort)
    /\ \A i, j \in Jobs : job[i].proc /\ job[j].proc /\ job[i].port = job[j].port => i = j

\* Calls that are not in the group are over, the XMR are locked and unlocked if the transfer is.
Init ==
    /\ \E group \in Groups :
          /\ job = [j \in Jobs |-> [Idle EXCEPT !.pc = IF j \in group THEN "idle" ELSE "off"]]
          /\ IF "transfer" \in group THEN height = 1 /\ at = [tx \in Txs |-> Unsent]
             ELSE height = 1 + Age /\ at = [tx \in Txs |-> IF tx = "lock" THEN 1 ELSE Unsent]
    /\ taken = [tx \in Txs |-> {}]
    /\ left = [reorgs |-> MaxReorgs, failures |-> MaxFailures]

-----------------------------------------------------------------------------
(* The chain *)

Mine ==
    /\ height < MaxHeight
    /\ \E block \in SUBSET {tx \in Txs : at[tx] = Pool} : at' = [tx \in Txs |-> IF tx \in block THEN height ELSE at[tx]]
    /\ height' = height + 1
    /\ UNCHANGED <<taken, job, left>>

\* A longer chain without the last blocks: their transactions are pending again.
Reorganise ==
    /\ left.reorgs > 0 /\ height < MaxHeight
    /\ \E depth \in 1..MaxReorg :
          at' = [tx \in Txs |-> IF at[tx] >= height - depth /\ at[tx] > 0 THEN Pool ELSE at[tx]]
    /\ height' = height + 1
    /\ left' = [left EXCEPT !.reorgs = @ - 1]
    /\ UNCHANGED <<taken, job>>

Income ==
    /\ at["income"] = Unsent /\ job["sweep"].pc # "off"
    /\ at' = [at EXCEPT !["income"] = Pool]
    /\ UNCHANGED <<height, taken, job, left>>

\* What the wallet of a job sees: outputs of its account that no transaction spends.
Spent(tx) == \E other \in Txs : tx \in taken[other]
Outputs(j) == {tx \in Txs : Into(tx) = Account(j) /\ at[tx] # Unsent /\ ~Spent(tx)}
Mined(tx, synced) == at[tx] > 0 /\ at[tx] < synced
Unlocked(j, synced) == {tx \in Outputs(j) : Mined(tx, synced) /\ synced - at[tx] >= Age}
BlocksToUnlock(tx, synced) == IF Mined(tx, synced) THEN Age - (synced - at[tx]) ELSE Age

-----------------------------------------------------------------------------
(* The wallet process *)

Set(j, r) == job' = [job EXCEPT ![j] = r]
Goto(j, pc) == Set(j, [job[j] EXCEPT !.pc = pc])
Used(j) == {job[i].port : i \in {k \in Jobs \ {j} : job[k].proc}}

GetFreeTCPPort(j) ==
    /\ job[j].pc = "port"
    /\ \E p \in Ports \ Used(j) : Set(j, [job[j] EXCEPT !.port = p, !.pc = "launch"])
    /\ UNCHANGED <<height, at, taken, left>>

\* The child starts if the port is still free; or it exits, and so does the call.
launchMoneroWalletRPCChild(j) ==
    /\ job[j].pc = "launch"
    /\ IF job[j].port \in Used(j) THEN Goto(j, "failed")
       ELSE Set(j, [job[j] EXCEPT !.proc = TRUE, !.pc = "generate"])
    /\ UNCHANGED <<height, at, taken, left>>

launchFails(j) ==
    /\ job[j].pc = "launch" /\ left.failures > 0
    /\ left' = [left EXCEPT !.failures = @ - 1]
    /\ Goto(j, "failed")
    /\ UNCHANGED <<height, at, taken>>

generateFromKeys(j) ==
    /\ job[j].pc = "generate"
    /\ Set(j, [job[j] EXCEPT !.file = TRUE, !.pc = "verify"])
    /\ UNCHANGED <<height, at, taken, left>>

Close(r) == [r EXCEPT !.proc = FALSE]

CloseAndRemoveWallet(r) == [Close(r) EXCEPT !.file = FALSE]

\* An RPC of createWalletFromKeys fails, or the address differs: closed, the files stay.
createWalletFromKeysFails(j) ==
    /\ job[j].pc \in {"generate", "verify"} /\ left.failures > 0
    /\ left' = [left EXCEPT !.failures = @ - 1]
    /\ Set(j, [Close(job[j]) EXCEPT !.pc = "failed"])
    /\ UNCHANGED <<height, at, taken>>

createWalletFromKeys(j) ==
    /\ job[j].pc = "verify"
    /\ Set(j, [job[j] EXCEPT !.synced = height, !.pc = IF j = "watch" THEN "tick" ELSE "claiming"])
    /\ UNCHANGED <<height, at, taken, left>>

-----------------------------------------------------------------------------
(* The callers *)

Start(j) ==
    /\ job[j].pc = "idle"
    /\ j = "claim" => job["transfer"].pc \in {"done", "off"}       \* the XMR are locked
    /\ Goto(j, CASE j = "transfer" -> "transfer" [] j = "sweep" -> "balance" [] j \in Temporary -> "port")
    /\ UNCHANGED <<height, at, taken, left>>

\* The end of a call: the deferred removal of a temporary wallet, if it has one.
Return(j, pc) == Set(j, [(IF j \in Temporary THEN CloseAndRemoveWallet(job[j]) ELSE job[j]) EXCEPT !.pc = pc])

XMRLocked == "lock" \in Unlocked("watch", height)

\* A tick of checkForXMRLock: the balance after a refresh; done when the unlocked XMR suffice.
checkForXMRLock ==
    /\ job["watch"].pc = "tick"
    /\ XMRLocked
    /\ Return("watch", "done")
    /\ UNCHANGED <<height, at, taken, left>>

\* The swap is over: the context of the check is done.
checkCancelled ==
    /\ job["watch"].pc = "tick"
    /\ Return("watch", "failed")
    /\ UNCHANGED <<height, at, taken, left>>

\* ClaimMonero with noTransferBack: closed, the wallet file is the user's.
claimKept ==
    /\ job["claim"].pc = "claiming"
    /\ Set("claim", [Close(job["claim"]) EXCEPT !.pc = "kept"])
    /\ UNCHANGED <<height, at, taken, left>>

\* The deposit address is of the network, the status is written; then the sweep.
ClaimMonero ==
    /\ job["claim"].pc = "claiming"
    /\ Goto("claim", "balance")
    /\ UNCHANGED <<height, at, taken, left>>

Transfer ==
    /\ job["transfer"].pc = "transfer"
    /\ at' = [at EXCEPT !["lock"] = Pool]
    /\ Set("transfer", [job["transfer"] EXCEPT !.synced = height, !.pc = "receipt"])
    /\ UNCHANGED <<height, taken, left>>

UnlockBlocks(j, synced) == Max({0} \cup {BlocksToUnlock(tx, synced) : tx \in Outputs(j)})

\* SweepAll: the balance after a refresh; an error if there is none, or the wait for all of it.
SweepAllBalance(j) ==
    /\ job[j].pc = "balance"
    /\ IF Outputs(j) = {} THEN Return(j, "failed")
       ELSE LET saw == {tx \in Outputs(j) : Mined(tx, height)}
                n == UnlockBlocks(j, height)
            IN Set(j, [job[j] EXCEPT !.synced = height, !.saw = saw,
                                     !.pc = IF n > 0 THEN "wait" ELSE "sweep_all", !.target = n, !.ret = "sweep_all"])
    /\ UNCHANGED <<height, at, taken, left>>

\* sweep_all takes the outputs that the wallet knows to be unlocked.
SweepAll(j) ==
    /\ job[j].pc = "sweep_all"
    /\ IF Unlocked(j, job[j].synced) = {}
       THEN Return(j, "failed") /\ UNCHANGED <<at, taken>>
       ELSE /\ taken' = [taken EXCEPT ![Tx(j)] = Unlocked(j, job[j].synced)]
            /\ at' = [at EXCEPT ![Tx(j)] = Pool]
            /\ Set(j, [job[j] EXCEPT !.synced = height, !.pc = "receipt"])
    /\ UNCHANGED <<height, left>>

\* Variation: one confirmation fewer.
EnoughConfirmationsLess(j) == Mined(Tx(j), job[j].synced) /\ job[j].synced - at[Tx(j)] >= Confirmations(j) - 1

EnoughConfirmations(j) == Mined(Tx(j), job[j].synced) /\ job[j].synced - at[Tx(j)] >= Confirmations(j)

\* waitForReceipt: mined and with enough confirmations, or wait for another block.
waitForReceipt(j) ==
    /\ job[j].pc = "receipt"
    /\ IF EnoughConfirmations(j) THEN Return(j, "done")
       ELSE Set(j, [job[j] EXCEPT !.pc = "wait", !.target = 1, !.ret = "receipt"])
    /\ UNCHANGED <<height, at, taken, left>>

\* WaitForBlocks: the target is counted from the chain's height when it is called.
WaitForBlocks(j) ==
    /\ job[j].pc = "wait"
    /\ Set(j, [job[j] EXCEPT !.pc = "waiting", !.target = height + @])
    /\ UNCHANGED <<height, at, taken, left>>

WaitForBlocksDone(j) ==
    /\ job[j].pc = "waiting" /\ height >= job[j].target
    /\ Set(j, [job[j] EXCEPT !.synced = height, !.pc = job[j].ret])
    /\ UNCHANGED <<height, at, taken, left>>

\* Any RPC of a sweep or a transfer fails: the error is returned.
Fails(j) ==
    /\ job[j].pc \in {"transfer", "claiming", "balance", "wait", "waiting", "sweep_all", "receipt"} /\ left.failures > 0
    /\ left' = [left EXCEPT !.failures = @ - 1]
    /\ Return(j, "failed")
    /\ UNCHANGED <<height, at, taken>>

Step(j) ==
    \/ j \in Temporary /\ (GetFreeTCPPort(j) \/ launchMoneroWalletRPCChild(j) \/ generateFromKeys(j) \/ createWalletFromKeys(j))
    \/ j = "watch" /\ checkForXMRLock
    \/ j = "claim" /\ ClaimMonero
    \/ j = "transfer" /\ Transfer
    \/ j \in {"claim", "sweep"} /\ (SweepAllBalance(j) \/ SweepAll(j))
    \/ waitForReceipt(j) \/ WaitForBlocks(j) \/ WaitForBlocksDone(j)

Next ==
    \/ Mine \/ Reorganise \/ Income
    \/ \E j \in Jobs : Start(j) \/ Step(j) \/ Fails(j)
    \/ \E j \in Temporary : launchFails(j) \/ createWalletFromKeysFails(j)
    \/ checkCancelled \/ claimKept

Spec == Init /\ [][Next]_vars

-----------------------------------------------------------------------------
(* Properties *)

\* A transfer that has returned stays in the chain, although the chain may still reorganise: the
\* XMR are locked for good when the maker notifies the taker.
LockIsFinal == job["transfer"].pc = "done" => at["lock"] > 0

\* checkForXMRLock reports XMR that no reorganisation can take away again: the taker's set_ready
\* rests on it.
SeenIsFinal == job["watch"].pc = "done" => at["lock"] > 0

\* SweepAll spends everything that was mined when it read the balance, the outputs that were
\* still locked included, unless the chain reorganised in the meantime.
SweepTakesBalance == \A j \in {"claim", "sweep"} : (taken[Tx(j)] # {} /\ left.reorgs = MaxReorgs) => job[j].saw \subseteq taken[Tx(j)]

\* When a call is over its wallet process is gone, whatever failed; the wallet's files are gone
\* too once the wallet had been created, unless the user asked to keep them.
WalletsClosed == \A j \in Temporary : /\ (job[j].pc \in {"done", "failed", "kept"} => ~job[j].proc)
                                      /\ (job[j].pc \in {"done", "failed"} /\ job[j].synced > 0 => ~job[j].file)
=============================================================================
