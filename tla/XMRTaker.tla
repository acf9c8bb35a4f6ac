------------------------------ MODULE XMRTaker --------------------------------
(***************************************************************************)
(* The daemon of the party that gives ETH for XMR (protocol/xmrtaker): one *)
(* swap, from taking the offer to its completion, with crashes, restarts,  *)
(* transactions that stay in the mempool, receipts that never arrive and   *)
(* users who cancel.  The counterparty does whatever the contract, the     *)
(* stream and the Monero chain let it do.                                  *)
(*                                                                         *)
(* mem is what the process holds, disk what the database holds.  Events    *)
(* are handled one at a time by the event loop; mem.queue holds the        *)
(* senders blocked on the unbuffered eventCh, mem.run the goroutines that  *)
(* have not yet sent theirs.  mem.loop is where the event loop is inside a *)
(* handler; mem.after says who called refund() or claimMonero().           *)
(***************************************************************************)
EXTENDS SwapLedgers

CONSTANTS
    GiveUpMargin,       \* how long before timeout1 the taker gives up (15% of Timeout)
    Prompt,             \* no block is made while the daemon has something to do
    MaxCrashes,         \* bounds: crashes,
    MaxLostReceipts,    \* transactions not included within WaitForReceipt's retries,
    MaxCancels,         \* swap_cancel calls,
    MaxSweepFailures    \* failed Monero sweeps

VARIABLES mem, disk, left

takerVars == <<mem, disk, left>>
vars == <<ledgers, takerVars>>

CompletedStatuses == {"CompletedSuccess", "CompletedRefund", "CompletedAbort"}
Ongoing == {"ExpectingKeys", "ETHLocked", "ContractReady", "SweepingXMR"}
Events == {"keys", "xmrLocked", "ethClaimed", "shouldRefund", "exit", "cancel"}
Loops == {"none", "down", "panicked", "idle", "newSwapSent", "newSwapWait", "sendLocked",
          "setNext", "readyWait", "refundWait", "waitT2", "sweepStatus", "sweep",
          "recover", "recoverWait"}

\* A process without a swap state.
NoSwap(l) ==
    [loop |-> l, next |-> "None", status |-> "None", after |-> "none", done |-> FALSE,
     queue |-> <<>>, run |-> {}, t2 |-> 0, net |-> "none", cancelling |-> FALSE, waiting |-> 0]

TypeOK ==
    /\ LedgerTypeOK
    /\ mem \in [loop : Loops,
                next : {"None", "KeysReceived", "XMRLocked", "ETHClaimed"},
                status : {"None"} \cup Ongoing \cup CompletedStatuses,
                after : {"none", "event", "early", "exit", "startup"},
                done : BOOLEAN,
                queue : Seq(Events),
                run : SUBSET {"t1", "xmrCheck", "watcher"},
                t2 : 0 .. 2,
                net : {"none", "waiting", "handling", "closing"},
                cancelling : BOOLEAN,
                waiting : 0 .. MaxCancels]
    /\ disk \in [status : {"None"} \cup Ongoing \cup CompletedStatuses,
                 txHash : BOOLEAN, info : BOOLEAN, key : BOOLEAN]
    /\ left \in [crash : 0 .. MaxCrashes, lost : 0 .. MaxLostReceipts,
                 cancel : 0 .. MaxCancels, sweep : 0 .. MaxSweepFailures]

\* The faults that may happen, and those that have not happened so far.
Budget == [crash |-> MaxCrashes, lost |-> MaxLostReceipts,
           cancel |-> MaxCancels, sweep |-> MaxSweepFailures]
Without(faults) == \A f \in faults : left[f] = Budget[f]

TakerInit ==
    /\ mem = NoSwap("none")
    /\ disk = [status |-> "None", txHash |-> FALSE, info |-> FALSE, key |-> FALSE]
    /\ left = Budget

Push(m, e) == [m EXCEPT !.queue = Append(@, e)]
Handling(e) == mem.loop = "idle" /\ mem.queue # <<>> /\ Head(mem.queue) = e
Popped == [mem EXCEPT !.queue = Tail(@)]

\* WaitForReceipt gives up on a transaction that is still in the mempool.
ReceiptLost(op) ==
    /\ tx[op] = "pending" /\ left.lost > 0
    /\ left' = [left EXCEPT !.lost = @ - 1]

Failed(op) ==
    \/ tx[op] = "reverted" /\ UNCHANGED left
    \/ ReceiptLost(op)

-----------------------------------------------------------------------------
(* Leaving the swap: exit(), tryRefund(), tryClaim() *)

\* exit()'s deferred function.  A swap the manager no longer lists as ongoing is left alone.
\* Variation: every exit answers a swap_cancel.
AnsweredTwice(m) == [m EXCEPT !.cancelling = FALSE, !.waiting = @ - 1]

Answered(m) == IF m.cancelling THEN [m EXCEPT !.cancelling = FALSE, !.waiting = @ - 1] ELSE m

Complete(m) ==
    /\ wire' = [wire EXCEPT !.open = FALSE]
    /\ mem' = [Answered(m) EXCEPT !.loop = "idle", !.after = "none",
                                  !.done = TRUE, !.run = {}, !.t2 = 0]
    /\ disk' = IF m.done THEN disk ELSE [disk EXCEPT !.status = m.status]

Finish(m, s) == Complete([m EXCEPT !.next = "None", !.status = s])

tryClaim(m) ==
    \/ /\ stage = "CLAIMED"
       /\ mem' = [m EXCEPT !.loop = "sweepStatus", !.after = "exit"]
       /\ disk' = [disk EXCEPT !.key = TRUE]
       /\ UNCHANGED wire
    \/ stage = "REFUNDED" /\ Finish(m, "CompletedRefund")

\* refund() at the end of tryRefund: creating the transaction may already fail.  exit() looks for
\* revertSwapCompleted in the error, which SwapCreator.sol's SwapCompleted() does not contain: a
\* swap found completed only now is left as it is.
RefundLast(m) ==
    \/ /\ Submit("refund")
       /\ mem' = [m EXCEPT !.loop = "refundWait", !.after = "exit"]
       /\ UNCHANGED <<disk, wire>>
    \/ ~CanRefund /\ Complete(m) /\ UNCHANGED tx

\* Variation: no refund before timeout1.
tryRefundNeverEarly(m) ==
    \/ m.done /\ Complete(m) /\ UNCHANGED tx
    \/ ~m.done /\ stage \in Completed /\ tryClaim(m) /\ UNCHANGED tx
    \/ ~m.done /\ stage \notin Completed /\ now > T2 /\ RefundLast(m)
    \/ /\ ~m.done /\ stage \notin Completed /\ now <= T2
       /\ mem' = [m EXCEPT !.loop = "waitT2"]
       /\ UNCHANGED <<disk, wire, tx>>

tryRefund(m) ==
    \/ m.done /\ Complete(m) /\ UNCHANGED tx    \* the swap's context is cancelled
    \/ ~m.done /\ stage \in Completed /\ tryClaim(m) /\ UNCHANGED tx
    \/ /\ ~m.done /\ stage = "PENDING" /\ now < T1
       /\ Submit("refund")
       /\ mem' = [m EXCEPT !.loop = "refundWait", !.after = "early"]
       /\ UNCHANGED <<disk, wire>>
    \/ ~m.done /\ stage \notin Completed /\ now > T2 /\ RefundLast(m)
    \/ /\ ~m.done /\ stage \notin Completed
       /\ ~(stage = "PENDING" /\ now < T1) /\ now <= T2
       /\ mem' = [m EXCEPT !.loop = "waitT2"]
       /\ UNCHANGED <<disk, wire, tx>>

exit(m) ==
    \/ m.next = "KeysReceived" /\ Finish(m, "CompletedAbort") /\ UNCHANGED tx
    \/ m.next \in {"XMRLocked", "ETHClaimed"} /\ tryRefund(m)
    \/ m.next = "None" /\ Complete(m) /\ UNCHANGED tx

chain == <<now, stage, readyLog, xmr>>

-----------------------------------------------------------------------------
(* Taking the offer, and the stream *)

InitiateProtocol ==
    /\ mem.loop = "none" /\ disk.status = "None"
    /\ disk' = [disk EXCEPT !.status = "ExpectingKeys"]
    /\ LET m == [NoSwap("idle") EXCEPT !.next = "KeysReceived", !.status = "ExpectingKeys",
                                       !.run = {"watcher"}]
       IN \/ /\ wire' = [wire EXCEPT !.toMaker = "keys", !.open = TRUE]
             /\ mem' = [m EXCEPT !.net = "waiting"]
          \/ mem' = Push(m, "exit") /\ UNCHANGED wire      \* the peer is unreachable
    /\ UNCHANGED <<chain, tx, left>>

HandleProtocolMessage ==
    /\ mem.net = "waiting" /\ wire.toTaker = "keys"
    /\ mem' = [Push(mem, "keys") EXCEPT !.net = "handling"]
    /\ wire' = [wire EXCEPT !.toTaker = "none"]
    /\ UNCHANGED <<chain, tx, disk, left>>

\* The stream is closed, times out, or carries something else than keys.
receiveInitiateResponseFails ==
    /\ mem.net = "waiting"
    /\ mem' = [mem EXCEPT !.net = "closing"]
    /\ wire' = [wire EXCEPT !.open = FALSE]
    /\ UNCHANGED <<chain, tx, disk, left>>

\* Reads nextExpectedEvent without a lock, from the stream's goroutine.
NotifyStreamClosed ==
    /\ mem.net = "closing"
    /\ LET m == [mem EXCEPT !.net = "none"]
       IN mem' = IF mem.next = "KeysReceived" THEN Push(m, "exit") ELSE m
    /\ wire' = [wire EXCEPT !.open = FALSE]
    /\ UNCHANGED <<chain, tx, disk, left>>

-----------------------------------------------------------------------------
(* EventKeysReceived: lock the ETH and tell the maker *)

KeysFailed(m) == [m EXCEPT !.loop = "idle", !.net = "closing"]

handleEventKeysReceived ==
    /\ Handling("keys")
    /\ \/ /\ mem.next = "KeysReceived"
          /\ Submit("newSwap")
          /\ mem' = [Popped EXCEPT !.loop = "newSwapSent"]
       \/ mem' = KeysFailed(Popped) /\ UNCHANGED tx    \* not expected, invalid, or no funds
    /\ UNCHANGED <<chain, wire, disk, left>>

saveNewSwapTxCallback ==
    /\ mem.loop = "newSwapSent"
    /\ mem' = [mem EXCEPT !.loop = "newSwapWait"]
    /\ disk' = [disk EXCEPT !.txHash = TRUE]
    /\ UNCHANGED <<ledgers, left>>

lockAsset ==
    /\ mem.loop = "newSwapWait"
    /\ \/ /\ tx["newSwap"] = "ok"
          /\ mem' = [mem EXCEPT !.loop = "sendLocked",
                                !.run = @ \cup {"xmrCheck"} \cup (IF now < T1 THEN {"t1"} ELSE {})]
          /\ disk' = [disk EXCEPT !.info = TRUE]
          /\ UNCHANGED left
       \/ ReceiptLost("newSwap") /\ mem' = KeysFailed(mem) /\ UNCHANGED disk
    /\ UNCHANGED ledgers

\* A failure is reported to the stream's goroutine before the loop goes on.
\* Variation: the message is sent again when the stream is still open.
SendNotifyETHLockedAgain ==
    /\ mem.loop = "sendLocked"
    /\ \/ wire.open /\ wire' = [wire EXCEPT !.toMaker = "ethLocked"] /\ UNCHANGED mem
       \/ mem' = [mem EXCEPT !.loop = "setNext", !.net = "closing"] /\ UNCHANGED wire
    /\ UNCHANGED <<chain, tx, disk, left>>

SendNotifyETHLocked ==
    /\ mem.loop = "sendLocked"
    /\ \/ /\ wire.open
          /\ wire' = [wire EXCEPT !.toMaker = "ethLocked", !.open = FALSE]
          /\ mem' = [mem EXCEPT !.loop = "setNext"]
       \/ mem' = [mem EXCEPT !.loop = "setNext", !.net = "closing"] /\ UNCHANGED wire
    /\ UNCHANGED <<chain, tx, disk, left>>

setNextXMRLocked ==
    /\ mem.loop = "setNext"
    /\ mem' = [mem EXCEPT !.loop = "idle", !.next = "XMRLocked", !.status = "ETHLocked",
                          !.net = IF @ = "handling" THEN "none" ELSE @]
    /\ disk' = [disk EXCEPT !.status = "ETHLocked"]
    /\ UNCHANGED <<ledgers, left>>

-----------------------------------------------------------------------------
(* EventXMRLocked: set the contract to ready *)

\* Variation: the balance is not compared with the expected amount.
checkForXMRLockUnseen ==
    /\ "xmrCheck" \in mem.run
    /\ mem' = [Push(mem, "xmrLocked") EXCEPT !.run = @ \ {"xmrCheck"}]
    /\ UNCHANGED <<ledgers, disk, left>>

checkForXMRLock ==
    /\ "xmrCheck" \in mem.run /\ xmr = "locked"
    /\ mem' = [Push(mem, "xmrLocked") EXCEPT !.run = @ \ {"xmrCheck"}]
    /\ UNCHANGED <<ledgers, disk, left>>

setNextETHClaimed(m) ==
    /\ mem' = [m EXCEPT !.loop = "idle", !.next = "ETHClaimed", !.status = "ContractReady",
                        !.t2 = @ + 1]
    /\ disk' = [disk EXCEPT !.status = "ContractReady"]

handleNotifyXMRLock ==
    /\ Handling("xmrLocked")
    /\ LET m == [Popped EXCEPT !.run = @ \ {"t1"}]
       IN \/ mem.next # "XMRLocked" /\ mem' = Popped /\ UNCHANGED <<disk, tx>>
          \/ /\ mem.next = "XMRLocked" /\ mem.done
             /\ mem' = m /\ UNCHANGED <<disk, tx>>
          \/ /\ mem.next = "XMRLocked" /\ ~mem.done /\ stage = "READY"
             /\ setNextETHClaimed(m) /\ UNCHANGED tx
          \/ /\ mem.next = "XMRLocked" /\ ~mem.done /\ stage \in Completed
             /\ setNextETHClaimed(Push(m, "exit")) /\ UNCHANGED tx
          \/ /\ mem.next = "XMRLocked" /\ ~mem.done
             /\ Submit("setReady")
             /\ mem' = [m EXCEPT !.loop = "readyWait"] /\ UNCHANGED disk
    /\ UNCHANGED <<chain, wire, left>>

setReady ==
    /\ mem.loop = "readyWait"
    /\ \/ tx["setReady"] = "ok" /\ setNextETHClaimed(mem) /\ UNCHANGED left
       \/ Failed("setReady") /\ mem' = [mem EXCEPT !.loop = "idle"] /\ UNCHANGED disk
    /\ UNCHANGED ledgers

-----------------------------------------------------------------------------
(* EventETHClaimed: claim the XMR *)

runContractEventWatcher ==
    /\ "watcher" \in mem.run /\ disk.info /\ stage = "CLAIMED"
    /\ mem' = [Push(mem, "ethClaimed") EXCEPT !.run = @ \ {"watcher"}]
    /\ UNCHANGED <<ledgers, disk, left>>

handleEventETHClaimed ==
    /\ Handling("ethClaimed")
    /\ \/ mem.next # "ETHClaimed" /\ mem' = Popped /\ UNCHANGED disk
       \/ /\ mem.next = "ETHClaimed"
          /\ mem' = [Popped EXCEPT !.loop = "sweepStatus", !.after = "event"]
          /\ disk' = [disk EXCEPT !.key = TRUE]
    /\ UNCHANGED <<ledgers, left>>

setSweepStatus ==
    /\ mem.loop = "sweepStatus"
    /\ mem' = [mem EXCEPT !.loop = "sweep",
                          !.status = IF mem.after = "startup" THEN @ ELSE "SweepingXMR"]
    /\ disk' = [disk EXCEPT !.status = "SweepingXMR"]
    /\ UNCHANGED <<ledgers, left>>

ClaimMonero ==
    /\ mem.loop = "sweep" /\ xmr = "locked" /\ ~mem.done
    /\ xmr' = "taker"
    /\ \/ mem.after # "startup" /\ Finish(mem, "CompletedSuccess")
       \/ /\ mem.after = "startup"
          /\ mem' = NoSwap("none")
          /\ disk' = [disk EXCEPT !.status = "CompletedSuccess"]
          /\ UNCHANGED wire
    /\ UNCHANGED <<now, stage, readyLog, tx, left>>

\* Nothing to sweep, the context is cancelled, or the wallet fails.
ClaimMoneroFails ==
    /\ mem.loop = "sweep"
    /\ \/ (xmr # "locked" \/ mem.done) /\ UNCHANGED left
       \/ xmr = "locked" /\ left.sweep > 0 /\ left' = [left EXCEPT !.sweep = @ - 1]
    /\ \/ mem.after = "event" /\ exit([mem EXCEPT !.after = "none"])
       \/ mem.after = "exit" /\ Complete(mem) /\ UNCHANGED tx
       \/ mem.after = "startup" /\ mem' = NoSwap("none") /\ UNCHANGED <<disk, wire, tx>>
    /\ UNCHANGED chain

-----------------------------------------------------------------------------
(* EventShouldRefund and EventExit *)

\* Variation: the taker gives up only when timeout1 is reached.
T1DueAtT1 == "t1" \in mem.run /\ now >= T1

T1Due == "t1" \in mem.run /\ now >= T1 - GiveUpMargin
T2Due == mem.t2 > 0 /\ now >= T2

runT1ExpirationHandler ==
    /\ T1Due
    /\ mem' = [Push(mem, "shouldRefund") EXCEPT !.run = @ \ {"t1"}]
    /\ UNCHANGED <<ledgers, disk, left>>

runT2ExpirationHandler ==
    /\ T2Due
    /\ mem' = [Push(mem, "shouldRefund") EXCEPT !.t2 = @ - 1]
    /\ UNCHANGED <<ledgers, disk, left>>

handleEventShouldRefund ==
    /\ Handling("shouldRefund")
    /\ \/ /\ mem.status \in Ongoing /\ Submit("refund")
          /\ mem' = [Popped EXCEPT !.loop = "refundWait", !.after = "event"]
          /\ UNCHANGED <<disk, wire>>
       \/ ~(mem.status \in Ongoing /\ CanRefund) /\ exit(Popped)
    /\ UNCHANGED <<chain, left>>

\* refund()'s receipt, for each of its three callers.
refund ==
    /\ mem.loop = "refundWait"
    /\ \/ /\ tx["refund"] = "ok"
          /\ Finish(mem, "CompletedRefund") /\ UNCHANGED <<tx, left>>
       \/ /\ Failed("refund")
          /\ \/ mem.after = "event" /\ exit([mem EXCEPT !.after = "none"])
             \/ /\ mem.after = "early"
                /\ mem' = [mem EXCEPT !.loop = "waitT2"] /\ UNCHANGED <<disk, wire, tx>>
             \/ mem.after = "exit" /\ Complete(mem) /\ UNCHANGED tx
    /\ UNCHANGED chain

\* tryRefund's loop.  The sender of the event it takes is never answered.
waitT2 ==
    /\ mem.loop = "waitT2"
    /\ \/ now >= T2 /\ RefundLast(mem)
       \/ /\ mem.queue # <<>>
          /\ \/ Head(mem.queue) = "shouldRefund" /\ RefundLast(Popped)
             \/ Head(mem.queue) = "ethClaimed" /\ tryClaim(Popped) /\ UNCHANGED tx
             \/ /\ Head(mem.queue) \in {"exit", "cancel"}
                /\ mem' = Popped /\ UNCHANGED <<disk, wire, tx>>
             \/ /\ Head(mem.queue) \in {"keys", "xmrLocked"}
                /\ mem' = NoSwap("panicked") /\ UNCHANGED <<disk, wire, tx>>
    /\ UNCHANGED <<chain, left>>

\* swap_cancel, for a swap the manager lists as ongoing.
Cancel ==
    /\ mem.status # "None" /\ ~mem.done /\ mem.after # "startup" /\ left.cancel > 0
    /\ mem' = [Push(mem, "cancel") EXCEPT !.waiting = @ + 1]
    /\ left' = [left EXCEPT !.cancel = @ - 1]
    /\ UNCHANGED <<ledgers, disk>>

handleEventExit ==
    /\ \/ Handling("exit") /\ exit(Popped)
       \/ Handling("cancel") /\ exit([Popped EXCEPT !.cancelling = TRUE])
    /\ UNCHANGED <<chain, left>>

\* The swap's context is cancelled: the loop returns, at the latest when no sender is left.
runHandleEventsReturns ==
    /\ mem.loop = "idle" /\ mem.done
    /\ mem' = [NoSwap("none") EXCEPT !.waiting = mem.waiting]
    /\ UNCHANGED <<ledgers, disk, left>>

-----------------------------------------------------------------------------
(* Crash and restart *)

Crash ==
    /\ mem.loop \notin {"down", "panicked"} /\ left.crash > 0
    /\ mem' = NoSwap("down")
    /\ left' = [left EXCEPT !.crash = @ - 1]
    /\ wire' = [wire EXCEPT !.open = FALSE]
    /\ UNCHANGED <<chain, tx, disk>>

\* Variation: a resumed swap does not watch for timeout2.
newSwapStateFromOngoingNoT2 ==
    [NoSwap("idle") EXCEPT
        !.status = disk.status,
        !.next = IF disk.status = "ETHLocked" THEN "XMRLocked" ELSE "ETHClaimed",
        !.run = {"watcher"} \cup (IF now < T1 THEN {"t1"} ELSE {})
                            \cup (IF disk.status = "ETHLocked" THEN {"xmrCheck"} ELSE {})]

newSwapStateFromOngoing ==
    [NoSwap("idle") EXCEPT
        !.status = disk.status,
        !.next = IF disk.status = "ETHLocked" THEN "XMRLocked" ELSE "ETHClaimed",
        !.t2 = 1,
        !.run = {"watcher"} \cup (IF now < T1 THEN {"t1"} ELSE {})
                            \cup (IF disk.status = "ETHLocked" THEN {"xmrCheck"} ELSE {})]

checkForOngoingSwaps ==
    /\ mem.loop \in {"down", "panicked"}
    /\ \/ /\ disk.status \in {"None"} \cup CompletedStatuses
          /\ mem' = NoSwap("none") /\ UNCHANGED disk
       \/ /\ disk.status = "ExpectingKeys" /\ ~disk.txHash
          /\ mem' = NoSwap("none")
          /\ disk' = [disk EXCEPT !.status = "CompletedAbort"]
       \/ /\ disk.status = "ExpectingKeys" /\ disk.txHash
          /\ mem' = NoSwap("recover") /\ UNCHANGED disk
       \/ /\ disk.status = "SweepingXMR"
          /\ mem' = NoSwap("none")
          /\ disk' = [disk EXCEPT !.status = "CompletedSuccess"]
       \/ /\ disk.status \in {"ETHLocked", "ContractReady"} /\ disk.key
          /\ mem' = [NoSwap("sweepStatus") EXCEPT !.after = "startup"] /\ UNCHANGED disk
       \/ /\ disk.status \in {"ETHLocked", "ContractReady"} /\ ~disk.key
          /\ mem' = newSwapStateFromOngoing /\ UNCHANGED disk
    /\ UNCHANGED <<ledgers, left>>

\* A cancelled newSwap leaves the swap ongoing; a start that returns an error ends the process.
refundOrCancelNewSwap ==
    /\ mem.loop = "recover"
    /\ \/ /\ tx["newSwap"] = "pending"
          /\ tx' = [tx EXCEPT !["newSwap"] = "cancelled"]
          /\ mem' = NoSwap("none")
       \/ /\ tx["newSwap"] = "ok" /\ stage = "PENDING" /\ Submit("refund")
          /\ mem' = NoSwap("recoverWait")
       \/ /\ ~(tx["newSwap"] = "ok" /\ stage = "PENDING" /\ CanRefund)
          /\ tx["newSwap"] # "pending"
          /\ mem' = NoSwap("down") /\ UNCHANGED tx
    /\ UNCHANGED <<chain, wire, disk, left>>

\* Variation: a swap refunded at startup is recorded like one that never locked its ETH.
recoverRefundAborts ==
    /\ mem.loop = "recoverWait" /\ tx["refund"] = "ok"
    /\ mem' = NoSwap("none")
    /\ disk' = [disk EXCEPT !.status = "CompletedAbort"]
    /\ UNCHANGED <<ledgers, left>>

recoverRefund ==
    /\ mem.loop = "recoverWait"
    /\ \/ /\ tx["refund"] = "ok" /\ UNCHANGED left
          /\ mem' = NoSwap("none")
          /\ disk' = [disk EXCEPT !.status = "CompletedRefund"]
       \/ Failed("refund") /\ mem' = NoSwap("down") /\ UNCHANGED disk
    /\ UNCHANGED ledgers

-----------------------------------------------------------------------------
(* The counterparty, and the chain *)

Counterparty ==
    /\ \/ /\ wire.open /\ wire.toMaker = "keys"
          /\ wire' = [wire EXCEPT !.toMaker = "none", !.toTaker = "keys"]
          /\ UNCHANGED <<stage, xmr>>
       \/ /\ wire.toMaker # "none"
          /\ \E o \in {wire.open, FALSE} : wire' = [wire EXCEPT !.toMaker = "none", !.open = o]
          /\ UNCHANGED <<stage, xmr>>
       \/ wire.open /\ wire' = [wire EXCEPT !.open = FALSE] /\ UNCHANGED <<stage, xmr>>
       \/ stage # "None" /\ xmr = "maker" /\ xmr' = "locked" /\ UNCHANGED <<stage, wire>>
       \/ stage = "REFUNDED" /\ xmr = "locked" /\ xmr' = "returned" /\ UNCHANGED <<stage, wire>>
       \/ CanClaim /\ stage' = "CLAIMED" /\ UNCHANGED <<xmr, wire>>
    /\ UNCHANGED <<now, readyLog, tx, takerVars>>

Busy ==
    \/ \E op \in Ops : tx[op] = "pending"
    \/ mem.loop \notin {"none", "idle", "waitT2", "down", "panicked"}
    \/ mem.loop = "idle" /\ ~mem.done /\ mem.queue # <<>>
    \/ mem.loop = "waitT2" /\ (mem.queue # <<>> \/ now >= T2)
    \/ mem.net = "closing" \/ T1Due \/ T2Due
    \/ "xmrCheck" \in mem.run /\ xmr = "locked"
    \/ "watcher" \in mem.run /\ stage = "CLAIMED"

NewBlock ==
    \/ \E op \in Ops : Include(op) /\ UNCHANGED takerVars
    \/ (Prompt => ~Busy) /\ Tick /\ UNCHANGED takerVars

TakerStep ==
    \/ HandleProtocolMessage \/ NotifyStreamClosed
    \/ handleEventKeysReceived \/ saveNewSwapTxCallback \/ lockAsset
    \/ SendNotifyETHLocked \/ setNextXMRLocked
    \/ checkForXMRLock \/ handleNotifyXMRLock \/ setReady
    \/ runContractEventWatcher \/ handleEventETHClaimed
    \/ setSweepStatus \/ ClaimMonero \/ ClaimMoneroFails
    \/ runT1ExpirationHandler \/ runT2ExpirationHandler
    \/ handleEventShouldRefund \/ refund \/ waitT2
    \/ handleEventExit \/ runHandleEventsReturns
    \/ checkForOngoingSwaps \/ refundOrCancelNewSwap \/ recoverRefund

TakerNext ==
    \/ InitiateProtocol \/ receiveInitiateResponseFails
    \/ Cancel \/ Crash
    \/ TakerStep

Init == LedgerInit /\ TakerInit

Next == TakerNext \/ Counterparty \/ NewBlock

Spec == Init /\ [][Next]_vars

\* Goroutines that can go on do, the daemon is restarted, and blocks keep being made.
FairSpec == Spec /\ WF_vars(TakerStep) /\ SF_vars(NewBlock)

-----------------------------------------------------------------------------
(* Properties *)

\* The taker lets the maker claim (setReady) only once the XMR has been locked, whatever
\* was lost, retried, cancelled or restarted on the way.
ReadyOnlyOnceLocked ==
    readyLog \/ tx["setReady"] = "pending" => xmr # "maker"

\* A swap recorded as refunded is refunded on chain, across crashes and manual cancels.
RefundRecorded == disk.status = "CompletedRefund" => stage = "REFUNDED"

\* The recorded outcome never changes: not by a late event, not by a restart.
OutcomeIsFinal == disk.status \in CompletedStatuses => disk'.status = disk.status

\* Without a crash, a swap recorded as successful has its XMR in the taker's wallet
\* (handleEventETHClaimed and tryClaim record success after the sweep).
SuccessIsSwept ==
    Without({"crash"}) => (disk.status = "CompletedSuccess" => xmr = "taker")

\* A taker that is never late does not pay for XMR that were never locked: it has its
\* refund included before timeout1, when an unready swap becomes claimable.
NeverPaysForNothing ==
    Without({"crash", "lost"}) => (stage = "CLAIMED" => xmr # "maker")

\* Without a crash or a lost receipt, CompletedAbort is recorded only when no ETH is
\* locked and none will be, whenever the stream closes or the user cancels (exit).
AbortedBeforeLocking ==
    Without({"crash", "lost"}) =>
        (disk.status = "CompletedAbort" => stage = "None" /\ tx["newSwap"] # "pending")

\* A taker that is never late, sees its receipts and does not crash meets no event it
\* panics on while tryRefund waits for timeout2, however often it is told to cancel.
NeverPanics == Without({"crash", "lost"}) => mem.loop # "panicked"

\* ETH that was locked is refunded or claimed in the end, unless the daemon crashes, loses
\* a receipt or is told to cancel.
EthSettles ==
    stage = "PENDING" ~> (stage \in Completed \/ ~Without({"crash", "lost", "cancel"}))

\* Once the database says that the ETH is locked, it is refunded or claimed even if the
\* daemon crashes and is restarted, any number of times (createOngoingSwap).
LockedEthSettles ==
    disk.status \in {"ETHLocked", "ContractReady"}
        ~> (stage \in Completed \/ ~Without({"lost", "cancel"}))

\* When the maker has locked the XMR and claims the ETH, the taker gets the XMR.
ClaimYieldsXmr ==
    (stage = "CLAIMED" /\ xmr = "locked")
        ~> (xmr = "taker" \/ ~Without({"crash", "lost", "cancel", "sweep"}))

-----------------------------------------------------------------------------
(* What the comments say *)

\* "CompletedAbort represents the case where the swap aborts before any funds are locked"
\* (common/types/status.go), also when newSwap's receipt is not seen in time.
AbortMeansUnlocked ==
    disk.status = "CompletedAbort" => stage = "None" /\ tx["newSwap"] # "pending"

\* SweepingXMR lets the daemon know of the sweep "in case of a daemon restart"
\* (common/types/status.go): success is recorded only once the XMR are swept.
SuccessMeansSwept == disk.status = "CompletedSuccess" => xmr = "taker"

=============================================================================
