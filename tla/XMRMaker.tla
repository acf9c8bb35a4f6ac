------------------------------ MODULE XMRMaker --------------------------------
(***************************************************************************)
(* The daemon of the party that gives XMR for ETH (protocol/xmrmaker): one *)
(* offer and the swap that takes it, with crashes, restarts, late          *)
(* transactions, failed transfers and users who cancel or clear offers.    *)
(* The counterparty does whatever the contract, the stream and the Monero  *)
(* chain let it do.                                                        *)
(*                                                                         *)
(* As in XMRTaker, mem is what the process holds and disk what the         *)
(* database holds.  mem.queue is eventCh, which has one buffered slot,     *)
(* followed by the senders blocked on it; mem.seen is the set of logs the  *)
(* contract event watcher has already read.                                *)
(***************************************************************************)
EXTENDS SwapLedgers

CONSTANTS
    LockSlack,          \* how late NotifyETHLocked may be (a twentieth of Timeout)
    Prompt,             \* no block is made while the daemon has something to do
    MaxCrashes,         \* bounds: crashes,
    MaxLostReceipts,    \* claims not included within WaitForReceipt's retries,
    MaxCancels,         \* swap_cancel calls,
    MaxWalletFailures,  \* failed Monero transfers and sweeps,
    MaxClears           \* swap_clearOffers calls

VARIABLES mem, disk, left

makerVars == <<mem, disk, left>>
vars == <<ledgers, makerVars>>
chain == <<now, stage, readyLog, xmr>>

CompletedStatuses == {"CompletedSuccess", "CompletedRefund", "CompletedAbort"}
Ongoing == {"KeysExchanged", "XMRLocked", "SweepingXMR"}
Logs == {"Ready", "Refunded", "Claimed"}
Events == {"ethLocked", "ready", "t1", "refunded", "claimed", "exit", "cancel"}
Loops == {"none", "down", "panicked", "idle", "lock", "transfer", "confirm", "exiting", "claimWait",
          "exitWait", "sweepStatus", "sweep", "settleOffer"}

\* A process without a swap state; offer says whether the offer manager lists the offer.
NoSwap(l, o) ==
    [loop |-> l, next |-> "None", status |-> "None", after |-> "none", done |-> FALSE,
     queue |-> <<>>, run |-> {}, seen |-> {}, readyClosed |-> FALSE, net |-> "none",
     cancelling |-> FALSE, waiting |-> 0, offer |-> o]

TypeOK ==
    /\ LedgerTypeOK
    /\ mem \in [loop : Loops,
                next : {"None", "ETHLocked", "ContractReady"},
                status : {"None"} \cup Ongoing \cup CompletedStatuses,
                after : {"none", "event", "exit", "startup"},
                done : BOOLEAN,
                queue : Seq(Events),
                run : SUBSET {"t1", "watcher"},
                seen : SUBSET Logs,
                readyClosed : BOOLEAN,
                net : {"none", "reading", "handling", "closing"},
                cancelling : BOOLEAN,
                waiting : 0 .. MaxCancels,
                offer : BOOLEAN]
    /\ disk \in [status : {"None"} \cup Ongoing \cup CompletedStatuses,
                 info : BOOLEAN, key : BOOLEAN, offer : BOOLEAN]
    /\ left \in [crash : 0 .. MaxCrashes, lost : 0 .. MaxLostReceipts, cancel : 0 .. MaxCancels,
                 wallet : 0 .. MaxWalletFailures, clear : 0 .. MaxClears]

\* The faults that may happen, and those that have not happened so far.
Budget == [crash |-> MaxCrashes, lost |-> MaxLostReceipts, cancel |-> MaxCancels,
           wallet |-> MaxWalletFailures, clear |-> MaxClears]
Without(faults) == \A f \in faults : left[f] = Budget[f]

\* The offer has been made and is advertised.
MakerInit ==
    /\ mem = NoSwap("none", TRUE)
    /\ disk = [status |-> "None", info |-> FALSE, key |-> FALSE, offer |-> TRUE]
    /\ left = Budget

Push(m, e) == [m EXCEPT !.queue = Append(@, e)]
Handling(e) == mem.loop = "idle" /\ mem.queue # <<>> /\ Head(mem.queue) = e
Popped == [mem EXCEPT !.queue = Tail(@)]

WalletFails == left.wallet > 0 /\ left' = [left EXCEPT !.wallet = @ - 1]

-----------------------------------------------------------------------------
(* Leaving the swap: exit() *)

Answered(m) == IF m.cancelling THEN [m EXCEPT !.cancelling = FALSE, !.waiting = @ - 1] ELSE m

\* exit()'s deferred function, up to the update of the offer.  A swap the manager no
\* longer lists as ongoing is left alone.
Complete(m) ==
    /\ wire' = [wire EXCEPT !.open = FALSE]
    /\ \/ /\ ~m.done
          /\ mem' = [m EXCEPT !.loop = "settleOffer", !.after = "none"]
          /\ disk' = [disk EXCEPT !.status = m.status]
       \/ /\ m.done
          /\ mem' = [Answered(m) EXCEPT !.loop = "idle", !.after = "none"]
          /\ UNCHANGED disk

Finish(m, s) == Complete([m EXCEPT !.next = "None", !.status = s])

\* Variation: the offer is listed again after every swap.
settleOfferAlways ==
    /\ mem.loop = "settleOffer"
    /\ mem' = [Answered(mem) EXCEPT !.loop = "idle", !.done = TRUE, !.run = {}, !.offer = TRUE]
    /\ disk' = [disk EXCEPT !.offer = TRUE]
    /\ UNCHANGED <<ledgers, left>>

\* The offer is listed again unless the swap succeeded; then the swap's context is cancelled.
settleOffer ==
    /\ mem.loop = "settleOffer"
    /\ LET listed == mem.status # "CompletedSuccess"
       IN /\ mem' = [Answered(mem) EXCEPT !.loop = "idle", !.done = TRUE, !.run = {},
                                          !.offer = listed]
          /\ disk' = [disk EXCEPT !.offer = IF mem.offer THEN @ /\ listed ELSE listed]
    /\ UNCHANGED <<ledgers, left>>

exit(m) ==
    \/ m.next = "ETHLocked" /\ Finish(m, "CompletedAbort")
    \/ /\ m.next = "ContractReady"
       /\ mem' = [m EXCEPT !.loop = "exitWait", !.after = "none"]
       /\ UNCHANGED <<disk, wire>>
    \/ m.next = "None" /\ Complete(m)

-----------------------------------------------------------------------------
(* The offer is taken *)

HandleInitiateMessage ==
    /\ mem.loop = "none" /\ mem.offer /\ disk.status = "None"
    /\ wire.open /\ wire.toMaker = "keys"
    /\ LET m == [NoSwap("idle", FALSE) EXCEPT !.next = "ETHLocked", !.status = "KeysExchanged",
                                              !.run = {"watcher"}]
           received == [wire EXCEPT !.toMaker = "none"]
       IN \/ /\ mem' = [m EXCEPT !.net = "reading"]
             /\ wire' = [received EXCEPT !.toTaker = "keys"]
             /\ disk' = [disk EXCEPT !.status = "KeysExchanged"]
             /\ UNCHANGED left
          \/ /\ mem' = Push(m, "exit")      \* invalid keys, or the answer cannot be sent
             /\ wire' = [received EXCEPT !.open = FALSE]
             /\ disk' = [disk EXCEPT !.status = "KeysExchanged"]
             /\ UNCHANGED left
          \/ /\ WalletFails                  \* after TakeOffer, before or after AddSwap
             /\ mem' = [mem EXCEPT !.offer = FALSE]
             /\ wire' = [received EXCEPT !.open = FALSE]
             /\ disk' \in {disk, [disk EXCEPT !.status = "KeysExchanged"]}
    /\ UNCHANGED <<chain, tx>>

HandleProtocolMessage ==
    /\ mem.net = "reading" /\ wire.toMaker = "ethLocked"
    /\ mem' = IF mem.done THEN [mem EXCEPT !.net = "closing"]
                          ELSE [Push(mem, "ethLocked") EXCEPT !.net = "handling"]
    /\ wire' = [wire EXCEPT !.toMaker = "none"]
    /\ UNCHANGED <<chain, tx, disk, left>>

handleProtocolStreamFails ==
    /\ mem.net = "reading"
    /\ mem' = [mem EXCEPT !.net = "closing"]
    /\ wire' = [wire EXCEPT !.open = FALSE]
    /\ UNCHANGED <<chain, tx, disk, left>>

\* Reads nextExpectedEvent without a lock, from the stream's goroutine.
NotifyStreamClosed ==
    /\ mem.net = "closing"
    /\ LET m == [mem EXCEPT !.net = "none"]
       IN mem' = IF mem.next = "ETHLocked" THEN Push(m, "exit") ELSE m
    /\ wire' = [wire EXCEPT !.open = FALSE]
    /\ UNCHANGED <<chain, tx, disk, left>>

-----------------------------------------------------------------------------
(* EventETHLocked: check the contract and lock the XMR *)

\* The lock is checked in newSwap's receipt; the swap's present stage is not read.
checkContract == stage # "None"
checkAndSetTimeouts == now <= LockSlack

handleNotifyETHLocked ==
    /\ Handling("ethLocked")
    /\ \/ /\ mem.next # "ETHLocked"
          /\ mem' = [Popped EXCEPT !.net = "closing"]
          /\ UNCHANGED <<disk, wire>>
       \/ /\ mem.next = "ETHLocked" /\ checkContract /\ checkAndSetTimeouts
          /\ mem' = [Popped EXCEPT !.loop = "lock"]
          /\ disk' = [disk EXCEPT !.info = TRUE]
          /\ UNCHANGED wire
       \/ /\ mem.next = "ETHLocked"          \* something is not as agreed
          /\ mem' = [Popped EXCEPT !.loop = "exiting", !.net = "closing"]
          /\ disk' \in {disk, [disk EXCEPT !.info = TRUE]}
          /\ UNCHANGED wire
    /\ UNCHANGED <<chain, tx, left>>

\* The stream is told of the error before exit() is called.
exitAfterError ==
    /\ mem.loop = "exiting"
    /\ exit(mem)
    /\ UNCHANGED <<chain, tx, left>>

\* setNextExpectedEvent, before the transfer.
lockFunds ==
    /\ mem.loop = "lock"
    /\ mem' = [mem EXCEPT !.loop = "transfer", !.next = "ContractReady", !.status = "XMRLocked"]
    /\ disk' = [disk EXCEPT !.status = "XMRLocked"]
    /\ UNCHANGED <<ledgers, left>>

LockFailed ==
    /\ WalletFails
    /\ mem' = [mem EXCEPT !.loop = "exiting", !.net = "closing"]
    /\ UNCHANGED <<disk, wire>>

Transfer ==
    /\ mem.loop = "transfer"
    /\ \/ xmr' = "locked" /\ mem' = [mem EXCEPT !.loop = "confirm"] /\ UNCHANGED <<disk, wire, left>>
       \/ LockFailed /\ UNCHANGED xmr
    /\ UNCHANGED <<now, stage, readyLog, tx>>

TransferConfirmed ==
    /\ mem.loop = "confirm"
    /\ \/ /\ mem' = [mem EXCEPT !.loop = "idle", !.net = "none",
                                 !.run = @ \cup (IF now <= T2 THEN {"t1"} ELSE {})]
          /\ wire' = [wire EXCEPT !.open = FALSE]
          /\ UNCHANGED <<disk, left>>
       \/ LockFailed
    /\ UNCHANGED <<chain, tx>>

-----------------------------------------------------------------------------
(* The logs of the contract, and timeout1 *)

Emitted(l) ==
    CASE l = "Ready" -> readyLog
      [] l = "Refunded" -> stage = "REFUNDED"
      [] l = "Claimed" -> stage = "CLAIMED"

\* The watcher is not blocked sending EventContractReady.
WatcherFree ==
    /\ "watcher" \in mem.run
    /\ \A i \in 2 .. Len(mem.queue) : mem.queue[i] # "ready"

\* A log that arrives before NotifyETHLocked is not recognised.  A Claimed log clears
\* nextExpectedEvent here, in the watcher's goroutine.
runContractEventWatcher ==
    /\ WatcherFree
    /\ \E l \in Logs \ mem.seen :
          /\ Emitted(l)
          /\ LET m == [mem EXCEPT !.seen = @ \cup {l}]
                 last == [m EXCEPT !.run = @ \ {"watcher"}]
             IN mem' = IF ~disk.info THEN m ELSE
                       CASE l = "Ready" -> Push(m, "ready")
                         [] l = "Refunded" -> Push(last, "refunded")
                         [] l = "Claimed" -> Push([last EXCEPT !.next = "None",
                                                     !.status = "CompletedSuccess"], "claimed")
    /\ UNCHANGED <<ledgers, disk, left>>

T1Due == "t1" \in mem.run /\ now >= T1

runT1ExpirationHandler ==
    /\ T1Due
    /\ mem' = [Push(mem, "t1") EXCEPT !.run = @ \ {"t1"}]
    /\ UNCHANGED <<ledgers, disk, left>>

-----------------------------------------------------------------------------
(* EventContractReady: claim the ETH *)

\* claimFunds fails before a transaction is sent: the claim would revert, the swap's
\* context is cancelled, or no relayer takes it.
ClaimNotSent(m) ==
    \/ (~CanClaim \/ m.done) /\ UNCHANGED left
    \/ left.lost > 0 /\ left' = [left EXCEPT !.lost = @ - 1]

\* handleEventContractReady, called by the loop or by exit().  readyCh may be closed once.
ContractReady(m, caller) ==
    \/ /\ m.readyClosed
       /\ mem' = NoSwap("panicked", FALSE)
       /\ wire' = [wire EXCEPT !.open = FALSE]
       /\ UNCHANGED <<disk, tx, left>>
    \/ /\ ~m.readyClosed
       /\ LET c == [m EXCEPT !.readyClosed = TRUE, !.run = @ \ {"t1"}]
          IN \/ /\ ~m.done /\ Submit("claim")
                /\ mem' = [c EXCEPT !.loop = "claimWait", !.after = caller]
                /\ UNCHANGED <<disk, wire, left>>
             \/ ClaimNotSent(m) /\ exit(c) /\ UNCHANGED tx

handleEventContractReady ==
    /\ Handling("ready") \/ Handling("t1")
    /\ \/ mem.next # "ContractReady" /\ mem' = Popped /\ UNCHANGED <<disk, wire, tx, left>>
       \/ mem.next = "ContractReady" /\ ContractReady(Popped, "event")
    /\ UNCHANGED chain

\* Variation: a receipt is taken for success without looking at its status.
claimFundsAnyReceipt ==
    /\ mem.loop = "claimWait" /\ tx["claim"] # "pending"
    /\ Finish(mem, "CompletedSuccess")
    /\ UNCHANGED <<chain, tx, left>>

\* The claim's receipt.  After a claim made by the loop, the exit comes with the Claimed log.
claimFunds ==
    /\ mem.loop = "claimWait"
    /\ \/ /\ tx["claim"] = "ok" /\ mem.after = "event"
          /\ mem' = [mem EXCEPT !.loop = "idle", !.after = "none",
                                !.next = "None", !.status = "CompletedSuccess"]
          /\ UNCHANGED <<disk, wire, left>>
       \/ /\ tx["claim"] = "ok" /\ mem.after = "exit"
          /\ Finish(mem, "CompletedSuccess") /\ UNCHANGED left
       \/ /\ \/ tx["claim"] = "reverted" /\ UNCHANGED left
             \/ tx["claim"] \in {"pending", "ok"} /\ left.lost > 0
                /\ left' = [left EXCEPT !.lost = @ - 1]
          /\ exit(mem)
    /\ UNCHANGED <<chain, tx>>

-----------------------------------------------------------------------------
(* EventETHRefunded: sweep the XMR back *)

ReclaimMonero(m, caller) ==
    /\ mem' = [m EXCEPT !.loop = "sweepStatus", !.after = caller]
    /\ disk' = [disk EXCEPT !.key = TRUE]

\* The event is handled whatever event is expected next.
handleEventETHRefunded ==
    /\ Handling("refunded")
    /\ ReclaimMonero(Popped, "event")
    /\ UNCHANGED <<ledgers, left>>

setSweepStatus ==
    /\ mem.loop = "sweepStatus"
    /\ mem' = [mem EXCEPT !.loop = "sweep", !.status = "SweepingXMR"]
    /\ disk' = [disk EXCEPT !.status = "SweepingXMR"]
    /\ UNCHANGED <<ledgers, left>>

ClaimMonero ==
    /\ mem.loop = "sweep" /\ xmr = "locked" /\ ~mem.done
    /\ xmr' = "returned"
    /\ \/ mem.after # "startup" /\ Finish(mem, "CompletedRefund")
       \/ /\ mem.after = "startup"
          /\ mem' = NoSwap("none", mem.offer)
          /\ disk' = [disk EXCEPT !.status = "CompletedRefund"]
          /\ UNCHANGED wire
    /\ UNCHANGED <<now, stage, readyLog, tx, left>>

\* After a failed sweep the loop goes on without an exit, and the watcher has returned.
ClaimMoneroFails ==
    /\ mem.loop = "sweep"
    /\ \/ (xmr # "locked" \/ mem.done) /\ UNCHANGED left
       \/ xmr = "locked" /\ WalletFails
    /\ \/ /\ mem.after = "event"
          /\ mem' = [mem EXCEPT !.loop = "idle", !.after = "none"] /\ UNCHANGED <<disk, wire>>
       \/ mem.after = "exit" /\ Complete(mem)
       \/ mem.after = "startup" /\ mem' = NoSwap("none", mem.offer) /\ UNCHANGED <<disk, wire>>
    /\ UNCHANGED <<chain, tx>>

-----------------------------------------------------------------------------
(* EventExit *)

handleEventExit ==
    /\ \/ (Handling("exit") \/ Handling("claimed")) /\ exit(Popped)
       \/ Handling("cancel") /\ exit([Popped EXCEPT !.cancelling = TRUE])
    /\ UNCHANGED <<chain, tx, left>>

\* exit() takes one event from the channel.  An exit event is dropped and never answered.
exitWait ==
    /\ mem.loop = "exitWait" /\ mem.queue # <<>>
    /\ LET e == Head(mem.queue)
       IN \/ e = "refunded" /\ ReclaimMonero(Popped, "exit") /\ UNCHANGED <<wire, tx, left>>
          \/ e \in {"ready", "t1"} /\ ContractReady(Popped, "exit")
          \/ e \in {"ethLocked", "claimed", "exit", "cancel"} /\ Complete(Popped)
             /\ UNCHANGED <<tx, left>>
    /\ UNCHANGED chain

\* swap_cancel, for a swap the manager lists as ongoing.
Cancel ==
    /\ mem.status # "None" /\ ~mem.done /\ mem.after # "startup" /\ left.cancel > 0
    /\ mem' = [Push(mem, "cancel") EXCEPT !.waiting = @ + 1]
    /\ left' = [left EXCEPT !.cancel = @ - 1]
    /\ UNCHANGED <<ledgers, disk>>

\* swap_clearOffers without IDs; an offer that was taken is still in the database.
ClearAllOffers ==
    /\ mem.loop \notin {"down", "panicked"} /\ mem.after # "startup" /\ left.clear > 0
    /\ mem' = [mem EXCEPT !.offer = FALSE]
    /\ disk' = [disk EXCEPT !.offer = FALSE]
    /\ left' = [left EXCEPT !.clear = @ - 1]
    /\ UNCHANGED ledgers

runHandleEventsReturns ==
    /\ mem.loop = "idle" /\ mem.done
    /\ mem' = [NoSwap("none", mem.offer) EXCEPT !.waiting = mem.waiting]
    /\ UNCHANGED <<ledgers, disk, left>>

-----------------------------------------------------------------------------
(* Crash and restart *)

Crash ==
    /\ mem.loop \notin {"down", "panicked"} /\ left.crash > 0
    /\ mem' = NoSwap("down", FALSE)
    /\ left' = [left EXCEPT !.crash = @ - 1]
    /\ wire' = [wire EXCEPT !.open = FALSE]
    /\ UNCHANGED <<chain, tx, disk>>

\* Variation: a resumed swap does not watch the contract's logs.
newSwapStateFromOngoingNoWatcher ==
    [NoSwap("idle", FALSE) EXCEPT
        !.status = "XMRLocked",
        !.next = "ContractReady",
        !.run = IF now <= T2 THEN {"t1"} ELSE {}]

newSwapStateFromOngoing ==
    [NoSwap("idle", FALSE) EXCEPT
        !.status = "XMRLocked",
        !.next = "ContractReady",
        !.run = {"watcher"} \cup (IF now <= T2 THEN {"t1"} ELSE {})]

\* The offers in the database are listed first; a swap whose offer is gone is not resumed.
createOngoingSwap ==
    \/ /\ disk.key
       /\ mem' = [NoSwap("sweepStatus", disk.offer) EXCEPT !.after = "startup"]
       /\ UNCHANGED disk
    \/ /\ ~disk.key /\ ~disk.offer
       /\ mem' = NoSwap("none", FALSE) /\ UNCHANGED disk
    \/ /\ ~disk.key /\ disk.offer /\ stage = "CLAIMED"
       /\ mem' = NoSwap("none", FALSE)
       /\ disk' = [disk EXCEPT !.status = "CompletedSuccess", !.offer = FALSE]
    \/ /\ ~disk.key /\ disk.offer /\ stage # "CLAIMED"
       /\ mem' = newSwapStateFromOngoing /\ UNCHANGED disk

\* Variation: successful swaps are marked as swept back along with those being swept.
checkForOngoingSwapsRefunding ==
    /\ mem.loop \in {"down", "panicked"}
    /\ disk.status \in {"SweepingXMR", "CompletedSuccess"}
    /\ mem' = NoSwap("none", disk.offer)
    /\ disk' = [disk EXCEPT !.status = "CompletedRefund"]
    /\ UNCHANGED <<ledgers, left>>

checkForOngoingSwaps ==
    /\ mem.loop \in {"down", "panicked"}
    /\ \/ /\ disk.status \in {"None"} \cup CompletedStatuses
          /\ mem' = NoSwap("none", disk.offer) /\ UNCHANGED disk
       \/ /\ disk.status = "KeysExchanged"
          /\ mem' = NoSwap("none", disk.offer)
          /\ disk' = [disk EXCEPT !.status = "CompletedAbort"]
       \/ /\ disk.status = "SweepingXMR"
          /\ mem' = NoSwap("none", disk.offer)
          /\ disk' = [disk EXCEPT !.status = "CompletedRefund"]
       \/ disk.status = "XMRLocked" /\ createOngoingSwap
    /\ UNCHANGED <<ledgers, left>>

-----------------------------------------------------------------------------
(* The counterparty, and the chain *)

TakerRefunds ==
    /\ CanRefund /\ stage' = "REFUNDED"
    /\ UNCHANGED <<now, readyLog, tx, xmr, wire, makerVars>>

Counterparty ==
    /\ \/ /\ mem.loop = "none" /\ disk.status = "None" /\ wire.toMaker = "none" /\ stage = "None"
          /\ wire' = [wire EXCEPT !.toMaker = "keys", !.open = TRUE]
          /\ UNCHANGED <<stage, readyLog, xmr>>
       \/ /\ disk.status # "None" /\ stage = "None"
          /\ stage' = "PENDING"
          /\ UNCHANGED <<readyLog, xmr, wire>>
       \/ /\ wire.toTaker = "keys"
          /\ wire' = [wire EXCEPT !.toTaker = "none"]
          /\ UNCHANGED <<stage, readyLog, xmr>>
       \/ /\ wire.open /\ wire.toMaker = "none" /\ disk.status # "None"
          /\ wire' = [wire EXCEPT !.toMaker = "ethLocked", !.open = FALSE]
          /\ UNCHANGED <<stage, readyLog, xmr>>
       \/ wire.open /\ wire' = [wire EXCEPT !.open = FALSE] /\ UNCHANGED <<stage, readyLog, xmr>>
       \/ stage = "PENDING" /\ stage' = "READY" /\ readyLog' = TRUE /\ UNCHANGED <<xmr, wire>>
       \/ /\ stage = "CLAIMED" /\ xmr = "locked"
          /\ xmr' = "taker" /\ UNCHANGED <<stage, readyLog, wire>>
    /\ UNCHANGED <<now, tx, makerVars>>

Busy ==
    \/ tx["claim"] = "pending"
    \/ mem.loop \notin {"none", "idle", "exitWait", "down", "panicked"}
    \/ mem.loop = "idle" /\ ~mem.done /\ mem.queue # <<>>
    \/ mem.loop = "exitWait" /\ mem.queue # <<>>
    \/ mem.net = "closing" \/ T1Due
    \/ WatcherFree /\ \E l \in Logs \ mem.seen : Emitted(l)

NewBlock ==
    \/ Include("claim") /\ UNCHANGED makerVars
    \/ (Prompt => ~Busy) /\ Tick /\ UNCHANGED makerVars

MakerStep ==
    \/ HandleProtocolMessage \/ NotifyStreamClosed
    \/ handleNotifyETHLocked \/ exitAfterError
    \/ lockFunds \/ Transfer \/ TransferConfirmed
    \/ runContractEventWatcher \/ runT1ExpirationHandler
    \/ handleEventContractReady \/ claimFunds
    \/ handleEventETHRefunded \/ setSweepStatus \/ ClaimMonero \/ ClaimMoneroFails
    \/ handleEventExit \/ exitWait \/ settleOffer \/ runHandleEventsReturns
    \/ checkForOngoingSwaps

MakerNext ==
    \/ HandleInitiateMessage \/ handleProtocolStreamFails
    \/ Cancel \/ ClearAllOffers \/ Crash
    \/ MakerStep

Init == LedgerInit /\ MakerInit

Next == MakerNext \/ Counterparty \/ TakerRefunds \/ NewBlock

Spec == Init /\ [][Next]_vars

\* Goroutines that can go on do, the daemon is restarted, and blocks keep being made.
FairSpec == Spec /\ WF_vars(MakerStep) /\ SF_vars(NewBlock)

\* The taker's daemon refunds what is left at timeout2 (its runT2ExpirationHandler).
RefundsAtT2 == WF_vars(now >= T2 /\ TakerRefunds)

-----------------------------------------------------------------------------
(* Properties *)

\* No XMR are locked in a swap recorded as aborted: lockFunds writes XMRLocked to the
\* database before the transfer, so that a restart never takes a locked swap for an early one.
AbortedBeforeLocking == disk.status = "CompletedAbort" => xmr = "maker"

\* A swap is recorded as successful only when the maker has the ETH on chain.
SuccessIsClaimed == disk.status = "CompletedSuccess" => stage = "CLAIMED"

\* The record of a success or a refund never changes: not by a late event, not by a restart.
SettledIsFinal ==
    disk.status \in {"CompletedSuccess", "CompletedRefund"} => disk'.status = disk.status

\* Without a crash or a failed transfer, the maker claims the ETH only after it has locked
\* its XMR, however late the contract's logs and timeout1 are handled (claimFunds).
ClaimOnlyAfterLock ==
    Without({"crash", "wallet"}) => (tx["claim"] # "none" => xmr # "maker")

\* Without a crash, a failed sweep or a cancel, a swap recorded as refunded has its XMR
\* back in the maker's wallet, also after a panic on a second EventContractReady.
RefundIsSwept ==
    Without({"crash", "wallet", "cancel"}) => (disk.status = "CompletedRefund" => xmr = "returned")

\* Without a crash, an offer is listed again only if it "wasn't taken successfully" (exit).
SoldOfferNotListed ==
    Without({"crash"}) =>
        (mem.offer => ~(disk.status = "CompletedSuccess" /\ mem.loop # "settleOffer"))

\* An offer that is in the database and not in a swap is listed by the running daemon,
\* unless the wallet failed while the offer was being taken (exit, checkForOngoingSwaps).
FreeOfferListed ==
    Without({"wallet"}) =>
        (mem.loop = "none" /\ disk.offer /\ disk.status \notin Ongoing => mem.offer)

\* A maker that is never late and neither crashes nor loses a claim handles
\* EventContractReady once, although both the Ready log and timeout1 send it: readyCh is not
\* closed twice, which panics.
NeverPanics == Without({"crash", "lost"}) => mem.loop # "panicked"

\* XMR locked against ETH that are still in the contract are eventually paid for or swept
\* back, unless a fault happens.
XmrSettles ==
    (xmr = "locked" /\ stage \notin Completed)
        ~> (stage = "CLAIMED" \/ xmr = "returned" \/ ~Without(DOMAIN left))

\* Once the database says that the XMR are locked, and if the taker refunds at timeout2,
\* the maker gets the ETH or the key to the XMR, even if the daemon crashes and is
\* restarted after timeout2 (createOngoingSwap).
LockedXmrRecoverable ==
    RefundsAtT2 =>
        ((disk.status = "XMRLocked" /\ stage \notin Completed)
            ~> (stage = "CLAIMED" \/ disk.key \/ ~Without({"lost", "cancel", "wallet", "clear"})))

-----------------------------------------------------------------------------
(* What the comments say *)

\* While it waits in exit(), "the next event will either be EventContractReady or
\* EventETHRefunded": the daemon does not drop a swap in which its XMR are locked.
NoSwapDropped == mem.loop = "none" => disk.status # "XMRLocked"
=============================================================================
