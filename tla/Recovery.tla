------------------------------ MODULE Recovery --------------------------------
(***************************************************************************)
(* The records a daemon keeps to survive a crash (db/recovery_db.go, the   *)
(* swap and offer tables of db/database.go and the offer manager), over    *)
(* several swaps of one offer.  Records are filed under the offer's ID and *)
(* are never deleted, so a later swap of the offer finds those of an       *)
(* earlier one; here every record is the number of the swap that wrote it  *)
(* (0: none).                                                              *)
(*                                                                         *)
(* swap is the process's swap state, with pc the step its handler is about *)
(* to take; table the swap table's entry; rec the recovery records; offer  *)
(* the maker's offer; eth and xmr where the coins of each swap are.  ETH   *)
(* that are locked can be refunded, then, after timeout1, only be claimed  *)
(* (claimable), and after timeout2 only be refunded (expired).             *)
(***************************************************************************)
EXTENDS Integers, FiniteSets

CONSTANTS
    Roles,          \* the roles to start from: a subset of {"taker", "maker"}
    MaxSwaps,       \* bounds: swaps of the offer,
    MaxCrashes,     \* crashes,
    MaxUnsaved,     \* crashes after newSwap is sent and before its hash is stored,
    MaxNoReceipts,  \* waits for newSwap's receipt that fail,
    MaxClears,      \* swap_clearOffers calls,
    MaxPurges       \* offers the database can no longer decode

VARIABLES role, daemon, swap, table, rec, offer, eth, xmr, left

vars == <<role, daemon, swap, table, rec, offer, eth, xmr, left>>

Swaps == 1 .. MaxSwaps
Records == {"relayer", "contract", "key", "theirSecret", "theirKeys", "newSwapTx"}
Final == {"CompletedSuccess", "CompletedRefund", "CompletedAbort"}
Locked == {"ETHLocked", "ContractReady", "XMRLocked"}
EthInContract == {"locked", "claimable", "expired"}
Status == Final \cup Locked \cup {"None", "ExpectingKeys", "KeysExchanged", "SweepingXMR"}
StatusOf(r) == Status \ (IF r = "taker" THEN {"KeysExchanged", "XMRLocked"}
                         ELSE {"ExpectingKeys", "ETHLocked", "ContractReady"})

NoSwap == [n |-> 0, status |-> "None", pc |-> "none", relay |-> FALSE]
Budget == [swap |-> MaxSwaps, crash |-> MaxCrashes, unsaved |-> MaxUnsaved, receipt |-> MaxNoReceipts,
           clear |-> MaxClears, purge |-> MaxPurges]
Without(faults) == \A f \in faults : left[f] = Budget[f]
Spend(f) == left[f] > 0 /\ left' = [left EXCEPT ![f] = @ - 1]

TypeOK ==
    /\ role \in {"taker", "maker"} /\ daemon \in {"up", "down", "refused"}
    /\ swap \in [n : 0 .. MaxSwaps, status : StatusOf(role), relay : BOOLEAN,
                 pc : {"none", "genKeys", "keys", "send", "save", "receipt", "info", "set",
                       "transfer", "locked", "secret", "sweepStatus", "sweep", "complete", "offer"}]
    /\ table \in [n : 0 .. MaxSwaps, status : StatusOf(role)]
    /\ rec \in [Records -> 0 .. MaxSwaps]
    /\ offer \in [mem : BOOLEAN, db : BOOLEAN, relay : BOOLEAN, wanted : SUBSET Swaps]
    /\ eth \in [Swaps -> {"none", "pending", "cancelled", "settled"} \cup EthInContract]
    /\ xmr \in [Swaps -> {"none", "locked", "returned", "sold"}]
    /\ left \in [DOMAIN Budget -> Nat]

Init ==
    /\ role \in Roles /\ daemon = "up" /\ swap = NoSwap
    /\ table = [n |-> 0, status |-> "None"]
    /\ rec = [r \in Records |-> 0]
    /\ offer \in [mem : {TRUE}, db : {TRUE}, relay : BOOLEAN, wanted : {{}}]
    /\ eth = [n \in Swaps |-> "none"] /\ xmr = [n \in Swaps |-> "none"]
    /\ left = Budget

At(pc) == daemon = "up" /\ swap.pc = pc
n == swap.n
Goto(pc) == swap' = [swap EXCEPT !.pc = pc]

\* The records' Put methods.
PutAndGoto(r, pc) == rec' = [rec EXCEPT ![r] = n] /\ Goto(pc)
PutSwap(i, s) == table' = [n |-> i, status |-> s]

\* setNextExpectedEvent and setSweepStatus: the status, in memory and in the table.
SetStatus(s, pc) == swap' = [swap EXCEPT !.status = s, !.pc = pc] /\ PutSwap(n, s)

-----------------------------------------------------------------------------
(* The offer *)

\* A taken offer leaves the memory and stays in the database.  (wanted, which no step reads, are
\* the swaps taken while the offer asked for a relayer.)
TakeOffer(i) ==
    offer' = [offer EXCEPT !.mem = FALSE, !.wanted = IF offer.relay THEN @ \cup {i} ELSE @]

AddOffer(relay) ==
    offer' = IF offer.mem THEN offer ELSE [offer EXCEPT !.mem = TRUE, !.db = TRUE, !.relay = relay]

DeleteOffer == offer' = [offer EXCEPT !.mem = FALSE, !.db = FALSE]

\* swap_clearOffers, with or without IDs; the offer of an ongoing swap goes too.
ClearAllOffers ==
    /\ role = "maker" /\ daemon = "up" /\ Spend("clear")
    /\ DeleteOffer
    /\ UNCHANGED <<role, daemon, swap, table, rec, eth, xmr>>

-----------------------------------------------------------------------------
(* Both roles: starting and finishing *)

PutSwapRelayerInfo(i) == IF offer.relay THEN [rec EXCEPT !["relayer"] = i] ELSE rec

\* The offer is taken (again): nothing asks whether the table holds an ongoing swap of it.  A
\* taker can take what the other side still lists.
newSwapStateFromStart ==
    /\ daemon = "up" /\ swap.pc = "none" /\ Spend("swap")
    /\ LET i == table.n + 1
           first == IF role = "taker" THEN "ExpectingKeys" ELSE "KeysExchanged"
       IN /\ \/ role = "taker" /\ table.status # "CompletedSuccess" /\ UNCHANGED <<rec, offer>>
             \/ role = "maker" /\ offer.mem /\ TakeOffer(i) /\ rec' = PutSwapRelayerInfo(i)
          /\ swap' = [NoSwap EXCEPT !.n = i, !.status = first, !.pc = "genKeys",
                                    !.relay = role = "maker" /\ offer.relay]
          /\ PutSwap(i, first)
    /\ UNCHANGED <<role, daemon, eth, xmr>>

generateAndSetKeys ==
    /\ At("genKeys") /\ PutAndGoto("key", "keys")
    /\ UNCHANGED <<role, daemon, table, offer, eth, xmr, left>>

setCounterpartyKeys ==
    /\ At("keys") /\ PutAndGoto("theirKeys", IF role = "taker" THEN "send" ELSE "info")
    /\ UNCHANGED <<role, daemon, table, offer, eth, xmr, left>>

\* exit() before anything is locked.
abort ==
    /\ At("keys") \/ (role = "maker" /\ At("info"))
    /\ swap' = [swap EXCEPT !.status = "CompletedAbort", !.pc = "complete"]
    /\ UNCHANGED <<role, daemon, table, rec, offer, eth, xmr, left>>

CompleteOngoingSwap ==
    /\ At("complete") /\ PutSwap(n, swap.status) /\ Goto("offer")
    /\ UNCHANGED <<role, daemon, rec, offer, eth, xmr, left>>

\* The rest of exit()'s deferred function: the maker's offer is listed again unless it was sold.
\* DeleteSwap deletes no record.
exited ==
    /\ At("offer") /\ swap' = NoSwap
    /\ IF role = "taker" THEN UNCHANGED offer
       ELSE IF swap.status = "CompletedSuccess" THEN DeleteOffer ELSE AddOffer(swap.relay)
    /\ UNCHANGED <<role, daemon, table, rec, eth, xmr, left>>

-----------------------------------------------------------------------------
(* The taker *)

\* newSwap is sent, its hash stored by the sender's callback, and its receipt awaited.
NewSwap ==
    /\ At("send") /\ eth' = [eth EXCEPT ![n] = "pending"] /\ Goto("save")
    /\ UNCHANGED <<role, daemon, table, rec, offer, xmr, left>>


saveNewSwapTxCallback ==
    /\ At("save") /\ PutAndGoto("newSwapTx", "receipt")
    /\ UNCHANGED <<role, daemon, table, offer, eth, xmr, left>>

lockAndWaitForReceipt ==
    /\ At("receipt") /\ eth[n] \in EthInContract /\ Goto("info")
    /\ UNCHANGED <<role, daemon, table, rec, offer, eth, xmr, left>>

\* The wait for the receipt fails: the handler returns with fundsLocked unset, the stream is closed
\* and exit() takes the swap for one that has locked nothing.
handleEventKeysReceivedFails ==
    /\ At("receipt") /\ eth[n] = "pending" /\ Spend("receipt")
    /\ swap' = [swap EXCEPT !.status = "CompletedAbort", !.pc = "complete"]
    /\ UNCHANGED <<role, daemon, table, rec, offer, eth, xmr>>

\* The network mines a transaction in its own time.
Mined ==
    \E i \in Swaps :
        /\ eth[i] = "pending" /\ eth' = [eth EXCEPT ![i] = "locked"]
        /\ UNCHANGED <<role, daemon, swap, table, rec, offer, xmr, left>>

\* Timeout1 and then timeout2 of a swap of the contract pass.
TimePasses ==
    \E i \in Swaps :
        /\ eth[i] \in {"locked", "claimable"}
        /\ eth' = [eth EXCEPT ![i] = IF @ = "locked" THEN "claimable" ELSE "expired"]
        /\ UNCHANGED <<role, daemon, swap, table, rec, offer, xmr, left>>

\* Variation: the contract's swap is stored after the status.
PutContractSwapInfoLate ==
    /\ At("info") /\ Goto("set")
    /\ UNCHANGED <<role, daemon, table, rec, offer, eth, xmr, left>>

PutContractSwapInfo ==
    /\ At("info") /\ PutAndGoto("contract", "set")
    /\ UNCHANGED <<role, daemon, table, offer, eth, xmr, left>>

setNextExpectedEvent ==
    /\ \/ role = "taker" /\ At("set") /\ SetStatus("ETHLocked", "locked")
       \/ role = "maker" /\ At("set") /\ SetStatus("XMRLocked", "transfer")
       \/ role = "taker" /\ At("locked") /\ swap.status = "ETHLocked" /\ SetStatus("ContractReady", "locked")
    /\ UNCHANGED <<role, daemon, rec, offer, eth, xmr, left>>

\* The refund, or the claim by the maker which reveals its secret.
takerSettles ==
    /\ role = "taker" /\ At("locked")
    /\ eth' = [eth EXCEPT ![n] = "settled"]
    /\ \/ /\ eth[n] \in {"locked", "expired"} \/ (eth[n] = "settled" /\ xmr[n] = "none")
          /\ swap' = [swap EXCEPT !.status = "CompletedRefund", !.pc = "complete"] /\ UNCHANGED xmr
       \/ /\ eth[n] \in {"locked", "claimable"} \/ (eth[n] = "settled" /\ xmr[n] = "locked")
          /\ Goto("secret") /\ xmr' = [xmr EXCEPT ![n] = "locked"]
    /\ UNCHANGED <<role, daemon, table, rec, offer, left>>

-----------------------------------------------------------------------------
(* The maker *)

Transfer ==
    /\ At("transfer") /\ xmr' = [xmr EXCEPT ![n] = "locked"] /\ Goto("locked")
    /\ UNCHANGED <<role, daemon, table, rec, offer, eth, left>>

\* The maker claims the ETH, or the taker's refund reveals its secret.
makerSettles ==
    /\ role = "maker" /\ At("locked")
    /\ eth' = [eth EXCEPT ![n] = "settled"]
    /\ \/ /\ eth[n] # "settled" /\ xmr[n] = "locked"
          /\ swap' = [swap EXCEPT !.status = "CompletedSuccess", !.pc = "complete"]
          /\ xmr' = [xmr EXCEPT ![n] = "sold"]
       \/ Goto("secret") /\ UNCHANGED xmr
    /\ UNCHANGED <<role, daemon, table, rec, offer, left>>

-----------------------------------------------------------------------------
(* Both roles: the counterparty's secret, and the sweep *)

PutCounterpartySwapPrivateKey ==
    /\ At("secret") /\ PutAndGoto("theirSecret", "sweepStatus")
    /\ UNCHANGED <<role, daemon, table, offer, eth, xmr, left>>

setSweepStatus ==
    /\ At("sweepStatus") /\ SetStatus("SweepingXMR", "sweep")
    /\ UNCHANGED <<role, daemon, rec, offer, eth, xmr, left>>

\* The swap's wallet is made from both secrets: with another swap's secret it is empty.
ClaimMonero ==
    /\ At("sweep") /\ xmr[n] = "locked"
    /\ xmr' = [xmr EXCEPT ![n] = "returned"]
    /\ swap' = [swap EXCEPT !.status = IF role = "taker" THEN "CompletedSuccess" ELSE "CompletedRefund",
                            !.pc = "complete"]
    /\ UNCHANGED <<role, daemon, table, rec, offer, eth, left>>

-----------------------------------------------------------------------------
(* Crashes and restarts *)

Crash ==
    /\ daemon = "up" /\ left.crash > 0
    /\ \/ swap.pc # "save" /\ left' = [left EXCEPT !.crash = @ - 1]
       \/ swap.pc = "save" /\ left.unsaved > 0
          /\ left' = [left EXCEPT !.crash = @ - 1, !.unsaved = @ - 1]
    /\ daemon' = "down" /\ swap' = NoSwap
    /\ UNCHANGED <<role, table, rec, offer, eth, xmr>>


\* The offer manager's NewManager lists every offer of the database, without relayer; resuming
\* a swap takes its offer.
NewManager(db, took) == [offer EXCEPT !.mem = db /\ ~took, !.db = db, !.relay = FALSE]

Up == daemon' = "up"

\* The table's entry when the start-up leaves it alone.
Keep(purged) == table' = IF purged THEN [table EXCEPT !.status = "None"] ELSE table

abortOngoingSwap ==
    /\ table.status = "KeysExchanged" \/ (table.status = "ExpectingKeys" /\ rec["newSwapTx"] = 0)
    /\ PutSwap(table.n, "CompletedAbort") /\ swap' = NoSwap
    /\ UNCHANGED <<eth, xmr>> /\ Up

\* A pending newSwap is replaced; the swap stays ongoing, without a swap state.
maybeCancelNewSwap(i) == eth[i] = "pending" /\ eth' = [eth EXCEPT ![i] = "cancelled"]

\* TransactionByHash does not know a replaced newSwap, and a swap that is no longer pending
\* is not refunded, nor one between timeout1 and timeout2, nor one by the secret of another.
RefundFails(i) == eth[i] \in {"cancelled", "settled", "claimable"} \/ rec["key"] # i

\* newSwap is found by the recorded hash, of whichever swap it is; it is refunded if it is still
\* locked, with the recorded key.  An error ends the daemon's start.
refundOrCancelNewSwap ==
    /\ role = "taker" /\ table.status = "ExpectingKeys" /\ rec["newSwapTx"] # 0
    /\ LET i == rec["newSwapTx"]
       IN \/ maybeCancelNewSwap(i) /\ Up /\ UNCHANGED table
          \/ /\ ~RefundFails(i)
             /\ eth' = [eth EXCEPT ![i] = "settled"]
             /\ PutSwap(table.n, "CompletedRefund") /\ Up
          \/ /\ RefundFails(i)
             /\ daemon' = "refused" /\ UNCHANGED <<table, eth>>
    /\ swap' = NoSwap /\ UNCHANGED xmr

\* A crash after that refund, before the swap is marked as refunded.
CrashInRefund ==
    /\ daemon = "down" /\ role = "taker" /\ table.status = "ExpectingKeys" /\ rec["newSwapTx"] # 0
    /\ ~RefundFails(rec["newSwapTx"]) /\ Spend("crash")
    /\ eth' = [eth EXCEPT ![rec["newSwapTx"]] = "settled"]
    /\ UNCHANGED <<role, daemon, swap, table, rec, offer, xmr>>

\* The operator starts the daemon again after a start that failed.
StartAgain ==
    /\ daemon = "refused" /\ daemon' = "down"
    /\ UNCHANGED <<role, swap, table, rec, offer, eth, xmr, left>>

\* A swap that was being swept is taken to have been swept.
sweptOngoingSwap ==
    /\ table.status = "SweepingXMR"
    /\ PutSwap(table.n, IF role = "taker" THEN "CompletedSuccess" ELSE "CompletedRefund")
    /\ swap' = NoSwap /\ UNCHANGED <<eth, xmr>> /\ Up

\* The counterparty's secret is on record: the XMR are swept, if it is this swap's secret.
\* With another the wallet is empty: the sweep fails after its status was written.
completeSwap ==
    /\ table.status \in Locked /\ rec["theirSecret"] # 0
    /\ LET own == rec["theirSecret"] = table.n /\ xmr[table.n] = "locked"
       IN \/ /\ own /\ xmr' = [xmr EXCEPT ![table.n] = "returned"]
             /\ PutSwap(table.n, IF role = "taker" THEN "CompletedSuccess" ELSE "CompletedRefund")
          \/ ~own /\ PutSwap(table.n, "SweepingXMR") /\ UNCHANGED xmr
    /\ swap' = NoSwap /\ UNCHANGED eth /\ Up

\* newSwapStateFromOngoing, from the records.
Resumed ==
    swap' = [n |-> table.n, status |-> table.status, pc |-> "locked",
             relay |-> role = "maker" /\ rec["relayer"] # 0]

Resumable(db) == (role = "maker" => db) /\ rec["contract"] # 0 /\ rec["key"] # 0

\* checkIfAlreadyClaimed: the maker may find its ETH claimed, by itself or by a relayer.
AlreadyClaimed == role = "maker" /\ eth[table.n] = "settled" /\ xmr[table.n] = "sold"

createOngoingSwap(db, purged) ==
    /\ table.status \in Locked /\ rec["theirSecret"] = 0
    /\ \/ Resumable(db) /\ ~AlreadyClaimed /\ Resumed /\ UNCHANGED table
       \/ Resumable(db) /\ AlreadyClaimed /\ PutSwap(table.n, "CompletedSuccess") /\ swap' = NoSwap
       \/ ~Resumable(db) /\ swap' = NoSwap /\ Keep(purged)
    /\ UNCHANGED <<eth, xmr>> /\ Up

NothingOngoing(purged) ==
    table.status \in Final \cup {"None"} /\ swap' = NoSwap /\ Keep(purged) /\ UNCHANGED <<eth, xmr>> /\ Up

\* An offer that cannot be decoded is purged with the swap entry of the same ID, which the swap
\* manager has loaded before.
purgeInvalidOffer == role = "maker" /\ offer.db /\ Spend("purge")

\* The daemon starts: the swap is loaded, then the offers, then the ongoing swap is looked at.
checkForOngoingSwaps ==
    \E purged \in BOOLEAN :
        LET db == offer.db /\ ~purged
        IN /\ daemon = "down"
           /\ IF purged THEN purgeInvalidOffer ELSE UNCHANGED left
           /\ \/ abortOngoingSwap \/ refundOrCancelNewSwap \/ sweptOngoingSwap \/ completeSwap
              \/ createOngoingSwap(db, purged) \/ NothingOngoing(purged)
           /\ LET claimed == table.status \in Locked /\ table'.status = "CompletedSuccess" /\ role = "maker"
              IN offer' = NewManager(db /\ ~claimed, swap'.n # 0)
           /\ UNCHANGED <<role, rec>>

Next ==
    \/ ClearAllOffers \/ newSwapStateFromStart \/ generateAndSetKeys \/ setCounterpartyKeys \/ abort
    \/ CompleteOngoingSwap \/ exited \/ NewSwap \/ saveNewSwapTxCallback \/ lockAndWaitForReceipt
    \/ handleEventKeysReceivedFails \/ Mined \/ TimePasses \/ PutContractSwapInfo \/ setNextExpectedEvent
    \/ takerSettles \/ Transfer \/ makerSettles
    \/ PutCounterpartySwapPrivateKey \/ setSweepStatus \/ ClaimMonero
    \/ Crash \/ CrashInRefund \/ StartAgain \/ checkForOngoingSwaps

Spec == Init /\ [][Next]_vars

-----------------------------------------------------------------------------
(* Properties *)

\* A database that says coins are locked holds the key, the contract's swap and the
\* counterparty's keys of that very swap, not those of an earlier swap of the offer.
RecordsCurrent ==
    table.status \in Locked => \A r \in {"key", "contract", "theirKeys"} : rec[r] = table.n

\* ETH in the contract, or on the way to it, belong to the swap the database or the process
\* holds as ongoing, unless the daemon crashed before it stored newSwap's hash or gave up the
\* wait for newSwap's receipt.
LockedEthKnown ==
    Without({"unsaved", "receipt"}) /\ role = "taker"
        => \A i \in Swaps :
              eth[i] \in {"pending"} \cup EthInContract => table.n = i /\ table.status \notin Final

\* XMR that are locked and not sold belong to a swap recorded as ongoing: what is recorded as
\* refunded was swept, unless an earlier swap of the offer left its secret or a crash interrupted
\* the sweep, and unless the offer could not be decoded.
LockedXmrKnown ==
    role = "maker" /\ Without({"purge"}) /\ rec["theirSecret"] = 0
        => \A i \in Swaps : xmr[i] = "locked" => table.n = i /\ table.status \in Locked

\* After its first crash, in the first swap of an offer, the daemon refuses to start only between
\* timeout1 and timeout2, when newSwap can be neither cancelled nor refunded: anything else that
\* makes refundOrCancelNewSwap fail was left behind by an earlier swap or an earlier start.
FirstSwapStarts ==
    daemon = "down" /\ daemon' = "refused" /\ table.n = 1 /\ left.crash = MaxCrashes - 1
        => eth[1] = "claimable"

\* An offer whose swap is running is not listed, whatever crashed before.
OfferTakenOnce == role = "maker" /\ swap.pc \notin {"none"} => ~offer.mem

\* A maker that started a swap with a relayer resumes it with one, and can claim without ETH.
RelayerKept ==
    role = "maker" /\ swap.pc = "locked" /\ n \in offer.wanted => swap.relay

\* completeSwap finds the secret of the swap it completes.
SecretIsOwn ==
    daemon = "down" /\ table.status \in Locked /\ rec["theirSecret"] # 0 => rec["theirSecret"] = table.n
=============================================================================
