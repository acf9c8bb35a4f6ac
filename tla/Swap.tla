--------------------------------- MODULE Swap ---------------------------------
(***************************************************************************)
(* One swap with both daemons: XMRTaker and XMRMaker on the same chains    *)
(* and on the two ends of one protocol stream.  Neither has to reckon with *)
(* an arbitrary counterparty here; each step is a step of one daemon, a    *)
(* transaction's inclusion or the passing of time.                         *)
(***************************************************************************)
EXTENDS SwapLedgers, FiniteSetsExt

CONSTANTS
    GiveUpMargin,       \* of the taker
    LockSlack,          \* of the maker
    Prompt,             \* no block is made while a daemon has something to do
    MaxFaults           \* bound: crashes, lost receipts, failed sweeps and transfers and
                        \* swap_cancel calls, of both daemons together

VARIABLES
    taker, takerDB, takerLeft,      \* the taker's process, its database and its faults
    maker, makerDB, makerLeft       \* the same of the maker

takerVars == <<taker, takerDB, takerLeft>>
makerVars == <<maker, makerDB, makerLeft>>
vars == <<ledgers, takerVars, makerVars>>

\* Each daemon sees its own transactions; the other's show in the contract only.
Own(ops) == [op \in Ops |-> IF op \in ops THEN tx[op] ELSE "none"]

T == INSTANCE XMRTaker WITH
        mem <- taker, disk <- takerDB, left <- takerLeft,
        MaxCrashes <- MaxFaults, MaxLostReceipts <- MaxFaults,
        MaxSweepFailures <- MaxFaults, MaxCancels <- MaxFaults

M == INSTANCE XMRMaker WITH
        mem <- maker, disk <- makerDB, left <- makerLeft,
        MaxCrashes <- MaxFaults, MaxLostReceipts <- MaxFaults,
        MaxWalletFailures <- MaxFaults, MaxCancels <- MaxFaults, MaxClears <- 0

Init == LedgerInit /\ T!TakerInit /\ M!MakerInit

\* A stream is opened to a daemon that runs.
TakerActs ==
    /\ T!TakerNext
    /\ ~wire.open /\ wire'.open => maker.loop = "none"
    /\ UNCHANGED makerVars

MakerActs == M!MakerNext /\ UNCHANGED takerVars

NewBlock ==
    /\ \/ \E op \in Ops : Include(op)
       \/ (Prompt => ~T!Busy /\ ~M!Busy) /\ Tick
    /\ UNCHANGED <<takerVars, makerVars>>

Faults ==
    LET used(l) == MapThenSumSet(LAMBDA f : MaxFaults - l[f], DOMAIN l \ {"clear"})
    IN used(takerLeft) + used(makerLeft)

Bounded == Faults' <= MaxFaults

Next == (TakerActs \/ MakerActs \/ NewBlock) /\ Bounded

Spec == Init /\ [][Next]_vars

\* The fairness of both daemons and of the chain (XMRTaker, XMRMaker).
FairSpec ==
    /\ Spec
    /\ WF_vars(T!TakerStep /\ UNCHANGED makerVars /\ Bounded)
    /\ WF_vars(M!MakerStep /\ UNCHANGED takerVars /\ Bounded)
    /\ SF_vars(NewBlock)

-----------------------------------------------------------------------------
(* Properties *)

\* Nobody ends up with both currencies, whatever is lost, late, cancelled or restarted (the
\* XMR are swept back only after a refund and by the taker only after a claim), and the two
\* databases never tell different stories: when one daemon records a success, the other
\* records no refund and no abort, and a maker's refund is no abort of the taker's (exit and
\* checkForOngoingSwaps on both sides).
Atomic ==
    /\ stage = "CLAIMED" => xmr # "returned"
    /\ stage = "REFUNDED" => xmr # "taker"
    /\ takerDB.status = "CompletedSuccess" => makerDB.status \notin {"CompletedRefund", "CompletedAbort"}
    /\ makerDB.status = "CompletedSuccess" => takerDB.status \notin {"CompletedRefund", "CompletedAbort"}
    /\ makerDB.status = "CompletedRefund" => takerDB.status # "CompletedAbort"

\* Among daemons that are never late, every swap whose ETH were locked ends with both
\* currencies exchanged, or with the ETH back and the XMR back or the maker's to take with
\* the key in its database, even if the taker cancels and the maker restarts; unless the taker
\* crashes, the maker cancels, a receipt is lost or a Monero wallet fails.
SwapSettles ==
    stage = "PENDING" ~>
        \/ stage = "CLAIMED" /\ xmr = "taker"
        \/ stage = "REFUNDED" /\ (xmr \in {"maker", "returned"} \/ makerDB.key)
        \/ ~T!Without({"crash", "lost", "sweep"}) \/ ~M!Without({"lost", "wallet", "cancel"})

-----------------------------------------------------------------------------
(* What each daemon's module says of the counterparty covers the other daemon *)

TakerAlone == INSTANCE XMRTaker WITH
        mem <- taker, disk <- takerDB, left <- takerLeft, tx <- Own(Ops \ {"claim"}),
        MaxCrashes <- MaxFaults, MaxLostReceipts <- MaxFaults,
        MaxSweepFailures <- MaxFaults, MaxCancels <- MaxFaults

MakerAlone == INSTANCE XMRMaker WITH
        mem <- maker, disk <- makerDB, left <- makerLeft, tx <- Own({"claim"}),
        MaxCrashes <- MaxFaults, MaxLostReceipts <- MaxFaults,
        MaxWalletFailures <- MaxFaults, MaxCancels <- MaxFaults, MaxClears <- 0

\* Every step of the two daemons together is a step that XMRTaker and XMRMaker allow: the maker
\* does nothing that XMRTaker's Counterparty does not do, and the taker nothing that XMRMaker's
\* Counterparty and TakerRefunds do not do.
CounterpartiesCovered == TakerAlone!Spec /\ MakerAlone!Spec
=============================================================================
