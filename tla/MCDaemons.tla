------------------------------ MODULE MCDaemons -------------------------------
(***************************************************************************)
(* The taker's daemon and the maker's daemon, each against an arbitrary    *)
(* counterparty, and both on one swap.  role says whose daemon a behaviour *)
(* is about; the two modules have the same variables, and peer, peerDisk   *)
(* and peerLeft are the maker's when both daemons run.                     *)
(***************************************************************************)
EXTENDS Integers

CONSTANTS
    TakerTimeout, MakerTimeout,     \* Timeout, in the instance of each
    GiveUpMargin, LockSlack, Prompt,
    Roles,                      \* the behaviours of the run: "taker", "maker", "both"
    MaxCrashes, TakerLostReceipts, MakerLostReceipts,
    MaxSweepFailures, MaxWalletFailures, MaxClears,
    MaxFaults,                  \* of both daemons together
    TakerCancels, MakerCancels  \* bounds: swap_cancel calls of either

VARIABLES now, stage, readyLog, tx, xmr, wire
VARIABLES role, mem, disk, left, peer, peerDisk, peerLeft

Taker == INSTANCE XMRTaker WITH
            Timeout <- TakerTimeout, MaxLostReceipts <- TakerLostReceipts, MaxCancels <- TakerCancels

Maker == INSTANCE XMRMaker WITH
            Timeout <- MakerTimeout, MaxLostReceipts <- MakerLostReceipts, MaxCancels <- MakerCancels

Both == INSTANCE Swap WITH
            Timeout <- MakerTimeout, taker <- mem, takerDB <- disk, takerLeft <- left,
            maker <- peer, makerDB <- peerDisk, makerLeft <- peerLeft

peerVars == <<peer, peerDisk, peerLeft>>
vars == <<now, stage, readyLog, tx, xmr, wire, mem, disk, left, peerVars, role>>

Init ==
    /\ role \in Roles
    /\ \/ role = "taker" /\ Taker!Init
       \/ role = "maker" /\ Maker!Init
       \/ role = "both" /\ Both!Init
    /\ role # "both" => peer = "none" /\ peerDisk = "none" /\ peerLeft = "none"

Next ==
    /\ \/ role = "taker" /\ Taker!Next /\ UNCHANGED peerVars
       \/ role = "maker" /\ Maker!Next /\ UNCHANGED peerVars
       \/ role = "both" /\ Both!Next
    /\ UNCHANGED role

Spec == Init /\ [][Next]_vars

DaemonStep ==
    /\ \/ role = "taker" /\ Taker!TakerStep
       \/ role = "maker" /\ Maker!MakerStep
    /\ UNCHANGED <<peerVars, role>>

NewBlock ==
    /\ \/ role = "taker" /\ Taker!NewBlock
       \/ role = "maker" /\ Maker!NewBlock
    /\ UNCHANGED <<peerVars, role>>

\* Goroutines that can go on do, a daemon is restarted, and blocks keep being made; for the
\* runs of one daemon.
FairSpec == Spec /\ WF_vars(DaemonStep) /\ SF_vars(NewBlock)

-----------------------------------------------------------------------------
(* The properties of XMRTaker and XMRMaker *)

\* Types of both daemons' state.
TypeOK == (role = "taker" => Taker!TypeOK) /\ (role = "maker" => Maker!TypeOK)

\* The ETH change hands only for XMR that are locked: the taker calls setReady only then,
\* whatever was lost, retried, cancelled or restarted on the way, and the maker, unless it
\* crashed or its transfer failed, claims only then, however late the contract's logs and
\* timeout1 are handled (claimFunds).
ClaimedOnlyOnceLocked ==
    /\ role = "taker" => Taker!ReadyOnlyOnceLocked
    /\ role = "maker" => Maker!ClaimOnlyAfterLock

\* What a database says has happened on the chains.  Of the taker: a recorded refund across
\* crashes and cancels, the sweep of a recorded success without a crash.  Of the maker: a recorded
\* success has the ETH; an aborted swap has locked nothing, since lockFunds writes XMRLocked
\* before the transfer; without a crash, a failed sweep or a cancel, a recorded refund has the XMR
\* back, also after a panic on a second EventContractReady.
RecordsTrue ==
    /\ role = "taker" => Taker!RefundRecorded /\ Taker!SuccessIsSwept
    /\ role = "maker" => Maker!SuccessIsClaimed /\ Maker!AbortedBeforeLocking /\ Maker!RefundIsSwept

\* The outcome that the taker recorded never changes, and neither does the maker's record of a
\* success or a refund: not by a late event, not by a restart.
OutcomeIsFinal ==
    [][(role = "taker" => Taker!OutcomeIsFinal) /\ (role = "maker" => Maker!SettledIsFinal)]_vars

\* Without a crash, an offer is listed again only if it "wasn't taken successfully" (exit), and an
\* offer that is in the database and not in a swap is listed by the running daemon, unless the
\* wallet failed while the offer was being taken.
OfferListedIffFree == role = "maker" => Maker!SoldOfferNotListed /\ Maker!FreeOfferListed

\* Both daemons together, as late as they like: nobody ends up with both currencies, and the
\* two databases never tell different stories (Swap).
BothAgree == role = "both" => Both!Atomic

-----------------------------------------------------------------------------
(* Under fairness, of daemons that are never late *)

\* A taker that is never late does not pay for XMR that were never locked: it has its
\* refund included before timeout1, when an unready swap becomes claimable; and, without a crash
\* or a lost receipt, it records CompletedAbort only when no ETH is locked and none will be,
\* whenever the stream closes or the user cancels (exit).
NeverPaysForNothing == role = "taker" => Taker!NeverPaysForNothing /\ Taker!AbortedBeforeLocking

\* Without a crash or a lost receipt, the taker meets no event it panics on in tryRefund,
\* and the maker does not close readyCh twice, although both the Ready log and timeout1 send
\* EventContractReady.
NeverPanics == IF role = "taker" THEN Taker!NeverPanics ELSE Maker!NeverPanics

\* ETH that were locked are refunded or claimed in the end, unless the taker's daemon
\* crashes, loses a receipt or is told to cancel; and once the taker's database says that they
\* are locked, even if the daemon crashes and is restarted (createOngoingSwap).  When the maker
\* has locked the XMR and claims the ETH, the taker gets the XMR.
EthSettles == role = "taker" => Taker!EthSettles /\ Taker!LockedEthSettles /\ Taker!ClaimYieldsXmr

\* XMR locked against ETH that are still in the contract are eventually paid for or swept
\* back, unless a fault happens; and once the maker's database says that they are locked, and if
\* the taker refunds at timeout2, the maker gets the ETH or the key to the XMR, even if the
\* daemon crashes and is restarted after timeout2 (createOngoingSwap).
XmrSettles == role = "maker" => Maker!XmrSettles /\ Maker!LockedXmrRecoverable
=============================================================================
