----------------------------- MODULE SwapCreator -----------------------------
(***************************************************************************)
(* The escrow contract of the ETH-XMR atomic swap                          *)
(* (ethereum/contracts/SwapCreator.sol).  Every public function is one     *)
(* action; a call that reverts is no step at all, so each `revert` of the  *)
(* source is the negation of a conjunct here.                              *)
(*                                                                         *)
(* The key of the contract's `swaps` mapping is keccak256(abi.encode(swap)) *)
(* and is taken to be collision free: the swap record is its own key.      *)
(* A commitment is the hash of the public key of a secret: Hash(secret).   *)
(***************************************************************************)
EXTENDS Integers, FiniteSets, FiniteSetsExt

CONSTANTS
    Accounts,       \* externally owned accounts that send transactions
    this,           \* the contract's own address
    Assets,         \* the native currency and ERC20 tokens
    Secrets,        \* secp256k1 scalars held by the two parties
    Zero,           \* address(0), and the zero bytes32
    Values,         \* amounts passed to newSwap
    Durations,      \* timeout durations passed to newSwap
    Nonces,         \* nonces passed to newSwap
    Fees,           \* relayer fees
    InitialFunds,   \* what every account owns of every asset initially
    MaxUint,        \* largest uint256: checked arithmetic reverts above it
    MaxTimestamp,   \* bound: last block timestamp
    MaxSwaps        \* bound: number of swaps ever created

ASSUME SwapCreatorAssumption ==
    /\ this \notin Accounts
    /\ Zero \notin Accounts
    /\ Zero # this
    /\ Values \subseteq Nat /\ Durations \subseteq Nat /\ Fees \subseteq Nat
    /\ InitialFunds \in Nat /\ MaxUint \in Nat
    /\ MaxTimestamp \in Nat /\ MaxSwaps \in Nat

VARIABLES
    timestamp,      \* block.timestamp
    swaps,          \* the mapping swaps; INVALID outside its domain
    balance,        \* balance[asset][holder]
    logs            \* events emitted so far

vars == <<timestamp, swaps, balance, logs>>

Stages == {"INVALID", "PENDING", "READY", "COMPLETED"}
Holders == Accounts \cup {this}

Hash(secret) == [hashOf |-> secret]
Commitments == {Hash(secret) : secret \in Secrets} \cup {Zero}

Swap == [owner : Accounts, claimer : Accounts \cup {Zero},
         claimCommitment : Commitments, refundCommitment : Commitments,
         timeout1 : Nat, timeout2 : Nat, asset : Assets, value : Nat,
         nonce : Nonces]

Stage(swap) == IF swap \in DOMAIN swaps THEN swaps[swap] ELSE "INVALID"

Event == [name : {"New", "Ready"}, swap : Swap]
         \cup [name : {"Claimed", "Refunded"}, swap : Swap, secret : Secrets]

-----------------------------------------------------------------------------
Init ==
    /\ timestamp = 0
    /\ swaps = [swap \in {} |-> "INVALID"]
    /\ balance = [asset \in Assets |->
                    [h \in Holders |-> IF h = this THEN 0 ELSE InitialFunds]]
    /\ logs = {}

Move(b, asset, from, to, amount) ==
    LET debited == [b EXCEPT ![asset][from] = @ - amount]
    IN  [debited EXCEPT ![asset][to] = @ + amount]

\* Fault: the payer's balance is not checked.
TransferUnchecked(asset, from, to, amount) ==
    balance' = Move(balance, asset, from, to, amount)

\* An ETH or ERC20 transfer, which reverts when `from` owns too little.
Transfer(asset, from, to, amount) ==
    /\ balance[asset][from] >= amount
    /\ balance' = Move(balance, asset, from, to, amount)

ValidTimeouts(duration1, duration2) == duration1 # 0 /\ duration2 # 0

IsNew(swap) == Stage(swap) = "INVALID"

newSwap(sender, claimCommitment, refundCommitment, claimer, duration1, duration2, asset, value, nonce) ==
    LET swap == [owner |-> sender, claimer |-> claimer,
                 claimCommitment |-> claimCommitment,
                 refundCommitment |-> refundCommitment,
                 timeout1 |-> timestamp + duration1,
                 timeout2 |-> timestamp + duration1 + duration2,
                 asset |-> asset, value |-> value, nonce |-> nonce]
    IN /\ value # 0
       /\ claimCommitment # Zero /\ refundCommitment # Zero
       /\ claimer # Zero
       /\ ValidTimeouts(duration1, duration2)
       /\ swap.timeout2 <= MaxUint
       /\ IsNew(swap)
       /\ Transfer(asset, sender, this, value)
       /\ swaps' = [s \in DOMAIN swaps \cup {swap} |->
                        IF s = swap THEN "PENDING" ELSE swaps[s]]
       /\ logs' = logs \cup {[name |-> "New", swap |-> swap]}
       /\ UNCHANGED timestamp

setReady(sender, swap) ==
    /\ Stage(swap) = "PENDING"
    /\ swap.owner = sender
    /\ swaps' = [swaps EXCEPT ![swap] = "READY"]
    /\ logs' = logs \cup {[name |-> "Ready", swap |-> swap]}
    /\ UNCHANGED <<timestamp, balance>>

verifySecret(secret, commitment) == commitment = Hash(secret)

\* The checks of the internal function _claim.
ClaimAllowed(swap) ==
    /\ Stage(swap) \notin {"INVALID", "COMPLETED"}
    /\ ~(timestamp < swap.timeout1 /\ Stage(swap) # "READY")
    /\ ~(timestamp >= swap.timeout2)

\* Fault: the swap is not marked COMPLETED.
_claimNotCompleted(swap, secret) ==
    /\ ClaimAllowed(swap)
    /\ verifySecret(secret, swap.claimCommitment)
    /\ UNCHANGED swaps
    /\ logs' = logs \cup {[name |-> "Claimed", swap |-> swap, secret |-> secret]}

_claim(swap, secret) ==
    /\ ClaimAllowed(swap)
    /\ verifySecret(secret, swap.claimCommitment)
    /\ swaps' = [swaps EXCEPT ![swap] = "COMPLETED"]
    /\ logs' = logs \cup {[name |-> "Claimed", swap |-> swap, secret |-> secret]}

claim(sender, swap, secret) ==
    /\ sender = swap.claimer
    /\ _claim(swap, secret)
    /\ Transfer(swap.asset, this, swap.claimer, swap.value)
    /\ UNCHANGED timestamp

\* Fault: the fee is paid on top of the value.
claimRelayerFeeOnTop(swap, secret, relayer, fee) ==
    /\ _claim(swap, secret)
    /\ fee <= swap.value
    /\ balance[swap.asset][this] >= swap.value + fee
    /\ balance' = Move(Move(balance, swap.asset, this, swap.claimer, swap.value),
                       swap.asset, this, relayer, fee)
    /\ UNCHANGED timestamp

\* Anyone holding the claimer's signature over (swap, fee, relayer hash, this
\* contract) submits the claim; value - fee reverts on underflow.
claimRelayer(swap, secret, relayer, fee) ==
    /\ _claim(swap, secret)
    /\ fee <= swap.value
    /\ balance[swap.asset][this] >= swap.value
    /\ balance' = Move(Move(balance, swap.asset, this, swap.claimer,
                            swap.value - fee),
                       swap.asset, this, relayer, fee)
    /\ UNCHANGED timestamp

\* Faults: the second timeout excluded, READY ignored.
RefundAllowedAfterTimeout2(swap) ==
    /\ Stage(swap) \notin {"INVALID", "COMPLETED"}
    /\ ~(timestamp <= swap.timeout2
           /\ (timestamp > swap.timeout1 \/ Stage(swap) = "READY"))

\* The checks of refund, the sender's identity aside.
RefundAllowed(swap) ==
    /\ Stage(swap) \notin {"INVALID", "COMPLETED"}
    /\ ~(timestamp < swap.timeout2
           /\ (timestamp > swap.timeout1 \/ Stage(swap) = "READY"))

\* Fault: whoever calls is refunded.
refundSender(sender, swap, secret) ==
    /\ RefundAllowed(swap)
    /\ verifySecret(secret, swap.refundCommitment)
    /\ swaps' = [swaps EXCEPT ![swap] = "COMPLETED"]
    /\ logs' = logs \cup {[name |-> "Refunded", swap |-> swap, secret |-> secret]}
    /\ Transfer(swap.asset, this, sender, swap.value)
    /\ UNCHANGED timestamp

\* Fault: the entry is deleted, so that the swap may be created again.
refundDeletes(sender, swap, secret) ==
    /\ RefundAllowed(swap)
    /\ swap.owner = sender
    /\ verifySecret(secret, swap.refundCommitment)
    /\ swaps' = [s \in DOMAIN swaps \ {swap} |-> swaps[s]]
    /\ logs' = logs \cup {[name |-> "Refunded", swap |-> swap, secret |-> secret]}
    /\ Transfer(swap.asset, this, swap.owner, swap.value)
    /\ UNCHANGED timestamp

refund(sender, swap, secret) ==
    /\ RefundAllowed(swap)
    /\ swap.owner = sender
    /\ verifySecret(secret, swap.refundCommitment)
    /\ swaps' = [swaps EXCEPT ![swap] = "COMPLETED"]
    /\ logs' = logs \cup {[name |-> "Refunded", swap |-> swap, secret |-> secret]}
    /\ Transfer(swap.asset, this, swap.owner, swap.value)
    /\ UNCHANGED timestamp

\* A later block: timestamps of blocks strictly increase.
NewBlock ==
    /\ timestamp' \in (timestamp + 1)..MaxTimestamp
    /\ UNCHANGED <<swaps, balance, logs>>

Next ==
    \/ NewBlock
    \/ /\ Cardinality(DOMAIN swaps) < MaxSwaps
       /\ \E sender \in Accounts, cc \in Commitments, rc \in Commitments,
             claimer \in Accounts \cup {Zero}, d1 \in Durations,
             d2 \in Durations, asset \in Assets, value \in Values,
             nonce \in Nonces :
            newSwap(sender, cc, rc, claimer, d1, d2, asset, value, nonce)
    \/ \E swap \in DOMAIN swaps :
         \/ \E sender \in Accounts : setReady(sender, swap)
         \/ \E sender \in Accounts, secret \in Secrets :
              \/ claim(sender, swap, secret)
              \/ refund(sender, swap, secret)
         \/ \E secret \in Secrets, relayer \in Accounts, fee \in Fees :
              claimRelayer(swap, secret, relayer, fee)

Spec == Init /\ [][Next]_vars

-----------------------------------------------------------------------------
(* Properties *)

\* Every variable has its type.
TypeOK ==
    /\ timestamp \in Nat
    /\ DOMAIN swaps \subseteq Swap
    /\ swaps \in [DOMAIN swaps -> Stages \ {"INVALID"}]
    /\ balance \in [Assets -> [Holders -> Nat]]
    /\ logs \subseteq Event

Live == {swap \in DOMAIN swaps : swaps[swap] # "COMPLETED"}

ClaimedLog(swap) == \E e \in logs : e.name = "Claimed" /\ e.swap = swap
RefundedLog(swap) == \E e \in logs : e.name = "Refunded" /\ e.swap = swap

\* The contract owns, of every asset, exactly the sum of the values of the
\* swaps that are not settled: no claim or refund that passes its checks can
\* revert for lack of funds, and nothing is paid twice (newSwap, claim,
\* claimRelayer, refund).
Solvent ==
    \A asset \in Assets :
        balance[asset][this] =
            MapThenSumSet(LAMBDA s : s.value, {s \in Live : s.asset = asset})

\* An account's funds, what it has in escrow and what it gave for a revealed
\* claim secret never amount to less than it started with: an owner is only
\* ever parted from a swap's value by a Claimed event.
OwnersMadeWhole ==
    \A asset \in Assets, a \in Accounts :
        balance[asset][a]
          + MapThenSumSet(LAMBDA s : s.value,
                          {s \in DOMAIN swaps :
                             /\ s.owner = a /\ s.asset = asset
                             /\ s \in Live \/ ClaimedLog(s)})
        >= InitialFunds

\* A swap is settled one way: the chain never shows both the claimer's and
\* the owner's secret of a swap, and shows one of them exactly when the swap
\* is COMPLETED (_claim, refund).
OneSecretPerSwap ==
    \A swap \in DOMAIN swaps :
        /\ ~(ClaimedLog(swap) /\ RefundedLog(swap))
        /\ swaps[swap] = "COMPLETED" <=> ClaimedLog(swap) \/ RefundedLog(swap)

\* There is no moment at which a live swap can be neither claimed nor
\* refunded: the windows of _claim and refund leave no gap at timeout1 or
\* timeout2.
AlwaysSettleable ==
    \A swap \in Live : ClaimAllowed(swap) \/ RefundAllowed(swap)

\* The windows overlap in a single block time only: both calls are allowed at
\* timestamp timeout1 of a swap that is not ready, and never otherwise.
OverlapOnlyAtTimeout1 ==
    \A swap \in Live :
        ClaimAllowed(swap) /\ RefundAllowed(swap)
          => timestamp = swap.timeout1 /\ swaps[swap] = "PENDING"

\* The claimer of every swap gets a window that needs no action of the owner:
\* timeout1 is before timeout2, overflow of the sums included.
ClaimerHasWindow ==
    \A swap \in DOMAIN swaps : swap.timeout1 < swap.timeout2

\* Whatever the timeouts, at every block time a live swap can be settled, by one party only
\* except at timeout1, and the claimer has a window that the owner cannot close (_claim, refund).
SettlementWindows == ClaimerHasWindow /\ AlwaysSettleable /\ OverlapOnlyAtTimeout1

\* The contract implements the abstract escrow: a swap is held until one of
\* the two secrets is revealed, and leaves once.
EscrowOf == INSTANCE Escrow WITH
    held <- Live,
    released <- {swap \in DOMAIN swaps : ClaimedLog(swap)},
    returned <- {swap \in DOMAIN swaps : RefundedLog(swap)}
ImplementsEscrow == EscrowOf!Spec
==============================================================================
