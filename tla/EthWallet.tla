------------------------------ MODULE EthWallet -------------------------------
(***************************************************************************)
(* The Ethereum account that a daemon's swaps, its relaying of other       *)
(* peers' claims and its user's transfers share: the wallet client and its *)
(* lock (ethereum/extethclient), the private-key sender                    *)
(* (protocol/txsender), the relayer's sender (relayer), the manual claim   *)
(* and refund (rpc/swap.go), and WaitForReceipt (ethereum/block).          *)
(*                                                                         *)
(* A transaction is a record; gas is one unit, so that a transaction's fee *)
(* is its gas price.  unlocked (which no step reads) says that a caller    *)
(* has let the lock go with its transaction pending.  The account is seen  *)
(* as the node shows it: nonce is the next nonce of the latest block, pool *)
(* the account's pending transactions, mined those in the chain.           *)
(***************************************************************************)
EXTENDS Integers, FiniteSets

CONSTANTS
    Callers,    \* the goroutines that use the account
    MaxCalls,   \* bound: the calls they make in all
    Ops,        \* the operations they choose from
    Prices,     \* the gas prices a node suggests
    Ether,      \* the account's balance, in units of the swap's value
    Tokens      \* its balance of an ERC-20 token

VARIABLES call, lock, acct, pool, mined, replaced, unlocked, calls

vars == <<call, lock, acct, pool, mined, replaced, unlocked, calls>>

Free == "free"
AllOps == {"NewSwap", "NewTokenSwap", "Claim", "ClaimRelayer", "ManualClaim", "Transfer", "Sweep",
           "Cancel", "StartRefund"}
Amounts == 0 .. Ether + Tokens
Kinds == {"approve", "newSwap", "newTokenSwap", "claim", "transfer", "sweep", "cancel"}
Tx == [by : Callers, kind : Kinds, amt : Amounts, nonce : Nat, price : Nat]

TypeOK ==
    /\ call \in [Callers -> [op : AllOps \cup {"none"}, amt : Amounts, price : Nat,
                             pc : {"idle", "check", "lock", "allowance", "zero", "approve", "send",
                                   "waitZero", "waitApprove", "wait", "done", "failed", "reverted"},
                             tx : Nat \cup {-1}]]
    /\ lock \in Callers \cup {Free}
    /\ acct \in [eth : Amounts, tok : Amounts, allow : Amounts, nonce : Nat]
    /\ pool \subseteq Tx /\ replaced \subseteq Tx
    /\ \A m \in mined : m.tx \in Tx /\ m.ok \in BOOLEAN /\ m.left \in Amounts
    /\ unlocked \in BOOLEAN /\ calls \in 0 .. MaxCalls

Init ==
    /\ call = [c \in Callers |-> [op |-> "none", amt |-> 0, price |-> 0, pc |-> "idle", tx |-> -1]]
    /\ lock = Free /\ pool = {} /\ mined = {} /\ replaced = {} /\ unlocked = FALSE /\ calls = 0
    /\ acct \in [eth : {Ether}, tok : {Tokens}, allow : 0 .. 1, nonce : {0}]

At(c, pc) == call[c].pc = pc
Goto(c, pc) == call' = [call EXCEPT ![c].pc = pc]

\* A call returns; its deferred Unlock runs if it holds the lock.
Finish(c, pc) ==
    /\ Goto(c, pc)
    /\ lock' = IF lock = c THEN Free ELSE lock

\* A call that is not made yet, or has returned.
Idle(c) == call[c].pc \in {"idle", "done", "failed", "reverted"}

\* Only a pending transaction is cancelled, by its nonce and at twice its price.
Begin(c) ==
    /\ Idle(c) /\ calls < MaxCalls /\ calls' = calls + 1
    /\ \E op \in Ops, amt \in 1 .. 2 :
        /\ op \notin {"NewSwap", "NewTokenSwap", "Transfer"} => amt = 1
        /\ \/ /\ op # "Cancel"
              /\ call' = [call EXCEPT ![c] = [op |-> op, amt |-> amt, price |-> 0, tx |-> -1,
                                             pc |-> CASE op = "ClaimRelayer" -> "check"
                                                     [] op = "StartRefund" -> "send"
                                                     [] OTHER -> "lock"]]
           \/ /\ op = "Cancel"
              /\ \E u \in pool : call' = [call EXCEPT ![c] = [op |-> op, amt |-> 0, price |-> 2 * u.price,
                                                              tx |-> u.nonce, pc |-> "send"]]
    /\ UNCHANGED <<lock, acct, pool, mined, replaced, unlocked>>

\* The relayer reads the balance and the gas price it will use before it takes the lock.
checkForMinClaimBalance(c) ==
    /\ At(c, "check")
    /\ \E p \in Prices : call' = [call EXCEPT ![c].price = p,
                                             ![c].pc = IF acct.eth < p THEN "failed" ELSE "lock"]
    /\ UNCHANGED <<lock, acct, pool, mined, replaced, unlocked>>

\* Variation: the wallet is not locked.
LockNever(c) == lock' = lock

Lock(c) == lock = Free /\ lock' = c

TakeLock(c) ==
    /\ At(c, "lock") /\ Lock(c)
    /\ Goto(c, IF call[c].op = "NewTokenSwap" THEN "allowance" ELSE "send")
    /\ UNCHANGED <<acct, pool, mined, replaced, unlocked>>

-----------------------------------------------------------------------------
(* The node *)

PendingNonceAt == acct.nonce + Cardinality(pool)
NonceAt == acct.nonce

\* What a contract call does to the account; a reverted one still pays its fee.
Reverts(t) ==
    \/ t.kind = "approve" /\ t.amt # 0 /\ acct.allow # 0
    \/ t.kind = "newTokenSwap" /\ (acct.allow < t.amt \/ acct.tok < t.amt)

Value(t) == IF t.kind \in {"newSwap", "transfer", "sweep"} THEN t.amt ELSE 0

\* A transaction whose nonce is taken replaces the other one if it pays more.
Accepted(t) ==
    /\ acct.eth >= Value(t) + t.price /\ t.nonce >= acct.nonce
    /\ \A u \in pool : u.nonce = t.nonce => u.price < t.price

SendTransaction(c, t, pc) ==
    \/ /\ Accepted(t)
       /\ pool' = {u \in pool : u.nonce # t.nonce} \cup {t}
       /\ replaced' = replaced \cup {u \in pool : u.nonce = t.nonce}
       /\ IF pc = "done" THEN Finish(c, pc)
          ELSE call' = [call EXCEPT ![c].pc = pc, ![c].tx = t.nonce] /\ UNCHANGED lock
    \/ ~Accepted(t) /\ Finish(c, "failed") /\ UNCHANGED <<pool, replaced>>

\* A contract call through the bindings: the pending nonce, and a simulation that fails early.
Transact(c, kind, amt, price, pc) ==
    LET t == [by |-> c, kind |-> kind, amt |-> amt, nonce |-> PendingNonceAt, price |-> price]
    IN /\ \/ ~Reverts(t) /\ SendTransaction(c, t, pc)
          \/ Reverts(t) /\ Finish(c, "reverted") /\ UNCHANGED <<pool, replaced>>
       /\ UNCHANGED <<acct, mined>>

\* The next transaction is put into a block.
Mine ==
    \E t \in pool :
        /\ t.nonce = acct.nonce /\ acct.eth >= Value(t) + t.price
        /\ LET ok == ~Reverts(t)
               eth == acct.eth - t.price - (IF ok THEN Value(t) ELSE 0)
           IN /\ acct' = [eth |-> eth, nonce |-> acct.nonce + 1,
                          tok |-> IF ok /\ t.kind = "newTokenSwap" THEN acct.tok - t.amt ELSE acct.tok,
                          allow |-> CASE ok /\ t.kind = "approve" -> t.amt
                                      [] ok /\ t.kind = "newTokenSwap" -> acct.allow - t.amt
                                      [] OTHER -> acct.allow]
              /\ mined' = mined \cup {[tx |-> t, ok |-> ok, left |-> eth]}
        /\ pool' = pool \ {t}
        /\ UNCHANGED <<call, lock, replaced, unlocked>>

-----------------------------------------------------------------------------
(* The senders *)

EnoughAllowance(amt) == amt <= acct.allow

approveTransferFrom(c) ==
    /\ At(c, "allowance")
    /\ LET amt == call[c].amt
       IN IF acct.tok < amt THEN Finish(c, "failed")
          ELSE /\ Goto(c, CASE EnoughAllowance(amt) -> "send"
                            [] ~EnoughAllowance(amt) /\ acct.allow # 0 -> "zero"
                            [] OTHER -> "approve")
               /\ UNCHANGED lock
    /\ UNCHANGED <<acct, pool, mined, replaced, unlocked>>

approveNoChecks(c) ==
    /\ \E p \in Prices :
        \/ At(c, "zero") /\ Transact(c, "approve", 0, p, "waitZero")
        \/ At(c, "approve") /\ Transact(c, "approve", call[c].amt, p, "waitApprove")
    /\ UNCHANGED unlocked

NewSwap(c) ==
    /\ At(c, "send") /\ call[c].op \in {"NewSwap", "NewTokenSwap"}
    /\ \E p \in Prices :
        Transact(c, IF call[c].op = "NewSwap" THEN "newSwap" ELSE "newTokenSwap", call[c].amt, p, "wait")
    /\ UNCHANGED unlocked

\* SetReady, Claim and Refund of the private-key sender.
Claim(c) ==
    /\ At(c, "send") /\ call[c].op = "Claim"
    /\ \E p \in Prices : Transact(c, "claim", 0, p, "wait")
    /\ UNCHANGED unlocked

ClaimRelayer(c) ==
    /\ At(c, "send") /\ call[c].op = "ClaimRelayer"
    /\ Transact(c, "claim", 0, call[c].price, "wait")
    /\ UNCHANGED unlocked

\* swap_claim and swap_refund return as soon as the transaction is sent.
ManualClaim(c) ==
    /\ At(c, "send") /\ call[c].op = "ManualClaim"
    /\ \E p \in Prices : Transact(c, "claim", 0, p, "done")
    /\ unlocked' = TRUE

\* Transfer takes the nonce of the latest block, not the pending one.
Transfer(c) ==
    /\ At(c, "send") /\ call[c].op = "Transfer"
    /\ \E p \in Prices :
        SendTransaction(c, [by |-> c, kind |-> "transfer", amt |-> call[c].amt, nonce |-> NonceAt, price |-> p],
                        "wait")
    /\ UNCHANGED <<acct, mined, unlocked>>

SweepAmount(p) == acct.eth - p

Sweep(c) ==
    /\ At(c, "send") /\ call[c].op = "Sweep"
    /\ \E p \in Prices :
        IF acct.eth <= p THEN Finish(c, "failed") /\ UNCHANGED <<pool, replaced>>
        ELSE SendTransaction(c, [by |-> c, kind |-> "sweep", amt |-> SweepAmount(p), nonce |-> NonceAt,
                                 price |-> p], "wait")
    /\ UNCHANGED <<acct, mined, unlocked>>

\* Without the lock.
CancelTxWithNonce(c) ==
    /\ At(c, "send") /\ call[c].op = "Cancel"
    /\ SendTransaction(c, [by |-> c, kind |-> "cancel", amt |-> 0, nonce |-> call[c].tx,
                           price |-> call[c].price], "wait")
    /\ unlocked' = TRUE
    /\ UNCHANGED <<acct, mined>>

\* The refund of a swap that is found at start-up, also without the lock, while the swaps that are
\* already resumed use the account.
refundOrCancelNewSwap(c) ==
    /\ At(c, "send") /\ call[c].op = "StartRefund"
    /\ \E p \in Prices : Transact(c, "claim", 0, p, "wait")
    /\ unlocked' = TRUE

AfterWait(pc) == CASE pc = "waitZero" -> "approve" [] pc = "waitApprove" -> "send" [] pc = "wait" -> "done"

Waiting(c) == call[c].pc \in {"waitZero", "waitApprove", "wait"}

Receipt(c, m) == m.tx.by = c /\ m.tx.nonce = call[c].tx

\* The transaction's receipt is there; a reverted transaction is an error.
WaitForReceipt(c) ==
    /\ Waiting(c)
    /\ \E m \in mined :
        /\ Receipt(c, m)
        /\ IF ~m.ok THEN Finish(c, "reverted")
           ELSE IF AfterWait(call[c].pc) = "done" THEN Finish(c, "done")
           ELSE Goto(c, AfterWait(call[c].pc)) /\ UNCHANGED lock
    /\ UNCHANGED <<acct, pool, mined, replaced, unlocked>>

\* maxRetries polls found no receipt: the call fails with its transaction still pending.
WaitTimedOut(c) ==
    /\ Waiting(c) /\ ~\E m \in mined : Receipt(c, m)
    /\ Finish(c, "failed") /\ unlocked' = TRUE
    /\ UNCHANGED <<acct, pool, mined, replaced>>

Work(c) ==
    \/ checkForMinClaimBalance(c) \/ TakeLock(c) \/ approveTransferFrom(c) \/ approveNoChecks(c)
    \/ NewSwap(c) \/ Claim(c) \/ ClaimRelayer(c) \/ ManualClaim(c) \/ Transfer(c) \/ Sweep(c)
    \/ CancelTxWithNonce(c) \/ refundOrCancelNewSwap(c) \/ WaitForReceipt(c) \/ WaitTimedOut(c)

Next ==
    \/ Mine /\ UNCHANGED calls
    \/ \E c \in Callers : Begin(c) \/ (Work(c) /\ UNCHANGED calls)

Spec == Init /\ [][Next]_vars

-----------------------------------------------------------------------------
(* Properties *)

\* While every caller keeps the lock until its receipt, no transaction is replaced by another
\* caller's: Transfer and Sweep may take the latest nonce because nothing is pending.
NonceNotReused == ~unlocked => replaced = {}

\* While every caller keeps the lock until its receipt, no approve or newSwap is refused or
\* reverted for its allowance: no other swap of the token spends what approveTransferFrom found
\* or granted, and an allowance is zeroed before it is changed.
ApprovalKept == ~unlocked => \A c \in Callers : ~At(c, "reverted")

\* Sweep leaves nothing behind: between its reading of the balance and its block no other
\* transaction of the account is mined.
SweepEmpties == ~unlocked => \A m \in mined : m.tx.kind = "sweep" => m.left = 0

\* A call that reports success had its transaction included, also when another replaced it or
\* the wallet was used without the lock in between.
SuccessIsMined ==
    \A c \in Callers : At(c, "done") /\ call[c].op # "ManualClaim"
        => \E m \in mined : m.tx.by = c /\ m.tx.nonce = call[c].tx /\ m.ok

=============================================================================
