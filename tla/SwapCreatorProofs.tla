-------------------------- MODULE SwapCreatorProofs --------------------------
(***************************************************************************)
(* Proofs about SwapCreator for every set of accounts, assets, secrets and *)
(* amounts, every clock and any number of swaps.                           *)
(***************************************************************************)
EXTENDS SwapCreator, TLAPS

Balances == [Assets -> [Holders -> Nat]]

\* Moving funds that the payer has keeps every balance a natural number, and
\* takes exactly the amount from a payer that is not the payee.
LEMMA MoveTypes ==
    ASSUME NEW b \in Balances, NEW asset \in Assets, NEW from \in Holders,
           NEW to, NEW amount \in Nat, b[asset][from] >= amount
    PROVE  /\ Move(b, asset, from, to, amount) \in Balances
           /\ to # from => Move(b, asset, from, to, amount)[asset][from]
                             = b[asset][from] - amount
<1> DEFINE b1 == [b EXCEPT ![asset][from] = @ - amount]
           b2 == [b1 EXCEPT ![asset][to] = @ + amount]
<1>1. b1 \in Balances /\ b1[asset][from] = b[asset][from] - amount
  BY DEF Balances
<1>2. Move(b, asset, from, to, amount) = b2
  BY DEF Move
<1> HIDE DEF b1
<1>3. CASE to \in Holders
  <2>1. b1[asset][to] + amount \in Nat
    BY <1>1, <1>3 DEF Balances
  <2>2. b2 \in Balances
    BY <1>1, <1>3, <2>1 DEF Balances
  <2>3. to # from => b2[asset][from] = b1[asset][from]
    BY <1>1, <1>3 DEF Balances
  <2> QED
    BY <1>1, <1>2, <2>2, <2>3
<1>4. CASE to \notin Holders
  <2>1. [b1[asset] EXCEPT ![to] = @ + amount] = b1[asset]
    BY <1>1, <1>4 DEF Balances
  <2>2. b2 = b1
    BY <1>1, <2>1 DEF Balances
  <2> QED
    BY <1>1, <1>2, <2>2
<1> QED
  BY <1>3, <1>4

\* The type invariant holds of every reachable state of the contract.
THEOREM TypeCorrect == Spec => []TypeOK
<1> USE SwapCreatorAssumption
<1>1. Init => TypeOK
  BY DEF Init, TypeOK, Holders, Stages
<1>2. TypeOK /\ [Next]_vars => TypeOK'
  <2> SUFFICES ASSUME TypeOK, [Next]_vars PROVE TypeOK'
    OBVIOUS
  <2> USE DEF TypeOK
  <2>1. CASE NewBlock
    BY <2>1 DEF NewBlock
  <2>2. ASSUME NEW sender \in Accounts, NEW cc \in Commitments,
               NEW rc \in Commitments, NEW claimer \in Accounts \cup {Zero},
               NEW d1 \in Durations, NEW d2 \in Durations,
               NEW asset \in Assets, NEW value \in Values, NEW nonce \in Nonces,
               newSwap(sender, cc, rc, claimer, d1, d2, asset, value, nonce)
        PROVE  TypeOK'
    <3> DEFINE swap == [owner |-> sender, claimer |-> claimer,
                        claimCommitment |-> cc, refundCommitment |-> rc,
                        timeout1 |-> timestamp + d1,
                        timeout2 |-> timestamp + d1 + d2,
                        asset |-> asset, value |-> value, nonce |-> nonce]
    <3>1. swap \in Swap
      BY DEF Swap
    <3>2. balance' \in [Assets -> [Holders -> Nat]]
      BY <2>2, MoveTypes DEF newSwap, Transfer, Holders, Balances
    <3>3. /\ DOMAIN swaps' = DOMAIN swaps \cup {swap}
          /\ swaps' \in [DOMAIN swaps' -> Stages \ {"INVALID"}]
      BY <2>2 DEF newSwap, Stages
    <3>4. logs' \subseteq Event
      BY <2>2, <3>1 DEF newSwap, Event
    <3> QED
      BY <2>2, <3>1, <3>2, <3>3, <3>4 DEF newSwap
  <2>3. ASSUME NEW swap \in DOMAIN swaps, NEW sender \in Accounts,
               setReady(sender, swap)
        PROVE  TypeOK'
    BY <2>3 DEF setReady, Stages, Event
  <2>4. ASSUME NEW swap \in DOMAIN swaps, NEW secret \in Secrets,
               _claim(swap, secret)
        PROVE  /\ DOMAIN swaps' = DOMAIN swaps
               /\ swaps' \in [DOMAIN swaps' -> Stages \ {"INVALID"}]
               /\ logs' \subseteq Event
    BY <2>4 DEF _claim, Stages, Event
  <2>5. ASSUME NEW swap \in DOMAIN swaps, NEW sender \in Accounts,
               NEW secret \in Secrets, claim(sender, swap, secret)
        PROVE  TypeOK'
    <3>1. balance' \in [Assets -> [Holders -> Nat]]
      BY <2>5, MoveTypes DEF claim, Transfer, Holders, Swap, Balances
    <3> QED
      BY <2>4, <2>5, <3>1 DEF claim
  <2>6. ASSUME NEW swap \in DOMAIN swaps, NEW sender \in Accounts,
               NEW secret \in Secrets, refund(sender, swap, secret)
        PROVE  TypeOK'
    <3>1. balance' \in [Assets -> [Holders -> Nat]]
      BY <2>6, MoveTypes DEF refund, Transfer, Holders, Swap, Balances
    <3> QED
      BY <2>6, <3>1 DEF refund, Stages, Event
  <2>7. ASSUME NEW swap \in DOMAIN swaps, NEW secret \in Secrets,
               NEW relayer \in Accounts, NEW fee \in Fees,
               claimRelayer(swap, secret, relayer, fee)
        PROVE  TypeOK'
    <3> DEFINE paid == Move(balance, swap.asset, this, swap.claimer,
                            swap.value - fee)
    <3>1. /\ swap \in Swap /\ this \in Holders /\ balance \in Balances
          /\ fee \in Nat /\ swap.asset \in Assets /\ swap.value \in Nat
          /\ swap.claimer # this
      <4>1. swap \in Swap
        OBVIOUS
      <4> QED
        BY <4>1 DEF Swap, Holders, Balances
    <3>a. /\ fee <= swap.value /\ balance[swap.asset][this] >= swap.value
      BY <2>7 DEF claimRelayer
    <3>b. /\ balance[swap.asset][this] \in Nat /\ swap.value - fee \in Nat
          /\ balance[swap.asset][this] >= swap.value - fee
      BY <3>1, <3>a DEF Balances
    <3>2. /\ paid \in Balances
          /\ paid[swap.asset][this] = balance[swap.asset][this] - (swap.value - fee)
      BY <3>1, <3>b, MoveTypes
    <3>3. paid[swap.asset][this] >= fee
      BY <3>1, <3>2, <3>a, <3>b
    <3>4. Move(paid, swap.asset, this, relayer, fee) \in Balances
      BY <3>1, <3>2, <3>3, MoveTypes
    <3>5. balance' \in [Assets -> [Holders -> Nat]]
      BY <2>7, <3>4 DEF claimRelayer, Balances
    <3> QED
      BY <2>4, <2>7, <3>5 DEF claimRelayer
  <2>8. CASE UNCHANGED vars
    BY <2>8 DEF vars
  <2> QED
    BY <2>1, <2>2, <2>3, <2>5, <2>6, <2>7, <2>8 DEF Next
<1> QED
  BY <1>1, <1>2, PTL DEF Spec

-----------------------------------------------------------------------------
(***************************************************************************)
(* Settlement.  OneSecretPerSwap is not inductive alone: a new swap could  *)
(* find an event about it in the logs.  LogsKnown excludes that.           *)
(***************************************************************************)
LogsKnown == \A e \in logs : e.swap \in DOMAIN swaps
SettlementInv == LogsKnown /\ OneSecretPerSwap /\ ClaimerHasWindow

\* What every step does to the logs and the stages, in the terms of the
\* settlement invariant: it adds a swap without a settling event, or it settles
\* one live swap, or it leaves the settling events and the settled swaps alone.
Opens(swap) ==
    /\ swap \notin DOMAIN swaps
    /\ swap.timeout1 < swap.timeout2
    /\ DOMAIN swaps' = DOMAIN swaps \cup {swap}
    /\ swaps'[swap] = "PENDING"
    /\ \A s \in DOMAIN swaps : swaps'[s] = swaps[s]
    /\ logs' = logs \cup {[name |-> "New", swap |-> swap]}

Settles(swap, name, secret) ==
    /\ swap \in Live
    /\ DOMAIN swaps' = DOMAIN swaps
    /\ swaps'[swap] = "COMPLETED"
    /\ \A s \in DOMAIN swaps \ {swap} : swaps'[s] = swaps[s]
    /\ logs' = logs \cup {[name |-> name, swap |-> swap, secret |-> secret]}

Keeps ==
    /\ DOMAIN swaps' = DOMAIN swaps
    /\ \A s \in DOMAIN swaps :
          swaps'[s] = "COMPLETED" <=> swaps[s] = "COMPLETED"
    /\ \A e \in logs' \ logs : e.name = "Ready" /\ e.swap \in DOMAIN swaps
    /\ logs \subseteq logs'

\* Every step of the contract is of one of these kinds.
LEMMA StepKinds ==
    ASSUME TypeOK, [Next]_vars
    PROVE  \/ \E swap \in Swap : Opens(swap)
           \/ \E swap \in Live, secret \in Secrets :
                Settles(swap, "Claimed", secret) \/ Settles(swap, "Refunded", secret)
           \/ Keeps
<1> USE SwapCreatorAssumption DEF TypeOK
<1>1. CASE NewBlock \/ UNCHANGED vars
  BY <1>1 DEF NewBlock, vars, Keeps
<1>2. ASSUME NEW sender \in Accounts, NEW cc \in Commitments,
             NEW rc \in Commitments, NEW claimer \in Accounts \cup {Zero},
             NEW d1 \in Durations, NEW d2 \in Durations,
             NEW asset \in Assets, NEW value \in Values, NEW nonce \in Nonces,
             newSwap(sender, cc, rc, claimer, d1, d2, asset, value, nonce)
      PROVE  \E swap \in Swap : Opens(swap)
  <2> DEFINE swap == [owner |-> sender, claimer |-> claimer,
                      claimCommitment |-> cc, refundCommitment |-> rc,
                      timeout1 |-> timestamp + d1,
                      timeout2 |-> timestamp + d1 + d2,
                      asset |-> asset, value |-> value, nonce |-> nonce]
  <2>1. swap \in Swap
    BY DEF Swap
  <2>2. swap.timeout1 < swap.timeout2
    BY <1>2 DEF newSwap, ValidTimeouts
  <2>3. /\ Stage(swap) = "INVALID"
        /\ swaps' = [s \in DOMAIN swaps \cup {swap} |->
                        IF s = swap THEN "PENDING" ELSE swaps[s]]
        /\ logs' = logs \cup {[name |-> "New", swap |-> swap]}
    BY <1>2 DEF newSwap, IsNew
  <2> HIDE DEF swap
  <2>4. swap \notin DOMAIN swaps
    BY <2>3 DEF Stage, Stages
  <2>5. Opens(swap)
    BY <2>2, <2>3, <2>4 DEF Opens
  <2> QED
    BY <2>1, <2>5
<1>3. ASSUME NEW swap \in DOMAIN swaps, NEW sender \in Accounts,
             setReady(sender, swap)
      PROVE  Keeps
  BY <1>3 DEF setReady, Keeps, Stage
<1>4. ASSUME NEW swap \in DOMAIN swaps, NEW secret \in Secrets,
             _claim(swap, secret)
      PROVE  swap \in Live /\ Settles(swap, "Claimed", secret)
  BY <1>4 DEF _claim, ClaimAllowed, Settles, Live, Stage
<1>5. ASSUME NEW swap \in DOMAIN swaps, NEW sender \in Accounts,
             NEW secret \in Secrets, refund(sender, swap, secret)
      PROVE  swap \in Live /\ Settles(swap, "Refunded", secret)
  BY <1>5 DEF refund, RefundAllowed, Settles, Live, Stage
<1> QED
  BY <1>1, <1>2, <1>3, <1>4, <1>5 DEF Next, claim, claimRelayer

\* Settling a swap changes the settling events of that swap only.
LEMMA SettleEffect ==
    ASSUME SettlementInv, NEW swap \in Live, NEW secret,
           NEW name \in {"Claimed", "Refunded"}, Settles(swap, name, secret)
    PROVE  /\ DOMAIN swaps' = DOMAIN swaps
           /\ swap \in DOMAIN swaps /\ swaps'[swap] = "COMPLETED"
           /\ \A s \in DOMAIN swaps \ {swap} :
                /\ swaps'[s] = swaps[s]
                /\ ClaimedLog(s)' <=> ClaimedLog(s)
                /\ RefundedLog(s)' <=> RefundedLog(s)
           /\ ~ClaimedLog(swap) /\ ~RefundedLog(swap)
           /\ ClaimedLog(swap)' <=> name = "Claimed"
           /\ RefundedLog(swap)' <=> name = "Refunded"
<1> USE DEF SettlementInv, LogsKnown, OneSecretPerSwap, ClaimedLog, RefundedLog
<1> DEFINE e == [name |-> name, swap |-> swap, secret |-> secret]
<1>1. /\ swap \in DOMAIN swaps /\ swaps[swap] # "COMPLETED"
      /\ DOMAIN swaps' = DOMAIN swaps /\ swaps'[swap] = "COMPLETED"
      /\ \A s \in DOMAIN swaps \ {swap} : swaps'[s] = swaps[s]
      /\ logs' = logs \cup {e}
  BY DEF Settles, Live
<1>2. e.name = name /\ e.swap = swap
  OBVIOUS
<1> HIDE DEF e
<1>3. \A s \in DOMAIN swaps \ {swap} :
        (ClaimedLog(s)' <=> ClaimedLog(s)) /\ (RefundedLog(s)' <=> RefundedLog(s))
  BY <1>1, <1>2
<1>4. /\ ClaimedLog(swap)' <=> name = "Claimed"
      /\ RefundedLog(swap)' <=> name = "Refunded"
      /\ ~ClaimedLog(swap) /\ ~RefundedLog(swap)
  BY <1>1, <1>2
<1> QED
  BY <1>1, <1>3, <1>4

\* The settlement invariant is inductive.
LEMMA SettlementStep ==
    ASSUME TypeOK, SettlementInv, [Next]_vars
    PROVE  SettlementInv'
<1> USE DEF SettlementInv, LogsKnown, OneSecretPerSwap, ClaimerHasWindow,
            ClaimedLog, RefundedLog
<1>1. ASSUME NEW swap \in Swap, Opens(swap) PROVE SettlementInv'
  BY <1>1 DEF Opens
<1>2. ASSUME NEW swap \in Live, NEW secret \in Secrets, NEW name,
             name \in {"Claimed", "Refunded"}, Settles(swap, name, secret)
      PROVE  SettlementInv'
  <2>1. LogsKnown' /\ ClaimerHasWindow'
    BY <1>2 DEF Settles, Live
  <2>2. OneSecretPerSwap'
    BY <1>2, SettleEffect
  <2> QED
    BY <2>1, <2>2
<1>3. CASE Keeps
  BY <1>3 DEF Keeps
<1> QED
  BY <1>1, <1>2, <1>3, StepKinds

\* A swap's two secrets are never both on the chain, and one is exactly when
\* the swap is COMPLETED.
THEOREM Settlement == Spec => []OneSecretPerSwap
<1>1. Init => SettlementInv
  BY DEF Init, SettlementInv, LogsKnown, OneSecretPerSwap, ClaimerHasWindow
<1>2. TypeOK /\ SettlementInv /\ [Next]_vars => SettlementInv'
  BY SettlementStep
<1>3. SettlementInv => OneSecretPerSwap
  BY DEF SettlementInv
<1> QED
  BY <1>1, <1>2, <1>3, TypeCorrect, PTL DEF Spec

\* timeout1 is before timeout2 in every swap, and therefore the windows of
\* claim and refund cover all time and meet in timeout1 only.
THEOREM Windows == Spec => []SettlementWindows
<1>1. Init => SettlementInv
  BY DEF Init, SettlementInv, LogsKnown, OneSecretPerSwap, ClaimerHasWindow
<1>2. TypeOK /\ SettlementInv /\ [Next]_vars => SettlementInv'
  BY SettlementStep
<1>3. ASSUME TypeOK, SettlementInv
      PROVE  SettlementWindows
  <2> SUFFICES ASSUME NEW swap \in Live
               PROVE  /\ ClaimAllowed(swap) \/ RefundAllowed(swap)
                      /\ ClaimAllowed(swap) /\ RefundAllowed(swap)
                           => timestamp = swap.timeout1 /\ swaps[swap] = "PENDING"
    BY <1>3 DEF SettlementInv, SettlementWindows, AlwaysSettleable, OverlapOnlyAtTimeout1
  <2>1. /\ swap \in DOMAIN swaps /\ swaps[swap] \in {"PENDING", "READY"}
        /\ swap \in Swap /\ timestamp \in Nat
    BY <1>3 DEF Live, TypeOK, Stages
  <2>2. swap.timeout1 \in Nat /\ swap.timeout2 \in Nat
    BY <2>1 DEF Swap
  <2>3. swap.timeout1 < swap.timeout2
    BY <1>3, <2>1 DEF SettlementInv, ClaimerHasWindow
  <2> QED
    BY <2>1, <2>2, <2>3 DEF ClaimAllowed, RefundAllowed, Stage
<1> QED
  BY <1>1, <1>2, <1>3, TypeCorrect, PTL DEF Spec

\* The contract implements the abstract escrow: its initial states are the
\* escrow's, and each of its steps deposits, releases or returns one swap, or
\* changes nothing the escrow sees.
THEOREM Refinement == Spec => ImplementsEscrow
<1> DEFINE held == Live
           released == {swap \in DOMAIN swaps : ClaimedLog(swap)}
           returned == {swap \in DOMAIN swaps : RefundedLog(swap)}
<1>1. Init => SettlementInv
  BY DEF Init, SettlementInv, LogsKnown, OneSecretPerSwap, ClaimerHasWindow
<1>2. TypeOK /\ SettlementInv /\ [Next]_vars => SettlementInv'
  BY SettlementStep
<1>3. Init => EscrowOf!Init
  BY DEF Init, EscrowOf!Init, Live
<1>4. TypeOK /\ SettlementInv /\ [Next]_vars
        => [EscrowOf!Next]_EscrowOf!escrowVars
  <2> SUFFICES ASSUME TypeOK, SettlementInv, [Next]_vars
               PROVE  EscrowOf!Next \/ UNCHANGED EscrowOf!escrowVars
    OBVIOUS
  <2> USE DEF SettlementInv, LogsKnown, OneSecretPerSwap
  <2>1. ASSUME NEW swap \in Swap, Opens(swap)
        PROVE  EscrowOf!Deposit(swap) /\ swap \in Live'
    BY <2>1 DEF Opens, EscrowOf!Deposit, Live, ClaimedLog, RefundedLog
  <2>2. ASSUME NEW swap \in Live, NEW secret \in Secrets,
               Settles(swap, "Claimed", secret)
        PROVE  EscrowOf!Release(swap)
    BY <2>2, SettleEffect DEF EscrowOf!Release, Live
  <2>3. ASSUME NEW swap \in Live, NEW secret \in Secrets,
               Settles(swap, "Refunded", secret)
        PROVE  EscrowOf!Return(swap)
    BY <2>3, SettleEffect DEF EscrowOf!Return, Live
  <2>4. CASE Keeps
    BY <2>4 DEF Keeps, EscrowOf!escrowVars, Live, ClaimedLog, RefundedLog
  <2> QED
    BY <2>1, <2>2, <2>3, <2>4, StepKinds DEF EscrowOf!Next
<1> QED
  BY <1>1, <1>2, <1>3, <1>4, TypeCorrect, PTL DEF Spec, ImplementsEscrow, EscrowOf!Spec

=============================================================================
