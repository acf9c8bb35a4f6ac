-------------------------------- MODULE Relay ---------------------------------
(***************************************************************************)
(* The maker's claim of the ETH (xmrmaker/claim.go), by itself or through  *)
(* relayers: the advertised ones first, the swap's taker last, over the    *)
(* relay protocols of net/relay.go; the relayer's side is in               *)
(* protocol/backend and relayer.                                           *)
(*                                                                         *)
(* A peer's hash of its address and a salt is the number of the query it   *)
(* answered.  A transaction is named by its sender and that number.  left  *)
(* bounds what may go wrong outside the daemon; late (which no step reads) *)
(* says that a wait ended, or was answered, while a claim was on its way.  *)
(***************************************************************************)
EXTENDS Integers, FiniteSets

CONSTANTS
    Relayers,       \* peers that relay for everybody
    Honest,         \* the peers among them that run this code
    Taker,          \* the swap's counterparty
    Maker,
    MaxClaims,      \* bounds: claimFunds calls,
    MaxLost         \* failed connections and lost answers

VARIABLES swap, maker, peer, chain, left, late

vars == <<swap, maker, peer, chain, left, late>>

Peers == Relayers \cup {Taker}
Queries == 0 .. MaxClaims * Cardinality(Peers)
NoTx == [by |-> Maker, n |-> -1]
Bogus == [by |-> Maker, n |-> -2]       \* a hash of some other transaction
Tx == [by : Peers \cup {Maker}, n : Queries]

TypeOK ==
    /\ swap \in [relayable : BOOLEAN, useRelayer : BOOLEAN]
    /\ maker \in [pc : {"idle", "direct", "directWait", "discover", "next", "query", "submit", "resp",
                        "receipt", "done", "seen", "failed"},
                  todo : SUBSET Peers, cur : Peers, hash : Queries, queries : Queries, claims : 0 .. MaxClaims,
                  tx : Tx \cup {NoTx, Bogus}, fee : BOOLEAN]
    /\ peer \in [Peers -> [salts : SUBSET Queries, req : Queries, ongoing : BOOLEAN,
                           pc : {"idle", "validate", "send", "wait", "answer", "closed"},
                           tx : Tx \cup {NoTx, Bogus}]]
    /\ chain.stage \in {"ready", "claimed", "refunded"}
    /\ chain.pool \subseteq Tx /\ chain.ok \subseteq Tx /\ chain.reverted \subseteq Tx
    /\ left \in 0 .. MaxLost /\ late \in BOOLEAN

Init ==
    /\ swap \in [relayable : BOOLEAN, useRelayer : BOOLEAN]
    /\ maker = [pc |-> "idle", todo |-> {}, cur |-> Taker, hash |-> 0, queries |-> 0, claims |-> 0, tx |-> NoTx,
                fee |-> FALSE]
    /\ peer = [p \in Peers |-> [salts |-> {}, req |-> 0, ongoing |-> p = Taker, pc |-> "idle", tx |-> NoTx]]
    /\ chain = [stage |-> "ready", pool |-> {}, ok |-> {}, reverted |-> {}]
    /\ left = MaxLost /\ late = FALSE

At(pc) == maker.pc = pc
Goto(pc) == maker' = [maker EXCEPT !.pc = pc]
Lose == left > 0 /\ left' = left - 1

-----------------------------------------------------------------------------
(* The chain *)

Send(t) == chain' = [chain EXCEPT !.pool = @ \cup {t}]

Mine ==
    \E t \in chain.pool :
        /\ chain' = [stage |-> IF chain.stage = "ready" THEN "claimed" ELSE chain.stage,
                     pool |-> chain.pool \ {t},
                     ok |-> IF chain.stage = "ready" THEN chain.ok \cup {t} ELSE chain.ok,
                     reverted |-> IF chain.stage = "ready" THEN chain.reverted ELSE chain.reverted \cup {t}]
        /\ UNCHANGED <<swap, maker, peer, left, late>>

\* The taker refunds after t2, and its swap is over.
Refund ==
    /\ chain.stage = "ready" /\ Lose
    /\ chain' = [chain EXCEPT !.stage = "refunded"]
    /\ peer' = [peer EXCEPT ![Taker].ongoing = FALSE]
    /\ UNCHANGED <<swap, maker, late>>

-----------------------------------------------------------------------------
(* The maker *)

\* Balance and checkForMinClaimBalance: the balance is not the model's, and it may not be known.
claimFunds ==
    /\ maker.pc \in {"idle", "failed"} /\ maker.claims < MaxClaims
    /\ LET begun(pc) == maker' = [maker EXCEPT !.claims = @ + 1, !.tx = NoTx, !.pc = pc]
       IN \/ swap.useRelayer /\ begun("discover") /\ UNCHANGED left
          \/ ~swap.useRelayer /\ (begun("discover") \/ begun("direct")) /\ UNCHANGED left
          \/ begun("failed") /\ Lose
    /\ UNCHANGED <<swap, peer, chain, late>>

\* The end of claimFunds: it fails, too, when the balance after the claim cannot be read.
claimFundsReturns(m) == (maker' = [m EXCEPT !.pc = "done"] /\ UNCHANGED left) \/ (maker' = [m EXCEPT !.pc = "failed"] /\ Lose)

\* The sender's Claim: it may lack the funds after all, and then a relayer is used.
senderClaim ==
    /\ At("direct")
    /\ \/ Goto("discover") /\ UNCHANGED chain
       \/ chain.stage # "ready" /\ Goto("failed") /\ UNCHANGED chain
       \/ /\ chain.stage = "ready"
          /\ LET t == [by |-> Maker, n |-> maker.claims]
             IN Send(t) /\ maker' = [maker EXCEPT !.pc = "directWait", !.tx = t]
    /\ UNCHANGED <<swap, peer, left, late>>

senderClaimReceipt ==
    /\ At("directWait")
    /\ \/ maker.tx \in chain.ok /\ claimFundsReturns(maker) /\ UNCHANGED late
       \/ maker.tx \in chain.reverted /\ Goto("failed") /\ UNCHANGED <<left, late>>
       \/ maker.tx \in chain.pool /\ Goto("failed") /\ late' = TRUE /\ UNCHANGED left
    /\ UNCHANGED <<swap, peer, chain>>

\* The relayers the DHT knows of, the counterparty skipped.
DiscoverRelayers ==
    /\ At("discover")
    /\ \E found \in SUBSET Relayers :
        maker' = [maker EXCEPT !.pc = "next", !.todo = found, !.cur = Taker]
    /\ UNCHANGED <<swap, peer, chain, left, late>>

\* claimWithAdvertisedRelayers goes through the relayers; the counterparty comes last.
nextRelayer ==
    /\ At("next")
    /\ \/ \E r \in maker.todo : maker' = [maker EXCEPT !.cur = r, !.todo = @ \ {r}, !.pc = "query"]
       \/ maker.todo = {} /\ maker' = [maker EXCEPT !.cur = Taker, !.pc = "query"]
    /\ UNCHANGED <<swap, peer, chain, left, late>>

\* A relayer that failed is followed by the next; the counterparty is the last.
Failed(m) == [m EXCEPT !.pc = IF m.cur = Taker THEN "failed" ELSE "next"]

\* The relayer's side of the query: who answers, and the hash it will accept.
Answers(p) == p \in Relayers \/ peer[p].ongoing

GetRelayerAddressHash(p, q) == peer' = [peer EXCEPT ![p].salts = @ \cup {q}]

QueryRelayerAddress ==
    /\ At("query")
    /\ LET q == maker.queries + 1
           asked == [maker EXCEPT !.queries = q, !.hash = q]
       IN \/ Answers(maker.cur) /\ GetRelayerAddressHash(maker.cur, q)
             /\ maker' = [asked EXCEPT !.pc = "submit"] /\ UNCHANGED left
          \/ Answers(maker.cur) /\ GetRelayerAddressHash(maker.cur, q) /\ maker' = Failed(asked) /\ Lose
          \/ ~Answers(maker.cur) /\ maker' = Failed(asked) /\ UNCHANGED <<peer, left>>
          \/ maker' = Failed(asked) /\ Lose /\ UNCHANGED peer
    /\ UNCHANGED <<swap, chain, late>>

\* A peer that still waits for an earlier receipt answers the new stream when it is free.
SubmitRelayRequest ==
    /\ At("submit")
    /\ \/ /\ peer[maker.cur].pc \in {"idle", "closed"}
          /\ peer' = [peer EXCEPT ![maker.cur].pc = "validate", ![maker.cur].req = maker.hash]
          /\ Goto("resp") /\ UNCHANGED left
       \/ maker' = Failed(maker) /\ UNCHANGED peer /\ (Lose \/ (peer[maker.cur].pc \notin {"idle", "closed"} /\ UNCHANGED left))
    /\ UNCHANGED <<swap, chain, late>>

\* The response, a closed stream, or nothing for relayResponseTimeout.
receiveRelayClaimResponse ==
    /\ At("resp")
    /\ LET p == maker.cur
       IN \/ /\ peer[p].pc = "answer" /\ peer[p].req = maker.hash
             /\ maker' = [maker EXCEPT !.pc = "receipt", !.tx = peer[p].tx] /\ UNCHANGED late
             /\ peer' = [peer EXCEPT ![p].pc = "closed"]
          \/ peer[p].pc = "closed" /\ maker' = Failed(maker) /\ UNCHANGED <<late, peer>>
          \/ peer[p].pc # "closed" /\ maker' = Failed(maker) /\ late' = TRUE /\ UNCHANGED peer
    /\ UNCHANGED <<swap, chain, left>>

\* Variation: any included transaction is taken for the claim.
validateClaimRelayerReceiptAny(t) == TRUE

\* validateClaimRelayerReceipt and checkClaimedLog: it succeeded, with the swap's Claimed log.
validateClaimRelayerReceipt(t) == t \in chain.ok

\* The end of claimWithRelay: the fee is recorded with the swap.
relayed(m) == [m EXCEPT !.fee = TRUE]

\* maxPolls tries; our node may be behind the relayer's.
waitForClaimRelayerReceipt ==
    /\ At("receipt")
    /\ \/ validateClaimRelayerReceipt(maker.tx) /\ claimFundsReturns(relayed(maker)) /\ UNCHANGED late
       \/ ~validateClaimRelayerReceipt(maker.tx) /\ maker' = Failed(maker) /\ UNCHANGED <<left, late>>
       \/ maker' = Failed(maker) /\ Lose /\ late' = TRUE
    /\ UNCHANGED <<swap, peer, chain>>

\* The event filter finds the Claimed log while no claim is being made.
handleClaimedLogs ==
    /\ maker.pc \in {"idle", "failed"} /\ chain.stage = "claimed"
    /\ Goto("seen")
    /\ UNCHANGED <<swap, peer, chain, left, late>>

-----------------------------------------------------------------------------
(* The relayer *)

\* HandleRelayClaimRequest and validateClaimRequest: the taker relays its own ongoing swap, a
\* relayer anybody's; for ETH above the fee, to the hash of one of the salts it handed out.
validateClaimRequest(p) ==
    /\ p = Taker => peer[p].ongoing
    /\ swap.relayable
    /\ peer[p].req \in peer[p].salts

\* Variation: the hash stays valid.
clearRelayerAddressHashNever(p) == peer[p].salts

clearRelayerAddressHash(p) == peer[p].salts \ {peer[p].req}

Close(p, pc, t) ==
    peer' = [peer EXCEPT ![p].pc = pc, ![p].tx = t, ![p].salts = clearRelayerAddressHash(p)]

HandleRelayClaimRequest(p) ==
    /\ peer[p].pc = "validate"
    /\ IF validateClaimRequest(p) THEN peer' = [peer EXCEPT ![p].pc = "send"] ELSE Close(p, "closed", NoTx)
    /\ UNCHANGED <<swap, maker, chain, left, late>>

\* simulateClaimRelayer runs on the latest block: a pending claim is not seen.
simulateClaimRelayer == chain.stage = "ready"

\* The relayer may also lack the balance for the gas, or lose its node.
ValidateAndSendTransaction(p) ==
    /\ peer[p].pc = "send"
    /\ LET t == [by |-> p, n |-> peer[p].req]
       IN \/ simulateClaimRelayer /\ Send(t) /\ peer' = [peer EXCEPT ![p].pc = "wait", ![p].tx = t] /\ UNCHANGED left
          \/ ~simulateClaimRelayer /\ Close(p, "closed", NoTx) /\ UNCHANGED <<chain, left>>
          \/ Lose /\ Close(p, "closed", NoTx) /\ UNCHANGED chain
    /\ UNCHANGED <<swap, maker, late>>

\* WaitForReceipt may give up while the claim is pending.
RelayReceipt(p) ==
    /\ peer[p].pc = "wait"
    /\ \/ peer[p].tx \in chain.ok /\ Close(p, "answer", peer[p].tx) /\ UNCHANGED late
       \/ peer[p].tx \in chain.reverted /\ Close(p, "closed", NoTx) /\ UNCHANGED late
       \/ peer[p].tx \in chain.pool /\ Close(p, "closed", NoTx) /\ late' = TRUE
    /\ UNCHANGED <<swap, maker, chain, left>>

\* A peer that runs something else may answer anything, or nothing.
OtherPeer(p) ==
    /\ p \notin Honest /\ peer[p].pc \in {"validate", "send", "wait"}
    /\ peer' = [peer EXCEPT ![p].pc = "answer", ![p].tx = Bogus]
    /\ late' = (late \/ peer[p].pc = "wait")
    /\ UNCHANGED <<swap, maker, chain, left>>

\* The answer nobody waits for any more is dropped with its stream.
Dropped(p) ==
    /\ peer[p].pc = "answer" /\ ~(At("resp") /\ maker.cur = p)
    /\ peer' = [peer EXCEPT ![p].pc = "closed"]
    /\ UNCHANGED <<swap, maker, chain, left, late>>

-----------------------------------------------------------------------------
MakerStep ==
    \/ claimFunds \/ senderClaim \/ senderClaimReceipt \/ DiscoverRelayers \/ nextRelayer \/ QueryRelayerAddress
    \/ SubmitRelayRequest \/ receiveRelayClaimResponse \/ waitForClaimRelayerReceipt \/ handleClaimedLogs

PeerStep(p) ==
    \/ HandleRelayClaimRequest(p) \/ ValidateAndSendTransaction(p) \/ RelayReceipt(p) \/ OtherPeer(p) \/ Dropped(p)

Next == Mine \/ Refund \/ MakerStep \/ \E p \in Peers : PeerStep(p)

Spec == Init /\ [][Next]_vars

-----------------------------------------------------------------------------
(* Properties *)

\* A claim the maker takes for relayed was made, whatever hash the relayer answered.
RelayedIsClaimed == At("done") => chain.stage = "claimed"

\* The fee is recorded when the maker took a relayer's receipt, and not for its own claim.
FeeRecorded == At("done") => (maker.fee <=> maker.tx.by # Maker)

\* A relayer spends a hash once: what it has sent, or refused, it will not accept again.
HashUsedOnce ==
    \A p \in Honest : peer[p].pc \in {"answer", "closed"} => peer[p].req \notin peer[p].salts

\* Nobody pays gas for a claim that reverts, unless a wait ended while a claim was pending, or
\* the swap was refunded.
NoGasLost == ~late /\ chain.stage # "refunded" => chain.reverted = {}

Claimed == chain.stage = "claimed"
Known == maker.pc \in {"done", "seen"}

\* Nothing lost and no wait cut short, the counterparty as the last relayer makes the claim of
\* a swap that can be relayed: the maker does not give up on ETH that are still there.
TakerIsLastResort ==
    left = MaxLost /\ ~late /\ swap.relayable /\ peer[Taker].ongoing /\ maker.claims = 1
        => ~(At("failed") /\ chain.stage = "ready")
=============================================================================
