------------------------------ MODULE KeyExchange ------------------------------
(***************************************************************************)
(* The keys of a swap: what each party generates, sends, checks, commits   *)
(* to on Ethereum, locks to on Monero, and reveals (protocol/common.go,    *)
(* dleq, crypto/monero, crypto/secp256k1, ethereum/utils.go, and the two   *)
(* swap states' use of them).                                              *)
(*                                                                         *)
(* Both curves are cyclic groups, so a point is the multiple of the        *)
(* generator that it is; their orders differ.  Bytes are digits in a small *)
(* base, and keys keep their byte order: little-endian for ed25519,        *)
(* big-endian for the EVM.  The hash is injective.                         *)
(***************************************************************************)
EXTENDS Integers, Sequences, FiniteSets, SequencesExt

CONSTANTS
    Base, Width,        \* a key is Width bytes, a byte is a digit below Base
    EdOrder,            \* the order of ed25519
    SecpOrder,          \* the order of secp256k1
    Secrets,            \* the secrets that suit both curves
    Strangers           \* keys that a party may send by mistake in place of its own

VARIABLES role, contract, lock, log, spent

vars == <<role, contract, lock, log, spent>>

Parties == {"taker", "maker"}
Other(p) == CHOOSE q \in Parties : q # p
Nothing == [none |-> TRUE]

-----------------------------------------------------------------------------
(* Bytes and scalars *)

Size == Base ^ Width
Bytes(n) == [i \in 1..Width |-> (n \div (Base ^ (Width - i))) % Base]       \* big-endian
Number(b) == (b[1] * Base) + b[2]

\* big.Int's Bytes has no leading zeros.
Minimal(n) == LET b == Bytes(n) IN SelectInSeq(b, LAMBDA d : d # 0)
MinimalBytes(n) == IF n = 0 THEN <<>> ELSE SubSeq(Bytes(n), Minimal(n), Width)

\* SetCanonicalBytes takes a little-endian scalar below the order, and nothing else.
Canonical(b) == Len(b) = Width /\ Number(Reverse(b)) < EdOrder
Scalar(b) == Number(Reverse(b))
ScalarBytes(s) == Reverse(Bytes(s))

\* The hash that the view key is drawn from.
Keccak256Scalar(s) == Reverse(Bytes((5 * s + 9) % Size))

scReduce32(b) ==
    LET r == MinimalBytes(Number(Reverse(b)) % EdOrder) IN Reverse(r) \o [i \in 1..(Width - Len(r)) |-> 0]

View(sk) == Scalar(scReduce32(Keccak256Scalar(sk)))
Public(s) == s % EdOrder
SumPublicKeys(a, b) == (a + b) % EdOrder
SumPrivateSpendKeys(a, b) == (a + b) % EdOrder
SumPrivateViewKeys(a, b) == (a + b) % EdOrder

-----------------------------------------------------------------------------
(* secp256k1 *)

\* The coordinates of a point: two numbers that tell the points apart, leading zeros included.
X(s) == (3 * (s % SecpOrder) + 1) % Size
Y(s) == (7 * (s % SecpOrder)) % Size

NewPublicKeyFromBigInt(x, y) ==
    [x |-> [i \in 1..(Width - Len(MinimalBytes(x))) |-> 0] \o MinimalBytes(x),
     y |-> [i \in 1..(Width - Len(MinimalBytes(y))) |-> 0] \o MinimalBytes(y)]

Keccak256(pk) == <<"keccak256", pk.x \o pk.y>>

\* The contract's check of a secret: the scalar, read as big-endian, times the generator.
Commitment(b) == <<"keccak256", Bytes(X(Number(b))) \o Bytes(Y(Number(b)))>>

-----------------------------------------------------------------------------
(* The DLEq proof *)

\* The secret is little-endian in the proof; a proof binds a secp256k1 and an ed25519 key.
Prove(s) == [secret |-> ScalarBytes(s), proof |-> [secp |-> s, ed |-> s]]
Secret(proof) == Reverse(proof.secret)
Verify(proof) == [secp |-> NewPublicKeyFromBigInt(X(proof.secp), Y(proof.secp)), ed |-> Public(proof.ed)]

VerifyKeysAndProof(msg) == Verify(msg.proof).secp = msg.secp /\ Verify(msg.proof).ed = msg.spend

GenerateKeysAndProof(s) ==
    LET proof == Prove(s)
        sk == Scalar(Reverse(Secret(proof)))
    IN [dleq |-> proof, secp |-> Verify(proof.proof).secp, sk |-> sk, vk |-> View(sk)]

-----------------------------------------------------------------------------
(* Addresses *)

Envs == {"mainnet", "stagenet", "development"}
Prefix(env) == IF env = "stagenet" THEN 24 ELSE 18

Address(spend, view, env) ==
    LET body == <<Prefix(env), spend, view>> IN [decoded |-> body, checksum |-> <<"keccak256", body>>]

Network(addr) == IF addr.decoded[1] \in {18, 42} THEN "mainnet" ELSE IF addr.decoded[1] \in {24, 36} THEN "stagenet" ELSE "testnet"

ValidateEnv(addr, env) ==
    \/ Network(addr) = "mainnet" /\ env \in {"mainnet", "development"}
    \/ Network(addr) = "stagenet" /\ env = "stagenet"

-----------------------------------------------------------------------------
(* A party's state: what it has in memory and, after a restart, what the recovery database gave
   back.  theirs holds the counterparty's keys. *)

NewRole(s) == [keys |-> GenerateKeysAndProof(s), theirs |-> Nothing, pc |-> "start", restarted |-> FALSE]

TypeOK ==
    /\ DOMAIN role.party = Parties /\ role.env \in Envs
    /\ \A p \in Parties :
          LET k == role.party[p].keys IN /\ k.sk \in 0..(EdOrder - 1) /\ k.vk \in 0..(EdOrder - 1)
                                         /\ Canonical(scReduce32(Keccak256Scalar(k.sk)))
                                         /\ Len(k.secp.x) = Width /\ Len(k.secp.y) = Width
                                         /\ role.party[p].pc \in {"start", "keys", "locked", "claimed", "done", "refused"}
    /\ contract = Nothing \/ DOMAIN contract = {"claim", "refund", "stage"}
    /\ spent \subseteq Parties

Init ==
    /\ \E st, sm \in Secrets, env \in Envs :
          role = [env |-> env, party |-> [p \in Parties |-> NewRole(IF p = "taker" THEN st ELSE sm)]]
    /\ contract = Nothing /\ lock = Nothing /\ log = Nothing /\ spent = {}

\* SendKeysMessage of p; a party may send the public key of another swap by mistake.
SendKeysMessage(p) ==
    LET k == role.party[p].keys
        own == [spend |-> Public(k.sk), view |-> k.vk, proof |-> k.dleq.proof, secp |-> k.secp]
    IN {own} \cup {[own EXCEPT !.spend = Public(s)] : s \in Strangers}
             \cup {[own EXCEPT !.secp = NewPublicKeyFromBigInt(X(s), Y(s))] : s \in Strangers}

SetParty(p, r) == role' = [role EXCEPT !.party[p] = r]

\* handleSendKeysMessage: the proof must be that of both keys; the keys are kept and saved.
handleSendKeysMessage(p) ==
    /\ role.party[p].pc = "start"
    /\ \E msg \in SendKeysMessage(Other(p)) :
          SetParty(p, IF VerifyKeysAndProof(msg)
                      THEN [role.party[p] EXCEPT !.pc = "keys",
                                                 !.theirs = [spend |-> msg.spend, view |-> msg.view, secp |-> msg.secp]]
                      ELSE [role.party[p] EXCEPT !.pc = "refused"])
    /\ UNCHANGED <<contract, lock, log, spent>>

TakerState == role.party["taker"]
MakerState == role.party["maker"]

\* lockAsset: the contract is given both commitments.
lockAsset ==
    /\ TakerState.pc = "keys" /\ contract = Nothing
    /\ contract' = [claim |-> Keccak256(TakerState.theirs.secp), refund |-> Keccak256(TakerState.keys.secp), stage |-> "pending"]
    /\ SetParty("taker", [TakerState EXCEPT !.pc = "locked"])
    /\ UNCHANGED <<lock, log, spent>>

checkContract ==
    contract.claim = Keccak256(MakerState.keys.secp) /\ contract.refund = Keccak256(MakerState.theirs.secp)

\* lockFunds: to (S_a + S_b), viewable with (V_a + V_b).
lockFunds ==
    /\ MakerState.pc = "keys" /\ contract # Nothing /\ checkContract
    /\ lock' = Address(SumPublicKeys(MakerState.theirs.spend, Public(MakerState.keys.sk)),
                       SumPublicKeys(Public(MakerState.theirs.view), Public(MakerState.keys.vk)), role.env)
    /\ SetParty("maker", [MakerState EXCEPT !.pc = "locked"])
    /\ UNCHANGED <<contract, log, spent>>

expectedXMRLockAccount ==
    LET vk == SumPrivateViewKeys(TakerState.theirs.view, TakerState.keys.vk)
        sk == SumPublicKeys(TakerState.theirs.spend, Public(TakerState.keys.sk))
    IN Address(sk, Public(vk), role.env)

\* checkForXMRLock: the view-only wallet of the expected account shows the XMR.
setReady ==
    /\ TakerState.pc = "locked" /\ contract.stage = "pending" /\ lock # Nothing
    /\ lock = expectedXMRLockAccount
    /\ contract' = [contract EXCEPT !.stage = "ready"]
    /\ UNCHANGED <<role, lock, log, spent>>

\* The secret for the contract, big-endian: from the proof, or after a restart from the key.
getSecret(p) ==
    LET k == role.party[p].keys IN IF role.party[p].restarted THEN Reverse(ScalarBytes(k.sk)) ELSE Secret(k.dleq)

\* A crash: the proof is lost, the keys come back from the recovery database.
Restart(p) ==
    /\ role.party[p].pc = "locked" /\ ~role.party[p].restarted
    /\ Canonical(ScalarBytes(role.party[p].keys.sk))
    /\ SetParty(p, [role.party[p] EXCEPT !.restarted = TRUE,
                                         !.keys.sk = Scalar(ScalarBytes(@)), !.keys.vk = View(Scalar(ScalarBytes(role.party[p].keys.sk)))])
    /\ UNCHANGED <<contract, lock, log, spent>>

\* claim by the maker, refund by the taker; the contract logs the secret when it fits.
Settle(p) ==
    /\ role.party[p].pc = "locked" /\ contract # Nothing /\ contract.stage # "completed"
    /\ p = "maker" => contract.stage = "ready"
    /\ IF Commitment(getSecret(p)) = IF p = "maker" THEN contract.claim ELSE contract.refund
       THEN /\ contract' = [contract EXCEPT !.stage = "completed"]
            /\ log' = [by |-> p, topic |-> getSecret(p)]
            /\ SetParty(p, [role.party[p] EXCEPT !.pc = "done"])
       ELSE UNCHANGED <<contract, log>> /\ SetParty(p, [role.party[p] EXCEPT !.pc = "refused"])
    /\ UNCHANGED <<lock, spent>>

\* Variation: as the log has it.
GetSecretFromLogBig(l) == IF Number(l.topic) = 0 THEN Nothing ELSE [key |-> Scalar(l.topic)]

GetSecretFromLog(l) ==
    IF Number(l.topic) = 0 \/ ~Canonical(Reverse(l.topic)) THEN Nothing ELSE [key |-> Scalar(Reverse(l.topic))]

GetClaimKeypair(skA, skB, vkA, vkB) == [sk |-> SumPrivateSpendKeys(skA, skB), vk |-> SumPrivateViewKeys(vkA, vkB)]

\* claimMonero and reclaimMonero: the other's secret from the log, the pair of both, the wallet
\* of the pair, and a sweep to an address of the network.
ClaimMonero(p) ==
    /\ log # Nothing /\ log.by = Other(p) /\ role.party[p].pc = "locked" /\ lock # Nothing
    /\ GetSecretFromLog(log) # Nothing
    /\ LET r == role.party[p]
           kp == GetClaimKeypair(GetSecretFromLog(log).key, r.keys.sk, r.theirs.view, r.keys.vk)
           address == Address(Public(kp.sk), Public(kp.vk), role.env)
       IN /\ ValidateEnv(address, role.env)
          /\ spent' = IF address = lock THEN spent \cup {p} ELSE spent
    /\ SetParty(p, [role.party[p] EXCEPT !.pc = "claimed"])
    /\ UNCHANGED <<contract, lock, log>>

Next ==
    \/ \E p \in Parties : handleSendKeysMessage(p) \/ Restart(p) \/ Settle(p) \/ ClaimMonero(p)
    \/ lockAsset \/ lockFunds \/ setReady

Spec == Init /\ [][Next]_vars

-----------------------------------------------------------------------------
(* Properties *)

\* The account that the taker watches is the one that the maker locks the XMR in: the two compute
\* the address from different halves of the keys.
LockSeen == (lock # Nothing /\ TakerState.theirs # Nothing /\ TakerState.pc \in {"locked", "done"}) => lock = expectedXMRLockAccount

\* The contract accepts the secret that belongs to the key a party proved, after a restart too:
\* neither a claim nor a refund is refused for the keys.
SecretAccepted == \A p \in Parties : contract # Nothing /\ (p = "maker" => lock # Nothing) => Commitment(getSecret(p)) = IF p = "maker" THEN contract.claim ELSE contract.refund

\* The secret that the other side reveals, and nothing else of it, opens the XMR: whoever gets
\* as far as combining the keys has the key pair of the account in which the XMR are locked.
SecretOpensLock == \A p \in Parties : role.party[p].pc = "claimed" => p \in spent
=============================================================================
