-------------------------------- MODULE MCNode --------------------------------
(***************************************************************************)
(* The parts of a node around its swaps, one at a time: the swap manager   *)
(* with the RPC and websocket calls, the libp2p host, the Ethereum wallet, *)
(* the claim relayer, the database and the restart, the Monero wallets,    *)
(* the keys, the offers, the contracts' events, and the start and stop of  *)
(* the programs.  part says which of them a behaviour is about; the state  *)
(* of the others stays as it was at the start.                             *)
(***************************************************************************)
EXTENDS Coins

CONSTANTS Parts                                         \* the parts of the run
CONSTANTS Roles, Subs, MaxSwaps, MaxRestarts, MaxDrops, MaxFailures, MaxSymbols, MaxGone, MaxFaults
CONSTANTS Takers, None, MaxBadKeys, MaxCancels, MaxTimeouts
CONSTANTS Callers, MaxCalls, Ops, GasPrices, Ether, Tokens
CONSTANTS Relayers, Honest, Taker, Maker, MaxClaims, MaxLost
CONSTANTS OfferSwaps, MaxCrashes, MaxUnsaved, MaxNoReceipts, MaxClears, MaxPurges
CONSTANTS Age, SelfConfs, Ports, Groups, MaxHeight, MaxReorg, MaxReorgs
CONSTANTS Base, Width, EdOrder, SecpOrder, Secrets, Strangers
CONSTANTS XMRAmounts, Rates, Provided, Prices, TokenDecimals, RelayerFee, MaxOfferValue, Gas, MakerBalances, TakerBalances,
          MaxOffers
CONSTANTS Watches, LogChSize, MaxLag, MaxHead, MaxErrors
CONSTANTS Programs, MaxStarts

VARIABLES part
VARIABLES role, swap, book, chans, subs, call, left
VARIABLES m, x, t, wire, entry, inst, mu, offer, panicked, hostLeft
VARIABLES ethCall, lock, acct, pool, mined, replaced, unlocked, calls
VARIABLES relaySwap, maker, peer, chain, relayLeft, late
VARIABLES side, daemon, dbSwap, table, rec, dbOffer, eth, xmr, dbLeft
VARIABLES height, at, taken, job, xmrLeft
VARIABLES parties, contract, account, log, spent
VARIABLES offers, db, funds, purse, deal, answer
VARIABLES watch, head, where, filter, logCh, reader, monitor, luck
VARIABLES proc, defers, err, child, dbOpen, host, server, file, faults, panics

Manager == INSTANCE SwapManager
Net == INSTANCE Host WITH left <- hostLeft
Wallet == INSTANCE EthWallet WITH call <- ethCall, Prices <- GasPrices
Claims == INSTANCE Relay WITH swap <- relaySwap, left <- relayLeft
Disk == INSTANCE Recovery WITH
            MaxSwaps <- OfferSwaps, role <- side, swap <- dbSwap, offer <- dbOffer, left <- dbLeft
Xmr == INSTANCE MoneroWallet WITH left <- xmrLeft
Keys == INSTANCE KeyExchange WITH role <- parties, lock <- account
Market == INSTANCE Offers WITH maker <- funds, taker <- purse, swap <- deal
Logs == INSTANCE Events
Daemon == INSTANCE Swapd

managerVars == <<role, swap, book, chans, subs, call, left>>
hostVars == <<m, x, t, wire, entry, inst, mu, offer, panicked, hostLeft>>
walletVars == <<ethCall, lock, acct, pool, mined, replaced, unlocked, calls>>
relayVars == <<relaySwap, maker, peer, chain, relayLeft, late>>
diskVars == <<side, daemon, dbSwap, table, rec, dbOffer, eth, xmr, dbLeft>>
moneroVars == <<height, at, taken, job, xmrLeft>>
keysVars == <<parties, contract, account, log, spent>>
offersVars == <<offers, db, funds, purse, deal, answer>>
eventsVars == <<watch, head, where, filter, logCh, reader, monitor, luck>>
swapdVars == <<proc, defers, err, child, dbOpen, host, server, file, faults, panics>>
vars == <<part, managerVars, hostVars, walletVars, relayVars, diskVars, moneroVars, keysVars, offersVars, eventsVars, swapdVars>>

\* The state of a part that does not run.
NoManager == role = 0 /\ swap = 0 /\ book = 0 /\ chans = 0 /\ subs = 0 /\ call = 0 /\ left = 0
NoNet == m = 0 /\ x = 0 /\ t = 0 /\ wire = 0 /\ entry = 0 /\ inst = 0 /\ mu = 0 /\ offer = 0 /\ panicked = 0 /\ hostLeft = 0
NoWallet == ethCall = 0 /\ lock = 0 /\ acct = 0 /\ pool = 0 /\ mined = 0 /\ replaced = 0 /\ unlocked = 0 /\ calls = 0
NoClaims == relaySwap = 0 /\ maker = 0 /\ peer = 0 /\ chain = 0 /\ relayLeft = 0 /\ late = 0
NoDisk == side = 0 /\ daemon = 0 /\ dbSwap = 0 /\ table = 0 /\ rec = 0 /\ dbOffer = 0 /\ eth = 0 /\ xmr = 0 /\ dbLeft = 0
NoXmr == height = 0 /\ at = 0 /\ taken = 0 /\ job = 0 /\ xmrLeft = 0
NoKeys == parties = 0 /\ contract = 0 /\ account = 0 /\ log = 0 /\ spent = 0
NoMarket == offers = 0 /\ db = 0 /\ funds = 0 /\ purse = 0 /\ deal = 0 /\ answer = 0
NoLogs == watch = 0 /\ head = 0 /\ where = 0 /\ filter = 0 /\ logCh = 0 /\ reader = 0 /\ monitor = 0 /\ luck = 0
NoDaemon ==
    /\ proc = 0 /\ defers = 0 /\ err = 0 /\ child = 0 /\ dbOpen = 0 /\ host = 0 /\ server = 0 /\ file = 0
    /\ faults = 0 /\ panics = 0

Init ==
    /\ part \in Parts
    /\ IF part = "manager" THEN Manager!Init ELSE NoManager
    /\ IF part = "host" THEN Net!Init ELSE NoNet
    /\ IF part = "wallet" THEN Wallet!Init ELSE NoWallet
    /\ IF part = "relay" THEN Claims!Init ELSE NoClaims
    /\ IF part = "disk" THEN Disk!Init ELSE NoDisk
    /\ IF part = "monero" THEN Xmr!Init ELSE NoXmr
    /\ IF part = "keys" THEN Keys!Init ELSE NoKeys
    /\ IF part = "offers" THEN Market!Init ELSE NoMarket
    /\ IF part = "events" THEN Logs!Init ELSE NoLogs
    /\ IF part = "swapd" THEN Daemon!Init ELSE NoDaemon

networkVars == <<managerVars, hostVars, walletVars, relayVars, diskVars>>
localVars == <<moneroVars, keysVars, offersVars, eventsVars, swapdVars>>

InManager(A) == part = "manager" /\ A /\ UNCHANGED <<part, hostVars, walletVars, relayVars, diskVars, localVars>>
InHost(A) == part = "host" /\ A /\ UNCHANGED <<part, managerVars, walletVars, relayVars, diskVars, localVars>>
InWallet(A) == part = "wallet" /\ A /\ UNCHANGED <<part, managerVars, hostVars, relayVars, diskVars, localVars>>
InRelay(A) == part = "relay" /\ A /\ UNCHANGED <<part, managerVars, hostVars, walletVars, diskVars, localVars>>
InDisk(A) == part = "disk" /\ A /\ UNCHANGED <<part, managerVars, hostVars, walletVars, relayVars, localVars>>
InMonero(A) == part = "monero" /\ A /\ UNCHANGED <<part, keysVars, offersVars, eventsVars, swapdVars, networkVars>>
InKeys(A) == part = "keys" /\ A /\ UNCHANGED <<part, moneroVars, offersVars, eventsVars, swapdVars, networkVars>>
InOffers(A) == part = "offers" /\ A /\ UNCHANGED <<part, moneroVars, keysVars, eventsVars, swapdVars, networkVars>>
InEvents(A) == part = "events" /\ A /\ UNCHANGED <<part, moneroVars, keysVars, offersVars, swapdVars, networkVars>>
InSwapd(A) == part = "swapd" /\ A /\ UNCHANGED <<part, moneroVars, keysVars, offersVars, eventsVars, networkVars>>

Next ==
    \/ InManager(Manager!Next) \/ InHost(Net!Next) \/ InWallet(Wallet!Next) \/ InRelay(Claims!Next)
    \/ InDisk(Disk!Next) \/ InMonero(Xmr!Next) \/ InKeys(Keys!Next) \/ InOffers(Market!Next)
    \/ InEvents(Logs!Next) \/ InSwapd(Daemon!Next)

Spec == Init /\ [][Next]_vars

\* A goroutine that can go on does so, a mutex is handed to each waiter in turn, and a sent
\* transaction is included; a taker may take the offer or not and a client may come or not.
\* The part never changes, and so fairness of a disjunction over the parts is fairness of the
\* steps of each.
Work(a) ==
    \/ a \in Subs /\ InManager(Manager!ServerStep(a))
    \/ a \in Takers /\ InHost(Net!TakerStep(a))
    \/ a \in Callers /\ InWallet(Wallet!Work(a) /\ UNCHANGED calls)
    \/ a \in Honest /\ InRelay(Claims!PeerStep(a))
    \/ a \in Subs /\ InEvents(Logs!FilterStep)

Handler(a) ==
    \/ a \in Subs /\ InManager(Manager!readTakeOfferResponse(a))
    \/ a \in Takers /\ InHost(Net!Running /\ Net!MakerStep(a))
    \/ a \in Honest /\ InRelay(Claims!Mine)
    \/ a \in Subs /\ InEvents(Logs!ReaderStep)

SwapWork(a) ==
    \/ a \in Subs /\ InManager(Manager!SwapStep)
    \/ a \in Takers /\ InHost(Net!Running /\ Net!SwapStep(a))
    \/ a \in Honest /\ InRelay(Claims!MakerStep)
    \/ a \in Subs /\ InSwapd(Daemon!Step)

Locks(a) ==
    \/ a \in Takers /\ InHost(Net!Running /\ Net!HandleInitiateMessage(a))
    \/ a \in Callers /\ InWallet(Wallet!TakeLock(a) /\ UNCHANGED calls)

Agents == Takers \cup Subs \cup Callers \cup Honest

FairSpec ==
    /\ Spec
    /\ \A a \in Agents :
          WF_vars(Work(a)) /\ WF_vars(Handler(a)) /\ WF_vars(SwapWork(a)) /\ SF_vars(Locks(a))
    /\ \A p \in Takers : SF_vars(InHost(Net!Running /\ Net!reap(p)))

-----------------------------------------------------------------------------
(* Properties *)

\* Types of all the parts.
TypeOK ==
    /\ part = "manager" => Manager!TypeOK
    /\ part = "host" => Net!TypeOK
    /\ part = "wallet" => Wallet!TypeOK
    /\ part = "relay" => Claims!TypeOK
    /\ part = "disk" => Disk!TypeOK
    /\ part = "monero" => Xmr!TypeOK
    /\ part = "keys" => Keys!TypeOK
    /\ part = "offers" => Market!TypeOK
    /\ part = "events" => Logs!TypeOK
    /\ part = "swapd" => Daemon!TypeOK

\* What RPC clients are told of swaps is so: past swaps are those of the database, although
\* swap_getPast caches entries while a swap runs; a swap that is listed as ongoing has a state for
\* swap_cancel to find, which answers with that swap's final status; and swap_getOngoing fails
\* only while a swap is between its final status and its removal.
SwapsKnown ==
    part = "manager" =>
        Manager!BooksAgree /\ Manager!NeverOrphaned /\ Manager!CancelReports /\ Manager!OngoingListed

\* The only subscriber of a swap is sent every status of it, in order, and unless a swap exited in
\* an ongoing status no event handler blocks on the status channel, even if nobody reads it and
\* the offer is taken again.
StatusesDelivered == part = "manager" => Manager!NoStatusLost /\ Manager!PushNeverBlocks

\* A taker's swap of an offer begins only when the swap of the one before has left the maker's
\* instance, and the host's entry of a swap holds the stream of the swap's own taker.
OneSwapPerOffer == part = "host" => Net!OneSwapPerOffer /\ Net!EntryIsOwn

\* While every caller keeps the wallet's lock, no transaction is replaced by another caller's, no
\* newSwap is refused or reverted for its token allowance, and Sweep leaves nothing behind.
LockSerializes ==
    part = "wallet" => Wallet!NonceNotReused /\ Wallet!ApprovalKept /\ Wallet!SweepEmpties

\* A call of the wallet that reports success had its transaction included; a claim that the maker
\* takes for relayed was made, whatever hash the relayer answered, and the relayer's fee is
\* recorded for such a claim and for no other.
SuccessIsReal ==
    /\ part = "wallet" => Wallet!SuccessIsMined
    /\ part = "relay" => Claims!RelayedIsClaimed /\ Claims!FeeRecorded

\* A relayer spends a relayer hash once, and nobody pays gas for a claim that reverts, unless a
\* wait ended while a claim was pending or the swap was refunded; the counterparty as the last
\* relayer makes the claim of a swap that can be relayed.
RelayIsSafe == part = "relay" => Claims!HashUsedOnce /\ Claims!NoGasLost /\ Claims!TakerIsLastResort

\* A database that says coins are locked holds the key, the contract's swap and the
\* counterparty's keys of that very swap, not those of an earlier swap of the offer; and a maker
\* that started a swap with a relayer resumes it with one.
RecordsCurrent == part = "disk" => Disk!RecordsCurrent /\ Disk!RelayerKept



\* XMR are not lost to the chain's delays: a transfer that has returned, and a lock that
\* checkForXMRLock has reported, survive reorganisations, and SweepAll spends everything that was
\* mined when it read the balance.
XmrNotLost == part = "monero" => Xmr!LockIsFinal /\ Xmr!SeenIsFinal /\ Xmr!SweepTakesBalance

\* The account that the taker watches is the one that the maker locks the XMR in; the contract
\* accepts the secret that belongs to the key a party proved, after a restart too; and that
\* secret, once revealed, and nothing else of the other side, opens the XMR.
SecretsOpenLock == part = "keys" => Keys!LockSeen /\ Keys!SecretAccepted /\ Keys!SecretOpensLock

\* Offers survive the database and the wire; what the taker's own checks let through the maker
\* refuses only if the offer is gone or the XMR are; the amounts that the two sides derive from
\* the one number in the message agree, are at the offer's price to the last unit, and are worth
\* more than the fee that a relayer takes.
AmountsAgree ==
    part = "offers" =>
        /\ Market!OffersReadable /\ Market!TakerNotRefused
        /\ Market!AmountsAgree /\ Market!PriceKept /\ Market!FeeCovered

\* What the daemon suggests can be used: the amount in the error message passes the test that the
\* refused one failed, the suggested rate is the nearest one to the ratio of the prices, and one
\* that an offer may have unless the ratio is less than half of the last decimal, and the
\* liquidity of a pair covers every offer of its asset that was counted.
SuggestionsWork ==
    part = "offers" => Market!SuggestionWorks /\ Market!RateIsNearest /\ Market!LiquidityCounted

\* A log of the swap in a block that the filter has left behind was given to the swap, although
\* nodes lag by one block and the head may be replaced, unless it came before the swap knew its ID
\* or a node lagged by more; it raises one event however many polls find it.  The wsXMR daemon
\* reports every event behind its cursor once, unless a call failed, a block came during a poll or
\* the head was replaced.
LogsHandledOnce == part = "events" => Logs!NoLogMissed /\ Logs!OneEvent /\ Logs!ReportedOnce

\* Peers and RPC clients are served only while the database, the wallet and the handlers are
\* there, on the networks of the environment; no command line reaches a panic of start-up, and
\* the host asks no maker it does not have; swapd reports no error when it was serving and was
\* told to stop, unless something failed.
ServedOnlyWhenWhole ==
    part = "swapd" => Daemon!ServedOnlyWhenWhole /\ Daemon!NoStartPanic /\ Daemon!CleanStop

\* When a call is over its wallet process and files are gone, whatever failed; a program that is
\* over leaves neither the wallet's child nor the database's lock, on whatever error it returned or
\* when it was killed, except for the child of one killed on a platform without Pdeathsig.
NothingLeft ==
    /\ part = "monero" => Xmr!WalletsClosed
    /\ part = "swapd" => Daemon!NothingLeft

Waiting(a) ==
    \/ part = "manager" /\ a \in Subs /\ Manager!Waiting(a)
    \/ part = "host" /\ a \in Takers /\ Net!Waiting(a)
    \/ part = "wallet" /\ a \in Callers /\ ~Wallet!Idle(a)
    \/ part = "relay" /\ a \in Honest /\ Claims!Claimed
    \/ part = "events" /\ a \in Subs /\ Logs!Pending
    \/ part = "swapd" /\ a \in Subs /\ Daemon!ToldToStop

Served(a) ==
    \/ part = "manager" /\ a \in Subs /\ Manager!Told(a)
    \/ part = "host" /\ a \in Takers /\ Net!Released(a)
    \/ part = "wallet" /\ a \in Callers /\ Wallet!Idle(a)
    \/ part = "relay" /\ a \in Honest /\ Claims!Known
    \/ part = "events" /\ a \in Subs /\ Logs!Raised
    \/ part = "swapd" /\ a \in Subs /\ Daemon!Over

\* Nobody waits for ever: the only subscriber of a swap is told its final status
\* (writeResponse), the end of a stream before the ETH are locked frees both sides
\* (NotifyStreamClosed), every call of the wallet returns and frees the lock, a claim that was
\* relayed becomes known to the maker, also when every call it made has failed, a log of the
\* swap with a block on top raises its event (EventFilter), unless it came before the swap knew its
\* ID or a node lagged by two blocks, and a program that is told to stop exits (SignalHandler,
\* daemon_shutdown).
NobodyStuck == \A a \in Agents : Waiting(a) ~> Served(a)

-----------------------------------------------------------------------------
(* Decimals of the instance: XMR with two places, rates with one *)

MCXMRAmounts == {Dec(10, -2), Dec(10, 0), Dec(11, 0), Dec(125, -3)}
MCRates == {Dec(1, -1), Dec(3, -1), Dec(20, -1), Dec(15, -2)}
MCProvided == {Dec(1, -2), Dec(100, -3), Dec(3, -1), Dec(33, -2), Dec(1, 0), Dec(500, -2), Dec(7, -1), Dec(1, -3), Dec(2, 1), Dec(12345, -4)}
MCPrices == {Dec(150, 0), Dec(7, 0), Dec(123, -1), Dec(2000, 0)}
MCRelayerFee == Dec(1, -2)
MCMaxOfferValue == Dec(1, 1)
MCTakerBalances == {[wei |-> 4, tokens |-> 100], [wei |-> 100000, tokens |-> 10]}
=============================================================================
