----------------------------- MODULE SwapManager ------------------------------
(***************************************************************************)
(* What a daemon says about the swaps of one offer: the swap manager's     *)
(* maps and table (protocol/swap), the channel that carries a swap's       *)
(* status changes to the websocket handlers (rpc/ws.go), the clients that  *)
(* read them (rpcclient), and the RPC calls that look a swap up            *)
(* (rpc/swap.go).  The swap itself only runs through its statuses, as      *)
(* XMRTaker and XMRMaker say in detail.                                    *)
(*                                                                         *)
(* swap is the swapState and its Info, whose status is shared with the     *)
(* manager; book the manager's maps and the database; chans the status     *)
(* channels, chans.at the one the map holds (0: none); subs the websocket  *)
(* connections; call one swap_cancel.                                      *)
(***************************************************************************)
EXTENDS Integers, Sequences, SequencesExt, FiniteSets, FiniteSetsExt

CONSTANTS
    Roles,          \* the roles to start from: a subset of {"taker", "maker"}
    Subs,           \* websocket clients
    MaxSwaps,       \* bounds: swaps of the offer,
    MaxRestarts,    \* restarts of the daemon,
    MaxDrops,       \* swaps that exit in an ongoing status,
    MaxFailures,    \* swap states that cannot be made after AddSwap,
    MaxSymbols,     \* failures to read the token's symbol,
    MaxGone,        \* clients that disconnect,
    MaxFaults       \* faults of all these kinds together

VARIABLES role, swap, book, chans, subs, call, left

vars == <<role, swap, book, chans, subs, call, left>>

Final == {"CompletedSuccess", "CompletedRefund", "CompletedAbort"}
Ongoing == {"ExpectingKeys", "KeysExchanged", "ETHLocked", "XMRLocked", "ContractReady", "SweepingXMR"}
Status == Final \cup Ongoing

IsOngoing(s) == s \in Ongoing

\* An Info, of the n-th swap of the offer; n = 0 stands for a missing entry.
Infos == [n : 0 .. MaxSwaps, status : Status \cup {"None"}]
NoInfo == [n |-> 0, status |-> "None"]
OfferMade == [n |-> 0, status |-> "offer"]      \* other messages to a client
Failed == [n |-> 0, status |-> "error"]
Info == [n |-> swap.n, status |-> swap.status]

\* At most two channels are reachable from a handler, one from the map and one from the swap.
Channels == 1 .. Cardinality(Subs) + 2

NoSwapState == [n |-> 0, status |-> "None", pc |-> "none", next |-> "none", ch |-> 0,
                hist |-> <<>>, again |-> FALSE]
NoSub == [kind |-> "none", pc |-> "off", ch |-> 0, out |-> <<>>, client |-> "off", got |-> <<>>]
NoCall == [pc |-> "idle", n |-> 0, answer |-> NoInfo]

Budget == [swap |-> MaxSwaps, restart |-> MaxRestarts, drop |-> MaxDrops, fail |-> MaxFailures,
           symbol |-> MaxSymbols, gone |-> MaxGone]
Without(faults) == \A f \in faults : left[f] = Budget[f]
Spent == Cardinality({f \in DOMAIN Budget \ {"swap"} : left[f] < Budget[f]})
Spend(f) == left[f] > 0 /\ Spent < MaxFaults /\ left' = [left EXCEPT ![f] = @ - 1]

TypeOK ==
    /\ role \in {"taker", "maker"}
    /\ swap \in [n : 0 .. MaxSwaps, status : Status \cup {"None"},
                 pc : {"none", "idle", "push", "send", "forget", "register", "write", "over"},
                 next : {"none", "register", "exit", "write", "over"}, ch : {0} \cup Channels,
                 hist : Seq(Status), again : BOOLEAN]
    /\ book \in [ongoing : BOOLEAN, past : Infos, table : Infos, reg : 0 .. MaxSwaps,
                 offer : {"listed", "taken", "gone"}, reapers : SUBSET (1 .. MaxSwaps)]
    /\ chans.at \in {0} \cup Channels /\ chans.buf \in [Channels -> Seq(Infos)]
    /\ subs \in [Subs -> [kind : {"none", "status", "take", "make"},
                          pc : {"off", "request", "taking", "getchan", "check", "loop"},
                          ch : {0} \cup Channels, out : Seq(Infos \cup {OfferMade, Failed}),
                          client : {"off", "wait", "loop", "closed", "told"}, got : Seq(Infos)]]
    /\ call \in [pc : {"idle", "exit", "past", "done", "failed"}, n : 0 .. MaxSwaps, answer : Infos]
    /\ left \in [DOMAIN Budget -> 0 .. Max({Budget[f] : f \in DOMAIN Budget})]

Init ==
    /\ role \in Roles
    /\ swap = NoSwapState
    /\ book = [ongoing |-> FALSE, past |-> NoInfo, table |-> NoInfo, reg |-> 0,
               offer |-> "listed", reapers |-> {}]
    /\ chans = [at |-> 0, buf |-> [c \in Channels |-> <<>>]]
    /\ subs = [s \in Subs |-> NoSub]
    /\ call = NoCall
    /\ left = Budget

-----------------------------------------------------------------------------
(* The status channels *)

\* A channel nobody refers to: the garbage collector has it.
Fresh == Min(Channels \ ({chans.at, swap.ch} \cup {subs[s].ch : s \in Subs}))

\* Variation: every caller gets a channel of its own.
getStatusChanNew == [ch |-> Fresh, chans |-> [chans EXCEPT !.at = Fresh, !.buf[Fresh] = <<>>]]

\* The channel of the map, made if there is none, and the channels after the call.
getStatusChan ==
    IF chans.at # 0 THEN [ch |-> chans.at, chans |-> chans]
    ELSE [ch |-> Fresh, chans |-> [at |-> Fresh, buf |-> [chans.buf EXCEPT ![Fresh] = <<>>]]]

DeleteStatusChan == [chans EXCEPT !.at = 0]

\* There is room in the channel, and a send does not block.
newStatusChannel(c) == Len(chans.buf[c]) < 6

-----------------------------------------------------------------------------
(* A swap and its status *)

\* Variation: the Info of a new swap has no status.
FirstStatusUnset == "UnknownStatus"

FirstStatus == IF role = "taker" THEN "ExpectingKeys" ELSE "KeysExchanged"

\* The statuses the event handlers set: setNextExpectedEvent, setSweepStatus and clearNextExpectedEvent.
NextStatuses(s) ==
    IF role = "taker"
    THEN CASE s = "ExpectingKeys" -> {"ETHLocked", "CompletedAbort", "CompletedRefund"}
           [] s = "ETHLocked" -> {"ContractReady", "SweepingXMR", "CompletedSuccess", "CompletedRefund"}
           [] s = "ContractReady" -> {"SweepingXMR", "CompletedSuccess", "CompletedRefund"}
           [] s = "SweepingXMR" -> {"CompletedSuccess"}
           [] OTHER -> {}
    ELSE CASE s = "KeysExchanged" -> {"XMRLocked", "CompletedAbort"}
           [] s = "XMRLocked" -> {"SweepingXMR", "CompletedSuccess"}
           [] s = "SweepingXMR" -> {"CompletedRefund"}
           [] OTHER -> {}

AddSwap(info) == [book EXCEPT !.ongoing = TRUE, !.table = info]
WriteSwapToDB == [book EXCEPT !.table = Info]

\* The maker's offer is taken off the list; the taker takes the offer of a peer.
TakeOffer(b) == IF role = "maker" THEN [b EXCEPT !.offer = "taken"] ELSE b

\* newSwapStateFromStart: AddSwap, and then the status is pushed; if the swap state cannot be
\* made, the swap stays ongoing without one.
newSwapStateFromStart(begun, failed) ==
    LET first == [NoSwapState EXCEPT !.n = swap.n + 1, !.status = FirstStatus]
    IN /\ book' = TakeOffer(AddSwap([n |-> first.n, status |-> FirstStatus]))
       /\ \/ /\ swap' = [first EXCEPT !.pc = "push", !.next = "register"]
             /\ subs' = begun /\ left' = [left EXCEPT !.swap = @ - 1]
          \/ /\ left.fail > 0 /\ Spent < MaxFaults
             /\ swap' = first
             /\ subs' = failed /\ left' = [left EXCEPT !.swap = @ - 1, !.fail = @ - 1]

\* The offer is taken: by a peer's message, or by net_takeOffer.
initiate ==
    /\ left.swap > 0 /\ book.offer = "listed" /\ book.reg = 0 /\ swap.pc = "none"
    /\ newSwapStateFromStart(subs, subs)
    /\ UNCHANGED <<role, chans, call>>

SetStatus ==
    /\ swap.pc = "idle"
    /\ \E s \in NextStatuses(swap.status) :
          swap' = [swap EXCEPT !.status = s, !.pc = "push",
                               !.next = IF IsOngoing(s) THEN "write" ELSE "over"]
    /\ UNCHANGED <<role, book, chans, subs, call, left>>

\* The maker's watcher of Claimed logs sets the status again.
handleClaimedLogs ==
    /\ role = "maker" /\ swap.pc = "over" /\ swap.status = "CompletedSuccess" /\ ~swap.again
    /\ swap' = [swap EXCEPT !.pc = "push", !.next = "over", !.again = TRUE]
    /\ UNCHANGED <<role, book, chans, subs, call, left>>

PushNewStatus ==
    /\ swap.pc = "push"
    /\ swap' = [swap EXCEPT !.pc = "send", !.ch = getStatusChan.ch]
    /\ chans' = getStatusChan.chans
    /\ UNCHANGED <<role, book, subs, call, left>>

\* The send blocks while the channel is full.
PushNewStatusSend ==
    /\ swap.pc = "send" /\ newStatusChannel(swap.ch)
    /\ chans' = [chans EXCEPT !.buf[swap.ch] = Append(@, Info)]
    /\ swap' = [swap EXCEPT !.pc = IF IsOngoing(swap.status) THEN swap.next ELSE "forget", !.ch = 0,
                            !.hist = Append(@, swap.status)]
    /\ UNCHANGED <<role, book, subs, call, left>>

PushNewStatusForget ==
    /\ swap.pc = "forget"
    /\ chans' = DeleteStatusChan
    /\ swap' = [swap EXCEPT !.pc = swap.next]
    /\ UNCHANGED <<role, book, subs, call, left>>

setNextExpectedEvent ==
    /\ swap.pc = "write"
    /\ book' = WriteSwapToDB
    /\ swap' = [swap EXCEPT !.pc = "idle"]
    /\ UNCHANGED <<role, chans, subs, call, left>>

\* The maker stores the relayer's fee when a relayed claim has been mined.
SetRelayerFee ==
    /\ role = "maker" /\ swap.pc \in {"idle", "over"} /\ swap.status \in {"XMRLocked", "CompletedSuccess"}
    /\ book.ongoing
    /\ book' = WriteSwapToDB
    /\ UNCHANGED <<role, swap, chans, subs, call, left>>

\* The swap state enters the instance's map; the goroutine that removes it already runs.  The
\* maker reads the token's symbol in between, and exits the swap if that fails.
register ==
    /\ swap.pc = "register"
    /\ \/ /\ swap' = [swap EXCEPT !.pc = "idle"]
          /\ book' = [book EXCEPT !.reg = swap.n]
          /\ UNCHANGED left
       \/ /\ role = "maker" /\ Spend("symbol")
          /\ swap' = [swap EXCEPT !.status = "CompletedAbort", !.pc = "push", !.next = "over"]
          /\ UNCHANGED book
    /\ UNCHANGED <<role, chans, subs, call>>

CompleteOngoingSwap == [book EXCEPT !.ongoing = FALSE, !.past = Info, !.table = Info]

\* exit()'s deferred function: the maker's offer is listed again unless the swap succeeded, and
\* the swap's done channel is closed.
exited(b) ==
    [b EXCEPT !.reapers = @ \cup {swap.n},
              !.offer = IF role = "maker" /\ swap.status = "CompletedSuccess" THEN "gone" ELSE "listed"]

\* exit() of a swap whose status is final, or which cannot be brought to a final status.
exit ==
    /\ \/ swap.pc = "over" /\ UNCHANGED left
       \/ swap.pc = "idle" /\ swap.status # FirstStatus /\ Spend("drop")
    /\ book.ongoing
    /\ book' = exited(CompleteOngoingSwap)
    /\ swap' = [swap EXCEPT !.pc = "none"]
    /\ call' = IF call.pc = "exit" /\ call.n = swap.n THEN [call EXCEPT !.pc = "past"] ELSE call
    /\ UNCHANGED <<role, chans, subs>>

\* The goroutine of a finished swap removes the offer's swap state, whichever swap's it is.
reap ==
    \E n \in book.reapers :
        /\ book' = [book EXCEPT !.reg = 0, !.reapers = @ \ {n}]
        /\ UNCHANGED <<role, swap, chans, subs, call, left>>

-----------------------------------------------------------------------------
(* Looking a swap up *)

\* The past entry, and the book after the call: an entry read from the table is kept as past.
GetPastSwap ==
    IF book.past # NoInfo THEN [info |-> book.past, book |-> book]
    ELSE [info |-> book.table, book |-> [book EXCEPT !.past = book.table]]

GetPast ==
    /\ book.table # NoInfo
    /\ book' = GetPastSwap.book
    /\ UNCHANGED <<role, swap, chans, subs, call, left>>

\* swap_getOngoing fails if the status of a swap it lists has no estimate.
estimatedTimeToCompletionForStatus(s) == s \in Ongoing

GetOngoing == book.ongoing => estimatedTimeToCompletionForStatus(swap.status)

\* Variation: swap_cancel does not wait for the exit.
CancelAtOnce ==
    /\ call.pc = "idle" /\ book.ongoing
    /\ call' = [call EXCEPT !.pc = "past", !.n = swap.n]
    /\ UNCHANGED <<role, swap, book, chans, subs, left>>

\* swap_cancel.  A swap without a swap state has a nil pointer in a non-nil interface.
Cancel ==
    /\ call.pc = "idle" /\ book.ongoing
    /\ call' = IF book.reg = 0 THEN [call EXCEPT !.pc = "failed", !.n = swap.n]
               ELSE [call EXCEPT !.pc = "exit", !.n = book.reg]
    /\ UNCHANGED <<role, swap, book, chans, subs, left>>

CancelAnswered ==
    /\ call.pc = "past"
    /\ call' = [call EXCEPT !.pc = "done", !.answer = GetPastSwap.info]
    /\ book' = GetPastSwap.book
    /\ UNCHANGED <<role, swap, chans, subs, left>>

-----------------------------------------------------------------------------
(* The websocket handlers *)

Sub(s, r) == [subs EXCEPT ![s] = r]
Write(r, m) == [r EXCEPT !.out = Append(@, m)]

handleRequest(s) ==
    /\ subs[s].pc = "request"
    /\ \/ /\ subs[s].kind = "status"
          /\ subs' = Sub(s, [subs[s] EXCEPT !.pc = "getchan"])
          /\ UNCHANGED <<swap, book, left>>
       \/ /\ subs[s].kind = "make"
          /\ subs' = Sub(s, [Write(subs[s], OfferMade) EXCEPT !.pc = "getchan"])
          /\ UNCHANGED <<swap, book, left>>
       \/ /\ subs[s].kind = "take" /\ left.swap > 0 /\ book.reg = 0 /\ swap.pc = "none"
          /\ newSwapStateFromStart(Sub(s, [subs[s] EXCEPT !.pc = "taking"]),
                                   Sub(s, [Write(subs[s], Failed) EXCEPT !.pc = "off"]))
       \/ /\ subs[s].kind = "take" /\ (book.reg # 0 \/ swap.pc # "none")
          /\ subs' = Sub(s, [Write(subs[s], Failed) EXCEPT !.pc = "off"])
          /\ UNCHANGED <<swap, book, left>>
    /\ UNCHANGED <<role, chans, call>>

\* net_takeOffer reaches the peer, or exits the swap; either way it reports no error.
takeOffer(s) ==
    /\ subs[s].pc = "taking" /\ swap.pc \notin {"push", "send", "register"}
    /\ subs' = Sub(s, [subs[s] EXCEPT !.pc = "getchan"])
    /\ UNCHANGED <<role, swap, book, chans, call, left>>

GetStatusChan(s) ==
    /\ subs[s].pc = "getchan"
    /\ chans' = getStatusChan.chans
    /\ subs' = Sub(s, [subs[s] EXCEPT !.ch = getStatusChan.ch,
                                      !.pc = IF subs[s].kind = "make" THEN "loop" ELSE "check"])
    /\ UNCHANGED <<role, swap, book, call, left>>

writeSwapExitStatus(r) ==
    [Write(r, IF GetPastSwap.info = NoInfo THEN Failed ELSE GetPastSwap.info) EXCEPT !.pc = "off", !.ch = 0]

subscribeSwapStatus(s) ==
    /\ subs[s].pc = "check"
    /\ \/ /\ book.ongoing
          /\ subs' = Sub(s, [subs[s] EXCEPT !.pc = "loop"])
          /\ UNCHANGED <<chans, book>>
       \/ /\ ~book.ongoing
          /\ subs' = Sub(s, writeSwapExitStatus(subs[s]))
          /\ chans' = DeleteStatusChan /\ book' = GetPastSwap.book
    /\ UNCHANGED <<role, swap, call, left>>

\* A handler whose client is gone notices when it writes; the status is lost with it.
writeResponse(s) ==
    /\ subs[s].pc = "loop" /\ chans.buf[subs[s].ch] # <<>>
    /\ LET i == Head(chans.buf[subs[s].ch])
           last == subs[s].client = "closed" \/ ~IsOngoing(i.status)
           r == IF subs[s].client = "closed" THEN subs[s] ELSE Write(subs[s], i)
       IN subs' = Sub(s, IF last THEN [r EXCEPT !.pc = "off", !.ch = 0] ELSE r)
    /\ chans' = [chans EXCEPT !.buf[subs[s].ch] = Tail(@)]
    /\ UNCHANGED <<role, swap, book, call, left>>

-----------------------------------------------------------------------------
(* The clients *)

Subscribes(s, kind, first) ==
    /\ subs[s].client = "off"
    /\ subs' = Sub(s, [NoSub EXCEPT !.kind = kind, !.pc = "request", !.client = first])
    /\ UNCHANGED <<role, swap, book, chans, call, left>>

SubscribeSwapStatus(s) == Subscribes(s, "status", "loop")
TakeOfferAndSubscribe(s) == role = "taker" /\ left.swap > 0 /\ Subscribes(s, "take", "wait")
MakeOfferAndSubscribe(s) == role = "maker" /\ swap.n = 0 /\ Subscribes(s, "make", "wait")

\* The client reads one message; an error or a final status ends the subscription.
readTakeOfferResponse(s) ==
    /\ subs[s].client \in {"wait", "loop"} /\ subs[s].out # <<>>
    /\ LET m == Head(subs[s].out)
           r == [subs[s] EXCEPT !.out = Tail(@)]
       IN subs' = Sub(s, IF m = Failed THEN [r EXCEPT !.client = "closed"]
                         ELSE IF m = OfferMade THEN [r EXCEPT !.client = "loop"]
                         ELSE [r EXCEPT !.got = Append(@, m),
                                        !.client = IF IsOngoing(m.status) THEN "loop" ELSE "told"])
    /\ UNCHANGED <<role, swap, book, chans, call, left>>

Disconnect(s) ==
    /\ subs[s].client \in {"wait", "loop"} /\ Spend("gone")
    /\ subs' = Sub(s, [subs[s] EXCEPT !.client = "closed", !.out = <<>>])
    /\ UNCHANGED <<role, swap, book, chans, call>>

-----------------------------------------------------------------------------
(* Restarts *)

\* NewManager and checkForOngoingSwaps: what was never locked is aborted, what was being swept
\* is completed, and the rest gets a swap state unless its records cannot be read.
Restart ==
    /\ Spend("restart")
    /\ LET t == book.table
           base == [ongoing |-> FALSE, past |-> NoInfo, table |-> t, reg |-> 0, reapers |-> {},
                    offer |-> IF book.offer = "gone" THEN "gone" ELSE "listed"]
           ended(s) == [base EXCEPT !.past = [n |-> t.n, status |-> s], !.table = [n |-> t.n, status |-> s]]
           b == [base EXCEPT !.ongoing = TRUE]
           resumed == [NoSwapState EXCEPT !.n = t.n, !.status = t.status]
           dead == [NoSwapState EXCEPT !.n = swap.n]
       IN \/ /\ t.status \in Final \cup {"None"} /\ book' = base /\ swap' = dead
          \/ /\ t.status = FirstStatus
             /\ book' = ended("CompletedAbort") /\ swap' = dead
          \/ /\ t.status = "SweepingXMR"
             /\ book' = ended(IF role = "taker" THEN "CompletedSuccess" ELSE "CompletedRefund")
             /\ swap' = dead
          \/ /\ t.status \in Ongoing \ {FirstStatus, "SweepingXMR"}
             /\ \/ /\ book' = TakeOffer([base EXCEPT !.ongoing = TRUE, !.reg = t.n])
                   /\ swap' = [resumed EXCEPT !.pc = "idle"]
                \/ /\ book' \in {b, TakeOffer(b)} \* its records or its offer cannot be read
                   /\ swap' = resumed
    /\ chans' = [at |-> 0, buf |-> [c \in Channels |-> <<>>]]
    /\ subs' = [s \in Subs |-> IF subs[s].client = "off" THEN NoSub
                               ELSE [subs[s] EXCEPT !.pc = "off", !.ch = 0, !.out = <<>>,
                                       !.client = IF @ = "told" THEN @ ELSE "closed"]]
    /\ call' = IF call.pc \in {"exit", "past"} THEN [call EXCEPT !.pc = "failed"] ELSE call
    /\ UNCHANGED role

SwapStep == SetStatus \/ handleClaimedLogs \/ PushNewStatus \/ PushNewStatusSend
            \/ PushNewStatusForget \/ setNextExpectedEvent \/ register \/ exit \/ reap
ServerStep(s) == handleRequest(s) \/ takeOffer(s) \/ GetStatusChan(s) \/ subscribeSwapStatus(s)
                 \/ writeResponse(s)

Next ==
    \/ initiate \/ SwapStep \/ SetRelayerFee
    \/ GetPast \/ Cancel \/ CancelAnswered \/ Restart
    \/ \E s \in Subs :
          \/ ServerStep(s)
          \/ SubscribeSwapStatus(s) \/ TakeOfferAndSubscribe(s) \/ MakeOfferAndSubscribe(s)
          \/ readTakeOfferResponse(s) \/ Disconnect(s)

Spec == Init /\ [][Next]_vars

-----------------------------------------------------------------------------
(* Properties *)

Faults == {"drop", "fail", "symbol", "restart"}

\* When no swap of the offer is ongoing, the manager's past entry, which swap_getPast caches
\* even while a swap runs, is what the database holds.
BooksAgree == ~book.ongoing /\ book.past # NoInfo => book.past = book.table

\* Unless a swap exited in an ongoing status, no event handler ever blocks on the status
\* channel, even if nobody reads it and the offer is taken again.
PushNeverBlocks ==
    Without({"drop"}) /\ swap.pc = "send" => newStatusChannel(swap.ch)

\* A swap the manager lists as ongoing has a swap state for swap_cancel to find: the goroutine
\* that removes the state of the swap before cannot remove this one's.
NeverOrphaned ==
    Without({"fail", "symbol", "restart"}) /\ book.ongoing /\ swap.pc \in {"idle", "write", "over"}
        => book.reg = swap.n

\* swap_getOngoing, which fails for all swaps if one of them has a final status, fails only
\* while a swap is between its final status and its removal from the manager.
OngoingListed == swap.pc \notin {"push", "send", "forget", "over"} => GetOngoing

\* swap_cancel answers with the final status of the swap it cancelled, never with that of an
\* earlier swap of the offer and never with one the swap had while it was running.
CancelReports ==
    Without({"drop"}) /\ call.pc = "done" => call.answer.n >= call.n /\ call.answer.status \in Final

\* The subscribers that follow the channel.
Lone(s) == \A t \in Subs \ {s} : subs[t].kind = "none"
Heard(s) == subs[s].got \o SelectSeq(subs[s].out, LAMBDA m : m # OfferMade)

\* What the only subscriber has been sent, together with what its channel still holds, is every
\* status of the swap from the first one on, in order, as long as the swap is not over.
NoStatusLost ==
    \A s \in Subs :
        /\ Without({"drop"}) /\ Lone(s)
        /\ subs[s].pc = "loop" /\ subs[s].client # "closed" /\ subs[s].ch = chans.at
        /\ swap.hist = <<>> \/ IsOngoing(Last(swap.hist))
        => LET seen == Heard(s) \o chans.buf[subs[s].ch]
           IN [i \in DOMAIN seen |-> seen[i].status] = swap.hist

\* The only subscriber of a swap that is not yet over waits on its channel.
Waiting(s) ==
    /\ Lone(s) /\ subs[s].pc = "loop" /\ subs[s].client \in {"wait", "loop"}
    /\ book.ongoing /\ swap.pc \in {"idle", "write"} /\ IsOngoing(swap.status)

\* It was told the final status, unless the swap is dropped or the daemon restarts.
Told(s) == subs[s].client \in {"told", "closed"} \/ ~Lone(s) \/ ~Without(Faults)

=============================================================================
