--------------------------------- MODULE Host ---------------------------------
(***************************************************************************)
(* The swap protocol's streams: net/host.go and net/initiate.go at both    *)
(* ends, with the parts of the swap states that open, answer and close     *)
(* them (xmrmaker/net.go, rpc/net.go, NotifyStreamClosed and exit).        *)
(*                                                                         *)
(* Several takers take one offer of one maker.  For each taker p, m[p] is  *)
(* the maker's goroutine for p's stream, x[p] the event loop of the swap   *)
(* state that the maker made for p, t[p] the taker's side, wire[p] the     *)
(* stream.  entry is the maker host's swaps[offerID], inst the instance's  *)
(* swapStates[offerID], mu the holder of the instance's swapMu.            *)
(***************************************************************************)
EXTENDS Integers, FiniteSets, Sequences

CONSTANTS
    Takers,         \* the peers that take the offer
    None,           \* no peer
    MaxBadKeys,     \* bounds: SendKeys messages that the other side refuses,
    MaxCancels,     \* swaps cancelled at the maker,
    MaxTimeouts     \* waits of initiateResponseTimeout that end without an answer

VARIABLES m, x, t, wire, entry, inst, mu, offer, panicked, left

vars == <<m, x, t, wire, entry, inst, mu, offer, panicked, left>>

NoEntry == [stream |-> None, state |-> None, closed |-> FALSE]
Budget == [badKeys |-> MaxBadKeys, cancel |-> MaxCancels, timeout |-> MaxTimeouts]
Without(faults) == \A f \in faults : left[f] = Budget[f]
Spend(f) == left[f] > 0 /\ left' = [left EXCEPT ![f] = @ - 1]

TypeOK ==
    /\ m \in [Takers -> {"none", "read", "register", "initiate", "reply", "exit", "failed", "set", "inner",
                         "close", "done"}]
    /\ x \in [Takers -> {"none", "keysSent", "ethLocked", "closing", "relist", "delete", "exited", "reaped"}]
    /\ t \in [Takers -> [pc : {"idle", "response", "inner", "close", "closeAgain", "done", "failed"},
                         swap : {"none", "keys", "running", "exited"}, entry : BOOLEAN, told : BOOLEAN]]
    /\ \A p \in Takers : /\ wire[p].toMaker \in Seq({"SendKeys", "NotifyETHLocked"}) /\ Len(wire[p].toMaker) <= 2
                         /\ wire[p].toTaker \in Seq({"SendKeys"}) /\ Len(wire[p].toTaker) <= Cardinality(Takers)
                         /\ wire[p].open \in BOOLEAN
    /\ entry \in [stream : Takers \cup {None}, state : Takers \cup {None}, closed : BOOLEAN]
    /\ inst \in Takers \cup {None} /\ mu \in Takers \cup {None}
    /\ offer \in BOOLEAN /\ panicked \in BOOLEAN

Init ==
    /\ m = [p \in Takers |-> "none"] /\ x = [p \in Takers |-> "none"]
    /\ t = [p \in Takers |-> [pc |-> "idle", swap |-> "none", entry |-> FALSE, told |-> FALSE]]
    /\ wire = [p \in Takers |-> [toMaker |-> <<>>, toTaker |-> <<>>, open |-> FALSE]]
    /\ entry = NoEntry /\ inst = None /\ mu = None
    /\ offer = TRUE /\ panicked = FALSE /\ left = Budget

Close(p) == wire' = [wire EXCEPT ![p].open = FALSE]
Eof(p, msgs) == ~wire[p].open /\ msgs = <<>>
Running == ~panicked

-----------------------------------------------------------------------------
(* The taker *)

\* takeOffer: the maker's offers are queried, the swap state is made, and Initiate opens the
\* stream and sends the keys.  When it fails, the swap is exited and Exit's error is returned.
takeOffer(p) ==
    /\ t[p].pc = "idle" /\ offer
    /\ \/ /\ t' = [t EXCEPT ![p] = [pc |-> "response", swap |-> "keys", entry |-> TRUE, told |-> FALSE]]
          /\ wire' = [wire EXCEPT ![p] = [toMaker |-> <<"SendKeys">>, toTaker |-> <<>>, open |-> TRUE]]
          /\ m' = [m EXCEPT ![p] = "read"]
       \/ /\ t' = [t EXCEPT ![p] = [pc |-> "failed", swap |-> "exited", entry |-> FALSE, told |-> FALSE]]
          /\ UNCHANGED <<wire, m>>
    /\ UNCHANGED <<x, entry, inst, mu, offer, panicked, left>>

\* The keys, the end of the stream, or no answer for initiateResponseTimeout.
receiveInitiateResponse(p) ==
    /\ t[p].pc = "response"
    /\ \/ /\ wire[p].toTaker # <<>> /\ t[p].swap = "keys"
          /\ wire' = [wire EXCEPT ![p].toTaker = Tail(@)]
          /\ \/ t' = [t EXCEPT ![p].pc = "inner", ![p].swap = "running"] /\ UNCHANGED left
             \/ t' = [t EXCEPT ![p].pc = "closeAgain"] /\ Spend("badKeys")
       \/ /\ Eof(p, wire[p].toTaker) \/ t[p].swap = "exited"
          /\ t' = [t EXCEPT ![p].pc = "closeAgain"] /\ UNCHANGED <<wire, left>>
       \/ /\ wire[p].toTaker = <<>> /\ Spend("timeout")
          /\ t' = [t EXCEPT ![p].pc = "closeAgain"] /\ UNCHANGED wire
    /\ UNCHANGED <<m, x, entry, inst, mu, offer, panicked>>

\* The swap goes on to lock the ETH and notifies the maker on the stream.
SendSwapMessage(p) ==
    /\ t[p].swap = "running" /\ t[p].entry /\ ~t[p].told
    /\ t' = [t EXCEPT ![p].told = TRUE]
    /\ wire' = IF wire[p].open THEN [wire EXCEPT ![p].toMaker = Append(@, "NotifyETHLocked")] ELSE wire
    /\ UNCHANGED <<m, x, entry, inst, mu, offer, panicked, left>>

\* handleProtocolStreamInner ends with the stream or at a message that the swap does not
\* expect; the reader that nextStreamMessage left behind may take that message instead.
takerStreamEnds(p) ==
    /\ t[p].pc = "inner"
    /\ \/ Eof(p, wire[p].toTaker) /\ t' = [t EXCEPT ![p].pc = "close"] /\ UNCHANGED wire
       \/ /\ wire[p].toTaker # <<>> /\ wire' = [wire EXCEPT ![p].toTaker = Tail(@)]
          /\ t' \in {t, [t EXCEPT ![p].pc = "close"]}
    /\ UNCHANGED <<m, x, entry, inst, mu, offer, panicked, left>>

\* The taker's NotifyStreamClosed: a swap that waits for the keys exits.
NotifyTaker(p) == IF t[p].swap = "keys" THEN [t[p] EXCEPT !.swap = "exited", !.entry = FALSE] ELSE t[p]

takerStreamClose(p) ==
    /\ t[p].pc \in {"close", "closeAgain"}
    /\ Close(p)
    /\ t' = [t EXCEPT ![p] = [NotifyTaker(p) EXCEPT !.pc = IF t[p].pc = "close" THEN "closeAgain" ELSE "done"]]
    /\ UNCHANGED <<m, x, entry, inst, mu, offer, panicked, left>>

\* The taker's swap ends, with ETH locked or not: CloseProtocolStream and DeleteOngoingSwap.
takerExits(p) ==
    /\ t[p].swap = "running"
    /\ t' = [t EXCEPT ![p].swap = "exited", ![p].entry = FALSE]
    /\ Close(p)
    /\ UNCHANGED <<m, x, entry, inst, mu, offer, panicked, left>>

-----------------------------------------------------------------------------
(* The maker's stream goroutine *)

MakerUnchanged == UNCHANGED <<t, inst, mu, offer, panicked, left>>

handleProtocolStream(p) ==
    /\ m[p] = "read"
    /\ \/ /\ wire[p].toMaker # <<>>
          /\ wire' = [wire EXCEPT ![p].toMaker = Tail(@)] /\ m' = [m EXCEPT ![p] = "register"]
       \/ Eof(p, wire[p].toMaker) /\ m' = [m EXCEPT ![p] = "done"] /\ UNCHANGED wire
    /\ UNCHANGED <<x, entry>> /\ MakerUnchanged

\* Variation: an entry that is there is overwritten.
AvailableAlways == TRUE

Available == entry = NoEntry

registerStream(p) ==
    /\ m[p] = "register"
    /\ \/ /\ Available /\ entry' = [NoEntry EXCEPT !.stream = p]
          /\ m' = [m EXCEPT ![p] = "initiate"] /\ UNCHANGED wire
       \/ ~Available /\ Close(p) /\ m' = [m EXCEPT ![p] = "done"] /\ UNCHANGED entry
    /\ UNCHANGED x /\ MakerUnchanged

Free == inst = None

\* HandleInitiateMessage, which holds the instance's lock: the offer is taken, and the swap
\* state made, unless it is gone or its last swap is not reaped.
HandleInitiateMessage(p) ==
    /\ m[p] = "initiate" /\ mu = None
    /\ \/ /\ offer /\ Free
          /\ offer' = FALSE /\ inst' = p /\ mu' = p
          /\ x' = [x EXCEPT ![p] = "keysSent"] /\ m' = [m EXCEPT ![p] = "reply"]
       \/ ~(offer /\ Free) /\ m' = [m EXCEPT ![p] = "failed"] /\ UNCHANGED <<offer, inst, mu, x>>
    /\ UNCHANGED <<t, wire, entry, panicked, left>>

Writable == entry.stream # None /\ wire[entry.stream].open

\* The keys are checked and the maker's sent, on the stream of the entry.  On an error the
\* handler exits the swap and waits for it.
replySendKeys(p) ==
    /\ m[p] = "reply"
    /\ \/ /\ entry.stream # None /\ UNCHANGED left
          /\ wire' = IF Writable
                     THEN [wire EXCEPT ![entry.stream].toTaker = Append(@, "SendKeys")] ELSE wire
          /\ mu' = None /\ m' = [m EXCEPT ![p] = "set"] /\ UNCHANGED x
       \/ /\ \/ Spend("badKeys")
             \/ ~Writable /\ UNCHANGED left
          /\ m' = [m EXCEPT ![p] = "exit"]
          /\ x' = IF x[p] = "keysSent" THEN [x EXCEPT ![p] = "closing"] ELSE x
          /\ UNCHANGED <<wire, mu>>
    /\ UNCHANGED <<t, entry, inst, offer, panicked>>

exitWaited(p) ==
    /\ m[p] = "exit" /\ x[p] \in {"exited", "reaped"}
    /\ m' = [m EXCEPT ![p] = "failed"] /\ mu' = None
    /\ UNCHANGED <<t, x, wire, entry, inst, offer, panicked, left>>

\* The entry is deleted, whoever's it is by now.
initiateFailed(p) ==
    /\ m[p] = "failed"
    /\ Close(p) /\ entry' = NoEntry /\ m' = [m EXCEPT ![p] = "done"]
    /\ UNCHANGED x /\ MakerUnchanged

\* swaps[offerID].swapState = s, with no look at whether the entry is still there.
setSwapState(p) ==
    /\ m[p] = "set"
    /\ IF entry = NoEntry THEN panicked' = TRUE /\ UNCHANGED <<entry, m>>
       ELSE entry' = [entry EXCEPT !.state = p] /\ m' = [m EXCEPT ![p] = "inner"] /\ UNCHANGED panicked
    /\ UNCHANGED <<t, x, wire, inst, mu, offer, left>>

handleProtocolStreamInner(p) ==
    /\ m[p] = "inner"
    /\ \/ /\ wire[p].toMaker # <<>> /\ wire' = [wire EXCEPT ![p].toMaker = Tail(@)]
          /\ x' = IF x[p] = "keysSent" THEN [x EXCEPT ![p] = "ethLocked"] ELSE x
          /\ UNCHANGED m
       \/ Eof(p, wire[p].toMaker) /\ m' = [m EXCEPT ![p] = "close"] /\ UNCHANGED <<wire, x>>
    /\ UNCHANGED entry /\ MakerUnchanged

\* Variation: a closed stream is of no interest to the swap.
NotifyStreamClosedIgnored(p) == x

\* The maker's NotifyStreamClosed: a swap that waits for the ETH exits.
NotifyStreamClosed(p) == IF x[p] = "keysSent" THEN [x EXCEPT ![p] = "closing"] ELSE x

handleProtocolStreamClose(p) ==
    /\ m[p] = "close"
    /\ Close(p) /\ x' = NotifyStreamClosed(p) /\ m' = [m EXCEPT ![p] = "done"]
    /\ UNCHANGED entry /\ MakerUnchanged

-----------------------------------------------------------------------------
(* The maker's swap state *)

\* swap_cancel while the maker waits for the ETH, or the end of a swap that went on.
makerExits(p) ==
    /\ \/ x[p] = "keysSent" /\ Spend("cancel")
       \/ x[p] = "ethLocked" /\ UNCHANGED left
    /\ x' = [x EXCEPT ![p] = "closing"]
    /\ UNCHANGED <<m, t, wire, entry, inst, mu, offer, panicked>>

\* exit's deferred function, in its order: the stream is closed, the offer listed again, the
\* host's entry deleted; the last two look for the offer's ID only.
CloseProtocolStream(p) ==
    /\ x[p] = "closing" /\ x' = [x EXCEPT ![p] = "relist"]
    /\ IF entry # NoEntry /\ ~entry.closed
       THEN Close(entry.stream) /\ entry' = [entry EXCEPT !.closed = TRUE] ELSE UNCHANGED <<wire, entry>>
    /\ UNCHANGED <<m, t, inst, mu, offer, panicked, left>>

AddOffer(p) ==
    /\ x[p] = "relist" /\ x' = [x EXCEPT ![p] = "delete"]
    /\ offer' = TRUE
    /\ UNCHANGED <<m, t, wire, entry, inst, mu, panicked, left>>

DeleteOngoingSwap(p) ==
    /\ x[p] = "delete" /\ x' = [x EXCEPT ![p] = "exited"]
    /\ entry' = NoEntry
    /\ UNCHANGED <<m, t, wire, inst, mu, offer, panicked, left>>

\* The goroutine that waits for done.
reap(p) ==
    /\ x[p] = "exited" /\ mu = None
    /\ inst' = None /\ x' = [x EXCEPT ![p] = "reaped"]
    /\ UNCHANGED <<m, t, wire, entry, mu, offer, panicked, left>>

-----------------------------------------------------------------------------
TakerStep(p) ==
    receiveInitiateResponse(p) \/ SendSwapMessage(p) \/ takerStreamEnds(p) \/ takerStreamClose(p)

MakerStep(p) ==
    \/ handleProtocolStream(p) \/ registerStream(p) \/ HandleInitiateMessage(p) \/ replySendKeys(p) \/ exitWaited(p)
    \/ initiateFailed(p) \/ setSwapState(p) \/ handleProtocolStreamInner(p) \/ handleProtocolStreamClose(p)

SwapStep(p) == CloseProtocolStream(p) \/ AddOffer(p) \/ DeleteOngoingSwap(p) \/ reap(p)

Next ==
    \E p \in Takers :
        \/ takeOffer(p) \/ TakerStep(p) \/ takerExits(p)
        \/ Running /\ (MakerStep(p) \/ SwapStep(p) \/ makerExits(p))

Spec == Init /\ [][Next]_vars

-----------------------------------------------------------------------------
(* Properties *)

\* The entry, by which messages are sent and the stream is closed, is there when
\* handleProtocolStream sets its swap state, and holds the stream of the swap that the maker
\* runs and not another taker's; unless the swap was exited while the keys were exchanged, by
\* its user or for an error: then the entry that is deleted or written to may be the next taker's.
EntryIsOwn ==
    Without({"badKeys", "cancel", "timeout"})
        => ~panicked /\ \A p \in Takers : x[p] \in {"keysSent", "ethLocked"} => entry.stream = p

\* A taker's swap of the offer begins only when the swap of the one before has left the
\* instance: exit and the reaper find what they remove by the offer's ID alone.
OneSwapPerOffer == Cardinality({p \in Takers : x[p] \notin {"none", "reaped"}}) <= 1

\* A side waits for a message on a stream that has ended.
Waiting(p) == ~wire[p].open /\ (x[p] = "keysSent" \/ t[p].swap = "keys")

\* The taker waits for the maker's keys no longer; the maker has let its swap go and the entry
\* with it, or it has read that the ETH are locked, or has no swap with this taker.
Released(p) ==
    /\ t[p].swap # "keys"
    /\ x[p] \in {"none", "ethLocked"} \/ (x[p] = "reaped" /\ entry.stream # p) \/ panicked

=============================================================================
