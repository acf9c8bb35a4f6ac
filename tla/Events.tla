-------------------------------- MODULE Events --------------------------------
(***************************************************************************)
(* How the daemons learn of the contracts' events: the EventFilter of a    *)
(* swap (ethereum/watcher) with the goroutine that reads its channel       *)
(* (watcher.go of xmrmaker and xmrtaker), and the polling loop of the      *)
(* wsXMR daemon (cmd/wsxmr-daemon).                                        *)
(*                                                                         *)
(* Only the place of two logs in the chain matters.  For an EventFilter    *)
(* they have its topic, "own" with the ID of its swap and "other" with     *)
(* that of another one; for the wsXMR daemon "own" is found by the first   *)
(* of its filters and "other" by the last.  Nodes may lag behind the node  *)
(* that answered before, and the block at the head may be replaced.        *)
(*                                                                         *)
(* A resumed swap knows its ID from the start, a new one only once newSwap *)
(* is in the chain; reader.since is the head at that time.                 *)
(***************************************************************************)
EXTENDS Integers, SequencesExt

CONSTANTS
    Watches,        \* of {"ready", "final", "monitor"}: a Ready log, a Claimed or Refunded log, the wsXMR daemon
    LogChSize,      \* 16 in the code
    MaxLag,         \* blocks by which FilterLogs may lag behind HeaderByNumber
    MaxHead, MaxReorgs, MaxErrors

VARIABLES watch, head, where, filter, logCh, reader, monitor, luck

vars == <<watch, head, where, filter, logCh, reader, monitor, luck>>

Logs == {"own", "other"}
Blocks == 1 .. MaxHead
Unmined == 0
Unset == MaxHead + 1        \* contractSwapID is not set yet

TypeOK ==
    /\ watch \in Watches /\ head \in Blocks /\ where \in [Logs -> Blocks \cup {Unmined}]
    /\ filter.pc \in {"wait", "filter", "send", "done"} /\ filter.from \in Nat /\ filter.curr \in Blocks
    /\ filter.late \in BOOLEAN /\ filter.logs \in Seq(Logs) /\ logCh \in Seq(Logs) /\ Len(logCh) <= LogChSize
    /\ reader \in [pc : {"select", "handle", "returned"}, events : Nat, stopped : BOOLEAN, since : 0 .. Unset]
    /\ monitor.pc \in {"wait", "first", "last", "update"} /\ monitor.last \in Nat /\ monitor.curr \in Blocks
    /\ monitor.reported \in [Logs -> Nat] /\ monitor.quiet \in BOOLEAN
    /\ luck \in [reorgs : 0 .. MaxReorgs, errors : 0 .. MaxErrors]

Init ==
    /\ watch \in Watches /\ head = 1 /\ where = [l \in Logs |-> Unmined]
    /\ filter = [pc |-> "wait", from |-> 1, curr |-> 1, logs |-> <<>>, late |-> FALSE]
    /\ logCh = <<>> /\ reader \in [pc : {"select"}, events : {0}, stopped : {FALSE}, since : {0, Unset}]
    /\ monitor = [pc |-> "wait", last |-> 1, curr |-> 1, reported |-> [l \in Logs |-> 0], quiet |-> TRUE]
    /\ luck = [reorgs |-> MaxReorgs, errors |-> MaxErrors]

Fail == luck.errors > 0 /\ luck' = [luck EXCEPT !.errors = @ - 1]

-----------------------------------------------------------------------------
(* The chain *)

\* A block with any of the logs that are not in the chain yet.
Mine ==
    /\ head < MaxHead /\ head' = head + 1
    /\ \E S \in SUBSET {l \in Logs : where[l] = Unmined} :
          where' = [l \in Logs |-> IF l \in S THEN head + 1 ELSE where[l]]
    /\ UNCHANGED <<watch, filter, logCh, reader, monitor, luck>>

\* The block at the head is replaced by one with other logs.
Reorg ==
    /\ luck.reorgs > 0 /\ luck' = [luck EXCEPT !.reorgs = @ - 1] /\ head > 1
    /\ \E w \in [Logs -> {Unmined, head}] :
          where' = [l \in Logs |-> IF where[l] \in {Unmined, head} THEN w[l] ELSE where[l]]
    /\ monitor' = [monitor EXCEPT !.quiet = FALSE]
    /\ UNCHANGED <<watch, head, filter, logCh, reader>>

-----------------------------------------------------------------------------
(* EventFilter.Start: its goroutine *)

Filtering(pc) == watch # "monitor" /\ filter.pc = pc
FilterGoto(pc) == filter' = [filter EXCEPT !.pc = pc]

\* The context is looked at between two polls only.
FilterDone ==
    /\ Filtering("wait") /\ reader.stopped /\ FilterGoto("done")
    /\ UNCHANGED <<watch, head, where, logCh, reader, monitor, luck>>

\* An error, and a head that is not new, are followed by the next poll (ErrClientQuit comes only
\* when the daemon ends and closes its client).
HeaderByNumber ==
    /\ Filtering("wait")
    /\ \/ Fail /\ UNCHANGED filter
       \/ head > filter.from /\ filter' = [filter EXCEPT !.pc = "filter", !.curr = head] /\ UNCHANGED luck
    /\ UNCHANGED <<watch, head, where, logCh, reader, monitor>>

\* The query has no last block: it finds what was mined after the header was read, too, but not
\* what the node that answers has not seen.  (late, which no step reads, says that an answer was
\* more than one block behind the header that the filter had read.)
InOrder(S) == {s \in SetToSeqs(S) : \A i, j \in DOMAIN s : i < j => where[s[i]] <= where[s[j]]}

FilterLogs ==
    /\ Filtering("filter")
    /\ \/ Fail /\ FilterGoto("wait")
       \/ /\ \E lag \in 0 .. MaxLag : \E s \in InOrder({l \in Logs : where[l] \in filter.from .. head - lag}) :
                filter' = [filter EXCEPT !.pc = "send", !.logs = s,
                                         !.late = @ \/ filter.curr - (head - lag) > 1]
          /\ UNCHANGED luck
    /\ UNCHANGED <<watch, head, where, logCh, reader, monitor>>

NextFromHead == filter.curr + 1
NextFrom == filter.curr

\* The logs go to the channel one by one, and wait while it is full, whether or not the swap is
\* over; the last block of this query is the first of the next.
SendLogs ==
    /\ Filtering("send")
    /\ \/ /\ filter.logs # <<>> /\ Len(logCh) < LogChSize
          /\ logCh' = Append(logCh, Head(filter.logs)) /\ filter' = [filter EXCEPT !.logs = Tail(@)]
       \/ /\ filter.logs = <<>>
          /\ filter' = [filter EXCEPT !.pc = "wait", !.from = NextFrom] /\ UNCHANGED logCh
    /\ UNCHANGED <<watch, head, where, reader, monitor, luck>>

-----------------------------------------------------------------------------
(* runContractEventWatcher: the goroutine of the swap that reads the channel *)

Reading(pc) == watch # "monitor" /\ reader.pc = pc

\* lockAsset of the taker, handleNotifyETHLocked of the maker.
SetContractSwapID ==
    /\ watch # "monitor" /\ reader.since = Unset /\ reader' = [reader EXCEPT !.since = head]
    /\ UNCHANGED <<watch, head, where, filter, logCh, monitor, luck>>

\* A log that does not have the swap's ID, as every log before the ID is set, is passed over.  A
\* Claimed or Refunded log of the swap ends the goroutine once its event is handled, a Ready log
\* does not, but is the last one looked at.
CheckSwapID(l) == l = "own" /\ reader.since # Unset

handleLogs(l) ==
    IF ~CheckSwapID(l) \/ (watch = "ready" /\ reader.events > 0) THEN reader
    ELSE [reader EXCEPT !.events = @ + 1, !.pc = IF watch = "ready" THEN "select" ELSE "handle"]

runContractEventWatcher ==
    /\ Reading("select") /\ logCh # <<>>
    /\ reader' = handleLogs(Head(logCh)) /\ logCh' = Tail(logCh)
    /\ UNCHANGED <<watch, head, where, filter, monitor, luck>>

\* The event was handled, or the swap is over.
WatcherReturns ==
    /\ Reading("handle") \/ (Reading("select") /\ reader.stopped)
    /\ reader' = [reader EXCEPT !.pc = "returned"]
    /\ UNCHANGED <<watch, head, where, filter, logCh, monitor, luck>>

\* The swap ends for whatever reason, and cancels its context.
Stop ==
    /\ watch # "monitor" /\ ~reader.stopped /\ reader' = [reader EXCEPT !.stopped = TRUE]
    /\ UNCHANGED <<watch, head, where, filter, logCh, monitor, luck>>

-----------------------------------------------------------------------------
(* The wsXMR daemon *)

Monitoring(pc) == watch = "monitor" /\ monitor.pc = pc
Missed == [monitor EXCEPT !.pc = "update", !.quiet = FALSE]

\* monitorEvents reads the head itself.
monitorEvents ==
    /\ Monitoring("wait")
    /\ \/ Fail /\ monitor' = Missed
       \/ /\ monitor' = [monitor EXCEPT !.curr = head, !.pc = IF head <= monitor.last THEN "update" ELSE "first"]
          /\ UNCHANGED luck
    /\ UNCHANGED <<watch, head, where, filter, logCh, reader>>

Scanned(l) == where[l] \in monitor.last + 1 .. monitor.curr

Report(l) == [monitor.reported EXCEPT ![l] = IF Scanned(l) THEN @ + 1 ELSE @]

\* The filters of the six kinds of events, one after the other; a failing one ends the poll.
FilterFirst ==
    /\ Monitoring("first")
    /\ \/ Fail /\ monitor' = Missed
       \/ monitor' = [monitor EXCEPT !.pc = "last", !.reported = Report("own")] /\ UNCHANGED luck
    /\ UNCHANGED <<watch, head, where, filter, logCh, reader>>

FilterLast ==
    /\ Monitoring("last")
    /\ \/ Fail /\ monitor' = Missed
       \/ monitor' = [monitor EXCEPT !.pc = "update", !.reported = Report("other")] /\ UNCHANGED luck
    /\ UNCHANGED <<watch, head, where, filter, logCh, reader>>

\* main moves the cursor to the head it reads now, also past a poll that failed and past blocks
\* that came after monitorEvents read the head.
UpdateLastBlock ==
    /\ Monitoring("update")
    /\ \/ Fail /\ monitor' = [Missed EXCEPT !.pc = "wait"]
       \/ /\ monitor' = [monitor EXCEPT !.pc = "wait", !.last = IF head > @ THEN head ELSE @,
                                        !.quiet = @ /\ monitor.curr = head]
          /\ UNCHANGED luck
    /\ UNCHANGED <<watch, head, where, filter, logCh, reader>>

FilterStep == FilterDone \/ HeaderByNumber \/ FilterLogs \/ SendLogs
ReaderStep == runContractEventWatcher \/ WatcherReturns
MonitorStep == monitorEvents \/ FilterFirst \/ FilterLast \/ UpdateLastBlock

Next == Mine \/ Reorg \/ FilterStep \/ ReaderStep \/ SetContractSwapID \/ Stop \/ MonitorStep

-----------------------------------------------------------------------------
(* Properties *)

\* The swap's log is in a block that came after the swap's ID was known, and no node that was asked
\* for logs was more than one block behind the header read before: the filter would go past a log
\* in the block before the header's.
Visible == where["own"] # Unmined /\ where["own"] > reader.since /\ ~filter.late

\* Such a log, in a block the filter has left behind, was given to the swap, also when that block
\* replaced another or a node had not seen it yet: the next query begins with the block at which
\* the last one was made (FromBlock).
NoLogMissed ==
    watch # "monitor" /\ Visible /\ where["own"] < filter.from
        => reader.events > 0 \/ "own" \in ToSet(logCh)

\* A log that several polls find raises one event of the swap (readyEventSent, eventSent).
OneEvent == reader.events <= 1

\* The wsXMR daemon reports every event behind its cursor once, unless a call failed, a block
\* came during a poll or the head was replaced.
ReportedOnce ==
    watch = "monitor" /\ monitor.quiet
        => \A l \in Logs : where[l] \in 2 .. monitor.last => monitor.reported[l] = 1

\* The swap's log, in a block that came after the swap's ID was known, has a block on top of it,
\* and the swap is not over; it raises its event, unless a node was two blocks behind.
Pending == watch # "monitor" /\ ~reader.stopped /\ Visible /\ where["own"] < head
Raised == watch = "monitor" \/ reader.stopped \/ reader.events > 0 \/ filter.late
=============================================================================
