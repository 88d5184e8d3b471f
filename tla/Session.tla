------------------------------ MODULE Session ------------------------------
(***************************************************************************)
(* One running station (engine/src/session.rs): the acquisition task, the  *)
(* decode thread, the bounded channel and the overflow ring between them,  *)
(* and the caller of Session::shutdown.                                     *)
(*                                                                          *)
(*    source --> [chunk] --> ring (backlog) --> channel --> [batch] --> store*)
(*               acquisition task ............|............ decode thread   *)
(*                                                                          *)
(* One action is what a thread does between two points where another one    *)
(* could see the difference: each try_send, each try_recv, each atomic      *)
(* store.  The bytes of a packet are left out; an item is its place in the  *)
(* stream, the byte stream ("era") it was read from, and whether it is the  *)
(* Restart marker that opens that stream.                                   *)
(***************************************************************************)
EXTENDS Integers, Sequences, FiniteSets, SequencesExt

CONSTANTS
    SourceKinds,      \* the kinds of source a session is started with
    Depth,            \* PACKET_QUEUE_DEPTH: of the channel and of the ring
    ReadErrorLimit,   \* READ_ERROR_LIMIT
    ChunkPackets,     \* bound: packets one chunk can complete
    MaxItems,         \* bound: items ever read from the source
    MaxEra,           \* bound: byte streams one session reads
    DecoderMayDie     \* whether the decode thread can panic

ASSUME SessionAssumption ==
    /\ SourceKinds \subseteq {"udp", "tcp", "listen", "file"}
    /\ Depth \in Nat \ {0}
    /\ ReadErrorLimit \in Nat \ {0}
    /\ ChunkPackets \in Nat
    /\ MaxItems \in Nat
    /\ MaxEra \in Nat \ {0}
    /\ DecoderMayDie \in BOOLEAN

VARIABLES
    kind,       \* the configured source
    source,     \* what has become of it
    acq,        \* where the acquisition task is
    failures,   \* consecutive failed reads
    era,        \* the byte stream being read
    made,       \* items read so far; the last one's id
    outbox,     \* items of the current chunk not yet given to the queue
    hand,       \* the item a wait_and_send is holding (at most one)
    backlog,    \* Dispatch::backlog, the overflow ring
    dropped,    \* Dispatch::dropped
    channel,    \* the mpsc channel
    dec,        \* where the decode thread is
    queued,     \* the batch drained so far and not yet decoded
    tracked,    \* the stream the sequence counts come from, 0 after a reset
    seen,       \* every item decoded or rejected so far (history)
    outcome,    \* Session::outcome
    running,    \* Session::is_running
    stop,       \* the shutdown watch
    caller      \* how far Session::shutdown has got

readVars  == <<source, failures, era, made>>
queueVars == <<outbox, hand, backlog, dropped, channel>>
decVars   == <<dec, queued, tracked, seen>>
shutVars  == <<running, stop, caller>>
vars      == <<kind, acq, readVars, queueVars, decVars, outcome, shutVars>>

Outcomes == {"Running", "Ended", "Stopped", "SourceFailed", "DecoderGone"}

Item == [id : Nat \ {0}, era : Nat \ {0}, mark : BOOLEAN]

\* Mutant: a replay drops like a live link.
AlwaysLossy == TRUE
\* Only a replay waits for the decoder; every live link drops instead.
Lossy == kind # "file"
\* Which sources report the end of the stream, and which can restart it.
MayEnd == kind \in {"tcp", "file"}
MayRestart == kind \in {"listen", "file"}

(***************************************************************************)
(* The channel.  tokio's try_send answers Closed once the receiver is gone  *)
(* and Full while no slot is free; a slot is free as soon as recv returns.  *)
(***************************************************************************)
Closed == dec = "dead"
Room == ~Closed /\ Len(channel) < Depth
Full == ~Closed /\ Len(channel) >= Depth

\* Mutant: a plain store, where the last writer wins.
FinishStores(o) == outcome' = o
\* First writer wins.
Finish(o) == outcome' = IF outcome = "Running" THEN o ELSE outcome

IsBackedUp == backlog # <<>>

Init ==
    /\ kind \in SourceKinds
    /\ source = "connecting" /\ acq = "open" /\ failures = 0
    /\ era = 1 /\ made = 0
    /\ outbox = <<>> /\ hand = <<>> /\ backlog = <<>> /\ dropped = 0
    /\ channel = <<>>
    /\ dec = "recv" /\ queued = <<>> /\ tracked = 0 /\ seen = <<>>
    /\ outcome = "Running" /\ running = TRUE /\ stop = FALSE /\ caller = "idle"

(***************************************************************************)
(* The acquisition task: open.                                              *)
(***************************************************************************)
\* The connection came up and nobody has asked to stop.
Connect ==
    /\ acq = "open" /\ ~stop
    /\ source' = "open"
    /\ acq' = "top"
    /\ UNCHANGED <<kind, failures, era, made, queueVars, decVars, outcome,
                   shutVars>>

\* The source cannot be opened.
Refused ==
    /\ acq = "open" /\ ~stop
    /\ source' = "refused"
    /\ acq' = "ending"
    /\ Finish("SourceFailed")
    /\ UNCHANGED <<kind, failures, era, made, queueVars, decVars, shutVars>>

\* Stopped before, during or right after the connect: open answers None, and
\* acquire calls that SourceFailed whatever the reason was.
OpenStopped ==
    /\ acq = "open" /\ stop
    /\ acq' = "ending"
    /\ Finish("SourceFailed")
    /\ UNCHANGED <<kind, readVars, queueVars, decVars, shutVars>>

(***************************************************************************)
(* The top of the loop, and Dispatch::flush, which is also how every send   *)
(* begins.                                                                  *)
(***************************************************************************)
StopSeen ==
    /\ acq = "top" /\ stop
    /\ Finish("Stopped")
    /\ acq' = "ending"
    /\ UNCHANGED <<kind, readVars, queueVars, decVars, shutVars>>

BeginFlush ==
    /\ acq = "top" /\ ~stop
    /\ acq' = "flush"
    /\ UNCHANGED <<kind, readVars, queueVars, decVars, outcome, shutVars>>

FlushItem ==
    /\ acq \in {"flush", "send"} /\ (acq = "send" => outbox # <<>>)
    /\ IsBackedUp /\ Room
    /\ channel' = Append(channel, Head(backlog))
    /\ backlog' = Tail(backlog)
    /\ UNCHANGED <<kind, readVars, acq, outbox, hand, dropped, decVars,
                   outcome, shutVars>>

FlushDone ==
    /\ acq = "flush"
    /\ ~IsBackedUp \/ Full
    /\ acq' = "select"
    /\ UNCHANGED <<kind, readVars, queueVars, decVars, outcome, shutVars>>

\* A try_send, or a send that is waiting, finds the channel closed.  Whatever
\* was being sent goes with the acquisition task's other items.
Gone ==
    /\ Closed
    /\ \/ acq = "flush" /\ IsBackedUp
       \/ acq = "send" /\ outbox # <<>>
       \/ acq = "wait"
    /\ Finish("DecoderGone")
    /\ acq' = "ending"
    /\ UNCHANGED <<kind, readVars, queueVars, decVars, shutVars>>

(***************************************************************************)
(* The select.  It is biased: stop is looked at first, then room for a ring *)
(* that holds something, then the source.                                   *)
(***************************************************************************)
\* Mutant: the read is not selected against the shutdown watch.
SelectStopNever == FALSE

SelectStop ==
    /\ acq = "select" /\ stop
    /\ Finish("Stopped")
    /\ acq' = "ending"
    /\ UNCHANGED <<kind, readVars, queueVars, decVars, shutVars>>

\* Mutant: the select has no arm for room in the channel.
SelectRoomNever == FALSE

SelectRoom ==
    /\ acq = "select" /\ ~stop
    /\ IsBackedUp /\ Room
    /\ acq' = "top"
    /\ UNCHANGED <<kind, readVars, queueVars, decVars, outcome, shutVars>>

\* reserve() fails: the loop is left with no report and no outcome.
SelectClosed ==
    /\ acq = "select" /\ ~stop
    /\ IsBackedUp /\ Closed
    /\ acq' = "ending"
    /\ UNCHANGED <<kind, readVars, queueVars, decVars, outcome, shutVars>>

CanRead ==
    /\ acq = "select" /\ ~stop
    /\ IsBackedUp => Full

\* The items a chunk turns into: the marker first when the stream restarted
\* under it, then its packets, numbered in stream order.
ChunkItems(restarted, n) ==
    LET first == made + 1
        next == IF restarted THEN era + 1 ELSE era
        size == IF restarted THEN n + 1 ELSE n
    IN [k \in 1..size |-> [id |-> made + k, era |-> next,
                           mark |-> restarted /\ made + k = first]]

\* read_chunk returns bytes, and handle_chunk records and frames them.
ReadChunk(restarted, n) ==
    /\ CanRead
    /\ restarted => MayRestart /\ era < MaxEra
    /\ made + Len(ChunkItems(restarted, n)) <= MaxItems
    /\ outbox' = ChunkItems(restarted, n)
    /\ made' = made + Len(ChunkItems(restarted, n))
    /\ era' = IF restarted THEN era + 1 ELSE era
    /\ failures' = 0
    /\ acq' = "send"
    /\ UNCHANGED <<kind, source, hand, backlog, dropped, channel, decVars,
                   outcome, shutVars>>

SourceEnds ==
    /\ CanRead /\ MayEnd
    /\ source' = "ended"
    /\ Finish("Ended")
    /\ acq' = "drain"
    /\ UNCHANGED <<kind, failures, era, made, queueVars, decVars, shutVars>>

ReadFails(transient) ==
    /\ CanRead
    /\ failures' = failures + 1
    /\ IF ~transient \/ failures' >= ReadErrorLimit
       THEN /\ source' = "gone"
            /\ Finish("SourceFailed")
            /\ acq' = "ending"
       ELSE /\ acq' = "top"
            /\ UNCHANGED <<source, outcome>>
    /\ UNCHANGED <<kind, era, made, queueVars, decVars, shutVars>>

(***************************************************************************)
(* Dispatch::send for each item of the chunk: flush (FlushItem, above),     *)
(* then the channel, then the policy of the source.                         *)
(***************************************************************************)
\* Mutant: a send tries the channel without emptying the ring first.
RingIgnored == TRUE
\* Nothing is waiting in front of the item being sent.
RingEmptied == ~IsBackedUp

SendNow ==
    /\ acq = "send" /\ outbox # <<>>
    /\ RingEmptied /\ Room
    /\ channel' = Append(channel, Head(outbox))
    /\ outbox' = Tail(outbox)
    /\ UNCHANGED <<kind, readVars, acq, hand, backlog, dropped, decVars,
                   outcome, shutVars>>

PacketPlaces(ring) == {k \in 1..Len(ring) : ~ring[k].mark}

\* The place of the oldest packet, if there is one.
OldestPacket(ring) ==
    {k \in PacketPlaces(ring) : \A j \in PacketPlaces(ring) : k <= j}

RingFull == Len(backlog) >= Depth

\* There is a place for the item, or it is a marker and the ring holds nothing
\* that could make one.
RingTakes(item) == ~RingFull \/ (PacketPlaces(backlog) = {} /\ item.mark)

\* Mutant: a ring of markers refuses the packet without counting it.
RefuseUncounted(item) ==
    /\ RingFull /\ PacketPlaces(backlog) = {} /\ ~item.mark
    /\ UNCHANGED <<backlog, dropped>>
RefusePacket(item) ==
    /\ RingFull /\ PacketPlaces(backlog) = {} /\ ~item.mark
    /\ dropped' = dropped + 1
    /\ UNCHANGED backlog

\* Mutant: the count of drops goes the wrong way.
EvictUncounts(item) ==
    /\ RingFull
    /\ \E k \in OldestPacket(backlog) :
          backlog' = Append(RemoveAt(backlog, k), item)
    /\ dropped' = dropped - 1
EvictFor(item) ==
    /\ RingFull
    /\ \E k \in OldestPacket(backlog) :
          backlog' = Append(RemoveAt(backlog, k), item)
    /\ dropped' = dropped + 1

\* Dispatch::push, the live policy.
Push(item) ==
    \/ RingTakes(item) /\ backlog' = Append(backlog, item) /\ UNCHANGED dropped
    \/ EvictFor(item)
    \/ RefusePacket(item)

SendToRing ==
    /\ acq = "send" /\ outbox # <<>>
    /\ Full /\ Lossy
    /\ Push(Head(outbox))
    /\ outbox' = Tail(outbox)
    /\ UNCHANGED <<kind, readVars, acq, hand, channel, decVars, outcome,
                   shutVars>>

\* Dispatch::wait_and_send, the replay policy.
SendMustWait ==
    /\ acq = "send" /\ outbox # <<>>
    /\ Full /\ ~Lossy
    /\ hand' = <<Head(outbox)>>
    /\ outbox' = Tail(outbox)
    /\ acq' = "wait"
    /\ UNCHANGED <<kind, readVars, backlog, dropped, channel, decVars,
                   outcome, shutVars>>

WaitRoom ==
    /\ acq = "wait" /\ ~stop /\ Room
    /\ channel' = channel \o hand
    /\ hand' = <<>>
    /\ acq' = "send"
    /\ UNCHANGED <<kind, readVars, outbox, backlog, dropped, decVars, outcome,
                   shutVars>>

\* The item is lost, and acquire reports the decoder gone: only the outcome
\* shutdown has already recorded keeps that from being what is remembered.
WaitStop ==
    /\ acq = "wait" /\ stop
    /\ hand' = <<>>
    /\ Finish("DecoderGone")
    /\ acq' = "ending"
    /\ UNCHANGED <<kind, readVars, outbox, backlog, dropped, channel, decVars,
                   shutVars>>

ChunkDone ==
    /\ acq = "send" /\ outbox = <<>>
    /\ acq' = "top"
    /\ UNCHANGED <<kind, readVars, queueVars, decVars, outcome, shutVars>>

(***************************************************************************)
(* Dispatch::drain, once the source has ended.                              *)
(***************************************************************************)
DrainPop ==
    /\ acq = "drain" /\ hand = <<>> /\ IsBackedUp
    /\ hand' = <<Head(backlog)>>
    /\ backlog' = Tail(backlog)
    /\ UNCHANGED <<kind, readVars, acq, outbox, dropped, channel, decVars,
                   outcome, shutVars>>

DrainRoom ==
    /\ acq = "drain" /\ hand # <<>> /\ ~stop /\ Room
    /\ channel' = channel \o hand
    /\ hand' = <<>>
    /\ UNCHANGED <<kind, readVars, acq, outbox, backlog, dropped, decVars,
                   outcome, shutVars>>

\* Mutant: the end of the stream is not drained.
DrainSkipped == TRUE
Drained == ~IsBackedUp

\* The ring is empty, or the wait for room was given up.
DrainDone ==
    /\ acq = "drain"
    /\ \/ hand = <<>> /\ Drained
       \/ hand # <<>> /\ (stop \/ Closed)
    /\ hand' = <<>>
    /\ acq' = "ending"
    /\ UNCHANGED <<kind, readVars, outbox, backlog, dropped, channel, decVars,
                   outcome, shutVars>>

(***************************************************************************)
(* The end of the task: the guard lowers running, then the task's own state *)
(* is dropped, the ring and the sender with it.                             *)
(***************************************************************************)
GuardDrop ==
    /\ acq = "ending"
    /\ running' = FALSE
    /\ acq' = "closing"
    /\ UNCHANGED <<kind, readVars, queueVars, decVars, outcome, stop, caller>>

SenderDrop ==
    /\ acq = "closing"
    /\ acq' = "done"
    /\ outbox' = <<>> /\ hand' = <<>> /\ backlog' = <<>>
    /\ UNCHANGED <<kind, readVars, dropped, channel, decVars, outcome,
                   shutVars>>

\* The runtime is dropped and the task with it, at whatever await it was in.
\* Its owner drops the session first, so shutdown has run.
Cancelled ==
    /\ acq \in {"open", "select", "wait", "drain", "ending"}
    /\ acq = "drain" => hand # <<>>
    /\ caller = "returned"
    /\ running' = FALSE
    /\ acq' = "closing"
    /\ UNCHANGED <<kind, readVars, queueVars, decVars, outcome, stop, caller>>

(***************************************************************************)
(* The decode thread.                                                       *)
(***************************************************************************)
Recv ==
    /\ dec = "recv" /\ channel # <<>>
    /\ queued' = <<Head(channel)>>
    /\ channel' = Tail(channel)
    /\ dec' = "batch"
    /\ UNCHANGED <<kind, readVars, acq, outbox, hand, backlog, dropped,
                   tracked, seen, outcome, shutVars>>

TryRecv ==
    /\ dec = "batch" /\ channel # <<>>
    /\ queued' = Append(queued, Head(channel))
    /\ channel' = Tail(channel)
    /\ UNCHANGED <<kind, readVars, acq, outbox, hand, backlog, dropped, dec,
                   tracked, seen, outcome, shutVars>>

BatchDrained ==
    /\ dec = "batch" /\ channel = <<>>
    /\ dec' = "decode"
    /\ UNCHANGED <<kind, readVars, acq, queueVars, queued, tracked, seen,
                   outcome, shutVars>>

\* Mutant: a marker leaves the sequence counts as they were.
CountsKept == tracked
\* SequenceTracker::reset: no count is left to compare the next packet with.
CountsReset == 0

DecodeRestart ==
    /\ dec = "decode" /\ queued # <<>> /\ Head(queued).mark
    /\ tracked' = CountsReset
    /\ seen' = Append(seen, Head(queued))
    /\ queued' = Tail(queued)
    /\ UNCHANGED <<kind, readVars, acq, queueVars, dec, outcome, shutVars>>

\* The sequence count is filed before the definition is tried, so a packet it
\* rejects is tracked like any other.
DecodePacket ==
    /\ dec = "decode" /\ queued # <<>> /\ ~Head(queued).mark
    /\ tracked' = Head(queued).era
    /\ seen' = Append(seen, Head(queued))
    /\ queued' = Tail(queued)
    /\ UNCHANGED <<kind, readVars, acq, queueVars, dec, outcome, shutVars>>

\* What decoded has been filed with the store and the interface is woken.
BatchDone ==
    /\ dec = "decode" /\ queued = <<>>
    /\ dec' = "recv"
    /\ UNCHANGED <<kind, readVars, acq, queueVars, queued, tracked, seen,
                   outcome, shutVars>>

\* The sender is gone and the channel is empty.
DecodeEnds ==
    /\ dec = "recv" /\ channel = <<>> /\ acq = "done"
    /\ dec' = "exited"
    /\ UNCHANGED <<kind, readVars, acq, queueVars, queued, tracked, seen,
                   outcome, shutVars>>

\* A panic on the decode thread drops the receiver and what it held.
DecoderDies ==
    /\ DecoderMayDie
    /\ dec = "decode"
    /\ dec' = "dead"
    /\ channel' = <<>> /\ queued' = <<>>
    /\ UNCHANGED <<kind, readVars, acq, outbox, hand, backlog, dropped,
                   tracked, seen, outcome, shutVars>>

(***************************************************************************)
(* Session::shutdown: three atomics, in this order.                         *)
(***************************************************************************)
ShutdownOutcome ==
    /\ caller = "idle"
    /\ Finish("Stopped")
    /\ caller' = "claimed"
    /\ UNCHANGED <<kind, readVars, acq, queueVars, decVars, running, stop>>

ShutdownRunning ==
    /\ caller = "claimed"
    /\ running' = FALSE
    /\ caller' = "lowered"
    /\ UNCHANGED <<kind, readVars, acq, queueVars, decVars, outcome, stop>>

ShutdownStop ==
    /\ caller = "lowered"
    /\ stop' = TRUE
    /\ caller' = "returned"
    /\ UNCHANGED <<kind, readVars, acq, queueVars, decVars, outcome, running>>

-----------------------------------------------------------------------------
\* What the acquisition task does by itself, once it is scheduled.
Acquire ==
    \/ OpenStopped \/ StopSeen \/ BeginFlush \/ FlushItem \/ FlushDone \/ Gone
    \/ SelectStop \/ SelectRoom \/ SelectClosed
    \/ SendNow \/ SendToRing \/ SendMustWait \/ WaitRoom \/ WaitStop \/ ChunkDone
    \/ DrainPop \/ DrainRoom \/ DrainDone
    \/ GuardDrop \/ SenderDrop

\* What it learns from the outside.
Environment ==
    \/ Connect
    \/ Refused
    \/ \E restarted \in BOOLEAN, n \in 0..ChunkPackets : ReadChunk(restarted, n)
    \/ SourceEnds
    \/ \E transient \in BOOLEAN : ReadFails(transient)
    \/ Cancelled
    \/ DecoderDies

Decode ==
    \/ Recv \/ TryRecv \/ BatchDrained
    \/ DecodeRestart
    \/ DecodePacket
    \/ BatchDone
    \/ DecodeEnds

ShutdownContinues == ShutdownRunning \/ ShutdownStop

Next == Acquire \/ Environment \/ Decode \/ ShutdownOutcome \/ ShutdownContinues

Spec == Init /\ [][Next]_vars

\* The runtime polls the task, the operating system runs the thread, and a
\* caller inside shutdown returns.  Nothing says the source ever answers.
Fairness == WF_vars(Acquire) /\ WF_vars(Decode) /\ WF_vars(ShutdownContinues)

FairSpec == Spec /\ Fairness

-----------------------------------------------------------------------------
(***************************************************************************)
(* Correctness.                                                             *)
(***************************************************************************)
TypeOK ==
    /\ kind \in SourceKinds
    /\ source \in {"connecting", "open", "refused", "ended", "gone"}
    /\ acq \in {"open", "top", "flush", "select", "send", "wait", "drain",
               "ending", "closing", "done"}
    /\ failures \in Nat /\ era \in Nat \ {0} /\ made \in Nat
    /\ outbox \in Seq(Item) /\ hand \in Seq(Item) /\ backlog \in Seq(Item)
    /\ dropped \in Nat
    /\ channel \in Seq(Item)
    /\ dec \in {"recv", "batch", "decode", "exited", "dead"}
    /\ queued \in Seq(Item) /\ tracked \in Nat /\ seen \in Seq(Item)
    /\ outcome \in Outcomes
    /\ running \in BOOLEAN /\ stop \in BOOLEAN
    /\ caller \in {"idle", "claimed", "lowered", "returned"}

Over == acq \in {"ending", "closing", "done"}

\* Everything read and not yet handled, oldest first.
Line == queued \o channel \o hand \o backlog \o outbox

\* Nothing overtakes anything: what was handled, what is in the batch, the
\* channel, the hand, the ring and the chunk are one sequence in the order the
\* items came off the link (Dispatch::send: "Ordering is preserved in both
\* policies").
DeliveryInOrder ==
    LET all == seen \o Line
    IN  \A j, k \in 1..Len(all) : j < k => all[j].id < all[k].id

\* A packet's sequence count is only ever compared with a count of its own byte
\* stream, whatever was dropped between the streams: the reason Restart travels
\* in the queue (the comment on Acquired).
CountsOfOneStream ==
    dec = "decode" /\ queued # <<>> /\ ~Head(queued).mark
        => tracked \in {0, Head(queued).era}

\* Session::dropped counts exactly what was lost for want of room, until the
\* pass is cut short; a pass whose source ended is accounted for to the last
\* packet, because the ring is drained.
PacketsAccountedFor ==
    dec # "dead" /\ (~Over \/ (source = "ended" /\ caller = "idle"))
        => made = dropped + Len(seen) + Len(Line)

\* The ending a supervisor reads is the one that happened, and while the decode
\* thread lives a session that is not running has one.  Two paths report an
\* ending that is not theirs (a stop while connecting says SourceFailed, a stop
\* while waiting for room says DecoderGone), and are harmless only because
\* shutdown records Stopped before it raises the watch.
EndingIsHonest ==
    /\ outcome = "DecoderGone" => dec = "dead"
    /\ outcome = "SourceFailed" => source \in {"refused", "gone"}
    /\ outcome = "Ended" => source = "ended"
    /\ outcome = "Stopped" => caller # "idle"
    /\ ~running /\ dec # "dead" => outcome # "Running"

\* The bytes the decode side acts on arrive as the abstract queue says.
Q == INSTANCE OverflowQueue WITH
        Items <- [id : 1..MaxItems, era : 1..MaxEra, mark : BOOLEAN],
        Capacity <- Depth,
        lossy <- kind # "file",
        queue <- IF dec = "dead" THEN <<>>
                 ELSE queued \o channel \o (IF Over THEN <<>> ELSE hand \o backlog),
        handled <- seen,
        lost <- dropped,
        open <- ~Over,
        live <- dec # "dead"

\* Acquisition, channel, ring and batch together implement one bounded queue
\* that loses only on a live link, only when full, only packets, and counts it.
Refined == Q!QSpec

\* Shutdown is noticed from every await: both tasks end ("the tasks notice at
\* their next wake", the comment on Session::shutdown).
ShutdownCompletes == stop ~> acq = "done" /\ dec \in {"exited", "dead"}

\* A burst followed by silence does not stay in the ring (the comment on the
\* reserve arm of acquire's select).
BurstIsDelivered == IsBackedUp ~> ~IsBackedUp

\* A pass whose source ended is decoded to the end: everything read is handled
\* or was counted as dropped, unless somebody stopped it or the decoder died.
PassIsDecoded ==
    source = "ended" ~>
        \/ caller # "idle"
        \/ dec = "dead"
        \/ dec = "exited" /\ made = dropped + Len(seen)

(***************************************************************************)
(* What the source says of itself and the code does not do.                 *)
(***************************************************************************)
\* Session::outcome: "Why acquisition stopped, or Outcome::Running while it
\* has not."
EndingExplained == acq = "done" => outcome # "Running"

\* headless: it prints its last line once is_running is false, of a replay that
\* reached the end: "the pass is over, and its counters are the result".
CountersAreFinal ==
    ~running /\ outcome = "Ended" => made = dropped + Len(seen)
=============================================================================
