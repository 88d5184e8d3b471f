---------------------------- MODULE Acquisition ----------------------------
(***************************************************************************)
(* What acquire and handle_chunk of xtce-gs-engine/src/session.rs do with   *)
(* each chunk a source brings: it is recorded, a restart is told to the     *)
(* pipeline and to the decoder, the pipeline gets the bytes, its lines go   *)
(* to the log.  And the terminal of xtce-gs-cli/src/run.rs that prints the  *)
(* log meanwhile, ends when the session has ended or the operator asks, and *)
(* takes the runtime down with it.                                          *)
(*                                                                          *)
(* Session has the queue behind the pipeline; here a send succeeds or finds *)
(* it closed.  Lines said together are pushed together.                     *)
(***************************************************************************)
EXTENDS Source, Recorder, LinkEvents, EventLog, FiniteSetsExt, SequencesExt

CONSTANTS
    ReadErrorLimit,   \* READ_ERROR_LIMIT
    LogCapacity,      \* EVENT_LOG_CAPACITY
    Verbose,          \* --verbose
    Setups            \* what is configured, a source and perhaps a recording, and
                      \* the bounds of one behaviour: bytes, reports, ticks and
                      \* signals

Quiet == {"reading", "recording", "the stream restarted", "the source ended"}

(* What the task says, by its severity, its source and its message; no stage *)
(* of the pipeline says the like.                                            *)
SessionWords ==
    Quiet \union {"no recording", "not opened", "read failed", "the source is gone",
                  "recording stopped", "the decoder is behind", "closed",
                  "the decode thread is gone", "recording failed"}

ASSUME AcquisitionAssumption ==
    /\ SessionWords \intersect (Reasons \union Worded \union {Further}) = {}
    /\ ReadErrorLimit \in Nat \ {0} /\ LogCapacity \in Nat \ {0}
    /\ Verbose \in BOOLEAN
    /\ Existing \in Seq([stream : Nat, at : Nat])
    /\ Setups \subseteq [spec : Specs, record : BOOLEAN, bytes : Nat,
                         reports : Nat, ticks : Nat]

VARIABLES
    pc,         \* where the acquisition task is
    failures,   \* reads that failed in a row
    message,    \* bytes the pipeline got since it was last flushed
    events,     \* Pipeline::events
    log,        \* the event log
    running,    \* Session::is_running
    stop,       \* the shutdown watch
    terminal,   \* where headless is
    cursor,     \* its EventCursor
    setup,      \* the configuration, and what this behaviour has left
    handled,    \* every chunk the source returned, laid end to end
    decoding,   \* the streams fed since the decoder's counts were last reset
    reported,   \* how often each reason or line was reported
    said,       \* every line pushed into the log
    printed     \* the last print: its lines, and the part of said it was of; a
                \* print of the empty log before there was one

taskVars == <<pc, failures, running, stop>>
linkVars == <<message, decoding, events, reported>>
logVars == <<log, said>>
printVars == <<terminal, cursor, printed>>
vars == <<sourceVars, recorderVars, taskVars, linkVars, logVars, printVars,
          setup, handled>>

Say(lines) ==
    /\ log' = FoldLeft(PushLine, log, lines)
    /\ said' = said \o lines

Session(what) == Line(what, 0)

(* A mistake: the lines held are counted without their repeats. *)
PushesOfDistinct(entries, i) == i

(* How many pushes the entries up to i stand for. *)
PushesOf(entries, i) ==
    SumFunctionOnSet([j \in DOMAIN entries |-> entries[j].times], 1..i)

(* The pushes the log had seen when it last saw the entry i. *)
EndOf(entries, i) ==
    (log.total - PushesOf(entries, Len(entries))) + PushesOf(entries, i)

Shows(entry) == Verbose \/ entry.line.what \notin Quiet

UnprintedEvents ==
    LET entries == Contents(log.entries)
        fresh == {i \in DOMAIN entries : EndOf(entries, i) > cursor}
    IN  [lines |-> SelectSeq(SubSeq(entries, Len(entries) - Cardinality(fresh) + 1,
                                    Len(entries)), Shows),
         cursor |-> IF fresh = {} THEN cursor ELSE EndOf(entries, Max(fresh))]

Init ==
    /\ setup \in Setups /\ spec = setup.spec
    /\ SourceInit /\ RecorderInit
    /\ pc = "open" /\ failures = 0 /\ running = TRUE /\ stop = FALSE
    /\ message = <<>> /\ decoding = {}
    /\ events = NoEvents /\ reported = [w \in Reasons \union Worded |-> 0]
    /\ log = EmptyLog(LogCapacity) /\ said = <<>>
    /\ terminal = "loop" /\ cursor = 0
    /\ printed = [lines |-> UnprintedEvents.lines, from |-> 0, upto |-> 0]
    /\ handled = <<>>
-----------------------------------------------------------------------------
(* Opening the source, then the recording, which is waited for. *)
Open ==
    /\ pc = "open" /\ ~stop
    /\ pc' = "opening"
    /\ Say(<<Session("reading")>>)
    /\ UNCHANGED <<sourceVars, recorderVars, failures, running, stop, linkVars,
                   printVars, setup, handled>>

OpenRecording(opens) ==
    /\ pc = "opening"
    /\ opens => setup.record
    /\ pc' = "read"
    /\ OpenRecorder(opens)
    /\ IF setup.record
         THEN Say(<<Session(IF opens THEN "recording" ELSE "no recording")>>)
         ELSE UNCHANGED logVars
    /\ UNCHANGED <<sourceVars, failures, running, stop, linkVars, printVars,
                   setup, handled>>

NotOpened ==
    /\ pc = "open"
    /\ pc' = "dropping"
    /\ IF stop THEN UNCHANGED logVars ELSE Say(<<Session("not opened")>>)
    /\ UNCHANGED <<sourceVars, recorderVars, failures, running, stop, linkVars,
                   printVars, setup, handled>>

(* A read that brings bytes.  A paced replay has appended them to the       *)
(* buffer before it waits for them to be due.                               *)
ReadBytes ==
    /\ pc = "read" /\ ~stop
    /\ Bytes /\ Len(buf') <= setup.bytes
    /\ setup' = [setup EXCEPT !.bytes = @ - Len(buf')]
    /\ pc' = IF Paced THEN "pacing" ELSE "record"
    /\ failures' = 0
    /\ UNCHANGED <<recorderVars, running, stop, linkVars, logVars, printVars,
                   handled>>

Due ==
    /\ pc = "pacing"
    /\ pc' = "record"
    /\ UNCHANGED <<sourceVars, recorderVars, failures, running, stop, linkVars,
                   logVars, printVars, setup, handled>>

(* A turn of the read that brings none and goes on. *)
ReadOn ==
    /\ pc = "read" /\ ~stop
    /\ Accept \/ PeerLeaves \/ Rewind
    /\ UNCHANGED <<recorderVars, taskVars, linkVars, logVars, printVars,
                   setup, handled>>

IsTransient(kind) ==
    kind \in {"ConnectionReset", "Interrupted", "WouldBlock", "TimedOut"}

ReadFails(kind) ==
    /\ pc = "read" /\ ~stop
    /\ Fails(kind)
    /\ failures' = failures + 1
    /\ IF IsTransient(kind) /\ failures' < ReadErrorLimit
         THEN /\ UNCHANGED pc
              /\ Say(<<Session("read failed")>>)
         ELSE /\ pc' = "close"
              /\ Say(<<Session("read failed"), Session("the source is gone")>>)
    /\ UNCHANGED <<recorderVars, running, stop, linkVars, printVars, setup,
                   handled>>

(* The decoder is found gone between two reads: by the flush of the ring,   *)
(* which says so, or by the wait for room, which does not.  A replay waits  *)
(* for the decoder and never leaves anything in the ring.                   *)
QueueClosed ==
    /\ pc = "read" /\ ~stop /\ spec.scheme # "file"
    /\ pc' \in {"gone", "close"}
    /\ UNCHANGED <<sourceVars, recorderVars, failures, running, stop, linkVars,
                   logVars, printVars, setup, handled>>

(* The read arm is dropped with whatever it had appended. *)
Stopped ==
    /\ pc \in {"read", "pacing"} /\ stop
    /\ pc' = "close"
    /\ UNCHANGED <<sourceVars, recorderVars, failures, running, stop, linkVars,
                   logVars, printVars, setup, handled>>

SourceEnds ==
    /\ pc = "read" /\ ~stop
    /\ Ends
    /\ message' = <<>>
    /\ pc' = "ended"
    /\ UNCHANGED <<sourceVars, recorderVars, failures, running, stop, decoding,
                   events, reported, logVars, printVars, setup, handled>>

SayEnded ==
    /\ pc = "ended"
    /\ Say(Append(Drained(events), Session("the source ended")))
    /\ events' = NoEvents
    /\ pc' = "close"
    /\ UNCHANGED <<sourceVars, recorderVars, failures, running, stop, message,
                   decoding, reported, printVars, setup, handled>>
-----------------------------------------------------------------------------
(* handle_chunk. *)
Record ==
    /\ pc = "record"
    /\ handled' = handled \o buf
    /\ \/ /\ ~recorder
          /\ pc' = "restart"
          /\ UNCHANGED recorderVars
       \/ recorder /\ Keep(buf) /\ pc' = "restart"
       \/ recorder /\ Flush(buf) /\ pc' = "write"
    /\ UNCHANGED <<sourceVars, failures, running, stop, linkVars, logVars,
                   printVars, setup>>

Written ==
    /\ pc = "write" /\ Landed
    /\ pc' = "restart"
    /\ IF failed
         THEN CloseRecorder /\ Say(<<Session("recording stopped")>>)
         ELSE UNCHANGED <<recorderVars, logVars>>
    /\ UNCHANGED <<sourceVars, failures, running, stop, linkVars, printVars,
                   setup, handled>>

(* The pipeline is flushed, then the decoder is sent the marker, unless the *)
(* queue is closed or the session is stopped while it waits.                *)
Restarted(sent) ==
    /\ pc = "restart" /\ restart
    /\ TakeRestart
    /\ message' = <<>>
    /\ Say(<<Session("the stream restarted")>>)
    /\ decoding' = IF sent THEN {} ELSE decoding
    /\ pc' = IF sent THEN "push" ELSE "gone"
    /\ UNCHANGED <<recorderVars, failures, running, stop, events, reported,
                   printVars, setup, handled>>

FeedPipeline ==
    /\ pc = "restart" => ~restart
    /\ pc \in {"restart", "push"}
    /\ message' = message \o buf
    /\ decoding' = decoding \union {b.stream : b \in Range(buf)}
    /\ pc' = "report"
    /\ UNCHANGED <<sourceVars, recorderVars, failures, running, stop, events,
                   reported, logVars, printVars, setup, handled>>

(* A stage says something of the bytes, or of what a flush abandoned: the   *)
(* frame stage what is wrong with a frame, and what the others counted is   *)
(* folded in behind them.                                                   *)
Report(held, whats) ==
    /\ pc \in {"report", "ended"} /\ setup.reports > 0 /\ whats # {}
    /\ events' = held
    /\ reported' = [w \in DOMAIN reported |->
                       IF w \in whats THEN reported[w] + 1 ELSE reported[w]]
    /\ setup' = [setup EXCEPT !.reports = @ - 1]
    /\ UNCHANGED <<sourceVars, recorderVars, taskVars, message, decoding,
                   logVars, printVars, handled>>

ReportFrame ==
    \E reason \in Reasons \intersect FrameReasons :
        pc = "report" /\ Report(PushReason(events, reason), {reason})

ReportSync ==
    \E counted \in SUBSET (Reasons \intersect SyncReasons) :
        Report(FoldSync(events, counted), counted)

ReportPackets ==
    \E lost \in BOOLEAN, lines \in SeqOf(Worded, 1) :
        Report(FoldPackets(events, lost, lines),
               (IF lost THEN {PacketLoss} ELSE {}) \union Range(lines))

(* The packets of the chunk are sent, and the queue drops old ones for them *)
(* if the decoder is behind; it never does for a replay.                    *)
Sent(sent) ==
    /\ pc = "report"
    /\ message' = IF IsDatagram THEN <<>> ELSE message
    /\ Say(Drained(events))
    /\ events' = NoEvents
    /\ \/ sent /\ pc' = "read" /\ ClearBuffer /\ UNCHANGED setup
       \/ /\ sent /\ spec.scheme # "file" /\ setup.reports > 0
          /\ pc' = "behind"
          /\ setup' = [setup EXCEPT !.reports = @ - 1]
          /\ UNCHANGED sourceVars
       \/ ~sent /\ pc' = "gone" /\ UNCHANGED <<sourceVars, setup>>
    /\ UNCHANGED <<recorderVars, failures, running, stop, decoding, reported,
                   printVars, handled>>

Behind ==
    /\ pc = "behind"
    /\ pc' = "read"
    /\ Say(<<Session("the decoder is behind")>>)
    /\ ClearBuffer
    /\ UNCHANGED <<recorderVars, failures, running, stop, linkVars, printVars,
                   setup, handled>>

DecoderGone ==
    /\ pc = "gone"
    /\ Say(<<Session(IF stop THEN "closed" ELSE "the decode thread is gone")>>)
    /\ pc' = "close"
    /\ UNCHANGED <<sourceVars, recorderVars, failures, running, stop, linkVars,
                   printVars, setup, handled>>

(* The end of the task: the last flush, and the guard behind it. *)
Close ==
    /\ pc = "close"
    /\ IF recorder THEN Flush(<<>>) /\ pc' = "flushed"
                   ELSE UNCHANGED recorderVars /\ pc' = "dropping"
    /\ UNCHANGED <<sourceVars, failures, running, stop, linkVars, logVars,
                   printVars, setup, handled>>

Flushed ==
    /\ pc = "flushed" /\ Landed
    /\ IF failed THEN Say(<<Session("recording failed")>>) ELSE UNCHANGED logVars
    /\ pc' = "dropping"
    /\ UNCHANGED <<sourceVars, recorderVars, failures, running, stop, linkVars,
                   printVars, setup, handled>>

Dropped ==
    /\ \/ pc = "dropping"
       \/ terminal \in {"left", "finished"} /\ pc # "done"   \* the runtime goes, at any await
    /\ DropRecorder
    /\ running' = FALSE
    /\ pc' = "done"
    /\ UNCHANGED <<sourceVars, failures, stop, linkVars, logVars, printVars,
                   setup, handled>>

FileWritten ==
    /\ Lands
    /\ UNCHANGED <<sourceVars, taskVars, linkVars, logVars, printVars, setup,
                   handled>>
-----------------------------------------------------------------------------
(* The terminal. *)

PrintEvents ==
    /\ cursor' = UnprintedEvents.cursor
    /\ printed' = [lines |-> UnprintedEvents.lines, from |-> printed.upto,
                   upto |-> Len(said)]

Tick ==
    /\ terminal = "loop" /\ setup.ticks > 0
    /\ PrintEvents
    /\ terminal' = "check"
    /\ setup' = [setup EXCEPT !.ticks = @ - 1]
    /\ UNCHANGED <<sourceVars, recorderVars, taskVars, linkVars, logVars, handled>>

(* The counters are printed after the lines, and is_running read last.  A   *)
(* terminal that cannot be written to ends the pass as a signal does.       *)
Check ==
    /\ terminal = "check"
    /\ terminal' \in {IF running THEN "loop" ELSE "over", "interrupted"}
    /\ UNCHANGED <<sourceVars, recorderVars, taskVars, linkVars, logVars,
                   cursor, printed, setup, handled>>

Interrupt ==
    /\ terminal = "loop" /\ setup.ticks > 0
    /\ terminal' = "interrupted"
    /\ setup' = [setup EXCEPT !.ticks = @ - 1]
    /\ UNCHANGED <<sourceVars, recorderVars, taskVars, linkVars, logVars,
                   cursor, printed, handled>>

Shutdown ==
    /\ terminal \in {"over", "interrupted"} /\ ~stop
    /\ stop' = TRUE
    /\ UNCHANGED <<sourceVars, recorderVars, pc, failures, running, linkVars,
                   logVars, printVars, setup, handled>>

(* The lines are printed a last time, and the runtime is dropped. *)
Leave ==
    /\ terminal \in {"over", "interrupted"} /\ stop
    /\ PrintEvents
    /\ terminal' = IF terminal = "over" THEN "finished" ELSE "left"
    /\ UNCHANGED <<sourceVars, recorderVars, taskVars, linkVars, logVars,
                   setup, handled>>

Next ==
    \/ Open \/ NotOpened
    \/ \E opens \in BOOLEAN : OpenRecording(opens)
    \/ ReadBytes \/ Due \/ ReadOn \/ Stopped \/ SourceEnds \/ SayEnded
    \/ \E kind \in ErrorKinds : ReadFails(kind)
    \/ Record \/ Written \/ FeedPipeline
    \/ \E sent \in BOOLEAN : Restarted(sent) \/ Sent(sent)
    \/ Behind
    \/ ReportFrame \/ ReportSync \/ ReportPackets \/ QueueClosed
    \/ DecoderGone \/ Close \/ Flushed \/ Dropped \/ FileWritten
    \/ Tick \/ Check \/ Interrupt \/ Shutdown \/ Leave

AcquisitionSpec == Init /\ [][Next]_vars
-----------------------------------------------------------------------------
Phases == {"open", "opening", "read", "pacing", "record", "write", "restart",
           "push", "report", "behind", "gone", "ended", "close", "flushed", "dropping", "done"}

(* Every variable has its type; the pipeline never holds more lines than    *)
(* its capacity and the log never more than its own (pipeline.rs:42,        *)
(* event.rs:83).                                                            *)
AcquisitionTypeOK ==
    /\ spec \in Specs /\ connected \in BOOLEAN /\ restart \in BOOLEAN
    /\ rewound \in BOOLEAN /\ stream \in 0..MaxStreams /\ offset \in Nat
    /\ \A s \in {buf, handled, message, tail, flight} :
          s \in Seq([stream : Nat, at : Nat])
    /\ recorder \in BOOLEAN /\ failed \in BOOLEAN
    /\ pc \in Phases /\ failures \in 0..ReadErrorLimit
    /\ running \in BOOLEAN /\ stop \in BOOLEAN
    /\ decoding \subseteq 0..MaxStreams
    /\ IsEvents(events) /\ IsRing(log.entries, [line : Range(said), times : Nat])
    /\ terminal \in {"loop", "check", "over", "interrupted", "finished", "left"} /\ cursor \in Nat

(* A recording is every byte the source returned, in order, behind what the *)
(* file already held: what is on the file, with the blocking thread and in  *)
(* the buffer, in that order, is all of it.  After a write failed it is a   *)
(* beginning of it, never one with a hole.  When the session is no longer   *)
(* running nothing is left in the buffer, and what a crash can cost before  *)
(* is less than one buffer (record.rs:1-8, 197-206 and session.rs:862-867). *)
(* Nor does the pipeline join the bytes of two datagrams, two peers or two  *)
(* laps: the decoder never compares their counts, and neither is reset in   *)
(* the middle of one (source.rs:305-325, session.rs:888-890).               *)
RecordingIsTheStream ==
    LET recorded == file \o flight \o tail
        stream_ == Existing \o handled
        opened == Session("recording") \in Range(said)
    IN  /\ AcquisitionTypeOK
        /\ IF opened /\ ~failed THEN recorded = stream_
                                 ELSE IsPrefix(recorded, stream_)
        /\ Len(tail) < RecordBuffer
        /\ ~running => tail = <<>>
        /\ Cardinality({b.stream : b \in Range(message)}) <= 1
        /\ ~IsDatagram => Cardinality(decoding) <= 1
        /\ pc = "restart" /\ restart => {b.stream : b \in Range(buf)} \cap decoding = {}

(* How many reports a sequence of lines accounts for. *)
CountOf(lines, what) ==
    SumFunction([i \in DOMAIN lines |->
                    IF lines[i].what = what THEN lines[i].more + 1 ELSE 0])
DroppedIn(lines) ==
    SumFunction([i \in DOMAIN lines |->
                    IF lines[i].what = Further THEN lines[i].more ELSE 0])

(* Whatever the pipeline reports is in a line, in the count of a line that  *)
(* says the same, or in the count of what is not shown: a count is never    *)
(* put on another line, kept for the next drain or lost (pipeline.rs:386-475). *)
LinesAreCounted ==
    LET told == said \o CloseRun(events).queued
    IN  /\ \A w \in DOMAIN reported : CountOf(told, w) <= reported[w]
        /\ SumFunction([w \in DOMAIN reported |-> CountOf(told, w)])
             + DroppedIn(told) + events.dropped
             = SumFunction(reported)

(* A print shows, once, every line that was said since the last one and     *)
(* that the log still holds, with how often it was said in a row, a repeat  *)
(* of a line shown before included; and when the terminal has left because  *)
(* the session had ended, nothing the task said is unread (run.rs:217-248). *)
PrinterMissesNone ==
    LET past == SubSeq(said, 1, printed.upto)
        ends == {i \in DOMAIN past : i = Len(past) \/ past[i + 1] # past[i]}
        held == {i \in ends :
                   Cardinality({j \in ends : j >= i}) <= LogCapacity}
        fresh == {i \in held : i > printed.from}
        Nth(k) == CHOOSE i \in fresh : Cardinality({j \in fresh : j <= i}) = k
        FirstOf(i) == Max({0} \union {j \in ends : j < i}) + 1
        Shown(i) == [line |-> past[i], times |-> i - FirstOf(i) + 1]
        shown == [k \in 1..Cardinality(fresh) |-> Shown(Nth(k))]
    IN  /\ printed.lines = SelectSeq(shown, Shows)
        /\ cursor = printed.upto
        /\ terminal = "finished" => cursor = Len(said)
=============================================================================
