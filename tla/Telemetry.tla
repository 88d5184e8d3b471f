----------------------------- MODULE Telemetry -----------------------------
(***************************************************************************)
(* Application processes on a spacecraft that number their packets, a link  *)
(* that loses some and repeats some, streams that restart, the packet       *)
(* decoder, and somebody who reads the log.  What the counts can show was   *)
(* lost is worked out from the packets lost, never from the counts.         *)
(*                                                                          *)
(* No more than MaxBurst packets of a process are lost in a row: a loss of  *)
(* a whole turn of the count, or of one less, cannot be told from none.     *)
(* Packets are not reordered.                                               *)
(***************************************************************************)
EXTENDS PacketDecoder, FiniteSets, SequencesExt

CONSTANTS
    MaxBurst,     \* packets of a process lost in a row
    FirstCounts,  \* counts a stream may begin with
    MaxPackets,   \* bound: packets decoded
    MaxUnread     \* bound: lines waiting to be taken

ASSUME TelemetryAssumption ==
    /\ MaxBurst \in Nat /\ MaxBurst < SequenceModulus - 1
    /\ FirstCounts \subseteq Counts
    /\ MaxPackets \in Nat /\ MaxUnread \in Nat \ {0}
    /\ IsFiniteSet(Apids)

VARIABLES
    next,        \* the count of each process's next packet
    skipped,     \* packets of a process lost since the last that arrived
    lost,        \* packets lost between two that arrived in one stream
    holes,       \* how many times that happened
    told,        \* the dropout of each process as the log tells it
    closed,      \* packets missing in the dropouts the log said were over
    forgotten,   \* packets missing in the dropouts a restart cut off
    saidOf       \* how often each container was warned about, and whether it is due

linkVars == <<next, skipped, lost, holes>>
logVars == <<told, closed, forgotten, saidOf>>
telemetryVars == <<decoderVars, linkVars, logVars>>

Calm == [open |-> FALSE, gaps |-> 0, missing |-> 0]
Owing == SumFunction([a \in Apids |-> burst[a].missing])   \* in dropouts still open
Arrived == packetsDecoded + packetsRejected

TelemetryInit ==
    /\ DecoderInit
    /\ next \in [Apids -> FirstCounts] /\ skipped = [a \in Apids |-> 0]
    /\ lost = 0 /\ holes = 0
    /\ told = [a \in Apids |-> Calm] /\ closed = 0 /\ forgotten = 0
    /\ saidOf = [c \in Containers |-> [lines |-> 0, due |-> FALSE]]

NewLines == SubSeq(events', Len(events) + 1, Len(events'))
About(a, kinds) == {i \in DOMAIN NewLines : NewLines[i].line \in kinds /\ NewLines[i].apid = a}

\* What the lines a step put on the log tell its reader.
Reads(result) ==
    /\ told' = [a \in Apids |->
          IF About(a, {"recovered"}) # {} THEN Calm
          ELSE IF About(a, {"missing before"}) # {} THEN
              [open |-> TRUE, gaps |-> 1,
               missing |-> NewLines[CHOOSE i \in About(a, {"missing before"}) : TRUE].missing]
          ELSE IF About(a, {"so far"}) # {} THEN
              LET l == NewLines[CHOOSE i \in About(a, {"so far"}) : TRUE] IN
              [open |-> told[a].open, gaps |-> l.gaps, missing |-> l.missing]
          ELSE told[a]]
    /\ closed' = closed + SumFunction([i \in DOMAIN NewLines |->
                                IF NewLines[i].line = "recovered" THEN NewLines[i].missing ELSE 0])
    /\ saidOf' = [c \in Containers |->
          [lines |-> saidOf[c].lines
                       + Cardinality({i \in DOMAIN NewLines : NewLines[i].line = "trailing"
                                                 /\ NewLines[i].container = c}),
           due |-> saidOf[c].due \/ (result # Refused /\ result.container = c /\ result.trailing)]]
    /\ UNCHANGED forgotten

PacketArrives(a, result) ==
    /\ Arrived < MaxPackets /\ Len(events) < MaxUnread
    /\ DecodePacket(a, next[a], result)
    /\ next' = [next EXCEPT ![a] = (next[a] + 1) % SequenceModulus]
    /\ skipped' = [skipped EXCEPT ![a] = 0]
    /\ lost' = lost + IF last[a] = NoCount THEN 0 ELSE skipped[a]
    /\ holes' = holes + IF last[a] = NoCount \/ skipped[a] = 0 THEN 0 ELSE 1
    /\ Reads(result)

PacketLost(a) ==
    /\ skipped[a] < MaxBurst
    /\ next' = [next EXCEPT ![a] = (next[a] + 1) % SequenceModulus]
    /\ skipped' = [skipped EXCEPT ![a] = skipped[a] + 1]
    /\ UNCHANGED <<decoderVars, lost, holes, logVars>>

\* The packet that arrived last arrives again.
PacketRepeated(a, result) ==
    /\ Arrived < MaxPackets /\ Len(events) < MaxUnread
    /\ last[a] # NoCount
    /\ DecodePacket(a, last[a], result)
    /\ Reads(result)
    /\ UNCHANGED linkVars

ShortPacketArrives(result) ==
    /\ Arrived < MaxPackets /\ Len(events) < MaxUnread
    /\ DecodeHeaderless(result)
    /\ Reads(result)
    /\ UNCHANGED linkVars

\* A new peer, or a recording from its beginning: the counts begin anywhere.
StreamRestarts ==
    /\ Reset
    /\ next' \in [Apids -> FirstCounts] /\ skipped' = [a \in Apids |-> 0]
    /\ forgotten' = forgotten + Owing
    /\ told' = [a \in Apids |-> Calm]
    /\ UNCHANGED <<lost, holes, closed, saidOf>>

LinesTaken ==
    /\ events # <<>> /\ TakeEvents
    /\ UNCHANGED <<linkVars, logVars>>

TelemetryNext ==
    \/ \E a \in Apids, result \in Results : PacketArrives(a, result) \/ PacketRepeated(a, result)
    \/ \E a \in Apids : PacketLost(a)
    \/ \E result \in Results : ShortPacketArrives(result)
    \/ StreamRestarts \/ LinesTaken

TelemetrySpec == TelemetryInit /\ [][TelemetryNext]_telemetryVars

\* One process is like another.
Symmetry == Permutations(Apids)

-----------------------------------------------------------------------------
\* However losses, repeats and restarts fall, the counts say what was lost: the
\* first packet of a stream, a count that wraps and a repeat are no gaps, and
\* the totals outlive a restart.  The status bar's counters say the same.
MissingIsWhatWasLost ==
    /\ missing = lost /\ sequenceMissing = lost
    /\ gaps = holes /\ sequenceGaps = holes

\* The log tells of every dropout that is open and of no other, and is never
\* a whole interval of gaps behind on one; of a container it warns once a
\* session, when it first falls short.  A packet that is missing is in the total
\* of one dropout: one the log said was over, one that is open, or one that a
\* restart cut off.
LogKeepsUp ==
    /\ \A c \in Containers : saidOf[c].lines = IF saidOf[c].due THEN 1 ELSE 0
    /\ \A a \in Apids :
           /\ told[a].open <=> burst[a].gaps > 0
           /\ burst[a].gaps - told[a].gaps \in 0..(GapSummaryInterval - 1)
           /\ told[a].missing <= burst[a].missing
    /\ missing = closed + forgotten + Owing
=============================================================================
