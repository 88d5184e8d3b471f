--------------------------- MODULE PacketDecoder ---------------------------
(***************************************************************************)
(* The packet decoder (engine/src/decode.rs): the sequence count of every   *)
(* application process, what a gap in it says was lost, which gaps become   *)
(* lines of the log, and the warning about bits a definition leaves over.   *)
(*                                                                          *)
(* What the definition makes of a packet belongs to another crate and is    *)
(* left open: a packet is refused, or it is of a container and has bits     *)
(* left over or not.  The samples of a batch are left out.  Counters that   *)
(* saturate at 32 or 64 bits are taken never to get there, and an APID      *)
(* wider than eleven bits, which the link cannot produce, is left out.      *)
(***************************************************************************)
EXTENDS Integers, Sequences

CONSTANTS
    Apids,                \* application processes
    SequenceModulus,      \* SEQUENCE_MODULUS
    GapSummaryInterval,   \* GAP_SUMMARY_INTERVAL
    HealthyRun,           \* HEALTHY_RUN
    Containers            \* containers of the definition

ASSUME PacketDecoderAssumption ==
    /\ SequenceModulus \in Nat /\ SequenceModulus >= 2
    /\ GapSummaryInterval \in Nat /\ GapSummaryInterval >= 2
    /\ HealthyRun \in Nat \ {0}

VARIABLES
    last,             \* SequenceTracker::last, NoCount for none
    burst,            \* SequenceTracker::burst
    gaps, missing,    \* SequenceTracker's totals
    sequenceGaps, sequenceMissing, packetsDecoded, packetsRejected,   \* LinkStats
    events,           \* lines not taken yet
    warned            \* containers warned about

trackerVars == <<last, burst, gaps, missing>>
statVars == <<sequenceGaps, sequenceMissing, packetsDecoded, packetsRejected>>
decoderVars == <<trackerVars, statVars, events, warned>>

Counts == 0..(SequenceModulus - 1)
NoCount == -1
NoBurst == [gaps |-> 0, missing |-> 0, healthy |-> 0]

Refused == [refused |-> TRUE]
Results == {Refused} \cup [refused : {FALSE}, container : Containers, trailing : BOOLEAN]

DecoderInit ==
    /\ last = [a \in Apids |-> NoCount] /\ burst = [a \in Apids |-> NoBurst]
    /\ gaps = 0 /\ missing = 0
    /\ sequenceGaps = 0 /\ sequenceMissing = 0
    /\ packetsDecoded = 0 /\ packetsRejected = 0
    /\ events = <<>> /\ warned = {}

(***************************************************************************)
(* SequenceTracker::observe.                                                *)
(***************************************************************************)
\* Mutants: the difference is not modular, or a repeat is the loss of a whole turn.
MissedSigned(apid, count) ==
    IF last[apid] \in {NoCount, count} THEN 0 ELSE count - last[apid] - 1
MissedRepeat(apid, count) ==
    IF last[apid] = NoCount THEN 0
    ELSE (count + SequenceModulus - last[apid] - 1) % SequenceModulus
Missed(apid, count) ==
    IF last[apid] \in {NoCount, count} THEN 0
    ELSE (count + SequenceModulus - last[apid] - 1) % SequenceModulus

Observe(apid, count) ==
    LET missed == Missed(apid, count)
        gap == IF missed = 0 THEN 0 ELSE 1 IN
    /\ last' = [last EXCEPT ![apid] = count]
    /\ gaps' = gaps + gap /\ missing' = missing + missed
    /\ sequenceGaps' = sequenceGaps + gap /\ sequenceMissing' = sequenceMissing + missed

(***************************************************************************)
(* What the definition made of the packet, after the line its count is due. *)
(***************************************************************************)
Refuse(result, lines) ==
    /\ result = Refused
    /\ packetsRejected' = packetsRejected + 1
    /\ events' = events \o lines
    /\ UNCHANGED <<packetsDecoded, warned>>

WarnTrailing(result, lines) ==
    /\ result # Refused /\ result.trailing /\ result.container \notin warned
    /\ packetsDecoded' = packetsDecoded + 1
    /\ events' = Append(events \o lines, [line |-> "trailing", container |-> result.container])
    /\ warned' = warned \cup {result.container}
    /\ UNCHANGED packetsRejected

Fill(result, lines) ==
    /\ result # Refused /\ (result.trailing => result.container \in warned)
    /\ packetsDecoded' = packetsDecoded + 1
    /\ events' = events \o lines
    /\ UNCHANGED <<packetsRejected, warned>>

Finish(result, lines) ==
    Refuse(result, lines) \/ WarnTrailing(result, lines) \/ Fill(result, lines)

(***************************************************************************)
(* SequenceTracker::note, one action for each of its answers.               *)
(***************************************************************************)
Healthier(apid) == burst[apid].healthy + 1
\* Mutant: a dropout never ends.
RecoversNever(apid) == FALSE
Recovers(apid) == Healthier(apid) >= HealthyRun /\ burst[apid].gaps # 0
Healed(apid) == NoBurst

Contiguous(apid, count, result) ==
    /\ Missed(apid, count) = 0 /\ ~Recovers(apid)
    /\ Observe(apid, count)
    /\ burst' = [burst EXCEPT ![apid].healthy = Healthier(apid)]
    /\ Finish(result, <<>>)

ContiguousAgain(apid, count, result) ==
    /\ Missed(apid, count) = 0 /\ Recovers(apid)
    /\ Observe(apid, count)
    /\ burst' = [burst EXCEPT ![apid] = Healed(apid)]
    /\ Finish(result, <<[line |-> "recovered", apid |-> apid,
                         gaps |-> burst[apid].gaps, missing |-> burst[apid].missing]>>)

Broken(apid, missed) ==
    [gaps |-> burst[apid].gaps + 1, missing |-> burst[apid].missing + missed, healthy |-> 0]

FirstGap(apid, count, result) ==
    LET missed == Missed(apid, count) IN
    /\ missed # 0 /\ burst[apid].gaps = 0
    /\ Observe(apid, count)
    /\ burst' = [burst EXCEPT ![apid] = Broken(apid, missed)]
    /\ Finish(result, <<[line |-> "missing before", apid |-> apid,
                         missing |-> missed, count |-> count]>>)

\* Mutant: the running total is said once.
IsDueOnce(n) == n = GapSummaryInterval
IsDue(n) == n % GapSummaryInterval = 0

GapFolded(apid, count, result) ==
    LET broken == Broken(apid, Missed(apid, count)) IN
    /\ Missed(apid, count) # 0 /\ burst[apid].gaps # 0 /\ ~IsDue(broken.gaps)
    /\ Observe(apid, count)
    /\ burst' = [burst EXCEPT ![apid] = broken]
    /\ Finish(result, <<>>)

GapSummed(apid, count, result) ==
    LET broken == Broken(apid, Missed(apid, count)) IN
    /\ Missed(apid, count) # 0 /\ burst[apid].gaps # 0 /\ IsDue(broken.gaps)
    /\ Observe(apid, count)
    /\ burst' = [burst EXCEPT ![apid] = broken]
    /\ Finish(result, <<[line |-> "so far", apid |-> apid,
                         gaps |-> broken.gaps, missing |-> broken.missing]>>)

DecodePacket(apid, count, result) ==
    \/ Contiguous(apid, count, result) \/ ContiguousAgain(apid, count, result)
    \/ FirstGap(apid, count, result)
    \/ GapFolded(apid, count, result) \/ GapSummed(apid, count, result)

\* A packet of fewer than six bytes has no count to file.
DecodeHeaderless(result) ==
    /\ Finish(result, <<>>)
    /\ UNCHANGED <<trackerVars, sequenceGaps, sequenceMissing>>

Reset ==
    /\ last' = [a \in Apids |-> NoCount] /\ burst' = [a \in Apids |-> NoBurst]
    /\ UNCHANGED <<gaps, missing, statVars, events, warned>>

TakeEvents ==
    /\ events' = <<>>
    /\ UNCHANGED <<trackerVars, statVars, warned>>

DecoderNext ==
    \/ \E apid \in Apids, count \in Counts, result \in Results :
          DecodePacket(apid, count, result)
    \/ \E result \in Results : DecodeHeaderless(result)
    \/ Reset \/ TakeEvents

DecoderSpec == DecoderInit /\ [][DecoderNext]_decoderVars

-----------------------------------------------------------------------------
Lines ==
    [line : {"missing before"}, apid : Apids, missing : Nat, count : Counts]
        \cup [line : {"so far", "recovered"}, apid : Apids, gaps : Nat, missing : Nat]
        \cup [line : {"trailing"}, container : Containers]

DecoderTypeOK ==
    /\ last \in [Apids -> Counts \cup {NoCount}]
    /\ burst \in [Apids -> [gaps : Nat, missing : Nat, healthy : Nat]]
    /\ \A n \in {gaps, missing, sequenceGaps, sequenceMissing,
                 packetsDecoded, packetsRejected} : n \in Nat
    /\ events \in Seq(Lines)
    /\ warned \subseteq Containers

\* A dropout is open from its first gap until HealthyRun packets in a row have
\* come through, and each of its gaps is the loss of a packet at least.
DropoutsEnd ==
    \A a \in Apids :
        /\ burst[a].gaps > 0 => burst[a].healthy < HealthyRun
        /\ burst[a].missing >= burst[a].gaps
        /\ burst[a].missing > 0 => burst[a].gaps > 0
=============================================================================
