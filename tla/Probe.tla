-------------------------------- MODULE Probe --------------------------------
(***************************************************************************)
(* xtce-gs probe on a recording of packets: probe, ApidTally, MarkerScan    *)
(* and advise in xtce-gs-cli/src/run.rs.  It reads a file through the       *)
(* pipeline, tallies what packets come out, and looks for sync markers in   *)
(* the bytes themselves, to say how the link could be read.  The frames it  *)
(* may also be told to read are Reception's.                                *)
(***************************************************************************)
EXTENDS Export

CONSTANTS
    Probes,        \* a recording, what is cut off it, its bytes, the limit and the sample
    SYNC_MARKER,
    CCSDS_INTERLEAVE

ASSUME ProbeAssumption ==
    /\ Len(SYNC_MARKER) > 0 /\ CCSDS_INTERLEAVE \subseteq Nat \ {0}
    /\ \A setup \in Probes : Len(setup.contents) = Len(OctetsOf(setup.recording, setup.cut))

VARIABLE survey    \* what one probe holds, None before it begins

EmptyTally == [count |-> 0, shortest |-> None, longest |-> 0, last |-> None,
               gaps |-> 0, missing |-> 0]

observed(tally, length, sequence) ==
    LET expected == (tally.last + 1) % SEQUENCE_MODULUS
        gap == tally.last # None /\ sequence # expected
    IN  [count |-> tally.count + 1,
         shortest |-> IF tally.shortest = None THEN length ELSE Min({tally.shortest, length}),
         longest |-> Max({tally.longest, length}),
         last |-> sequence,
         gaps |-> tally.gaps + (IF gap THEN 1 ELSE 0),
         missing |-> tally.missing
            + (IF gap THEN (sequence + SEQUENCE_MODULUS - expected) % SEQUENCE_MODULUS ELSE 0)]

(***************************************************************************)
(* MarkerScan::push: the octets kept from the chunk before, then this one.  *)
(***************************************************************************)
EmptyScan == [carry |-> <<>>, position |-> 0, count |-> 0, first |-> None, previous |-> None,
              strides |-> EmptyBag]

MarkersAt(octets) ==
    {offset \in 0..(Len(octets) - Len(SYNC_MARKER)) :
        SubSeq(octets, offset + 1, offset + Len(SYNC_MARKER)) = SYNC_MARKER}

MarkersInOrder(octets) ==
    SelectSeq([n \in 1..Len(octets) |-> n - 1], LAMBDA offset : offset \in MarkersAt(octets))

Noticed(scan, at) ==
    [scan EXCEPT !.count = @ + 1,
                 !.first = IF @ = None THEN at ELSE @,
                 !.previous = at,
                 !.strides = IF scan.previous = None THEN @ ELSE @ (+) SetToBag({at - scan.previous})]

KeptFor(window, keep) ==
    LET kept == Min({Len(window), keep})
    IN  SubSeq(window, Len(window) - kept + 1, Len(window))

PushedKeeping(scan, bytes, keep) ==
    LET window == scan.carry \o bytes
        base == scan.position - Len(scan.carry)
        found == FoldLeft(LAMBDA s, offset : Noticed(s, base + offset), scan,
                          MarkersInOrder(window))
    IN  [found EXCEPT !.position = @ + Len(bytes), !.carry = KeptFor(window, keep)]

(* A mistake: a whole marker is kept, and found again. *)
ScanPushTwice(scan, bytes) == PushedKeeping(scan, bytes, Len(SYNC_MARKER))

ScanPush(scan, bytes) == PushedKeeping(scan, bytes, Len(SYNC_MARKER) - 1)

\* The stride there is most of, the shortest of them.
modal_stride(scan) ==
    LET strides == BagToSet(scan.strides)
        Most == {s \in strides : \A t \in strides : scan.strides[t] <= scan.strides[s]}
    IN  IF strides = {} THEN None ELSE Min(Most)

(***************************************************************************)
(* advise: the arguments it tells the operator to type.                     *)
(***************************************************************************)
Advice(rs, interleave, frame_length) ==
    [rs |-> rs, interleave |-> interleave, frame_length |-> frame_length]

advise(stride) ==
    LET block == stride - Len(SYNC_MARKER)
        interleave == block \div CODEWORD_SYMBOLS
    IN  IF block <= 0 THEN {}
        ELSE IF block % CODEWORD_SYMBOLS = 0 /\ interleave \in CCSDS_INTERLEAVE
          THEN {Advice(parity, interleave, interleave * (CODEWORD_SYMBOLS - parity)) :
                    parity \in ACCEPTED_PARITY}
        ELSE {Advice(None, None, block)}

AdviceOf(s) == IF modal_stride(s.scan) = None THEN {} ELSE advise(modal_stride(s.scan))

(***************************************************************************)
(* The loop.                                                                *)
(***************************************************************************)
BeginProbe ==
    /\ survey = None
    /\ \E setup \in Probes :
        survey' = [setup |-> setup, done |-> FALSE, read |-> 0, total |-> 0, tail |-> <<>>,
                   scan |-> EmptyScan, first |-> <<>>,
                   tallies |-> [apid \in Apids |-> EmptyTally]]

Tallied(s, octets) ==
    LET packet == s.setup.recording[Head(octets).packet]
        entry == <<packet.apid, packet.count, Len(octets)>>
    IN  [s EXCEPT !.first = IF Len(@) < s.setup.sample THEN Append(@, entry) ELSE @,
                  !.tallies[packet.apid] = observed(@, Len(octets), packet.count)]

\* A chunk is read before the limit is looked at, and cut short by it.
ReadChunk ==
    /\ ~survey.done
    /\ \E chunk \in Reads(survey) :
        LET room == survey.setup.limit - survey.total
            over == survey.setup.limit # None /\ room < Len(chunk)
            bytes == IF over THEN SubSeq(chunk, 1, room) ELSE chunk
            pushed == Pushed(survey.setup.recording, survey.tail, bytes)
            values == SubSeq(survey.setup.contents, survey.total + 1, survey.total + Len(bytes))
        IN  survey' =
                IF bytes = <<>> THEN [survey EXCEPT !.done = TRUE]
                ELSE FoldLeft(Tallied,
                              [survey EXCEPT !.read = @ + Len(chunk), !.total = @ + Len(bytes),
                                             !.tail = pushed.tail,
                                             !.scan = ScanPush(@, values)],
                              pushed.packets)

ProbeStep == ReadChunk

(***************************************************************************)
(* What a probe promises.                                                   *)
(***************************************************************************)
\* The packets wholly in the first octets of the recording, fill left out.
WholeIn(setup, total) ==
    LET ends(n) == FoldSet(LAMBDA m, sum : sum + setup.recording[m].octets, 0, 1..n)
        whole == {n \in DOMAIN setup.recording : ends(n) <= total}
    IN  SelectSeq(SubSeq(setup.recording, 1, Cardinality(whole)), LAMBDA p : ~p.idle)

(* From the first to the last count, each came, or is missing: exactly so    *)
(* when they were in order, and modulo the counter otherwise.                *)
IsTallyOf(tally, own) ==
    LET lengths == {own[n].octets : n \in DOMAIN own}
        broken == {n \in 2..Len(own) :
                    own[n].count # (own[n - 1].count + 1) % SEQUENCE_MODULUS}
    IN  /\ tally.count = Len(own)
        /\ own # <<>> =>
            /\ tally.shortest = Min(lengths) /\ tally.longest = Max(lengths)
            /\ tally.gaps = Cardinality(broken)
            /\ tally.missing \in tally.gaps..(tally.gaps * (SEQUENCE_MODULUS - 1))
            /\ (own[Len(own)].count - own[1].count - (Len(own) - 1) - tally.missing)
                    % SEQUENCE_MODULUS = 0

\* The same command with what it advises in place of what was typed.
Following(args, advice) ==
    [args EXCEPT !.framing = "tm", !.rs = advice.rs, !.interleave = advice.interleave,
                 !.frame_length = advice.frame_length]

(* What is advised is accepted, and says frames as far apart as the markers  *)
(* are; a block with no room for a frame's header is the exception.          *)
AdviceFits(args, advice, stride) ==
    LET followed == Following(args, advice)
        framing == Framing(followed)
    IN  /\ codeword_length(framing) + Len(SYNC_MARKER) = stride
        /\ ~RefusedFlags(followed)
        /\ ValidPipeline(PipelineOf(followed)) <=> Overhead(framing) < framing.frame_length

\* Of every code there is for a stride, one is advised.
CodesFor(args, stride) ==
    {advice \in {Advice(p, i, i * (CODEWORD_SYMBOLS - p)) :
                    p \in ACCEPTED_PARITY, i \in ACCEPTED_INTERLEAVE} :
        codeword_length(Framing(Following(args, advice))) + Len(SYNC_MARKER) = stride}

ProbeIsFaithful(s, args) ==
    LET setup == s.setup
        total == IF setup.limit = None THEN Len(setup.contents)
                 ELSE Min({setup.limit, Len(setup.contents)})
        markers == MarkersInOrder(SubSeq(setup.contents, 1, total))
        apart == [n \in 1..(Len(markers) - 1) |-> markers[n + 1] - markers[n]]
        packets == WholeIn(setup, total)
        stride == modal_stride(s.scan)
    IN  s.done =>
        /\ s.total = total
        /\ s.scan.count = Len(markers)
        /\ s.scan.first = IF markers = <<>> THEN None ELSE Head(markers)
        /\ BagToSet(s.scan.strides) = ToSet(apart)
        /\ \A d \in ToSet(apart) :
                s.scan.strides[d] = Len(SelectSeq(apart, LAMBDA a : a = d))
        /\ \A apid \in Apids :
                IsTallyOf(s.tallies[apid], SelectSeq(packets, LAMBDA p : p.apid = apid))
        /\ s.first = [n \in 1..Min({setup.sample, Len(packets)}) |->
                        <<packets[n].apid, packets[n].count, packets[n].octets>>]
        /\ \A advice \in AdviceOf(s) : AdviceFits(args, advice, stride)
        /\ stride # None => CodesFor(args, stride) \subseteq AdviceOf(s)
=============================================================================
