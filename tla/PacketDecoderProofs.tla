------------------------ MODULE PacketDecoderProofs ------------------------
(***************************************************************************)
(* What the sequence counts promise, for every set of processes, counter    *)
(* modulus and interval, and for runs of any length.                        *)
(***************************************************************************)
EXTENDS Telemetry, EventLogProofs

USE DEF Counts, NoCount, NoBurst

\* Remainders of numbers less than two turns of the counter.
LEMMA ModWithin ==
    ASSUME NEW m \in Nat, m >= 2, NEW x \in 0..(m - 1)
    PROVE  x % m = x
  BY SMT

LEMMA ModOnceAround ==
    ASSUME NEW m \in Nat, m >= 2, NEW x \in m..(2 * m - 1)
    PROVE  x % m = x - m
  BY SMT

\* What a count tells of the packets lost before it, anywhere on the counter.
LEMMA MissedIsSkipped ==
    ASSUME NEW m \in Nat, m >= 2, NEW l \in 0..(m - 1), NEW k \in Nat, k < m - 1,
           NEW n \in 0..(m - 1), n = (l + 1 + k) % m
    PROVE  n # l /\ (n + m - l - 1) % m = k
<1>1. CASE l + 1 + k < m
  <2>1. n = l + 1 + k
    BY <1>1, ModWithin
  <2>2. n + m - l - 1 = m + k
    BY <1>1, <2>1
  <2>3. m + k \in m..(2 * m - 1)
    OBVIOUS
  <2>4. (m + k) % m = m + k - m
    BY <2>3, ModOnceAround
  <2>5. (n + m - l - 1) % m = k
    BY <2>2, <2>4
  <2>6. n # l
    BY <1>1, <2>1
  <2> QED
    BY <2>5, <2>6
<1>2. CASE l + 1 + k >= m
  <2>1. l + 1 + k \in m..(2 * m - 1)
    BY <1>2
  <2>2. n = l + 1 + k - m
    BY <2>1, ModOnceAround
  <2>3. n + m - l - 1 = k
    BY <2>2
  <2>4. k % m = k
    BY ModWithin
  <2>5. (n + m - l - 1) % m = k
    BY <2>3, <2>4
  <2>6. n # l
    BY <1>2, <2>1, <2>2
  <2> QED
    BY <2>5, <2>6
<1> QED
  BY <1>1, <1>2

\* The count that follows.
LEMMA NextCount ==
    ASSUME NEW m \in Nat, m >= 2, NEW n \in 0..(m - 1)
    PROVE  (n + 1) % m \in 0..(m - 1)
<1>1. CASE n + 1 < m
  BY <1>1, ModWithin
<1>2. CASE n + 1 = m
  BY <1>2, ModOnceAround
<1> QED
  BY <1>1, <1>2

\* One packet more is lost: the next count is one further on.
LEMMA SkipOne ==
    ASSUME NEW m \in Nat, m >= 2, NEW l \in 0..(m - 1), NEW k \in Nat, k + 1 < m - 1
    PROVE  (((l + 1 + k) % m) + 1) % m = (l + 1 + (k + 1)) % m
<1> DEFINE n == (l + 1 + k) % m
<1>1. CASE l + 1 + k < m
  <2>1. n = l + 1 + k
    BY <1>1, ModWithin
  <2>2. n + 1 = l + 1 + (k + 1)
    BY <2>1
  <2>. HIDE DEF n
  <2> QED
    BY <2>2
<1>2. CASE l + 1 + k >= m
  <2>0. l + 1 + k \in m..(2 * m - 1)
    BY <1>2
  <2>1. n = l + 1 + k - m
    BY <2>0, ModOnceAround
  <2>2. (l + 1 + (k + 1)) % m = l + 1 + (k + 1) - m
    BY <1>2, ModOnceAround
  <2>3. (n + 1) % m = n + 1
    BY <1>2, <2>1, ModWithin
  <2>. HIDE DEF n
  <2> QED
    BY <2>1, <2>2, <2>3
<1> QED
  BY <1>1, <1>2

-----------------------------------------------------------------------------
(***************************************************************************)
(* The decoder alone, whatever packets it is given.                         *)
(***************************************************************************)
LEMMA MissedIsNat ==
    ASSUME DecoderTypeOK, NEW a \in Apids, NEW count \in Counts
    PROVE  Missed(a, count) \in Nat
<1> DEFINE d == count + SequenceModulus - last[a] - 1
<1>1. CASE last[a] \in {NoCount, count}
  BY <1>1 DEF Missed
<1>2. CASE last[a] \notin {NoCount, count}
  <2>1. SequenceModulus \in Nat /\ SequenceModulus >= 2 /\ last[a] \in Counts
    BY <1>2, PacketDecoderAssumption DEF DecoderTypeOK
  <2>2. d \in 0..(2 * SequenceModulus - 1)
    BY <2>1
  <2>3. CASE d < SequenceModulus
    <3>. HIDE DEF d
    <3>1. d % SequenceModulus = d
      BY <2>1, <2>2, <2>3, ModWithin
    <3> QED
      BY <1>2, <2>2, <3>1 DEF Missed, d
  <2>4. CASE d >= SequenceModulus
    <3>. HIDE DEF d
    <3>1. d \in SequenceModulus..(2 * SequenceModulus - 1) /\ d - SequenceModulus \in Nat
      BY <2>1, <2>2, <2>4
    <3>2. d % SequenceModulus = d - SequenceModulus
      BY <2>1, <3>1, ModOnceAround
    <3> QED
      BY <1>2, <3>1, <3>2 DEF Missed, d
  <2> QED
    BY <2>1, <2>2, <2>3, <2>4
<1> QED
  BY <1>1, <1>2

LEMMA FinishTypes ==
    ASSUME DecoderTypeOK, NEW result \in Results, NEW lines \in Seq(Lines),
           Finish(result, lines)
    PROVE  /\ events' \in Seq(Lines) /\ warned' \subseteq Containers
           /\ packetsDecoded' \in Nat /\ packetsRejected' \in Nat
<1>1. /\ events \in Seq(Lines) /\ warned \subseteq Containers
      /\ packetsDecoded \in Nat /\ packetsRejected \in Nat
  BY DEF DecoderTypeOK
<1>2. events \o lines \in Seq(Lines)
  BY <1>1
<1>3. CASE Refuse(result, lines)
  BY <1>1, <1>2, <1>3 DEF Refuse
<1>4. CASE WarnTrailing(result, lines)
  <2>1. result.container \in Containers
    BY <1>4 DEF WarnTrailing, Results
  <2>2. [line |-> "trailing", container |-> result.container] \in Lines
    BY <2>1 DEF Lines
  <2> QED
    BY <1>1, <1>2, <1>4, <2>1, <2>2 DEF WarnTrailing
<1>5. CASE Fill(result, lines)
  BY <1>1, <1>2, <1>5 DEF Fill
<1> QED
  BY <1>3, <1>4, <1>5 DEF Finish

LEMMA ObserveTypes ==
    ASSUME DecoderTypeOK, NEW a \in Apids, NEW count \in Counts, Observe(a, count)
    PROVE  /\ last' \in [Apids -> Counts \cup {NoCount}]
           /\ gaps' \in Nat /\ missing' \in Nat
           /\ sequenceGaps' \in Nat /\ sequenceMissing' \in Nat
<1> DEFINE missed == Missed(a, count)
           gap == IF missed = 0 THEN 0 ELSE 1
<1>1. missed \in Nat /\ gap \in Nat
  BY MissedIsNat
<1>2. /\ gaps' = gaps + gap /\ missing' = missing + missed
      /\ sequenceGaps' = sequenceGaps + gap /\ sequenceMissing' = sequenceMissing + missed
  BY DEF Observe
<1>. HIDE DEF missed, gap
<1>3. gaps \in Nat /\ missing \in Nat /\ sequenceGaps \in Nat /\ sequenceMissing \in Nat
  BY DEF DecoderTypeOK
<1>5. gaps' \in Nat /\ missing' \in Nat /\ sequenceGaps' \in Nat /\ sequenceMissing' \in Nat
  BY <1>1, <1>2, <1>3
<1>4. last' \in [Apids -> Counts \cup {NoCount}]
  BY DEF Observe, DecoderTypeOK
<1> QED
  BY <1>4, <1>5

LEMMA OneLine ==
    ASSUME NEW l \in Lines
    PROVE  <<l>> \in Seq(Lines)
  OBVIOUS

\* What a packet does to the dropout of its process, and the line it puts on
\* the log.
Bursts == [gaps : Nat, missing : Nat, healthy : Nat]
Sound(b) ==
    /\ b.gaps > 0 => b.healthy < HealthyRun
    /\ b.missing >= b.gaps
    /\ b.missing > 0 => b.gaps > 0

LEMMA PacketDoes ==
    ASSUME DecoderTypeOK, NEW a \in Apids, NEW count \in Counts, NEW result \in Results,
           DecodePacket(a, count, result)
    PROVE  /\ Observe(a, count)
           /\ \E lines \in Seq(Lines) : Finish(result, lines)
           /\ \E b \in Bursts :
                 burst' = [burst EXCEPT ![a] = b] /\ (Sound(burst[a]) => Sound(b))
<1> DEFINE missed == Missed(a, count)
<1>1. missed \in Nat /\ HealthyRun \in Nat \ {0}
  BY MissedIsNat, PacketDecoderAssumption
<1>2. burst[a] \in Bursts /\ burst \in [Apids -> Bursts]
  BY DEF DecoderTypeOK, Bursts
<1>. HIDE DEF missed
<1>3. CASE Contiguous(a, count, result)
  <2> DEFINE b == [burst[a] EXCEPT !.healthy = Healthier(a)]
  <2>1. b \in Bursts /\ (Sound(burst[a]) => Sound(b))
    BY <1>1, <1>2, <1>3 DEF Contiguous, Recovers, Healthier, Bursts, Sound
  <2>2. burst' = [burst EXCEPT ![a] = b]
    BY <1>2, <1>3 DEF Contiguous, Bursts
  <2>3. <<>> \in Seq(Lines)
    OBVIOUS
  <2> QED
    BY <1>3, <2>1, <2>2, <2>3 DEF Contiguous
<1>4. CASE ContiguousAgain(a, count, result)
  <2> DEFINE l == [line |-> "recovered", apid |-> a,
                   gaps |-> burst[a].gaps, missing |-> burst[a].missing]
  <2>1. NoBurst \in Bursts /\ Sound(NoBurst)
    BY <1>1 DEF Bursts, Sound
  <2>2. l \in Lines
    BY <1>2 DEF Lines, Bursts
  <2>3. <<l>> \in Seq(Lines)
    BY <2>2, OneLine
  <2> QED
    BY <1>4, <2>1, <2>3 DEF ContiguousAgain, Healed
<1>5. ASSUME missed # 0
      PROVE  Broken(a, missed) \in Bursts /\ (Sound(burst[a]) => Sound(Broken(a, missed)))
  BY <1>1, <1>2, <1>5 DEF Broken, Bursts, Sound
<1>6. CASE FirstGap(a, count, result)
  <2> DEFINE l == [line |-> "missing before", apid |-> a, missing |-> missed, count |-> count]
  <2>1. l \in Lines
    BY <1>1 DEF Lines
  <2>2. <<l>> \in Seq(Lines)
    BY <2>1, OneLine
  <2> QED
    BY <1>5, <1>6, <2>2 DEF FirstGap, missed
<1>7. CASE GapFolded(a, count, result)
  <2>1. <<>> \in Seq(Lines)
    OBVIOUS
  <2> QED
    BY <1>5, <1>7, <2>1 DEF GapFolded, missed
<1>8. CASE GapSummed(a, count, result)
  <2> DEFINE b == Broken(a, missed)
             l == [line |-> "so far", apid |-> a, gaps |-> b.gaps, missing |-> b.missing]
  <2>1. b \in Bursts
    BY <1>5, <1>8 DEF GapSummed, missed
  <2>2. l \in Lines
    <3>. HIDE DEF b
    <3> QED
      BY <2>1 DEF Lines, Bursts
  <2>3. <<l>> \in Seq(Lines)
    BY <2>2, OneLine
  <2> QED
    BY <1>5, <1>8, <2>3 DEF GapSummed, missed
<1> QED
  BY <1>3, <1>4, <1>6, <1>7, <1>8 DEF DecodePacket

\* The decoder's invariant: its types, and that dropouts end.
DecoderInv == DecoderTypeOK /\ DropoutsEnd

LEMMA DropoutsAreSound ==
    DropoutsEnd <=> \A a \in Apids : Sound(burst[a])
  BY DEF DropoutsEnd, Sound

LEMMA PacketKeeps ==
    ASSUME DecoderInv, NEW a \in Apids, NEW count \in Counts, NEW result \in Results,
           DecodePacket(a, count, result)
    PROVE  DecoderInv'
<1>1. DecoderTypeOK /\ DropoutsEnd
  BY DEF DecoderInv
<1>2. PICK b \in Bursts : burst' = [burst EXCEPT ![a] = b] /\ (Sound(burst[a]) => Sound(b))
  BY <1>1, PacketDoes
<1>3. PICK lines \in Seq(Lines) : Finish(result, lines)
  BY <1>1, PacketDoes
<1>4. Observe(a, count)
  BY <1>1, PacketDoes
<1>5. burst \in [Apids -> Bursts]
  BY <1>1 DEF DecoderTypeOK, Bursts
<1>6. burst' \in [Apids -> Bursts]
  BY <1>2, <1>5
<1>7. DecoderTypeOK'
  <2>1. /\ events' \in Seq(Lines) /\ warned' \subseteq Containers
        /\ packetsDecoded' \in Nat /\ packetsRejected' \in Nat
    BY <1>1, <1>3, FinishTypes
  <2>2. /\ last' \in [Apids -> Counts \cup {NoCount}]
        /\ gaps' \in Nat /\ missing' \in Nat
        /\ sequenceGaps' \in Nat /\ sequenceMissing' \in Nat
    BY <1>1, <1>4, ObserveTypes
  <2> QED
    BY <1>6, <2>1, <2>2 DEF DecoderTypeOK, Bursts
<1>8. DropoutsEnd'
  <2>1. \A x \in Apids : Sound(burst[x])
    BY <1>1, DropoutsAreSound
  <2>2. \A x \in Apids : Sound(burst'[x])
    BY <1>2, <1>5, <2>1
  <2> QED
    BY <2>2 DEF DropoutsEnd, Sound
<1> QED
  BY <1>7, <1>8 DEF DecoderInv

LEMMA HeaderlessKeeps ==
    ASSUME DecoderInv, NEW result \in Results, DecodeHeaderless(result)
    PROVE  DecoderInv'
<1>1. DecoderTypeOK /\ DropoutsEnd
  BY DEF DecoderInv
<1>2. <<>> \in Seq(Lines) /\ Finish(result, <<>>)
  BY DEF DecodeHeaderless
<1>3. /\ events' \in Seq(Lines) /\ warned' \subseteq Containers
      /\ packetsDecoded' \in Nat /\ packetsRejected' \in Nat
  BY <1>1, <1>2, FinishTypes
<1>4. UNCHANGED <<trackerVars, sequenceGaps, sequenceMissing>>
  BY DEF DecodeHeaderless
<1>5. DecoderTypeOK'
  BY <1>1, <1>3, <1>4 DEF DecoderTypeOK, trackerVars
<1>6. DropoutsEnd'
  BY <1>1, <1>4 DEF DropoutsEnd, trackerVars
<1> QED
  BY <1>5, <1>6 DEF DecoderInv

LEMMA ResetKeeps ==
    ASSUME DecoderInv, Reset
    PROVE  DecoderInv'
<1>1. DecoderTypeOK'
  BY DEF DecoderInv, DecoderTypeOK, Reset, statVars
<1>2. DropoutsEnd'
  BY PacketDecoderAssumption DEF DropoutsEnd, Reset
<1> QED
  BY <1>1, <1>2 DEF DecoderInv

LEMMA TakeKeeps ==
    ASSUME DecoderInv, TakeEvents \/ UNCHANGED decoderVars
    PROVE  DecoderInv'
<1>0. UNCHANGED <<trackerVars, statVars, warned>> /\ events' \in {events, <<>>}
  BY DEF TakeEvents, decoderVars
<1>3. events' \in Seq(Lines)
  <2>1. <<>> \in Seq(Lines) /\ events \in Seq(Lines)
    BY DEF DecoderInv, DecoderTypeOK
  <2> QED
    BY <1>0, <2>1
<1>1. DecoderTypeOK'
  BY <1>0, <1>3 DEF DecoderInv, DecoderTypeOK, trackerVars, statVars
<1>2. DropoutsEnd'
  BY DEF DecoderInv, DropoutsEnd, TakeEvents, decoderVars, trackerVars
<1> QED
  BY <1>1, <1>2 DEF DecoderInv

LEMMA DecoderStarts == DecoderInit => DecoderInv
<1>. SUFFICES ASSUME DecoderInit PROVE DecoderInv
  OBVIOUS
<1>1. DecoderTypeOK
  BY DEF DecoderInit, DecoderTypeOK
<1>2. DropoutsEnd
  <2>1. Sound(NoBurst)
    BY DEF Sound
  <2>2. \A a \in Apids : burst[a] = NoBurst
    BY DEF DecoderInit
  <2> QED
    BY <2>1, <2>2, DropoutsAreSound
<1> QED
  BY <1>1, <1>2 DEF DecoderInv

LEMMA DecoderIsSound == DecoderSpec => []DecoderInv
<1>1. DecoderInit => DecoderInv
  BY DecoderStarts
<1>2. DecoderInv /\ [DecoderNext]_decoderVars => DecoderInv'
  BY PacketKeeps, HeaderlessKeeps, ResetKeeps, TakeKeeps DEF DecoderNext
<1> QED
  BY <1>1, <1>2, PTL DEF DecoderSpec

\* The tracker, the counters and the queue of lines keep their types, whatever
\* packets come.
THEOREM DecoderTypeCorrect == DecoderSpec => []DecoderTypeOK
<1>1. DecoderInv => DecoderTypeOK
  BY DEF DecoderInv
<1> QED
  BY <1>1, DecoderIsSound, PTL

\* A dropout is open no longer than the code says, and accounts for a packet at
\* least for each of its gaps, whatever packets come.
THEOREM DropoutsAreEnded == DecoderSpec => []DropoutsEnd
<1>1. DecoderInv => DropoutsEnd
  BY DEF DecoderInv
<1> QED
  BY <1>1, DecoderIsSound, PTL

-----------------------------------------------------------------------------
(***************************************************************************)
(* The counts on a link that loses, repeats and restarts.  A process's next *)
(* count is as far from the last one seen as packets were lost in between,  *)
(* and never a whole turn from it.                                          *)
(***************************************************************************)
LinkTypeOK ==
    /\ next \in [Apids -> Counts] /\ skipped \in [Apids -> 0..MaxBurst]
    /\ lost \in Nat /\ holes \in Nat

CountsFollow ==
    \A a \in Apids : last[a] # NoCount =>
        next[a] = (last[a] + 1 + skipped[a]) % SequenceModulus

TelemetryInv == DecoderInv /\ LinkTypeOK /\ CountsFollow /\ MissingIsWhatWasLost

\* What is missing before a packet that arrives is what was lost before it.
LEMMA ArrivalMisses ==
    ASSUME TelemetryInv, NEW a \in Apids
    PROVE  Missed(a, next[a]) = IF last[a] = NoCount THEN 0 ELSE skipped[a]
<1>1. CASE last[a] = NoCount
  BY <1>1 DEF Missed
<1>2. CASE last[a] # NoCount
  <2>1. /\ SequenceModulus \in Nat /\ SequenceModulus >= 2
        /\ last[a] \in 0..(SequenceModulus - 1)
    BY <1>2, PacketDecoderAssumption DEF TelemetryInv, DecoderInv, DecoderTypeOK
  <2>2. skipped[a] \in Nat /\ skipped[a] < SequenceModulus - 1
    BY <2>1, TelemetryAssumption DEF TelemetryInv, LinkTypeOK
  <2>3. next[a] = (last[a] + 1 + skipped[a]) % SequenceModulus
    BY <1>2 DEF TelemetryInv, CountsFollow
  <2>4. /\ next[a] # last[a]
        /\ (next[a] + SequenceModulus - last[a] - 1) % SequenceModulus = skipped[a]
    <3> DEFINE n == next[a]  l == last[a]  k == skipped[a]  m == SequenceModulus
    <3>1. /\ m \in Nat /\ m >= 2 /\ l \in 0..(m - 1) /\ k \in Nat /\ k < m - 1
          /\ n \in 0..(m - 1) /\ n = (l + 1 + k) % m
      BY <2>1, <2>2, <2>3 DEF TelemetryInv, LinkTypeOK
    <3>. HIDE DEF n, l, k, m
    <3>2. n # l /\ (n + m - l - 1) % m = k
      BY <3>1, MissedIsSkipped
    <3> QED
      BY <3>2 DEF n, l, k, m
  <2> QED
    BY <1>2, <2>4 DEF Missed
<1> QED
  BY <1>1, <1>2

LEMMA NextIsCount ==
    ASSUME LinkTypeOK, NEW a \in Apids
    PROVE  (next[a] + 1) % SequenceModulus \in Counts
  BY PacketDecoderAssumption, NextCount DEF LinkTypeOK

LEMMA ArrivalKeeps ==
    ASSUME TelemetryInv, NEW a \in Apids, NEW result \in Results, PacketArrives(a, result)
    PROVE  TelemetryInv'
<1>1. DecoderInv /\ LinkTypeOK /\ CountsFollow /\ MissingIsWhatWasLost /\ DecoderTypeOK
  BY DEF TelemetryInv, DecoderInv
<1>2. DecodePacket(a, next[a], result) /\ next[a] \in Counts
  BY <1>1 DEF PacketArrives, LinkTypeOK
<1>3. DecoderInv'
  BY <1>1, <1>2, PacketKeeps
<1>4. Observe(a, next[a])
  BY <1>1, <1>2, PacketDoes
<1>5. /\ next' = [next EXCEPT ![a] = (next[a] + 1) % SequenceModulus]
      /\ skipped' = [skipped EXCEPT ![a] = 0]
      /\ lost' = lost + IF last[a] = NoCount THEN 0 ELSE skipped[a]
      /\ holes' = holes + IF last[a] = NoCount \/ skipped[a] = 0 THEN 0 ELSE 1
  BY DEF PacketArrives
<1>6. Missed(a, next[a]) = IF last[a] = NoCount THEN 0 ELSE skipped[a]
  BY ArrivalMisses
<1>7. skipped[a] \in Nat /\ MaxBurst \in Nat
  BY <1>1, TelemetryAssumption DEF LinkTypeOK
<1>8. LinkTypeOK'
  <2>1. lost' \in Nat /\ holes' \in Nat
    BY <1>1, <1>5, <1>7 DEF LinkTypeOK
  <2>2. next' \in [Apids -> Counts]
    BY <1>1, <1>5, NextIsCount DEF LinkTypeOK
  <2>3. skipped' \in [Apids -> 0..MaxBurst]
    BY <1>1, <1>5, <1>7 DEF LinkTypeOK
  <2> QED
    BY <2>1, <2>2, <2>3 DEF LinkTypeOK
<1>9. CountsFollow'
  <2>. SUFFICES ASSUME NEW x \in Apids, last'[x] # NoCount
                PROVE  next'[x] = (last'[x] + 1 + skipped'[x]) % SequenceModulus
    BY DEF CountsFollow
  <2>1. last' = [last EXCEPT ![a] = next[a]]
    BY <1>4 DEF Observe
  <2>2. CASE x = a
    <3>1. /\ last'[x] = next[a] /\ skipped'[x] = 0
          /\ next'[x] = (next[a] + 1) % SequenceModulus
      BY <1>1, <1>5, <2>1, <2>2 DEF DecoderTypeOK, LinkTypeOK
    <3>2. next[a] + 1 + 0 = next[a] + 1
      BY <1>2, PacketDecoderAssumption
    <3> QED
      BY <3>1, <3>2
  <2>3. CASE x # a
    <3>1. last'[x] = last[x] /\ skipped'[x] = skipped[x] /\ next'[x] = next[x]
      BY <1>1, <1>5, <2>1, <2>3 DEF DecoderTypeOK, LinkTypeOK
    <3> QED
      BY <1>1, <3>1 DEF CountsFollow
  <2> QED
    BY <2>2, <2>3
<1>10. MissingIsWhatWasLost'
  <2> DEFINE missed == Missed(a, next[a])
             gap == IF missed = 0 THEN 0 ELSE 1
  <2>1. /\ gaps' = gaps + gap /\ missing' = missing + missed
        /\ sequenceGaps' = sequenceGaps + gap /\ sequenceMissing' = sequenceMissing + missed
    BY <1>4 DEF Observe
  <2>2. missed = IF last[a] = NoCount THEN 0 ELSE skipped[a]
    BY <1>6
  <2>3. gap = IF last[a] = NoCount \/ skipped[a] = 0 THEN 0 ELSE 1
    BY <2>2
  <2>. HIDE DEF missed, gap
  <2> QED
    BY <1>1, <1>5, <2>1, <2>2, <2>3 DEF MissingIsWhatWasLost
<1> QED
  BY <1>3, <1>8, <1>9, <1>10 DEF TelemetryInv

LEMMA RepeatKeeps ==
    ASSUME TelemetryInv, NEW a \in Apids, NEW result \in Results, PacketRepeated(a, result)
    PROVE  TelemetryInv'
<1>1. DecoderInv /\ LinkTypeOK /\ CountsFollow /\ MissingIsWhatWasLost /\ DecoderTypeOK
  BY DEF TelemetryInv, DecoderInv
<1>2. DecodePacket(a, last[a], result) /\ last[a] \in Counts /\ UNCHANGED linkVars
  BY <1>1 DEF PacketRepeated, DecoderTypeOK
<1>3. DecoderInv'
  BY <1>1, <1>2, PacketKeeps
<1>4. Observe(a, last[a])
  BY <1>1, <1>2, PacketDoes
<1>5. Missed(a, last[a]) = 0
  BY DEF Missed
<1>6. /\ last' = last /\ gaps' = gaps + 0 /\ missing' = missing + 0
      /\ sequenceGaps' = sequenceGaps + 0 /\ sequenceMissing' = sequenceMissing + 0
  BY <1>1, <1>4, <1>5 DEF Observe, DecoderTypeOK
<1>7. gaps \in Nat /\ missing \in Nat /\ sequenceGaps \in Nat /\ sequenceMissing \in Nat
  BY <1>1 DEF DecoderTypeOK
<1>8. LinkTypeOK' /\ CountsFollow'
  BY <1>1, <1>2, <1>6 DEF LinkTypeOK, CountsFollow, linkVars
<1>9. MissingIsWhatWasLost'
  BY <1>1, <1>2, <1>6, <1>7 DEF MissingIsWhatWasLost, linkVars
<1> QED
  BY <1>3, <1>8, <1>9 DEF TelemetryInv

LEMMA LossKeeps ==
    ASSUME TelemetryInv, NEW a \in Apids, PacketLost(a)
    PROVE  TelemetryInv'
<1>1. DecoderInv /\ LinkTypeOK /\ CountsFollow /\ MissingIsWhatWasLost /\ DecoderTypeOK
  BY DEF TelemetryInv, DecoderInv
<1>2. /\ next' = [next EXCEPT ![a] = (next[a] + 1) % SequenceModulus]
      /\ skipped' = [skipped EXCEPT ![a] = skipped[a] + 1]
      /\ skipped[a] < MaxBurst
      /\ UNCHANGED <<decoderVars, lost, holes>>
  BY DEF PacketLost
<1>3. DecoderInv'
  BY <1>1, <1>2, TakeKeeps
<1>4. skipped[a] \in Nat /\ MaxBurst \in Nat /\ MaxBurst < SequenceModulus - 1
      /\ SequenceModulus \in Nat /\ SequenceModulus >= 2
  BY <1>1, TelemetryAssumption, PacketDecoderAssumption DEF LinkTypeOK
<1>5. LinkTypeOK'
  <2>1. next' \in [Apids -> Counts]
    BY <1>1, <1>2, NextIsCount DEF LinkTypeOK
  <2>2. skipped[a] + 1 \in 0..MaxBurst
    BY <1>2, <1>4
  <2>3. skipped' \in [Apids -> 0..MaxBurst]
    BY <1>1, <1>2, <2>2 DEF LinkTypeOK
  <2> QED
    BY <1>1, <1>2, <2>1, <2>3 DEF LinkTypeOK
<1>6. CountsFollow'
  <2>. SUFFICES ASSUME NEW x \in Apids, last'[x] # NoCount
                PROVE  next'[x] = (last'[x] + 1 + skipped'[x]) % SequenceModulus
    BY DEF CountsFollow
  <2>1. last' = last
    BY <1>2 DEF decoderVars, trackerVars
  <2>2. CASE x = a
    <3>1. next[a] = (last[a] + 1 + skipped[a]) % SequenceModulus /\ last[a] # NoCount
      BY <1>1, <2>1, <2>2 DEF CountsFollow
    <3>2. last[a] \in 0..(SequenceModulus - 1)
      BY <1>1, <3>1 DEF DecoderTypeOK
    <3>3. skipped[a] + 1 < SequenceModulus - 1
      BY <1>2, <1>4
    <3>4. (((last[a] + 1 + skipped[a]) % SequenceModulus) + 1) % SequenceModulus
             = (last[a] + 1 + (skipped[a] + 1)) % SequenceModulus
      BY <1>4, <3>2, <3>3, SkipOne
    <3>5. /\ next'[x] = (next[a] + 1) % SequenceModulus
          /\ skipped'[x] = skipped[a] + 1 /\ last'[x] = last[a]
      BY <1>1, <1>2, <2>1, <2>2 DEF LinkTypeOK
    <3> QED
      BY <3>1, <3>4, <3>5
  <2>3. CASE x # a
    <3>1. last'[x] = last[x] /\ skipped'[x] = skipped[x] /\ next'[x] = next[x]
      BY <1>1, <1>2, <2>1, <2>3 DEF LinkTypeOK
    <3> QED
      BY <1>1, <3>1 DEF CountsFollow
  <2> QED
    BY <2>2, <2>3
<1>7. MissingIsWhatWasLost'
  BY <1>1, <1>2 DEF MissingIsWhatWasLost, decoderVars, trackerVars, statVars
<1> QED
  BY <1>3, <1>5, <1>6, <1>7 DEF TelemetryInv

\* The counts a stream may begin with are counts.
LEMMA FirstAreCounts ==
    ASSUME NEW f \in [Apids -> FirstCounts]
    PROVE  f \in [Apids -> Counts]
<1>1. FirstCounts \subseteq Counts
  BY TelemetryAssumption
<1> QED
  BY <1>1

LEMMA RestartKeeps ==
    ASSUME TelemetryInv, StreamRestarts
    PROVE  TelemetryInv'
<1>1. DecoderInv /\ LinkTypeOK /\ MissingIsWhatWasLost /\ Reset
  BY DEF TelemetryInv, StreamRestarts
<1>2. DecoderInv'
  BY <1>1, ResetKeeps
<1>3. LinkTypeOK'
  <2>1. next' \in [Apids -> Counts]
    BY FirstAreCounts DEF StreamRestarts
  <2>2. skipped' \in [Apids -> 0..MaxBurst] /\ lost' = lost /\ holes' = holes
    BY TelemetryAssumption DEF StreamRestarts
  <2> QED
    BY <1>1, <2>1, <2>2 DEF LinkTypeOK
<1>4. CountsFollow'
  BY <1>1 DEF CountsFollow, Reset
<1>5. MissingIsWhatWasLost'
  BY <1>1 DEF MissingIsWhatWasLost, Reset, StreamRestarts, statVars
<1> QED
  BY <1>2, <1>3, <1>4, <1>5 DEF TelemetryInv

\* Nothing that the link or the counts are made of is touched.
LEMMA OthersKeep ==
    ASSUME TelemetryInv,
           \/ \E result \in Results : ShortPacketArrives(result)
           \/ LinesTaken
           \/ UNCHANGED telemetryVars
    PROVE  TelemetryInv'
<1>1. DecoderInv /\ LinkTypeOK /\ CountsFollow /\ MissingIsWhatWasLost
  BY DEF TelemetryInv
<1>2. DecoderInv'
  <2>1. \/ \E result \in Results : DecodeHeaderless(result)
        \/ TakeEvents \/ UNCHANGED decoderVars
    BY DEF ShortPacketArrives, LinesTaken, telemetryVars
  <2> QED
    BY <1>1, <2>1, HeaderlessKeeps, TakeKeeps
<1>3. UNCHANGED <<trackerVars, sequenceGaps, sequenceMissing, linkVars>>
  BY DEF ShortPacketArrives, DecodeHeaderless, LinesTaken, TakeEvents, telemetryVars,
         decoderVars, statVars
<1>4. LinkTypeOK' /\ CountsFollow' /\ MissingIsWhatWasLost'
  BY <1>1, <1>3 DEF LinkTypeOK, CountsFollow, MissingIsWhatWasLost, trackerVars, linkVars
<1> QED
  BY <1>2, <1>4 DEF TelemetryInv

LEMMA TelemetryStarts == TelemetryInit => TelemetryInv
<1>. SUFFICES ASSUME TelemetryInit PROVE TelemetryInv
  OBVIOUS
<1>1. DecoderInv
  BY DecoderStarts DEF TelemetryInit
<1>2. LinkTypeOK
  <2>1. next \in [Apids -> Counts]
    BY FirstAreCounts DEF TelemetryInit
  <2> QED
    BY <2>1, TelemetryAssumption DEF TelemetryInit, LinkTypeOK
<1>3. CountsFollow /\ MissingIsWhatWasLost
  BY DEF TelemetryInit, DecoderInit, CountsFollow, MissingIsWhatWasLost
<1> QED
  BY <1>1, <1>2, <1>3 DEF TelemetryInv

LEMMA TelemetryStays ==
    ASSUME TelemetryInv, [TelemetryNext]_telemetryVars
    PROVE  TelemetryInv'
  BY ArrivalKeeps, RepeatKeeps, LossKeeps, RestartKeeps, OthersKeep DEF TelemetryNext

\* The number of packets reported missing is the number lost, for a counter of
\* any size and losses of up to two short of its turn.
THEOREM MissingIsLost == TelemetrySpec => []MissingIsWhatWasLost
<1>1. TelemetryInv /\ [TelemetryNext]_telemetryVars => TelemetryInv'
  BY TelemetryStays
<1>2. TelemetryInv => MissingIsWhatWasLost
  BY DEF TelemetryInv
<1> QED
  BY <1>1, <1>2, TelemetryStarts, PTL DEF TelemetrySpec
-----------------------------------------------------------------------------
(***************************************************************************)
(* What a reader of the log is told.  A step puts on the log a line about   *)
(* the process, or none, and behind it a warning about a container, or      *)
(* none; the following lemmas read every such pair.                         *)
(***************************************************************************)
IsWarning(l, c) == l.line = "trailing" /\ l.container = c
Ended == [l \in Lines |-> IF l.line = "recovered" THEN l.missing ELSE 0]
OfProcess == {"missing before", "so far", "recovered"}

\* A line about a process, or nothing; a warning, or nothing.
IsTold(a, lines) ==
    lines = <<>> \/ \E l \in Lines : lines = <<l>> /\ l.line \in OfProcess /\ l.apid = a
IsWarned(extra, result) ==
    \/ /\ extra = <<>> /\ warned' = warned
       /\ result # Refused /\ result.trailing => result.container \in warned
    \/ \E l \in Lines : /\ extra = <<l>> /\ IsWarning(l, result.container)
                        /\ result # Refused /\ result.trailing
                        /\ result.container \notin warned
                        /\ warned' = warned \union {result.container}

LEMMA EndedIsNat == Ended \in [Lines -> Nat]
<1>1. \A l \in Lines : l.line = "recovered" => l.missing \in Nat
  BY DEF Lines
<1> QED
  BY <1>1 DEF Ended

LEMMA SubSeqOfConcat ==
    ASSUME NEW S, NEW s \in Seq(S), NEW t \in Seq(S)
    PROVE  SubSeq(s \o t, Len(s) + 1, Len(s \o t)) = t
<1>1. Len(s \o t) = Len(s) + Len(t) /\ Len(s) \in Nat /\ Len(t) \in Nat
  BY ConcatProperties, LenProperties
<1>2. CASE t = <<>>
  <2>1. Len(s \o t) < Len(s) + 1
    BY <1>1, <1>2
  <2> QED
    BY <1>1, <1>2, <2>1, SubSeqEmpty
<1>3. CASE t # <<>>
  <2>1. Len(t) # 0
    BY <1>3, EmptySeq
  <2> DEFINE m == Len(s)
             n == Len(t)
  <2>2. /\ m + 1 \in m + 1..m + n /\ m + n \in m + 1..m + n
        /\ (m + 1) - m = 1 /\ (m + n) - m = n
    BY <1>1, <2>1
  <2>3. SubSeq(s \o t, m + 1, m + n) = SubSeq(t, (m + 1) - m, (m + n) - m)
    BY <2>2, SubSeqOfConcat2
  <2>4. SubSeq(t, 1, n) = t
    BY SubSeqFull
  <2> QED
    BY <1>1, <2>2, <2>3, <2>4
<1> QED
  BY <1>2, <1>3

LEMMA WarnedByFinish ==
    ASSUME DecoderTypeOK, NEW result \in Results, NEW lines \in Seq(Lines),
           Finish(result, lines)
    PROVE  \E extra \in Seq(Lines) : NewLines = lines \o extra /\ IsWarned(extra, result)
<1>1. events \in Seq(Lines)
  BY DEF DecoderTypeOK
<1>2. ASSUME NEW t \in Seq(Lines), events' = events \o t
      PROVE  NewLines = t
  BY <1>1, <1>2, SubSeqOfConcat DEF NewLines
<1>3. <<>> \in Seq(Lines) /\ lines \o <<>> = lines
  OBVIOUS
<1>4. CASE Refuse(result, lines) \/ Fill(result, lines)
  <2>1. events' = events \o lines /\ warned' = warned
        /\ (result # Refused /\ result.trailing => result.container \in warned)
    BY <1>4 DEF Refuse, Fill
  <2> QED
    BY <1>2, <1>3, <2>1 DEF IsWarned
<1>5. CASE WarnTrailing(result, lines)
  <2> DEFINE l == [line |-> "trailing", container |-> result.container]
  <2>1. result.container \in Containers
    BY <1>5 DEF WarnTrailing, Results
  <2>2. l \in Lines /\ IsWarning(l, result.container)
    BY <2>1 DEF Lines, IsWarning
  <2>3. events' = Append(events \o lines, l)
    BY <1>5 DEF WarnTrailing
  <2>. HIDE DEF l
  <2>4. Append(events \o lines, l) = events \o (lines \o <<l>>)
    BY <1>1, <2>2, BehindAnother
  <2>7. <<l>> \in Seq(Lines)
    BY <2>2, OneLine
  <2>8. lines \o <<l>> \in Seq(Lines)
    BY <2>7, ConcatProperties
  <2>5. NewLines = lines \o <<l>>
    BY <1>2, <2>3, <2>4, <2>8
  <2>6. IsWarned(<<l>>, result)
    BY <1>5, <2>2 DEF WarnTrailing, IsWarned
  <2> QED
    BY <2>5, <2>6, <2>7
<1> QED
  BY <1>4, <1>5 DEF Finish

\* What there is at each place of a line with a warning behind it.
Placed(a, lines, extra, new) ==
    /\ new \in Seq(Lines)
    /\ lines = <<>> \/ (Len(lines) = 1 /\ new # <<>> /\ new[1] = lines[1])
    /\ \A i \in DOMAIN new : i > Len(lines) => i = Len(lines) + 1 /\ extra # <<>>
                                               /\ new[i] = extra[1]
    /\ extra # <<>> => Len(lines) + 1 \in DOMAIN new
    /\ \A i \in DOMAIN new : i \in Nat /\ (i <= Len(lines) => i = 1 /\ lines # <<>>)
    /\ lines # <<>> => 1 \in DOMAIN new /\ lines[1].line \in OfProcess
                       /\ lines[1].apid = a /\ lines[1] \in Lines
    /\ extra # <<>> => extra[1].line = "trailing" /\ extra[1] \in Lines

LEMMA LinesAt ==
    ASSUME NEW a, NEW lines \in Seq(Lines), NEW extra \in Seq(Lines),
           IsTold(a, lines), NEW result, IsWarned(extra, result), NEW new, new = lines \o extra
    PROVE  Placed(a, lines, extra, new)
<1>1. \/ lines = <<>>
      \/ /\ Len(lines) = 1 /\ lines = <<lines[1]>> /\ lines[1].line \in OfProcess
         /\ lines[1].apid = a /\ lines[1] \in Lines
  BY DEF IsTold
<1>2. \/ extra = <<>>
      \/ /\ Len(extra) = 1 /\ extra = <<extra[1]>> /\ extra[1].line = "trailing"
         /\ extra[1] \in Lines
  BY DEF IsWarned, IsWarning
<1>3. /\ new \in Seq(Lines) /\ Len(new) = Len(lines) + Len(extra)
      /\ DOMAIN new = 1..(Len(lines) + Len(extra))
      /\ \A i \in DOMAIN new : new[i] = IF i <= Len(lines) THEN lines[i]
                                        ELSE extra[i - Len(lines)]
  OBVIOUS
<1>4. Len(lines) \in {0, 1} /\ Len(extra) \in {0, 1}
      /\ (lines = <<>> <=> Len(lines) = 0) /\ (extra = <<>> <=> Len(extra) = 0)
  BY <1>1, <1>2
<1> QED
  BY <1>1, <1>2, <1>3, <1>4 DEF Placed

LEMMA ToldAbout ==
    ASSUME NEW a, NEW lines \in Seq(Lines), NEW extra \in Seq(Lines),
           IsTold(a, lines), NEW result, IsWarned(extra, result), NewLines = lines \o extra,
           NEW x, NEW kinds \in SUBSET OfProcess
    PROVE  /\ About(x, kinds) = IF lines # <<>> /\ lines[1].line \in kinds /\ x = a THEN {1} ELSE {}
           /\ lines # <<>> => NewLines[1] = lines[1]
<1> DEFINE new == NewLines
<1>1. About(x, kinds) = {i \in DOMAIN new : new[i].line \in kinds /\ new[i].apid = x}
  BY DEF About
<1>2. new = lines \o extra
  OBVIOUS
<1>. HIDE DEF new
<1>3. /\ lines # <<>> => Len(lines) = 1 /\ new[1] = lines[1] /\ 1 \in DOMAIN new
                         /\ lines[1].apid = a
      /\ \A i \in DOMAIN new : i \in Nat /\ (i <= Len(lines) => i = 1 /\ lines # <<>>)
      /\ \A i \in DOMAIN new : i > Len(lines) => new[i].line = "trailing"
  <2>1. Placed(a, lines, extra, new)
    BY <1>2, LinesAt
  <2> QED
    BY <2>1 DEF Placed
<1>4. \A i \in DOMAIN new : i > Len(lines) => ~(new[i].line \in kinds)
  BY <1>3 DEF OfProcess
<1>5. Len(lines) \in Nat
  OBVIOUS
<1>6. \A i \in DOMAIN new : new[i].line \in kinds => i = 1 /\ lines # <<>>
  BY <1>3, <1>4, <1>5
<1>7. CASE lines = <<>>
  BY <1>1, <1>6, <1>7
<1>8. CASE lines # <<>>
  BY <1>1, <1>3, <1>6, <1>8 DEF new
<1> QED
  BY <1>7, <1>8

Endings(new) ==
    [i \in DOMAIN new |-> IF new[i].line = "recovered" THEN new[i].missing ELSE 0]

LEMMA ToldOver ==
    ASSUME NEW a, NEW lines \in Seq(Lines), NEW extra \in Seq(Lines),
           IsTold(a, lines), NEW result, IsWarned(extra, result), NEW new, new = lines \o extra
    PROVE  SumFunction(Endings(new)) = IF lines # <<>> THEN Ended[lines[1]] ELSE 0
<1>1. new \in Seq(Lines) /\ Ended \in [Lines -> Int]
  BY EndedIsNat
<1>2. \A i \in DOMAIN new : new[i] \in Lines
  BY <1>1
<1>3. [i \in DOMAIN new |-> IF new[i].line = "recovered" THEN new[i].missing ELSE 0]
        = Weights(new, Ended)
  BY <1>2 DEF Weights, Ended
<1>4. DOMAIN Weights(new, Ended) = DOMAIN new
  BY DEF Weights
<1>5. SumFunction(Weights(new, Ended)) = Total(new, Ended)
  BY <1>4 DEF SumFunction, Total
<1>6. Total(new, Ended) = Total(lines, Ended) + Total(extra, Ended)
  BY <1>1, TotalOfConcat
<1>7. Total(extra, Ended) = 0
  <2>1. \A i \in 1..Len(extra) : Ended[extra[i]] = 0
    BY DEF IsWarned, IsWarning, Ended
  <2> QED
    BY <1>1, <2>1, TotalOfZeros
<1>8. CASE lines = <<>>
  BY <1>3, <1>5, <1>6, <1>7, <1>8, TotalOfNone DEF Endings
<1>9. CASE lines # <<>>
  <2>1. lines = Append(<<>>, lines[1]) /\ lines[1] \in Lines /\ <<>> \in Seq(Lines)
    BY <1>9 DEF IsTold
  <2>2. Total(lines, Ended) = Total(<<>>, Ended) + Ended[lines[1]]
    BY <1>1, <2>1, TotalOfAppend
  <2>3. Ended[lines[1]] \in Int
    BY <1>1, <2>1
  <2>4. Total(lines, Ended) = Ended[lines[1]]
    BY <2>2, <2>3, TotalOfNone
  <2>5. Total(new, Ended) = Ended[lines[1]]
    BY <1>6, <1>7, <2>3, <2>4
  <2> QED
    BY <1>3, <1>5, <1>9, <2>5 DEF Endings
<1> QED
  BY <1>8, <1>9

Warnings(new, c) == {i \in DOMAIN new : new[i].line = "trailing" /\ new[i].container = c}

\* A packet says of container c what its trailing bits call for, once.
SaysOnce(new, extra, result, c) ==
    Cardinality(Warnings(new, c)) = IF extra # <<>> /\ c = result.container THEN 1 ELSE 0

LEMMA WarnedAbout ==
    ASSUME NEW a, NEW lines \in Seq(Lines), NEW extra \in Seq(Lines),
           IsTold(a, lines), NEW result, IsWarned(extra, result), NEW new, new = lines \o extra,
           NEW c
    PROVE  SaysOnce(new, extra, result, c)
<1> DEFINE S == Warnings(new, c)
<1>1. Len(lines) \in Nat
  OBVIOUS
<1>2. /\ \A i \in DOMAIN new : i \in Nat /\ (i <= Len(lines) => i = 1 /\ lines # <<>>)
      /\ lines # <<>> => new[1] = lines[1] /\ lines[1].line \in OfProcess
      /\ \A i \in DOMAIN new : i > Len(lines) => i = Len(lines) + 1 /\ extra # <<>>
                                                /\ new[i] = extra[1]
      /\ extra # <<>> => Len(lines) + 1 \in DOMAIN new
  <2>1. Placed(a, lines, extra, new)
    BY LinesAt
  <2> QED
    BY <2>1 DEF Placed
<1>3. extra # <<>> => IsWarning(extra[1], result.container)
  BY DEF IsWarned
<1>4. \A i \in DOMAIN new : new[i].line = "trailing" => i > Len(lines)
  <2>1. \A i \in DOMAIN new : i > Len(lines) \/ i <= Len(lines)
    BY <1>1, <1>2
  <2>2. \A i \in DOMAIN new : i <= Len(lines) => new[i].line \in OfProcess
    BY <1>2
  <2>3. "trailing" \notin OfProcess
    BY DEF OfProcess
  <2> QED
    BY <2>1, <2>2, <2>3
<1>5. CASE extra # <<>> /\ c = result.container
  <2>1. S = {Len(lines) + 1}
    <3>1. Len(lines) + 1 > Len(lines)
      BY <1>1
    <3> QED
      BY <1>2, <1>3, <1>4, <1>5, <3>1 DEF IsWarning, Warnings
  <2> QED
    BY <1>5, <2>1, FS_Singleton DEF SaysOnce
<1>6. CASE ~(extra # <<>> /\ c = result.container)
  <2>1. S = {}
    BY <1>2, <1>3, <1>4, <1>6 DEF IsWarning, Warnings
  <2> QED
    BY <1>6, <2>1, FS_EmptySet DEF SaysOnce
<1> QED
  BY <1>5, <1>6 DEF SaysOnce

\* What a packet makes of the dropout of its process, was, and says of it.
Tells(was, b, lines, missed) ==
    \/ /\ missed = 0 /\ lines = <<>>
       /\ b.gaps = was.gaps /\ b.missing = was.missing
    \/ /\ missed = 0 /\ b.gaps = 0 /\ b.missing = 0
       /\ \E l \in Lines : lines = <<l>> /\ l.line = "recovered" /\ l.missing = was.missing
    \/ /\ missed # 0 /\ was.gaps = 0 /\ b.gaps = 1 /\ b.missing = missed /\ was.missing = 0
       /\ \E l \in Lines : lines = <<l>> /\ l.line = "missing before" /\ l.missing = missed
    \/ /\ missed # 0 /\ was.gaps # 0 /\ lines = <<>> /\ ~IsDue(b.gaps)
       /\ b.gaps = was.gaps + 1 /\ b.missing = was.missing + missed
    \/ /\ missed # 0 /\ was.gaps # 0
       /\ b.gaps = was.gaps + 1 /\ b.missing = was.missing + missed
       /\ \E l \in Lines : lines = <<l>> /\ l.line = "so far"
                           /\ l.gaps = b.gaps /\ l.missing = b.missing

LEMMA PacketTells ==
    ASSUME DecoderInv, NEW a \in Apids, NEW count \in Counts, NEW result \in Results,
           DecodePacket(a, count, result)
    PROVE  \E b \in Bursts, lines \in Seq(Lines) :
              /\ burst' = [burst EXCEPT ![a] = b] /\ Finish(result, lines)
              /\ IsTold(a, lines) /\ Tells(burst[a], b, lines, Missed(a, count))
<1> DEFINE missed == Missed(a, count)
<1>0. DecoderTypeOK /\ DropoutsEnd
  BY DEF DecoderInv
<1>1. missed \in Nat
  BY <1>0, MissedIsNat
<1>2. /\ burst[a] \in Bursts /\ burst \in [Apids -> Bursts]
      /\ burst[a].gaps \in Nat /\ burst[a].missing \in Nat
      /\ (burst[a].gaps = 0 => burst[a].missing = 0)
  BY <1>0 DEF DecoderTypeOK, DropoutsEnd, Bursts
<1>. HIDE DEF missed
<1>a. <<>> \in Seq(Lines) /\ IsTold(a, <<>>)
  BY DEF IsTold
<1>b. ASSUME NEW l \in Lines, l.line \in OfProcess, l.apid = a
      PROVE  <<l>> \in Seq(Lines) /\ IsTold(a, <<l>>)
  BY <1>b, OneLine DEF IsTold
<1>3. CASE Contiguous(a, count, result)
  <2> DEFINE b == [burst[a] EXCEPT !.healthy = Healthier(a)]
  <2>1. b \in Bursts /\ b.gaps = burst[a].gaps /\ b.missing = burst[a].missing
    BY <1>2 DEF Bursts, Healthier
  <2>2. burst' = [burst EXCEPT ![a] = b] /\ missed = 0 /\ Finish(result, <<>>)
    BY <1>2, <1>3 DEF Contiguous, Bursts, missed
  <2>. HIDE DEF b
  <2>3. Tells(burst[a], b, <<>>, missed)
    BY <2>1, <2>2 DEF Tells
  <2> QED
    BY <1>a, <2>1, <2>2, <2>3 DEF missed
<1>4. CASE ContiguousAgain(a, count, result)
  <2> DEFINE l == [line |-> "recovered", apid |-> a,
                   gaps |-> burst[a].gaps, missing |-> burst[a].missing]
  <2>1. l \in Lines
    BY <1>2 DEF Lines
  <2>2. l.line = "recovered" /\ l.apid = a /\ l.missing = burst[a].missing
    OBVIOUS
  <2>3. NoBurst \in Bursts /\ NoBurst.gaps = 0 /\ NoBurst.missing = 0
    BY DEF Bursts
  <2>4. burst' = [burst EXCEPT ![a] = NoBurst] /\ missed = 0 /\ Finish(result, <<l>>)
    BY <1>4 DEF ContiguousAgain, Healed, missed
  <2>. HIDE DEF l
  <2>5. Tells(burst[a], NoBurst, <<l>>, missed)
    BY <2>1, <2>2, <2>3, <2>4 DEF Tells
  <2>6. <<l>> \in Seq(Lines) /\ IsTold(a, <<l>>)
    BY <1>b, <2>1, <2>2 DEF OfProcess
  <2> QED
    BY <2>3, <2>4, <2>5, <2>6 DEF missed
<1>5. /\ Broken(a, missed) \in Bursts
      /\ Broken(a, missed).gaps = burst[a].gaps + 1
      /\ Broken(a, missed).missing = burst[a].missing + missed
  BY <1>1, <1>2 DEF Broken, Bursts
<1>6. CASE FirstGap(a, count, result)
  <2> DEFINE l == [line |-> "missing before", apid |-> a, missing |-> missed, count |-> count]
             b == Broken(a, missed)
  <2>1. l \in Lines
    BY <1>1 DEF Lines
  <2>2. l.line = "missing before" /\ l.apid = a /\ l.missing = missed
    OBVIOUS
  <2>3. /\ burst' = [burst EXCEPT ![a] = b] /\ Finish(result, <<l>>)
        /\ missed # 0 /\ burst[a].gaps = 0
    BY <1>6 DEF FirstGap, missed
  <2>4. b.gaps = 1 /\ b.missing = missed /\ burst[a].missing = 0 /\ b \in Bursts
    <3>1. burst[a].missing = 0 /\ burst[a].gaps = 0
      BY <1>2, <2>3
    <3>2. 0 + 1 = 1 /\ 0 + missed = missed
      BY <1>1
    <3> QED
      BY <1>5, <3>1, <3>2
  <2>. HIDE DEF l, b
  <2>5. Tells(burst[a], b, <<l>>, missed)
    BY <2>1, <2>2, <2>3, <2>4 DEF Tells
  <2>6. <<l>> \in Seq(Lines) /\ IsTold(a, <<l>>)
    BY <1>b, <2>1, <2>2 DEF OfProcess
  <2> QED
    BY <2>3, <2>4, <2>5, <2>6 DEF missed
<1>7. CASE GapFolded(a, count, result)
  <2> DEFINE b == Broken(a, missed)
  <2>1. /\ burst' = [burst EXCEPT ![a] = b] /\ Finish(result, <<>>)
        /\ missed # 0 /\ burst[a].gaps # 0 /\ ~IsDue(b.gaps)
    BY <1>7 DEF GapFolded, missed
  <2>2. b \in Bursts /\ b.gaps = burst[a].gaps + 1 /\ b.missing = burst[a].missing + missed
    BY <1>5
  <2>. HIDE DEF b
  <2>3. Tells(burst[a], b, <<>>, missed)
    BY <2>1, <2>2 DEF Tells
  <2> QED
    BY <1>a, <2>1, <2>2, <2>3 DEF missed
<1>8. CASE GapSummed(a, count, result)
  <2> DEFINE b == Broken(a, missed)
             l == [line |-> "so far", apid |-> a, gaps |-> b.gaps, missing |-> b.missing]
  <2>1. /\ burst' = [burst EXCEPT ![a] = b] /\ Finish(result, <<l>>)
        /\ missed # 0 /\ burst[a].gaps # 0
    BY <1>8 DEF GapSummed, missed
  <2>2. b \in Bursts /\ b.gaps = burst[a].gaps + 1 /\ b.missing = burst[a].missing + missed
    BY <1>5
  <2>. HIDE DEF b
  <2>3. l \in Lines
    BY <2>2 DEF Lines, Bursts
  <2>4. l.line = "so far" /\ l.apid = a /\ l.gaps = b.gaps /\ l.missing = b.missing
    OBVIOUS
  <2>. HIDE DEF l
  <2>5. Tells(burst[a], b, <<l>>, missed)
    BY <2>1, <2>2, <2>3, <2>4 DEF Tells
  <2>6. <<l>> \in Seq(Lines) /\ IsTold(a, <<l>>)
    BY <1>b, <2>3, <2>4 DEF OfProcess
  <2> QED
    BY <2>1, <2>2, <2>5, <2>6 DEF missed
<1> QED
  BY <1>3, <1>4, <1>6, <1>7, <1>8 DEF DecodePacket

-----------------------------------------------------------------------------
(***************************************************************************)
(* What the reader knows of a dropout, t, is no more than there is of it,   *)
(* b, and is behind by no more gaps than since the last running total was   *)
(* due; whether it was warned of a container is what the decoder remembers. *)
(***************************************************************************)
Known == [open : BOOLEAN, gaps : Nat, missing : Nat]
Knows(t, b) ==
    /\ t.open <=> b.gaps > 0
    /\ t.gaps <= b.gaps /\ b.gaps - t.gaps <= b.gaps % GapSummaryInterval
    /\ t.missing <= b.missing

WarningsInv ==
    /\ saidOf \in [Containers -> [lines : Nat, due : BOOLEAN]]
    /\ \A c \in Containers : /\ saidOf[c].due <=> c \in warned
                             /\ saidOf[c].lines = IF saidOf[c].due THEN 1 ELSE 0

ReaderInv ==
    /\ told \in [Apids -> Known]
    /\ \A a \in Apids : Knows(told[a], burst[a])
    /\ closed \in Nat /\ forgotten \in Nat
    /\ missing = closed + forgotten + Owing

Hears(t, lines) ==
    IF lines = <<>> THEN t
    ELSE IF lines[1].line = "recovered" THEN Calm
    ELSE IF lines[1].line = "missing before"
         THEN [open |-> TRUE, gaps |-> 1, missing |-> lines[1].missing]
    ELSE [open |-> t.open, gaps |-> lines[1].gaps, missing |-> lines[1].missing]

\* A remainder that is not brought to nothing grows by one.
LEMMA NotDueYet ==
    ASSUME NEW g \in Nat, ~IsDue(g + 1)
    PROVE  (g + 1) % GapSummaryInterval = (g % GapSummaryInterval) + 1
<1> DEFINE n == GapSummaryInterval
           q == g \div n
           r == g % n
<1>1. n \in Nat /\ n >= 2
  BY PacketDecoderAssumption
<1>2. (g + 1) % n # 0
  BY DEF IsDue
<1>. HIDE DEF n
<1>3. g = n * q + r /\ r \in 0..(n - 1) /\ q \in Int
  BY <1>1, SMTT(30)
<1>. HIDE DEF q, r
<1>4. CASE r + 1 < n
  <2>1. g + 1 = n * q + (r + 1) /\ r + 1 \in 0..(n - 1)
    BY <1>1, <1>3, <1>4
  <2>2. (g + 1) % n = r + 1
    BY <1>1, <1>3, <2>1, SMTT(30)
  <2> QED
    BY <2>2 DEF r, n
<1>5. CASE r + 1 = n
  <2>1. g + 1 = n * (q + 1)
    BY <1>1, <1>3, <1>5, SMTT(30)
  <2>2. (g + 1) % n = 0
    BY <1>1, <1>3, <2>1, SMTT(30)
  <2> QED
    BY <1>2, <2>2
<1> QED
  BY <1>1, <1>3, <1>4, <1>5

LEMMA ReaderHears ==
    ASSUME NEW t \in Known, NEW was \in Bursts, NEW b \in Bursts, NEW missed \in Nat,
           NEW lines \in Seq(Lines), Knows(t, was), Tells(was, b, lines, missed)
    PROVE  /\ Hears(t, lines) \in Known /\ Knows(Hears(t, lines), b)
           /\ b.missing - was.missing
                = missed - (IF lines # <<>> THEN Ended[lines[1]] ELSE 0)
<1>1. /\ was.gaps \in Nat /\ was.missing \in Nat /\ b.gaps \in Nat /\ b.missing \in Nat
      /\ t.gaps \in Nat /\ t.missing \in Nat /\ t.open \in BOOLEAN
  BY DEF Bursts, Known
<1>2. \A n \in Nat : n % GapSummaryInterval \in Nat
  BY PacketDecoderAssumption
<1>3. CASE missed = 0 /\ lines = <<>> /\ b.gaps = was.gaps /\ b.missing = was.missing
  BY <1>1, <1>3 DEF Hears, Knows
<1>4. CASE /\ missed = 0 /\ b.gaps = 0 /\ b.missing = 0
           /\ \E l \in Lines : lines = <<l>> /\ l.line = "recovered" /\ l.missing = was.missing
  <2>1. PICK l \in Lines : lines = <<l>> /\ l.line = "recovered" /\ l.missing = was.missing
    BY <1>4
  <2>2. lines # <<>> /\ lines[1] = l /\ Ended[l] = was.missing
    BY <2>1 DEF Ended
  <2>3. Hears(t, lines) = Calm
    BY <2>1, <2>2 DEF Hears
  <2>4. Calm \in Known /\ Calm.open = FALSE /\ Calm.gaps = 0 /\ Calm.missing = 0
    BY DEF Calm, Known
  <2>5. Knows(Calm, b)
    BY <1>2, <1>4, <2>4 DEF Knows
  <2> QED
    BY <1>1, <1>4, <2>2, <2>3, <2>4, <2>5
<1>5. CASE /\ missed # 0 /\ was.gaps = 0 /\ b.gaps = 1 /\ b.missing = missed /\ was.missing = 0
           /\ \E l \in Lines : lines = <<l>> /\ l.line = "missing before" /\ l.missing = missed
  <2> DEFINE u == [open |-> TRUE, gaps |-> 1, missing |-> missed]
  <2>1. PICK l \in Lines : lines = <<l>> /\ l.line = "missing before" /\ l.missing = missed
    BY <1>5
  <2>2. lines # <<>> /\ lines[1] = l /\ Ended[l] = 0
    BY <2>1 DEF Ended
  <2>3. Hears(t, lines) = u
    BY <2>1, <2>2 DEF Hears
  <2>4. u \in Known /\ u.open = TRUE /\ u.gaps = 1 /\ u.missing = missed
    BY DEF Known
  <2>. HIDE DEF u
  <2>5. Knows(u, b)
    <3> DEFINE r == b.gaps % GapSummaryInterval
    <3>1. r \in Nat
      BY <1>1, <1>2
    <3>. HIDE DEF r
    <3>2. /\ b.gaps > 0 /\ u.gaps <= b.gaps /\ b.gaps - u.gaps <= r
          /\ u.missing <= b.missing
      <4>1. b.gaps = 1 /\ u.gaps = 1
        BY <1>5, <2>4
      <4>2. b.missing = missed /\ u.missing = missed
        BY <1>5, <2>4
      <4>3. 1 > 0 /\ 1 <= 1 /\ 1 - 1 <= r /\ missed <= missed
        BY <3>1
      <4> QED
        BY <4>1, <4>2, <4>3
    <3>3. u.open <=> b.gaps > 0
      BY <2>4, <3>2, Zenon
    <3> QED
      BY <3>2, <3>3, Zenon DEF Knows, r
  <2> QED
    BY <1>1, <1>5, <2>2, <2>3, <2>4, <2>5
<1>6. CASE /\ missed # 0 /\ was.gaps # 0 /\ lines = <<>> /\ ~IsDue(b.gaps)
           /\ b.gaps = was.gaps + 1 /\ b.missing = was.missing + missed
  <2>1. b.gaps % GapSummaryInterval = (was.gaps % GapSummaryInterval) + 1
    BY <1>1, <1>6, NotDueYet
  <2>2. Hears(t, lines) = t /\ was.gaps > 0
    BY <1>1, <1>6 DEF Hears
  <2>3. Knows(t, b)
    <3> DEFINE r == was.gaps % GapSummaryInterval
               s == b.gaps % GapSummaryInterval
               g == was.gaps
               h == b.gaps
    <3>1. r \in Nat /\ s = r + 1 /\ g \in Nat /\ h = g + 1 /\ t.gaps <= g /\ g - t.gaps <= r
      BY <1>1, <1>2, <1>6, <2>1 DEF Knows
    <3>2. t.open <=> h > 0
      <4>1. g > 0 /\ h > 0 /\ (t.open <=> g > 0)
        BY <1>1, <1>6, <2>2 DEF Knows
      <4> QED
        BY <4>1, Zenon
    <3>3. t.missing <= b.missing
      BY <1>1, <1>6 DEF Knows
    <3>. HIDE DEF r, s, g, h
    <3>4. t.gaps <= h /\ h - t.gaps <= s
      BY <1>1, <3>1
    <3> QED
      BY <3>2, <3>3, <3>4 DEF Knows, h, s
  <2> QED
    BY <1>1, <1>6, <2>2, <2>3
<1>7. CASE /\ missed # 0 /\ was.gaps # 0
           /\ b.gaps = was.gaps + 1 /\ b.missing = was.missing + missed
           /\ \E l \in Lines : lines = <<l>> /\ l.line = "so far"
                               /\ l.gaps = b.gaps /\ l.missing = b.missing
  <2> DEFINE u == [open |-> t.open, gaps |-> b.gaps, missing |-> b.missing]
  <2>1. PICK l \in Lines : lines = <<l>> /\ l.line = "so far"
                           /\ l.gaps = b.gaps /\ l.missing = b.missing
    BY <1>7
  <2>2. lines # <<>> /\ lines[1] = l /\ Ended[l] = 0
    BY <2>1 DEF Ended
  <2>3. Hears(t, lines) = u
    BY <2>1, <2>2 DEF Hears
  <2>4. u \in Known /\ u.open = t.open /\ u.gaps = b.gaps /\ u.missing = b.missing
    BY <1>1 DEF Known
  <2>. HIDE DEF u
  <2>5. t.open <=> b.gaps > 0
    <3> DEFINE g == was.gaps
               h == b.gaps
    <3>0. g \in Nat /\ g # 0 /\ h = g + 1
      BY <1>1, <1>7
    <3>. HIDE DEF g, h
    <3>a. g > 0 /\ h > 0
      BY <3>0
    <3>1. was.gaps > 0 /\ b.gaps > 0
      BY <3>a DEF g, h
    <3>2. t.open <=> was.gaps > 0
      BY Zenon DEF Knows
    <3> QED
      BY <3>1, <3>2, Zenon
  <2>6. u.gaps <= b.gaps /\ u.missing <= b.missing
        /\ b.gaps - u.gaps <= b.gaps % GapSummaryInterval
    <3> DEFINE r == b.gaps % GapSummaryInterval
    <3>1. r \in Nat
      BY <1>1, <1>2
    <3>. HIDE DEF r
    <3>2. u.gaps <= b.gaps /\ u.missing <= b.missing /\ b.gaps - u.gaps <= r
      BY <1>1, <2>4, <3>1
    <3> QED
      BY <3>2 DEF r
  <2>7. u.open <=> b.gaps > 0
    BY <2>4, <2>5, Zenon
  <2>8. Knows(u, b)
    BY <2>6, <2>7, Zenon DEF Knows
  <2>9. b.missing - was.missing = missed - 0
    <3> DEFINE m == was.missing
               n == b.missing
    <3>1. m \in Nat /\ n = m + missed
      BY <1>1, <1>7
    <3>. HIDE DEF m, n
    <3>2. n - m = missed - 0
      BY <3>1
    <3> QED
      BY <3>2 DEF m, n
  <2>10. (IF lines # <<>> THEN Ended[lines[1]] ELSE 0) = 0
    BY <2>2
  <2> QED
    BY <2>3, <2>4, <2>8, <2>9, <2>10
<1> QED
  BY <1>3, <1>4, <1>5, <1>6, <1>7 DEF Tells

LEMMA ReaderIsTold ==
    ASSUME NEW a, NEW lines \in Seq(Lines), NEW extra \in Seq(Lines), NEW result,
           IsTold(a, lines), IsWarned(extra, result), NewLines = lines \o extra, Reads(result)
    PROVE  /\ told' = [x \in Apids |-> IF x = a THEN Hears(told[x], lines) ELSE told[x]]
           /\ closed' = closed + (IF lines # <<>> THEN Ended[lines[1]] ELSE 0)
           /\ forgotten' = forgotten
<1> DEFINE new == NewLines
           R == {"recovered"}
           M == {"missing before"}
           F == {"so far"}
<1>1. /\ told' = [x \in Apids |->
                    IF About(x, R) # {} THEN Calm
                    ELSE IF About(x, M) # {} THEN
                        [open |-> TRUE, gaps |-> 1,
                         missing |-> new[CHOOSE i \in About(x, M) : TRUE].missing]
                    ELSE IF About(x, F) # {} THEN
                        [open |-> told[x].open,
                         gaps |-> new[CHOOSE i \in About(x, F) : TRUE].gaps,
                         missing |-> new[CHOOSE i \in About(x, F) : TRUE].missing]
                    ELSE told[x]]
      /\ closed' = closed + SumFunction(Endings(new))
      /\ forgotten' = forgotten
  BY Zenon DEF Reads, Endings
<1>2. R \in SUBSET OfProcess /\ M \in SUBSET OfProcess /\ F \in SUBSET OfProcess
  BY DEF OfProcess
<1>3. closed' = closed + (IF lines # <<>> THEN Ended[lines[1]] ELSE 0)
  <2>1. new = lines \o extra
    OBVIOUS
  <2>. HIDE DEF new
  <2> QED
    BY <1>1, <2>1, ToldOver
<1>4. \A x, kinds : kinds \in SUBSET OfProcess =>
         /\ About(x, kinds) = IF lines # <<>> /\ lines[1].line \in kinds /\ x = a THEN {1} ELSE {}
         /\ lines # <<>> => new[1] = lines[1]
  BY ToldAbout
<1>5. lines # <<>> => lines[1].line \in OfProcess
  BY DEF IsTold
<1>. HIDE DEF new, R, M, F
<1>6. ASSUME NEW x \in Apids
      PROVE  told'[x] = IF x = a THEN Hears(told[x], lines) ELSE told[x]
  <2>1. CASE x # a \/ lines = <<>>
    <3>1. About(x, R) = {} /\ About(x, M) = {} /\ About(x, F) = {}
      BY <1>2, <1>4, <2>1
    <3>2. told'[x] = told[x]
      BY <1>1, <3>1
    <3> QED
      BY <2>1, <3>2 DEF Hears
  <2>2. CASE x = a /\ lines # <<>>
    <3> DEFINE l == lines[1]
    <3>0. l.line \in OfProcess /\ new[1] = l /\ (CHOOSE i \in {1} : TRUE) = 1
      BY <1>2, <1>4, <1>5, <2>2
    <3>1. /\ About(x, R) = IF l.line \in R THEN {1} ELSE {}
          /\ About(x, M) = IF l.line \in M THEN {1} ELSE {}
          /\ About(x, F) = IF l.line \in F THEN {1} ELSE {}
      BY <1>2, <1>4, <2>2
    <3>. HIDE DEF l
    <3>2. CASE l.line = "recovered"
      <4>1. About(x, R) = {1}
        BY <3>1, <3>2 DEF R
      <4>2. told'[x] = Calm
        BY <1>1, <4>1
      <4> QED
        BY <2>2, <3>2, <4>2 DEF Hears, l
    <3>3. CASE l.line = "missing before"
      <4>1. About(x, R) = {} /\ About(x, M) = {1}
        BY <3>1, <3>3 DEF R, M
      <4>2. told'[x] = [open |-> TRUE, gaps |-> 1, missing |-> l.missing]
        BY <1>1, <3>0, <4>1
      <4> QED
        BY <2>2, <3>3, <4>2 DEF Hears, l
    <3>4. CASE l.line = "so far"
      <4>1. About(x, R) = {} /\ About(x, M) = {} /\ About(x, F) = {1}
        BY <3>1, <3>4 DEF R, M, F
      <4>2. told'[x] = [open |-> told[x].open, gaps |-> l.gaps, missing |-> l.missing]
        BY <1>1, <3>0, <4>1
      <4> QED
        BY <2>2, <3>4, <4>2 DEF Hears, l
    <3> QED
      BY <3>0, <3>2, <3>3, <3>4 DEF OfProcess
  <2> QED
    BY <2>1, <2>2
<1>7. told' = [x \in Apids |-> told'[x]]
  BY <1>1
<1> QED
  BY <1>1, <1>3, <1>6, <1>7

LEMMA ReaderIsWarned ==
    ASSUME WarningsInv, NEW a, NEW lines \in Seq(Lines), NEW extra \in Seq(Lines),
           NEW result \in Results,
           IsTold(a, lines), IsWarned(extra, result), NewLines = lines \o extra, Reads(result)
    PROVE  WarningsInv'
<1> DEFINE new == NewLines
           count(c) == Cardinality(Warnings(new, c))
           falls(c) == result # Refused /\ result.container = c /\ result.trailing
<1>1. saidOf' = [c \in Containers |-> [lines |-> saidOf[c].lines + count(c),
                                       due |-> saidOf[c].due \/ falls(c)]]
  BY Zenon DEF Reads, Warnings
<1>2. \A c : count(c) = IF extra # <<>> /\ c = result.container THEN 1 ELSE 0
  <2>1. new = lines \o extra
    OBVIOUS
  <2>. HIDE DEF new, count
  <2>2. ASSUME NEW c
        PROVE  count(c) = IF extra # <<>> /\ c = result.container THEN 1 ELSE 0
    <3>1. SaysOnce(new, extra, result, c)
      BY <2>1, WarnedAbout
    <3> QED
      BY <3>1 DEF count, SaysOnce
  <2> QED
    BY <2>2
<1>. HIDE DEF new, count
<1>3. ASSUME NEW c \in Containers
      PROVE  /\ saidOf'[c] \in [lines : Nat, due : BOOLEAN]
             /\ saidOf'[c].due <=> c \in warned'
             /\ saidOf'[c].lines = IF saidOf'[c].due THEN 1 ELSE 0
  <2> DEFINE due == saidOf[c].due
             n == saidOf[c].lines
  <2>1. /\ due \in BOOLEAN /\ n \in Nat /\ (due <=> c \in warned)
        /\ n = IF due THEN 1 ELSE 0
    BY DEF WarningsInv
  <2>2. saidOf'[c] = [lines |-> n + count(c), due |-> due \/ falls(c)]
    BY <1>1
  <2>a. falls(c) \in BOOLEAN
    OBVIOUS
  <2>. HIDE DEF due, n
  <2>3. CASE extra = <<>>
    <3>1. warned' = warned /\ (falls(c) => c \in warned)
      <4>1. \/ warned' = warned /\ (result # Refused /\ result.trailing => result.container \in warned)
            \/ \E l \in Lines : extra = <<l>>
        BY DEF IsWarned
      <4>2. \A l \in Lines : extra # <<l>>
        BY <2>3
      <4> QED
        BY <4>1, <4>2
    <3>2. n + count(c) = n
      BY <1>2, <2>1, <2>3
    <3>3. (due \/ falls(c)) = due
      BY <2>1, <3>1, Zenon
    <3>4. saidOf'[c] = [lines |-> n, due |-> due]
      BY <2>2, <3>2, <3>3
    <3> QED
      BY <2>1, <3>1, <3>4
  <2>4. CASE extra # <<>>
    <3>1. /\ result # Refused /\ result.trailing /\ result.container \notin warned
          /\ warned' = warned \union {result.container}
      BY <2>4 DEF IsWarned
    <3>2. CASE c = result.container
      <4>a. count(c) = 1
        BY <1>2, <2>4, <3>2
      <4>b. falls(c)
        BY <3>1, <3>2, Zenon
      <4>c. ~due
        BY <2>1, <3>1, <3>2, Zenon
      <4>d. n = 0
        BY <2>1, <4>c
      <4>e. (due \/ falls(c)) = TRUE
        BY <4>b, Zenon
      <4>f. n + count(c) = 1
        BY <4>a, <4>d
      <4>1. saidOf'[c] = [lines |-> 1, due |-> TRUE]
        BY <2>2, <4>e, <4>f
      <4>2. saidOf'[c].lines = 1 /\ saidOf'[c].due = TRUE
        BY <4>1
      <4>3. saidOf'[c] \in [lines : Nat, due : BOOLEAN]
        BY <4>1
      <4> QED
        BY <3>1, <3>2, <4>2, <4>3
    <3>3. CASE c # result.container
      <4>1. count(c) = 0 /\ n + count(c) = n
        BY <1>2, <2>1, <3>3
      <4>2. ~falls(c)
        BY <3>3
      <4>3. (due \/ falls(c)) = due
        BY <2>1, <4>2, Zenon
      <4>4. saidOf'[c] = [lines |-> n, due |-> due]
        BY <2>2, <4>1, <4>3
      <4> QED
        BY <2>1, <3>1, <3>3, <4>4
    <3> QED
      BY <3>2, <3>3
  <2> QED
    BY <2>3, <2>4
<1>4. saidOf' \in [Containers -> [lines : Nat, due : BOOLEAN]]
  <2>1. saidOf' = [c \in Containers |-> saidOf'[c]]
    BY <1>1
  <2> QED
    BY <1>3, <2>1
<1> QED
  BY <1>3, <1>4 DEF WarningsInv

MissingIn(f) == SumFunction([x \in Apids |-> f[x].missing])

LEMMA MissingMoves ==
    ASSUME NEW f \in [Apids -> Bursts], NEW a \in Apids, NEW b \in Bursts,
           NEW g, g = [f EXCEPT ![a] = b]
    PROVE  MissingIn(f) \in Int /\ MissingIn(g) = MissingIn(f) + (b.missing - f[a].missing)
<1> DEFINE v == [x \in Apids |-> f[x].missing]
           u == [x \in Apids |-> g[x].missing]
<1>1. SumFunction(v) = SumFunctionOnSet(v, Apids) /\ SumFunction(u) = SumFunctionOnSet(u, Apids)
  BY DEF SumFunction
<1>2. /\ \A x \in Apids : v[x] \in Int /\ u[x] \in Int
      /\ \A x \in Apids \ {a} : v[x] = u[x]
      /\ v[a] = f[a].missing /\ u[a] = b.missing
  BY DEF Bursts
<1>3. IsFiniteSet(Apids)
  BY TelemetryAssumption
<1>. HIDE DEF u, v
<1>4. /\ SumFunctionOnSet(v, Apids) \in Int
      /\ SumFunctionOnSet(u, Apids) = SumFunctionOnSet(v, Apids) + (u[a] - v[a])
  BY <1>2, <1>3, SumChangedAt
<1>5. SumFunction(v) \in Int /\ SumFunction(u) = SumFunction(v) + (b.missing - f[a].missing)
  BY <1>1, <1>2, <1>4
<1> QED
  BY <1>5 DEF u, v, MissingIn

LEMMA OwingMoves ==
    ASSUME burst \in [Apids -> Bursts], NEW a \in Apids, NEW b \in Bursts,
           burst' = [burst EXCEPT ![a] = b]
    PROVE  Owing \in Int /\ Owing' = Owing + (b.missing - burst[a].missing)
<1>1. Owing = MissingIn(burst) /\ Owing' = MissingIn(burst')
  BY DEF Owing, MissingIn
<1>2. /\ MissingIn(burst) \in Int
      /\ MissingIn(burst') = MissingIn(burst) + (b.missing - burst[a].missing)
  BY MissingMoves
<1> QED
  BY <1>1, <1>2

LEMMA OwingIsNothing ==
    ASSUME \A a \in Apids : burst[a].missing = 0
    PROVE  Owing = 0
<1> DEFINE v == [x \in Apids |-> burst[x].missing]
<1>1. Owing = SumFunctionOnSet(v, Apids) /\ \A x \in Apids : v[x] = 0
  BY DEF Owing, SumFunction
<1>2. IsFiniteSet(Apids)
  BY TelemetryAssumption
<1>. HIDE DEF v
<1> QED
  BY <1>1, <1>2, SumOfZeros
-----------------------------------------------------------------------------
LEMMA PacketIsRead ==
    ASSUME DecoderInv, ReaderInv, WarningsInv, NEW a \in Apids, NEW count \in Counts,
           NEW result \in Results, DecodePacket(a, count, result), Reads(result)
    PROVE  ReaderInv' /\ WarningsInv'
<1> DEFINE missed == Missed(a, count)
<1>0. DecoderTypeOK
  BY DEF DecoderInv
<1>1. PICK b \in Bursts, lines \in Seq(Lines) :
         /\ burst' = [burst EXCEPT ![a] = b] /\ Finish(result, lines)
         /\ IsTold(a, lines) /\ Tells(burst[a], b, lines, missed)
  BY PacketTells
<1>2. PICK extra \in Seq(Lines) : NewLines = lines \o extra /\ IsWarned(extra, result)
  BY <1>0, <1>1, WarnedByFinish
<1>3. missing' = missing + missed /\ missed \in Nat
  BY <1>0, PacketDoes, MissedIsNat DEF Observe
<1>. HIDE DEF missed
<1> DEFINE over == IF lines # <<>> THEN Ended[lines[1]] ELSE 0
<1>4. /\ told' = [x \in Apids |-> IF x = a THEN Hears(told[x], lines) ELSE told[x]]
      /\ closed' = closed + over /\ forgotten' = forgotten
  BY <1>1, <1>2, ReaderIsTold
<1>5. WarningsInv'
  BY <1>1, <1>2, ReaderIsWarned
<1>6. burst \in [Apids -> Bursts] /\ burst[a] \in Bursts
  BY <1>0 DEF DecoderTypeOK, Bursts
<1>7. /\ told \in [Apids -> Known] /\ \A x \in Apids : Knows(told[x], burst[x])
      /\ closed \in Nat /\ forgotten \in Nat /\ missing = closed + forgotten + Owing
  BY DEF ReaderInv
<1>8. /\ Hears(told[a], lines) \in Known /\ Knows(Hears(told[a], lines), b)
      /\ b.missing - burst[a].missing = missed - over
  BY <1>1, <1>3, <1>6, <1>7, ReaderHears
<1>9. Owing \in Int /\ Owing' = Owing + (b.missing - burst[a].missing)
  BY <1>1, <1>6, OwingMoves
<1>10. over \in Nat
  <2>1. lines # <<>> => lines[1] \in Lines
    BY <1>1 DEF IsTold
  <2> QED
    BY <2>1, EndedIsNat
<1>11. ReaderInv'
  <2>1. told' \in [Apids -> Known]
    BY <1>4, <1>7, <1>8
  <2>2. \A x \in Apids : Knows(told'[x], burst'[x])
    BY <1>1, <1>4, <1>6, <1>7, <1>8
  <2>3. closed' \in Nat /\ forgotten' \in Nat
    BY <1>4, <1>7, <1>10
  <2>4. missing' = closed' + forgotten' + Owing'
    <3> DEFINE o == Owing
               p == Owing'
    <3>1. o \in Int /\ p = o + (missed - over) /\ missing = closed + forgotten + o
      BY <1>7, <1>8, <1>9
    <3>. HIDE DEF o, p, over
    <3>2. missing' = closed' + forgotten' + p
      BY <1>3, <1>4, <1>7, <1>10, <3>1
    <3> QED
      BY <3>2 DEF p
  <2> QED
    BY <2>1, <2>2, <2>3, <2>4 DEF ReaderInv
<1> QED
  BY <1>5, <1>11

LEMMA ShortPacketIsRead ==
    ASSUME DecoderInv, ReaderInv, WarningsInv, NEW result \in Results,
           DecodeHeaderless(result), Reads(result)
    PROVE  ReaderInv' /\ WarningsInv'
<1>0. DecoderTypeOK
  BY DEF DecoderInv
<1>1. <<>> \in Seq(Lines) /\ IsTold(0, <<>>) /\ Finish(result, <<>>)
      /\ UNCHANGED <<burst, missing>>
  BY DEF IsTold, DecodeHeaderless, trackerVars
<1>2. PICK extra \in Seq(Lines) : NewLines = <<>> \o extra /\ IsWarned(extra, result)
  BY <1>0, <1>1, WarnedByFinish
<1>3. WarningsInv'
  BY <1>1, <1>2, ReaderIsWarned
<1>4. /\ told' = [x \in Apids |-> IF x = 0 THEN Hears(told[x], <<>>) ELSE told[x]]
      /\ closed' = closed + 0 /\ forgotten' = forgotten
  BY <1>1, <1>2, ReaderIsTold
<1>5. /\ told \in [Apids -> Known] /\ closed \in Nat
  BY DEF ReaderInv
<1>6. told' = told /\ closed' = closed
  BY <1>4, <1>5 DEF Hears
<1>7. Owing' = Owing
  BY <1>1 DEF Owing
<1>8. ReaderInv'
  BY <1>1, <1>4, <1>6, <1>7 DEF ReaderInv
<1> QED
  BY <1>3, <1>8

LEMMA RestartIsRead ==
    ASSUME DecoderInv, ReaderInv, WarningsInv, StreamRestarts
    PROVE  ReaderInv' /\ WarningsInv'
<1>1. /\ burst' = [a \in Apids |-> NoBurst] /\ missing' = missing /\ warned' = warned
      /\ told' = [a \in Apids |-> Calm] /\ forgotten' = forgotten + Owing
      /\ closed' = closed /\ saidOf' = saidOf
  BY DEF StreamRestarts, Reset
<1>2. Owing' = 0
  <2>1. \A a \in Apids : burst'[a].missing = 0
    BY <1>1
  <2> DEFINE v == [x \in Apids |-> burst'[x].missing]
  <2>2. Owing' = SumFunctionOnSet(v, Apids) /\ \A x \in Apids : v[x] = 0
    BY <2>1 DEF Owing, SumFunction
  <2>3. IsFiniteSet(Apids)
    BY TelemetryAssumption
  <2>. HIDE DEF v
  <2> QED
    BY <2>2, <2>3, SumOfZeros
<1>3. Owing \in Nat
  <2> DEFINE v == [x \in Apids |-> burst[x].missing]
  <2>1. Owing = SumFunctionOnSet(v, Apids) /\ \A x \in Apids : v[x] \in Nat
    BY DEF Owing, SumFunction, DecoderInv, DecoderTypeOK
  <2>2. IsFiniteSet(Apids)
    BY TelemetryAssumption
  <2>. HIDE DEF v
  <2> QED
    BY <2>1, <2>2, SumOfNats
<1>4. \A a \in Apids : Knows(told'[a], burst'[a])
  <2>1. Calm.open = FALSE /\ Calm.gaps = 0 /\ Calm.missing = 0
        /\ NoBurst.gaps = 0 /\ NoBurst.missing = 0
    BY DEF Calm
  <2>2. 0 % GapSummaryInterval >= 0
    BY PacketDecoderAssumption
  <2>3. Knows(Calm, NoBurst)
    BY <2>1, <2>2 DEF Knows
  <2> QED
    BY <1>1, <2>3
<1>5. told' \in [Apids -> Known]
  BY <1>1 DEF Calm, Known
<1>6. /\ closed' \in Nat /\ forgotten' \in Nat
      /\ missing' = closed' + forgotten' + Owing'
  BY <1>1, <1>2, <1>3 DEF ReaderInv
<1>7. WarningsInv'
  BY <1>1 DEF WarningsInv
<1> QED
  BY <1>4, <1>5, <1>6, <1>7 DEF ReaderInv

LogInv == TelemetryInv /\ ReaderInv /\ WarningsInv

LEMMA LogStarts == TelemetryInit => ReaderInv /\ WarningsInv
<1>. SUFFICES ASSUME TelemetryInit PROVE ReaderInv /\ WarningsInv
  OBVIOUS
<1>1. /\ burst = [a \in Apids |-> NoBurst] /\ missing = 0 /\ warned = {}
      /\ told = [a \in Apids |-> Calm] /\ forgotten = 0 /\ closed = 0
      /\ saidOf = [c \in Containers |-> [lines |-> 0, due |-> FALSE]]
  BY DEF TelemetryInit, DecoderInit
<1>2. Owing = 0
  BY <1>1, OwingIsNothing
<1>3. Knows(Calm, NoBurst)
  <2>1. Calm.open = FALSE /\ Calm.gaps = 0 /\ Calm.missing = 0
        /\ NoBurst.gaps = 0 /\ NoBurst.missing = 0
    BY DEF Calm
  <2>2. 0 % GapSummaryInterval >= 0
    BY PacketDecoderAssumption
  <2> QED
    BY <2>1, <2>2 DEF Knows
<1>4. told \in [Apids -> Known]
  BY <1>1 DEF Calm, Known
<1>5. ReaderInv
  BY <1>1, <1>2, <1>3, <1>4 DEF ReaderInv
<1>6. WarningsInv
  BY <1>1 DEF WarningsInv
<1> QED
  BY <1>5, <1>6

LEMMA LogStays ==
    ASSUME ReaderInv, WarningsInv,
           (\E a \in Apids : PacketLost(a)) \/ LinesTaken \/ UNCHANGED telemetryVars
    PROVE  ReaderInv' /\ WarningsInv'
<1>1. UNCHANGED <<burst, missing, warned, told, closed, forgotten, saidOf>>
  BY DEF PacketLost, LinesTaken, TakeEvents, telemetryVars, decoderVars, trackerVars, logVars
<1>2. Owing' = Owing
  BY <1>1 DEF Owing
<1>3. ReaderInv'
  BY <1>1, <1>2 DEF ReaderInv
<1> QED
  BY <1>1, <1>3 DEF WarningsInv

\* The log tells of every dropout that is open and of no other, is never a whole
\* interval behind, and the totals of its dropouts are all that is missing; of a
\* container it warns once (decode.rs:526-577, 610-636).
THEOREM LogIsKeptUp == TelemetrySpec => []LogKeepsUp
<1>1. TelemetryInit => LogInv
  BY TelemetryStarts, LogStarts DEF LogInv
<1>2. LogInv /\ [TelemetryNext]_telemetryVars => LogInv'
  <2>. SUFFICES ASSUME LogInv, [TelemetryNext]_telemetryVars PROVE LogInv'
    OBVIOUS
  <2>1. TelemetryInv /\ DecoderInv /\ ReaderInv /\ WarningsInv /\ LinkTypeOK /\ DecoderTypeOK
    BY DEF LogInv, TelemetryInv, DecoderInv
  <2>2. TelemetryInv'
    BY <2>1, TelemetryStays
  <2>3. ASSUME NEW a \in Apids, NEW result \in Results,
               PacketArrives(a, result) \/ PacketRepeated(a, result)
        PROVE  ReaderInv' /\ WarningsInv'
    <3>1. PICK count \in Counts : DecodePacket(a, count, result)
      BY <2>1, <2>3 DEF PacketArrives, PacketRepeated, LinkTypeOK, DecoderTypeOK
    <3>2. Reads(result)
      BY <2>3 DEF PacketArrives, PacketRepeated
    <3> QED
      BY <2>1, <3>1, <3>2, PacketIsRead
  <2>4. ASSUME NEW result \in Results, ShortPacketArrives(result)
        PROVE  ReaderInv' /\ WarningsInv'
    BY <2>1, <2>4, ShortPacketIsRead DEF ShortPacketArrives
  <2>5. CASE StreamRestarts
    BY <2>1, <2>2, <2>5, RestartIsRead DEF LogInv
  <2>6. CASE (\E a \in Apids : PacketLost(a)) \/ LinesTaken \/ UNCHANGED telemetryVars
    BY <2>1, <2>2, <2>6, LogStays DEF LogInv
  <2> QED
    BY <2>2, <2>3, <2>4, <2>5, <2>6 DEF TelemetryNext, LogInv
<1>3. LogInv => LogKeepsUp
  <2>. SUFFICES ASSUME LogInv PROVE LogKeepsUp
    OBVIOUS
  <2>1. GapSummaryInterval \in Nat /\ GapSummaryInterval >= 2
    BY PacketDecoderAssumption
  <2>2. ASSUME NEW a \in Apids
        PROVE  /\ told[a].open <=> burst[a].gaps > 0
               /\ burst[a].gaps - told[a].gaps \in 0..(GapSummaryInterval - 1)
               /\ told[a].missing <= burst[a].missing
    <3>1. Knows(told[a], burst[a]) /\ told[a].gaps \in Nat /\ burst[a].gaps \in Nat
      BY DEF LogInv, ReaderInv, TelemetryInv, DecoderInv, DecoderTypeOK, Known
    <3> DEFINE g == burst[a].gaps
               t == told[a].gaps
               r == g % GapSummaryInterval
    <3>2. r \in 0..(GapSummaryInterval - 1)
      BY <2>1, <3>1
    <3>3. t \in Nat /\ g \in Nat /\ t <= g /\ g - t <= r
      BY <3>1 DEF Knows
    <3>. HIDE DEF g, t, r
    <3>4. g - t \in 0..(GapSummaryInterval - 1)
      BY <2>1, <3>2, <3>3
    <3> QED
      BY <3>1, <3>4 DEF Knows, g, t
  <2>3. \A c \in Containers : saidOf[c].lines = IF saidOf[c].due THEN 1 ELSE 0
    BY DEF LogInv, WarningsInv
  <2>4. missing = closed + forgotten + Owing
    BY DEF LogInv, ReaderInv
  <2> QED
    BY <2>2, <2>3, <2>4 DEF LogKeepsUp
<1> QED
  BY <1>1, <1>2, <1>3, PTL DEF TelemetrySpec
=============================================================================
