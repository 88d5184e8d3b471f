---------------------------- MODULE StationProofs ----------------------------
(***************************************************************************)
(* What holds of a station for any code, any link and any clock: its status *)
(* bar shows what came lately, it runs what was typed, and every block is   *)
(* counted once.  What holds of the arrangement of its window, for any      *)
(* layouts written by hand, is below.                                       *)
(***************************************************************************)
EXTENDS Station, Arrangement, SequenceTheorems, FiniteSetTheorems, WellFoundedInduction,
        TLAPS

-----------------------------------------------------------------------------
(***************************************************************************)
(* The window of the rates.                                                 *)
(***************************************************************************)
Smaller == {pair \in Nat \X Nat : pair[1] < pair[2]}

LEMMA SmallestOf ==
    ASSUME NEW T, T \subseteq Nat, T # {}
    PROVE  \E n \in T : \A m \in T : n <= m
<1>1. OpToRel(<, Nat) = Smaller
    BY DEF OpToRel, Smaller
<1>2. \E x \in T : \A y \in T : ~(<<y, x>> \in Smaller)
    BY <1>1, NatLessThanWellFounded, WFMin
<1>3. \A x, y \in Nat : <<y, x>> \notin Smaller => x <= y
    BY DEF Smaller
<1> QED  BY <1>2, <1>3

\* A sample of the counters, and what one follows of another.
Samples == [at : Int, bytes : Nat, packets : Nat]
NoEarlier(a, b) == a.bytes <= b.bytes /\ a.packets <= b.packets
Rising(rates) ==
    \A m, n \in DOMAIN rates : m <= n => NoEarlier(rates[m], rates[n])

\* What is kept of a window is its end, the newest included, and no more than
\* is recent or the newest.
LEMMA FirstKeptStays ==
    ASSUME NEW rates \in Seq(Samples), Len(rates) > 0, NEW now \in Int,
           RATE_WINDOW \in Nat
    PROVE  FirstKept(rates, now) \in 1..Len(rates)
           /\ StaysIn(rates, FirstKept(rates, now), now)
<1> DEFINE stays == {n \in 1..Len(rates) : StaysIn(rates, n, now)}
<1>1. Len(rates) \in Nat /\ DOMAIN rates = 1..Len(rates)
    BY LenProperties
<1>2. Len(rates) \in stays
    BY <1>1 DEF StaysIn
<1>6. stays \subseteq Nat /\ stays # {}
    BY <1>1, <1>2
<1>3. PICK n \in stays : \A m \in stays : n <= m
  <2> HIDE DEF stays
  <2> QED  BY <1>6, SmallestOf
<1>4. n \in DOMAIN rates /\ StaysIn(rates, n, now)
    BY <1>1, <1>3
<1>5. \A m \in 1..(n - 1) : ~StaysIn(rates, m, now)
    BY <1>1, <1>3
<1> HIDE DEF stays
<1> QED  BY <1>1, <1>4, <1>5 DEF FirstKept

\* What Pruned returns is an end of the window.
LEMMA PrunedIsEnd ==
    ASSUME NEW rates \in Seq(Samples), Len(rates) > 0, NEW now \in Int,
           RATE_WINDOW \in Nat
    PROVE  \E first \in 1..Len(rates) :
                /\ StaysIn(rates, first, now)
                /\ Pruned(rates, now) \in Seq(Samples)
                /\ Len(Pruned(rates, now)) = Len(rates) - first + 1
                /\ \A i \in 1..(Len(rates) - first + 1) :
                        Pruned(rates, now)[i] = rates[first + i - 1]
<1> DEFINE first == FirstKept(rates, now)
           size == Len(rates)
<1>1. first \in 1..Len(rates) /\ StaysIn(rates, first, now)
    BY FirstKeptStays
<1>2. Pruned(rates, now) = SubSeq(rates, first, size)
    BY DEF Pruned
<1>3. size \in Nat
    BY LenProperties
<1>4. \A i \in 1..size : rates[i] \in Samples
    BY ElementOfSeq
<1> HIDE DEF first
<1>7. first \in 1..size
    BY <1>1
<1> HIDE DEF size
<1>5. first \in Int /\ size \in Int /\ first <= size
      /\ \A i \in first..size : rates[i] \in Samples
    BY <1>3, <1>4, <1>7
<1>6. SubSeq(rates, first, size) \in Seq(Samples)
    BY <1>5, SubSeqProperties
<1>8. Len(SubSeq(rates, first, size)) = size - first + 1
    BY <1>5, SubSeqProperties
<1>9. \A i \in 1..(size - first + 1) :
        SubSeq(rates, first, size)[i] = rates[first + i - 1]
    BY <1>5, SubSeqProperties
<1> USE DEF size
<1> WITNESS first \in 1..Len(rates)
<1> QED  BY <1>1, <1>2, <1>6, <1>8, <1>9

\* The conjuncts of WindowIsShort, without Head.
Short(rates) ==
    /\ Len(rates) <= RATE_SAMPLES
    /\ \A n \in 2..Len(rates) : rates[n].at - rates[n - 1].at >= RATE_SAMPLE
    /\ Len(rates) > 0 => rates[Len(rates)].at - rates[1].at <= RATE_WINDOW

\* Short says of every two samples what WindowIsShort does.
LEMMA ShortIsWindow ==
    ASSUME NEW rates \in Seq(Samples), Short(rates)
    PROVE  WindowIsShort(rates)
<1>1. CASE rates = <<>>
    BY <1>1 DEF WindowIsShort, Short
<1>2. CASE rates # <<>>
  <2>1. Len(rates) > 0
    BY <1>2, EmptySeq
  <2>2. Head(rates) = rates[1]
    OBVIOUS
  <2> QED  BY <2>1, <2>2 DEF WindowIsShort, Short, Newest
<1> QED  BY <1>1, <1>2

\* Samples apart, none earlier than a tick that comes a sample later.
Spaced(rates) == \A n \in 2..Len(rates) : rates[n].at - rates[n - 1].at >= RATE_SAMPLE
AllBefore(rates, tick) ==
    /\ \A n \in 1..Len(rates) : NoEarlier(rates[n], tick)
    /\ Len(rates) > 0 => tick.at - rates[Len(rates)].at >= RATE_SAMPLE

\* What a push leaves of a window and a tick.
Outcome(new, rates, tick) ==
    /\ new \in Seq(Samples) /\ Len(new) > 0
    /\ Short(new) /\ Rising(new)
    /\ \A i \in 1..Len(new) : new[i] = tick \/ \E n \in 1..Len(rates) : new[i] = rates[n]

\* A sample that comes late enough is appended, and what is too old goes.
LEMMA AppendedIsPruned ==
    ASSUME NEW rates \in Seq(Samples), NEW tick \in Samples, StatusBarAssumption,
           Len(rates) < RATE_SAMPLES, Spaced(rates), Rising(rates), AllBefore(rates, tick)
    PROVE  /\ Outcome(Pruned(Append(rates, tick), tick.at), rates, tick)
           /\ Newest(Pruned(Append(rates, tick), tick.at)) = tick
<1> DEFINE grown == Append(rates, tick)
           new == Pruned(grown, tick.at)
           size == Len(rates)
<1>1. /\ size \in Nat /\ size < RATE_SAMPLES
      /\ grown \in Seq(Samples) /\ Len(grown) = size + 1
      /\ \A i \in 1..size : grown[i] = rates[i] /\ rates[i] \in Samples
      /\ grown[size + 1] = tick
    BY LenProperties, ElementOfSeq, AppendProperties
<1>2. RATE_SAMPLE \in Nat \ {0} /\ RATE_WINDOW \in Nat /\ RATE_SAMPLES \in Nat
    BY DEF StatusBarAssumption
<1>3. tick.at \in Int /\ tick.bytes \in Nat /\ tick.packets \in Nat
    BY DEF Samples
<1>4. /\ \A n \in 2..size : rates[n].at - rates[n - 1].at >= RATE_SAMPLE
      /\ \A n \in 1..size : NoEarlier(rates[n], tick)
      /\ size > 0 => tick.at - rates[size].at >= RATE_SAMPLE
    BY DEF Spaced, AllBefore
<1>5. \A m, n \in 1..size : m <= n => NoEarlier(rates[m], rates[n])
    BY LenProperties DEF Rising
<1> HIDE DEF grown
<1>6. PICK first \in 1..(size + 1) :
        /\ StaysIn(grown, first, tick.at)
        /\ new \in Seq(Samples)
        /\ Len(new) = size + 1 - first + 1
        /\ \A i \in 1..(size + 1 - first + 1) : new[i] = grown[first + i - 1]
  <2>1. \E first \in 1..Len(grown) :
            /\ StaysIn(grown, first, tick.at)
            /\ Pruned(grown, tick.at) \in Seq(Samples)
            /\ Len(Pruned(grown, tick.at)) = Len(grown) - first + 1
            /\ \A i \in 1..(Len(grown) - first + 1) :
                    Pruned(grown, tick.at)[i] = grown[first + i - 1]
    <3>1. Len(grown) > 0
      BY <1>1
    <3> HIDE DEF new
    <3> QED  BY <1>1, <1>2, <1>3, <3>1, PrunedIsEnd
  <2>2. Len(grown) = size + 1
    BY <1>1
  <2> QED  BY <2>1, <2>2
<1> HIDE DEF new, size
<1>7. /\ Len(new) \in Nat /\ Len(new) > 0 /\ Len(new) <= RATE_SAMPLES
      /\ new[Len(new)] = tick
  <2>1. Len(new) = size + 2 - first /\ Len(new) \in 1..(size + 1 - first + 1)
        /\ first + Len(new) - 1 = size + 1
    BY <1>1, <1>6
  <2>2. new[Len(new)] = grown[size + 1]
    BY <1>6, <2>1
  <2> QED  BY <1>1, <1>2, <2>1, <2>2
<1>8. \A i \in 1..Len(new) :
        /\ first + i - 1 \in 1..(size + 1)
        /\ new[i] = grown[first + i - 1]
    BY <1>1, <1>6
<1>9. \A i \in 1..Len(new) : new[i] = tick \/ \E n \in 1..size : new[i] = rates[n]
  <2> TAKE i \in 1..Len(new)
  <2>1. CASE first + i - 1 = size + 1
    BY <1>1, <1>8, <2>1
  <2>2. CASE first + i - 1 \in 1..size
    BY <1>1, <1>8, <2>2
  <2> QED  BY <1>1, <1>8, <2>1, <2>2
<1>10. \A n \in 2..(size + 1) : grown[n].at - grown[n - 1].at >= RATE_SAMPLE
  <2> TAKE n \in 2..(size + 1)
  <2>1. CASE n = size + 1
    BY <1>1, <1>4, <2>1
  <2>2. CASE n \in 2..size
    <3>1. n - 1 \in 1..size /\ n \in 1..size
      BY <1>1, <2>2
    <3> QED  BY <1>1, <1>4, <2>2, <3>1
  <2> QED  BY <1>1, <2>1, <2>2
<1>11. \A m, n \in 1..(size + 1) : m <= n => NoEarlier(grown[m], grown[n])
  <2> SUFFICES ASSUME NEW m \in 1..(size + 1), NEW n \in 1..(size + 1), m <= n
               PROVE  NoEarlier(grown[m], grown[n])
    OBVIOUS
  <2>1. CASE n \in 1..size
    <3>1. m \in 1..size
      BY <1>1, <2>1
    <3> QED  BY <1>1, <1>5, <2>1, <3>1
  <2>2. CASE n = size + 1 /\ m \in 1..size
    BY <1>1, <1>4, <2>2
  <2>3. CASE n = size + 1 /\ m = size + 1
    BY <1>1, <1>3, <2>3 DEF NoEarlier
  <2> QED  BY <1>1, <2>1, <2>2, <2>3
<1>12. Rising(new)
  <2> SUFFICES ASSUME NEW m \in 1..Len(new), NEW n \in 1..Len(new), m <= n
               PROVE  NoEarlier(new[m], new[n])
    BY <1>6, LenProperties DEF Rising
  <2>1. first + m - 1 <= first + n - 1
    BY <1>1, <1>7
  <2> QED  BY <1>8, <1>11, <2>1
<1>13. \A n \in 2..Len(new) : new[n].at - new[n - 1].at >= RATE_SAMPLE
  <2> TAKE n \in 2..Len(new)
  <2>1. n \in 1..Len(new) /\ n - 1 \in 1..Len(new)
    BY <1>7
  <2>2. new[n] = grown[first + n - 1] /\ new[n - 1] = grown[first + (n - 1) - 1]
    BY <1>8, <2>1
  <2>3. first + n - 1 \in 2..(size + 1) /\ first + (n - 1) - 1 = (first + n - 1) - 1
    BY <1>1, <1>8, <2>1
  <2> QED  BY <1>10, <2>2, <2>3
<1>14. tick.at - new[1].at <= RATE_WINDOW
  <2>1. 1 \in 1..Len(new) /\ first + 1 - 1 = first
    BY <1>7
  <2>2. new[1] = grown[first]
    BY <1>8, <2>1
  <2>3. CASE first = size + 1
    BY <1>1, <1>2, <1>3, <2>2, <2>3
  <2>4. CASE first # size + 1
    BY <1>1, <1>6, <2>2, <2>4 DEF StaysIn
  <2> QED  BY <2>3, <2>4
<1>15. Short(new)
    BY <1>7, <1>13, <1>14 DEF Short
<1>16. Newest(new) = tick
    BY <1>7 DEF Newest
<1>17. Outcome(new, rates, tick)
    BY <1>6, <1>7, <1>9, <1>12, <1>15 DEF Outcome, size
<1> QED  BY <1>16, <1>17 DEF new, grown

\* A window whose newest sample is to be replaced is one without its first.
LEMMA TailIsBehind ==
    ASSUME NEW rates \in Seq(Samples), rates # <<>>, Short(rates), Rising(rates),
           NEW tick \in Samples, \A n \in 1..Len(rates) : NoEarlier(rates[n], tick),
           tick.at - rates[Len(rates)].at >= RATE_SAMPLE
    PROVE  /\ Tail(rates) \in Seq(Samples) /\ Len(Tail(rates)) = Len(rates) - 1
           /\ \A n \in 1..Len(Tail(rates)) : \E k \in 1..Len(rates) : Tail(rates)[n] = rates[k]
           /\ Spaced(Tail(rates)) /\ Rising(Tail(rates)) /\ AllBefore(Tail(rates), tick)
<1> DEFINE tail == Tail(rates)
           size == Len(rates)
<1>1. /\ tail \in Seq(Samples) /\ Len(tail) = size - 1
      /\ \A n \in 1..Len(tail) : tail[n] = rates[n + 1]
    BY HeadTailProperties
<1>2. size \in Nat /\ size > 0
    BY EmptySeq, LenProperties
<1> HIDE DEF tail
<1>3. \A n \in 1..Len(tail) : n + 1 \in 1..size /\ tail[n] = rates[n + 1]
    BY <1>1, <1>2
<1>4. Spaced(tail)
  <2> SUFFICES ASSUME NEW n \in 2..Len(tail)
               PROVE  tail[n].at - tail[n - 1].at >= RATE_SAMPLE
    BY DEF Spaced
  <2>1. n \in 1..Len(tail) /\ n - 1 \in 1..Len(tail) /\ (n - 1) + 1 = n
        /\ n + 1 \in 2..size /\ (n + 1) - 1 = n
    BY <1>1, <1>2
  <2>2. rates[n + 1].at - rates[(n + 1) - 1].at >= RATE_SAMPLE
    BY <2>1 DEF Short
  <2>3. tail[n] = rates[n + 1] /\ tail[n - 1] = rates[n]
    BY <1>3, <2>1
  <2> QED  BY <2>1, <2>2, <2>3
<1>5. Rising(tail)
  <2> SUFFICES ASSUME NEW m \in 1..Len(tail), NEW n \in 1..Len(tail), m <= n
               PROVE  NoEarlier(tail[m], tail[n])
    BY <1>1, LenProperties DEF Rising
  <2>1. m + 1 <= n + 1
    BY <1>1, <1>2
  <2>2. DOMAIN rates = 1..size
    BY LenProperties
  <2> QED  BY <1>3, <2>1, <2>2 DEF Rising
<1>6. \A n \in 1..Len(tail) : NoEarlier(tail[n], tick)
    BY <1>3
<1>7. Len(tail) > 0 => tail[Len(tail)] = rates[size]
  <2> SUFFICES ASSUME Len(tail) > 0
               PROVE  tail[Len(tail)] = rates[size]
    OBVIOUS
  <2>1. Len(tail) \in 1..Len(tail) /\ Len(tail) + 1 = size
    BY <1>1, <1>2
  <2> QED  BY <1>3, <2>1
<1>8. AllBefore(tail, tick)
    BY <1>6, <1>7 DEF AllBefore
<1>9. \A n \in 1..Len(tail) : \E k \in 1..size : tail[n] = rates[k]
    BY <1>3
<1> QED  BY <1>1, <1>4, <1>5, <1>8, <1>9 DEF tail

\* What the window is after a tick of counters that only grow.
LEMMA PushKeepsWindow ==
    ASSUME NEW rates \in Seq(Samples), Short(rates), Rising(rates), StatusBarAssumption,
           NEW tick \in Samples, \A n \in 1..Len(rates) : NoEarlier(rates[n], tick)
    PROVE  /\ Outcome(RatePush(rates, tick), rates, tick)
           /\ (Len(rates) > 0 => rates[Len(rates)].at <= tick.at) =>
                /\ Newest(RatePush(rates, tick)).at <= tick.at
                /\ tick.at - Newest(RatePush(rates, tick)).at < RATE_SAMPLE
<1> DEFINE new == RatePush(rates, tick)
           size == Len(rates)
<1>1. size \in Nat /\ (rates = <<>> <=> size = 0) /\ \A n \in 1..size : rates[n] \in Samples
    BY LenProperties, EmptySeq, ElementOfSeq
<1>2. RATE_SAMPLE \in Nat \ {0} /\ RATE_WINDOW \in Nat /\ RATE_SAMPLES \in Nat \ {0}
    BY DEF StatusBarAssumption
<1>3. tick.at \in Int /\ tick.bytes \in Nat /\ tick.packets \in Nat
    BY DEF Samples
<1>4. size > 0 => rates[size] \in Samples /\ rates[size].at \in Int
    BY <1>1 DEF Samples
<1>5. CASE rates # <<>> /\ tick.at < rates[size].at
  <2>1. new = <<tick>>
    BY <1>5 DEF RatePush, Newest
  <2>2. Short(<<tick>>)
    BY <1>2, <1>3 DEF Short
  <2>3. Rising(<<tick>>)
    BY <1>3 DEF Rising, NoEarlier
  <2>4. Outcome(<<tick>>, rates, tick)
    BY <2>2, <2>3 DEF Outcome
  <2> QED  BY <1>1, <1>3, <1>4, <1>5, <2>1, <2>4
<1>6. CASE rates # <<>> /\ tick.at >= rates[size].at /\ tick.at - rates[size].at < RATE_SAMPLE
  <2>1. new = rates
    BY <1>1, <1>3, <1>4, <1>6 DEF RatePush, Newest
  <2>2. Outcome(rates, rates, tick)
    BY <1>1, <1>6 DEF Outcome
  <2> QED  BY <1>1, <1>6, <2>1, <2>2 DEF Newest
<1>7. CASE rates # <<>> /\ tick.at - rates[size].at >= RATE_SAMPLE
  <2>1. new = PushedUnder(rates, tick)
    BY <1>1, <1>2, <1>3, <1>4, <1>7 DEF RatePush, Newest
  <2>2. CASE size = RATE_SAMPLES
    <3>1. new = Pruned(Append(Tail(rates), tick), tick.at)
      BY <2>1, <2>2 DEF PushedUnder
    <3>2. /\ Tail(rates) \in Seq(Samples) /\ Len(Tail(rates)) = size - 1
          /\ \A n \in 1..Len(Tail(rates)) : \E k \in 1..size : Tail(rates)[n] = rates[k]
          /\ Spaced(Tail(rates)) /\ Rising(Tail(rates)) /\ AllBefore(Tail(rates), tick)
      BY <1>7, TailIsBehind
    <3>3. Len(Tail(rates)) < RATE_SAMPLES
      BY <1>2, <2>2, <3>2
    <3>4. Outcome(new, Tail(rates), tick) /\ Newest(new) = tick
      BY <3>1, <3>2, <3>3, AppendedIsPruned
    <3>5. Outcome(new, rates, tick)
      BY <3>2, <3>4 DEF Outcome
    <3> QED  BY <1>2, <1>3, <3>4, <3>5
  <2>3. CASE size # RATE_SAMPLES
    <3>1. new = Pruned(Append(rates, tick), tick.at)
      BY <2>1, <2>3 DEF PushedUnder
    <3>2. size < RATE_SAMPLES /\ Spaced(rates) /\ AllBefore(rates, tick)
      BY <1>1, <1>2, <1>7, <2>3 DEF Short, Spaced, AllBefore
    <3>3. Outcome(new, rates, tick) /\ Newest(new) = tick
      BY <3>1, <3>2, AppendedIsPruned
    <3> QED  BY <1>2, <1>3, <3>3
  <2> QED  BY <2>2, <2>3
<1>8. CASE rates = <<>>
  <2>1. new = Pruned(Append(rates, tick), tick.at)
    BY <1>1, <1>2, <1>8 DEF RatePush, PushedUnder
  <2>2. size < RATE_SAMPLES /\ Spaced(rates) /\ AllBefore(rates, tick)
    BY <1>1, <1>2, <1>8 DEF Spaced, AllBefore
  <2>3. Outcome(new, rates, tick) /\ Newest(new) = tick
    BY <2>1, <2>2, AppendedIsPruned
  <2> QED  BY <1>2, <1>3, <2>3
<1> QED  BY <1>1, <1>2, <1>3, <1>4, <1>5, <1>6, <1>7, <1>8

-----------------------------------------------------------------------------
(***************************************************************************)
(* What came between two samples.  A sample of a moment counts the first  *)
(* k of what comes: all of those came by then, and no other did before.     *)
(***************************************************************************)
Timely(at, size, k, moment) ==
    /\ \A n \in 1..k : at[n] <= moment
    /\ \A n \in (k + 1)..size : at[n] >= moment - 1

UpTo(F, k) == F \intersect (1..k)
InSpan(F, at, first, final) == {n \in F : at[n] \in first..final}

\* Counting the elements of a set of positions.
LEMMA PartIsFinite ==
    ASSUME NEW size \in Nat, NEW F \in SUBSET (1..size)
    PROVE  IsFiniteSet(F) /\ Cardinality(F) \in Nat
<1>1. IsFiniteSet(1..size)
    BY FS_Interval
<1>2. IsFiniteSet(F)
    BY <1>1, FS_Subset
<1> QED  BY <1>2, FS_CardinalityType

LEMMA PartIsSmaller ==
    ASSUME NEW size \in Nat, NEW F \in SUBSET (1..size), NEW G \in SUBSET F
    PROVE  Cardinality(G) <= Cardinality(F)
<1>1. IsFiniteSet(F)
    BY PartIsFinite
<1> QED  BY <1>1, FS_Subset

\* What two samples differ by came between them, to within the tick at each end.
LEMMA BetweenSamples ==
    ASSUME NEW size \in Nat, NEW F \in SUBSET (1..size), NEW at \in [1..size -> Int],
           NEW k \in 0..size, NEW l \in 0..size, NEW since \in Int, NEW until \in Int,
           Timely(at, size, k, since), Timely(at, size, l, until),
           Cardinality(UpTo(F, k)) <= Cardinality(UpTo(F, l))
    PROVE  /\ Cardinality(InSpan(F, at, since + 1, until - 2))
                <= Cardinality(UpTo(F, l)) - Cardinality(UpTo(F, k))
           /\ Cardinality(UpTo(F, l)) - Cardinality(UpTo(F, k))
                <= Cardinality(InSpan(F, at, since - 1, until))
<1> DEFINE new == UpTo(F, l) \ UpTo(F, k)
           inner == InSpan(F, at, since + 1, until - 2)
           outer == InSpan(F, at, since - 1, until)
<1>1. \A n \in F : n \in 1..size /\ at[n] \in Int
    OBVIOUS
<1>2. /\ UpTo(F, l) \in SUBSET (1..size) /\ UpTo(F, k) \in SUBSET (1..size)
      /\ new \in SUBSET (1..size) /\ inner \in SUBSET (1..size) /\ outer \in SUBSET (1..size)
    BY DEF UpTo, InSpan
<1>3. /\ Cardinality(UpTo(F, l)) \in Nat /\ Cardinality(UpTo(F, k)) \in Nat
      /\ Cardinality(new) \in Nat /\ Cardinality(inner) \in Nat /\ Cardinality(outer) \in Nat
      /\ IsFiniteSet(UpTo(F, l)) /\ IsFiniteSet(UpTo(F, k))
  <2> HIDE DEF new, inner, outer
  <2> QED  BY <1>2, PartIsFinite
<1>4. inner \subseteq new
  <2> SUFFICES ASSUME NEW n \in F, at[n] \in (since + 1)..(until - 2)
               PROVE  n \in 1..l /\ n \notin 1..k
    BY DEF InSpan, UpTo
  <2>1. n \in 1..size /\ at[n] \in Int /\ at[n] > since /\ at[n] < until - 1
    BY <1>1
  <2>2. n \notin 1..k
    BY <2>1 DEF Timely
  <2>3. n \notin (l + 1)..size
    BY <2>1 DEF Timely
  <2> QED  BY <2>1, <2>2, <2>3
<1>5. new \subseteq outer
  <2> SUFFICES ASSUME NEW n \in F, n \in 1..l, n \notin 1..k
               PROVE  at[n] \in (since - 1)..until
    BY DEF InSpan, UpTo
  <2>1. n \in 1..size /\ at[n] \in Int /\ n \in (k + 1)..size
    BY <1>1
  <2>2. at[n] >= since - 1
    BY <2>1 DEF Timely
  <2>3. at[n] <= until
    BY DEF Timely
  <2> QED  BY <2>1, <2>2, <2>3
<1>6. Cardinality(inner) <= Cardinality(new) /\ Cardinality(new) <= Cardinality(outer)
  <2> HIDE DEF new, inner, outer
  <2> QED  BY <1>2, <1>4, <1>5, PartIsSmaller
<1>7. Cardinality(new) = Cardinality(UpTo(F, l)) - Cardinality(UpTo(F, k))
  <2>1. CASE k <= l
    <3>1. UpTo(F, l) \intersect UpTo(F, k) = UpTo(F, k)
      BY <2>1 DEF UpTo
    <3> QED  BY <1>3, <3>1, FS_Difference
  <2>2. CASE l < k
    <3>1. UpTo(F, l) \in SUBSET UpTo(F, k)
      BY <2>2 DEF UpTo
    <3>2. new = {}
      BY <3>1
    <3>3. Cardinality(UpTo(F, l)) <= Cardinality(UpTo(F, k))
      BY <1>2, <3>1, PartIsSmaller
    <3>4. Cardinality(new) = 0
      BY <3>2, FS_EmptySet
    <3> QED  BY <1>3, <3>3, <3>4
  <2> QED  BY <2>1, <2>2
<1> HIDE DEF new, inner, outer
<1>8. /\ Cardinality(inner) <= Cardinality(UpTo(F, l)) - Cardinality(UpTo(F, k))
      /\ Cardinality(UpTo(F, l)) - Cardinality(UpTo(F, k)) <= Cardinality(outer)
    BY <1>6, <1>7
<1> QED  BY <1>8 DEF inner, outer

\* What is appended does not change how much of the beginning there is.
LEMMA AllUpTo ==
    ASSUME NEW size \in Nat, NEW k \in 0..size
    PROVE  Cardinality(UpTo(1..size, k)) = k
<1>1. UpTo(1..size, k) = 1..k
    BY DEF UpTo
<1>2. Cardinality(1..k) = k
    BY FS_Interval
<1> QED  BY <1>1, <1>2

-----------------------------------------------------------------------------
(***************************************************************************)
(* The status bar.  While the clock was not set back, each sample is of     *)
(* what had come by then, and what is being copied is of what had come      *)
(* since the copy began.                                                    *)
(***************************************************************************)
Chunks == [at : Int, packet : BOOLEAN]
Counters == [bytes : Nat, packets : Nat, last : Int \cup {None}]
Copies == [running : BOOLEAN, bytes : Nat, begun : Int, packets : Nat \cup {None},
           last : Int \cup {None}, decoded : Nat]
Statuses == [snapshot : Counters, taken : Int, running : BOOLEAN, rates : Seq(Samples),
             opened : Int \cup {None}]
Bars == [now : Int, set_back : BOOLEAN, running : BOOLEAN, chunks : Seq(Chunks), decoded : Nat,
         stats : Counters, drawing : Copies \cup {None}, drawn : Nat, status : Statuses]

AtOf(chunks) == [n \in 1..Len(chunks) |-> chunks[n].at]
WithPacket(chunks) == {n \in 1..Len(chunks) : chunks[n].packet}
PacketsIn(chunks, k) == Cardinality(UpTo(WithPacket(chunks), k))

\* The counters count what came and only grow.
Counting(chunks, counters, drawing, rates) ==
    /\ counters.bytes = Len(chunks) /\ counters.packets = PacketsIn(chunks, Len(chunks))
    /\ Short(rates) /\ Rising(rates)
    /\ \A n \in 1..Len(rates) : NoEarlier(rates[n], counters)
    /\ drawing # None =>
        /\ drawing.bytes <= counters.bytes
        /\ \A n \in 1..Len(rates) : rates[n].bytes <= drawing.bytes
        /\ drawing.packets # None =>
            /\ drawing.packets <= counters.packets
            /\ \A n \in 1..Len(rates) : rates[n].packets <= drawing.packets

SampleIs(chunks, sample) ==
    /\ sample.bytes \in 0..Len(chunks)
    /\ Timely(AtOf(chunks), Len(chunks), sample.bytes, sample.at)
    /\ \E k \in 0..Len(chunks) :
        /\ sample.packets = PacketsIn(chunks, k)
        /\ Timely(AtOf(chunks), Len(chunks), k, sample.at)

\* None but the first k came before.
NoneBefore(chunks, k, moment) == \A n \in (k + 1)..Len(chunks) : chunks[n].at >= moment

Timing(now, chunks, drawing, status) ==
    /\ \A n \in 1..Len(chunks) : chunks[n].at <= now
    /\ \A m, n \in 1..Len(chunks) : m <= n => chunks[m].at <= chunks[n].at
    /\ \A n \in 1..Len(status.rates) :
        SampleIs(chunks, status.rates[n]) /\ status.rates[n].at <= now
    /\ drawing # None =>
        /\ drawing.begun <= now /\ now <= drawing.begun + 1
        /\ drawing.bytes \in 0..Len(chunks)
        /\ NoneBefore(chunks, drawing.bytes, drawing.begun)
        /\ drawing.packets # None =>
            \E k \in 0..Len(chunks) :
                drawing.packets = PacketsIn(chunks, k) /\ NoneBefore(chunks, k, drawing.begun)
    /\ status.opened # None =>
        /\ status.taken <= now
        /\ Len(status.rates) > 0
        /\ Newest(status.rates).at <= status.taken
        /\ status.taken - Newest(status.rates).at < RATE_SAMPLE

\* The last packet among the first k.
LastIs(chunks, k, last_packet) ==
    /\ k \in 0..Len(chunks)
    /\ last_packet = None => \A n \in 1..k : ~chunks[n].packet
    /\ last_packet # None =>
        /\ \E n \in 1..k : chunks[n].packet /\ chunks[n].at = last_packet
        /\ \A n \in 1..k : chunks[n].packet => chunks[n].at <= last_packet

Remembering(chunks, decoded, last_packet, drawing, drawn, status) ==
    /\ LastIs(chunks, decoded, last_packet)
    /\ drawing # None => LastIs(chunks, drawing.decoded, drawing.last)
    /\ LastIs(chunks, drawn, status.snapshot.last)
    /\ status.snapshot.last # None => status.snapshot.last <= status.taken

BarInv ==
    /\ bar \in Bars /\ bar.decoded <= Len(bar.chunks)
    /\ Counting(bar.chunks, bar.stats, bar.drawing, bar.status.rates)
    /\ ~bar.set_back =>
        /\ Timing(bar.now, bar.chunks, bar.drawing, bar.status)
        /\ Remembering(bar.chunks, bar.decoded, bar.stats.last, bar.drawing, bar.drawn,
                       bar.status)

\* The chunks that came, and those of them with a packet.
LEMMA ChunksAre ==
    ASSUME NEW chunks \in Seq(Chunks)
    PROVE  /\ Len(chunks) \in Nat /\ DOMAIN chunks = 1..Len(chunks)
           /\ \A n \in 1..Len(chunks) : chunks[n].at \in Int /\ chunks[n].packet \in BOOLEAN
           /\ AtOf(chunks) \in [1..Len(chunks) -> Int]
           /\ WithPacket(chunks) \in SUBSET (1..Len(chunks))
<1>1. Len(chunks) \in Nat /\ DOMAIN chunks = 1..Len(chunks)
    BY LenProperties
<1>2. \A n \in 1..Len(chunks) : chunks[n] \in Chunks
    BY ElementOfSeq
<1>3. \A n \in 1..Len(chunks) : chunks[n].at \in Int /\ chunks[n].packet \in BOOLEAN
    BY <1>2 DEF Chunks
<1> QED  BY <1>1, <1>3 DEF AtOf, WithPacket

LEMMA PacketsInIsNat ==
    ASSUME NEW chunks \in Seq(Chunks), NEW k \in 0..Len(chunks)
    PROVE  PacketsIn(chunks, k) \in Nat
<1>1. UpTo(WithPacket(chunks), k) \in SUBSET (1..Len(chunks)) /\ Len(chunks) \in Nat
    BY ChunksAre DEF UpTo
<1> HIDE DEF UpTo
<1> QED  BY <1>1, PartIsFinite DEF PacketsIn

LEMMA ChunkAppended ==
    ASSUME NEW chunks \in Seq(Chunks), NEW c \in Chunks
    PROVE  /\ Append(chunks, c) \in Seq(Chunks) /\ Len(Append(chunks, c)) = Len(chunks) + 1
           /\ \A n \in 1..Len(chunks) : Append(chunks, c)[n] = chunks[n]
           /\ Append(chunks, c)[Len(chunks) + 1] = c
  BY AppendProperties

\* One chunk more changes nothing before it, and counts itself.
LEMMA BeginningStays ==
    ASSUME NEW chunks \in Seq(Chunks), NEW c \in Chunks, NEW k \in 0..Len(chunks)
    PROVE  PacketsIn(Append(chunks, c), k) = PacketsIn(chunks, k)
<1>1. UpTo(WithPacket(Append(chunks, c)), k) = UpTo(WithPacket(chunks), k)
  <2>1. Len(chunks) \in Nat
    BY LenProperties
  <2>2. \A n \in 1..k : n \in 1..Len(chunks) /\ n \in 1..Len(Append(chunks, c))
    BY <2>1, ChunkAppended
  <2>3. \A n \in 1..k : n \in WithPacket(Append(chunks, c)) <=> n \in WithPacket(chunks)
    BY <2>2, ChunkAppended DEF WithPacket
  <2> QED  BY <2>3 DEF UpTo
<1> QED  BY <1>1 DEF PacketsIn

LEMMA EndCounts ==
    ASSUME NEW chunks \in Seq(Chunks), NEW c \in Chunks
    PROVE  PacketsIn(Append(chunks, c), Len(chunks) + 1)
                = PacketsIn(chunks, Len(chunks)) + (IF c.packet THEN 1 ELSE 0)
<1> DEFINE size == Len(chunks)
           new == Append(chunks, c)
           old == UpTo(WithPacket(chunks), size)
<1>1. size \in Nat /\ size + 1 \notin 1..size
    BY LenProperties
<1>2. old \in SUBSET (1..size)
    BY DEF UpTo
<1>3. IsFiniteSet(old)
    BY <1>1, <1>2, PartIsFinite
<1>4. \A n \in 1..size : n \in WithPacket(new) <=> n \in WithPacket(chunks)
    BY <1>1, ChunkAppended DEF WithPacket
<1>5. size + 1 \in WithPacket(new) <=> c.packet
    BY <1>1, ChunkAppended DEF WithPacket
<1>6. 1..(size + 1) = (1..size) \cup {size + 1}
    BY <1>1
<1>7. UpTo(WithPacket(new), size + 1) = IF c.packet THEN old \cup {size + 1} ELSE old
    BY <1>4, <1>5, <1>6 DEF UpTo
<1>8. size + 1 \notin old
    BY <1>1, <1>2
<1> HIDE DEF old, new
<1>9. CASE c.packet
  <2>1. Cardinality(old \cup {size + 1}) = Cardinality(old) + 1
    BY <1>3, <1>8, FS_AddElement
  <2> QED  BY <1>7, <1>9, <2>1 DEF PacketsIn, old, new
<1>10. CASE ~c.packet
  <2>1. Cardinality(old) \in Nat
    BY <1>3, FS_CardinalityType
  <2>2. UpTo(WithPacket(new), size + 1) = old
    BY <1>7, <1>10
  <2>3. Cardinality(UpTo(WithPacket(new), size + 1)) = Cardinality(old) + 0
    BY <2>1, <2>2
  <2> QED  BY <1>10, <2>3 DEF PacketsIn, old, new
<1> QED  BY <1>9, <1>10

\* A sample of an earlier moment stays one when a chunk arrives.
LEMMA TimelyStays ==
    ASSUME NEW chunks \in Seq(Chunks), NEW c \in Chunks, NEW k \in 0..Len(chunks),
           NEW moment \in Int, c.at >= moment - 1,
           Timely(AtOf(chunks), Len(chunks), k, moment)
    PROVE  Timely(AtOf(Append(chunks, c)), Len(Append(chunks, c)), k, moment)
<1> DEFINE size == Len(chunks)
           new == Append(chunks, c)
<1>1. size \in Nat /\ Len(new) = size + 1
    BY LenProperties, ChunkAppended
<1>2. \A n \in 1..size : AtOf(new)[n] = AtOf(chunks)[n]
    BY <1>1, ChunkAppended DEF AtOf
<1>3. AtOf(new)[size + 1] = c.at
    BY <1>1, ChunkAppended DEF AtOf
<1>4. \A n \in 1..k : AtOf(new)[n] <= moment
    BY <1>1, <1>2 DEF Timely
<1>5. ASSUME NEW n \in (k + 1)..(size + 1)
      PROVE  AtOf(new)[n] >= moment - 1
  <2>1. CASE n = size + 1
    BY <1>3, <2>1
  <2>2. CASE n \in (k + 1)..size
    BY <1>1, <1>2, <2>2 DEF Timely
  <2> QED  BY <1>1, <2>1, <2>2
<1> HIDE DEF new
<1> QED  BY <1>1, <1>4, <1>5 DEF Timely, new

LEMMA SampleStays ==
    ASSUME NEW chunks \in Seq(Chunks), NEW c \in Chunks, NEW sample \in Samples,
           SampleIs(chunks, sample), c.at >= sample.at - 1
    PROVE  SampleIs(Append(chunks, c), sample)
<1> DEFINE new == Append(chunks, c)
<1>1. Len(chunks) \in Nat /\ Len(new) = Len(chunks) + 1 /\ sample.at \in Int
    BY LenProperties, ChunkAppended DEF Samples
<1>2. sample.bytes \in 0..Len(chunks)
    BY DEF SampleIs
<1>3. Timely(AtOf(new), Len(new), sample.bytes, sample.at)
    BY <1>1, <1>2, TimelyStays DEF SampleIs
<1>4. PICK k \in 0..Len(chunks) :
        /\ sample.packets = PacketsIn(chunks, k)
        /\ Timely(AtOf(chunks), Len(chunks), k, sample.at)
    BY DEF SampleIs
<1>5. sample.packets = PacketsIn(new, k)
    BY <1>4, BeginningStays
<1>6. Timely(AtOf(new), Len(new), k, sample.at)
    BY <1>1, <1>4, TimelyStays
<1>7. k \in 0..Len(new) /\ sample.bytes \in 0..Len(new)
    BY <1>1, <1>2
<1> HIDE DEF new
<1> QED  BY <1>3, <1>5, <1>6, <1>7 DEF SampleIs, new

\* CameWithin counts the positions in a span of time.
LEMMA CameInSpan ==
    ASSUME bar.chunks \in Seq(Chunks), NEW first \in Int, NEW final \in Int
    PROVE  /\ CameWithin(first, final, "bytes")
                = Cardinality(InSpan(1..Len(bar.chunks), AtOf(bar.chunks), first, final))
           /\ CameWithin(first, final, "packets")
                = Cardinality(InSpan(WithPacket(bar.chunks), AtOf(bar.chunks), first, final))
<1> DEFINE came(what) == {n \in DOMAIN bar.chunks :
                            /\ bar.chunks[n].at \in first..final
                            /\ what = "packets" => bar.chunks[n].packet}
<1>1. DOMAIN bar.chunks = 1..Len(bar.chunks)
    BY ChunksAre
<1>2. \A n \in 1..Len(bar.chunks) : AtOf(bar.chunks)[n] = bar.chunks[n].at
    BY DEF AtOf
<1>3. came("bytes") = InSpan(1..Len(bar.chunks), AtOf(bar.chunks), first, final)
    BY <1>1, <1>2 DEF InSpan
<1>4. came("packets") = InSpan(WithPacket(bar.chunks), AtOf(bar.chunks), first, final)
    BY <1>1, <1>2 DEF InSpan, WithPacket
<1> QED  BY <1>3, <1>4 DEF CameWithin

LEMMA CameFirst ==
    ASSUME bar.chunks \in Seq(Chunks), NEW first \in Int, NEW final \in Int,
           NEW n \in 1..Len(bar.chunks), bar.chunks[n].at \in first..final
    PROVE  /\ CameWithin(first, final, "bytes") > 0
           /\ bar.chunks[n].packet => CameWithin(first, final, "packets") > 0
<1> DEFINE size == Len(bar.chunks)
           at == AtOf(bar.chunks)
           any == InSpan(1..size, at, first, final)
           some == InSpan(WithPacket(bar.chunks), at, first, final)
<1>1. size \in Nat /\ WithPacket(bar.chunks) \in SUBSET (1..size)
    BY ChunksAre
<1>2. any \in SUBSET (1..size) /\ some \in SUBSET (1..size)
    BY <1>1 DEF InSpan
<1>3. n \in any /\ (bar.chunks[n].packet => n \in some)
    BY DEF InSpan, AtOf, WithPacket
<1> HIDE DEF any, some
<1>4. /\ IsFiniteSet(any) /\ IsFiniteSet(some)
      /\ Cardinality(any) \in Nat /\ Cardinality(some) \in Nat
    BY <1>1, <1>2, PartIsFinite
<1>5. Cardinality(any) # 0 /\ (bar.chunks[n].packet => Cardinality(some) # 0)
    BY <1>3, <1>4, FS_EmptySet
<1>6. Cardinality(any) > 0 /\ (bar.chunks[n].packet => Cardinality(some) > 0)
    BY <1>4, <1>5
<1> QED  BY <1>6, CameInSpan DEF any, some

LEMMA BarIsTyped ==
    ASSUME BarInv
    PROVE  /\ bar.chunks \in Seq(Chunks) /\ bar.status.rates \in Seq(Samples)
           /\ bar.now \in Int /\ bar.status.taken \in Int
           /\ bar.status.opened \in Int \cup {None}
           /\ bar.status.running \in BOOLEAN
           /\ bar.status.snapshot.last \in Int \cup {None}
  BY DEF BarInv, Bars, Statuses, Counters

\* Of two samples or more, the first and the last.
LEMMA RatesAre ==
    ASSUME BarInv, Len(bar.status.rates) >= 2
    PROVE  /\ 1 \in 1..Len(bar.status.rates)
           /\ Len(bar.status.rates) \in 1..Len(bar.status.rates)
           /\ Head(bar.status.rates) = bar.status.rates[1]
           /\ bar.status.rates[1] \in Samples
           /\ bar.status.rates[Len(bar.status.rates)] \in Samples
           /\ NoEarlier(bar.status.rates[1], bar.status.rates[Len(bar.status.rates)])
<1>1. Len(bar.status.rates) \in Nat /\ DOMAIN bar.status.rates = 1..Len(bar.status.rates)
    BY BarIsTyped, LenProperties
<1>2. 1 \in 1..Len(bar.status.rates) /\ Len(bar.status.rates) \in 1..Len(bar.status.rates)
    BY <1>1
<1>3. Head(bar.status.rates) = bar.status.rates[1]
    OBVIOUS
<1>4. Rising(bar.status.rates)
    BY DEF BarInv, Counting
<1>5. NoEarlier(bar.status.rates[1], bar.status.rates[Len(bar.status.rates)])
    BY <1>1, <1>2, <1>4 DEF Rising
<1> QED  BY <1>2, <1>3, <1>5, BarIsTyped, ElementOfSeq

\* The four things BarIsRecent says, from the invariant: what the rates count,
\* that they are not negative, that they are recent, and the lamp.
LEMMA RatesCount ==
    ASSUME BarInv, ~bar.set_back
    PROVE  RateIsWhatCame(bar.status)
<1> DEFINE rates == bar.status.rates
           size == Len(bar.chunks)
           at == AtOf(bar.chunks)
           a == rates[1]
           z == rates[Len(rates)]
<1> SUFFICES ASSUME Len(rates) >= 2
             PROVE  \A what \in {"bytes", "packets"} :
                        /\ RatesOver(bar.status)[what] >= CameWithin(a.at + 1, z.at - 2, what)
                        /\ RatesOver(bar.status)[what] <= CameWithin(a.at - 1, z.at, what)
    BY RatesAre DEF RateIsWhatCame, Newest
<1>1. a \in Samples /\ z \in Samples /\ NoEarlier(a, z)
    BY RatesAre
<1>2. SampleIs(bar.chunks, a) /\ SampleIs(bar.chunks, z)
    BY RatesAre DEF BarInv, Timing
<1>3. bar.chunks \in Seq(Chunks) /\ size \in Nat
      /\ at \in [1..size -> Int] /\ WithPacket(bar.chunks) \in SUBSET (1..size)
    BY BarIsTyped, ChunksAre
<1>4. /\ RatesOver(bar.status)["bytes"] = z.bytes - a.bytes
      /\ RatesOver(bar.status)["packets"] = z.packets - a.packets
  <2>1. ~(Len(rates) < 2)
    BY BarIsTyped, LenProperties
  <2> QED  BY <2>1, RatesAre DEF RatesOver, Newest
<1> HIDE DEF a, z, size, at
<1>5. /\ a.at \in Int /\ z.at \in Int
      /\ a.bytes <= z.bytes /\ a.packets <= z.packets
    BY <1>1 DEF Samples, NoEarlier
<1>6. /\ a.bytes \in 0..size /\ z.bytes \in 0..size
      /\ Timely(at, size, a.bytes, a.at) /\ Timely(at, size, z.bytes, z.at)
    BY <1>2 DEF SampleIs, size, at
<1>7. PICK k \in 0..size : a.packets = PacketsIn(bar.chunks, k) /\ Timely(at, size, k, a.at)
    BY <1>2 DEF SampleIs, size, at
<1>8. PICK l \in 0..size : z.packets = PacketsIn(bar.chunks, l) /\ Timely(at, size, l, z.at)
    BY <1>2 DEF SampleIs, size, at
<1>9. a.at + 1 \in Int /\ z.at - 2 \in Int /\ a.at - 1 \in Int
    BY <1>5
<1>10. /\ CameWithin(a.at + 1, z.at - 2, "bytes") <= z.bytes - a.bytes
       /\ z.bytes - a.bytes <= CameWithin(a.at - 1, z.at, "bytes")
  <2> DEFINE F == 1..size
  <2>1. Cardinality(UpTo(F, a.bytes)) = a.bytes /\ Cardinality(UpTo(F, z.bytes)) = z.bytes
    BY <1>3, <1>6, AllUpTo
  <2>2. F \in SUBSET (1..size)
    OBVIOUS
  <2> HIDE DEF F
  <2>3. /\ Cardinality(InSpan(F, at, a.at + 1, z.at - 2)) <= z.bytes - a.bytes
        /\ z.bytes - a.bytes <= Cardinality(InSpan(F, at, a.at - 1, z.at))
    BY <1>3, <1>5, <1>6, <2>1, <2>2, BetweenSamples
  <2>4. /\ CameWithin(a.at + 1, z.at - 2, "bytes")
            = Cardinality(InSpan(F, at, a.at + 1, z.at - 2))
        /\ CameWithin(a.at - 1, z.at, "bytes") = Cardinality(InSpan(F, at, a.at - 1, z.at))
    BY <1>3, <1>5, <1>9, CameInSpan DEF F, size, at
  <2> QED  BY <2>3, <2>4
<1>11. /\ CameWithin(a.at + 1, z.at - 2, "packets") <= z.packets - a.packets
       /\ z.packets - a.packets <= CameWithin(a.at - 1, z.at, "packets")
  <2> DEFINE F == WithPacket(bar.chunks)
  <2>1. Cardinality(UpTo(F, k)) = a.packets /\ Cardinality(UpTo(F, l)) = z.packets
    BY <1>7, <1>8 DEF PacketsIn
  <2>2. F \in SUBSET (1..size)
    BY <1>3
  <2> HIDE DEF F
  <2>3. /\ Cardinality(InSpan(F, at, a.at + 1, z.at - 2)) <= z.packets - a.packets
        /\ z.packets - a.packets <= Cardinality(InSpan(F, at, a.at - 1, z.at))
    BY <1>3, <1>5, <1>7, <1>8, <2>1, <2>2, BetweenSamples
  <2>4. /\ CameWithin(a.at + 1, z.at - 2, "packets")
            = Cardinality(InSpan(F, at, a.at + 1, z.at - 2))
        /\ CameWithin(a.at - 1, z.at, "packets") = Cardinality(InSpan(F, at, a.at - 1, z.at))
    BY <1>3, <1>5, <1>9, CameInSpan DEF F, size, at
  <2> QED  BY <2>3, <2>4
<1>12. ASSUME NEW n \in Int, NEW first, NEW final, first <= n, n <= final
       PROVE  n >= first /\ n <= final
    BY <1>12
<1> QED  BY <1>4, <1>10, <1>11

LEMMA RatesGrow ==
    ASSUME BarInv
    PROVE  RatesOver(bar.status).bytes >= 0 /\ RatesOver(bar.status).packets >= 0
<1>1. CASE Len(bar.status.rates) < 2
  BY <1>1 DEF RatesOver
<1>2. CASE Len(bar.status.rates) >= 2
  <2> DEFINE a == bar.status.rates[1]
             z == bar.status.rates[Len(bar.status.rates)]
  <2>1. a \in Samples /\ z \in Samples /\ NoEarlier(a, z)
    BY <1>2, RatesAre
  <2>2. ~(Len(bar.status.rates) < 2)
    BY <1>2, BarIsTyped, LenProperties
  <2>3. /\ RatesOver(bar.status).bytes = z.bytes - a.bytes
        /\ RatesOver(bar.status).packets = z.packets - a.packets
    BY <1>2, <2>2, RatesAre DEF RatesOver, Newest
  <2> HIDE DEF a, z
  <2>4. /\ a.bytes \in Nat /\ a.packets \in Nat /\ z.bytes \in Nat /\ z.packets \in Nat
        /\ a.bytes <= z.bytes /\ a.packets <= z.packets
    BY <2>1 DEF Samples, NoEarlier
  <2> QED  BY <2>3, <2>4
<1> QED  BY <1>1, <1>2, BarIsTyped, LenProperties

LEMMA RatesAreRecent ==
    ASSUME BarInv, StatusBarAssumption, ~bar.set_back, bar.status.opened # None
    PROVE  RateIsRecent(bar.status)
<1> DEFINE rates == bar.status.rates
           taken == bar.status.taken
           a == rates[1]
           z == rates[Len(rates)]
<1>1. /\ rates \in Seq(Samples) /\ Len(rates) \in Nat /\ Len(rates) > 0 /\ taken \in Int
      /\ z \in Samples /\ z.at <= taken /\ taken - z.at < RATE_SAMPLE
  <2>1. rates \in Seq(Samples) /\ Len(rates) \in Nat /\ taken \in Int
    BY BarIsTyped, LenProperties
  <2>2. Len(rates) > 0 /\ Newest(rates).at <= taken /\ taken - Newest(rates).at < RATE_SAMPLE
    BY DEF BarInv, Timing
  <2>3. Len(rates) \in 1..Len(rates)
    BY <2>1, <2>2
  <2> QED  BY <2>1, <2>2, <2>3, ElementOfSeq DEF Newest
<1>2. rates # <<>> /\ taken - Newest(rates).at < RATE_SAMPLE
  BY <1>1, EmptySeq DEF Newest
<1>3. ASSUME RatesOver(bar.status).bytes > 0
      PROVE  CameWithin(taken - RATE_WINDOW - RATE_SAMPLE, taken, "bytes") > 0
  <2>1. Len(rates) >= 2
    <3>1. SUFFICES ASSUME Len(rates) < 2  PROVE FALSE
      BY <1>1
    <3>2. RatesOver(bar.status).bytes = 0
      BY <3>1 DEF RatesOver
    <3> QED  BY <1>3, <3>2
  <2>2. a \in Samples
    BY <2>1, RatesAre
  <2>3. RatesOver(bar.status).bytes = z.bytes - a.bytes
    <3>1. ~(Len(rates) < 2)
      BY <1>1, <2>1
    <3> QED  BY <2>1, <3>1, RatesAre DEF RatesOver, Newest
  <2>4. z.at - a.at <= RATE_WINDOW
    BY <1>1 DEF BarInv, Counting, Short
  <2>5. SampleIs(bar.chunks, a) /\ SampleIs(bar.chunks, z)
    BY <2>1, RatesAre DEF BarInv, Timing
  <2>6. bar.chunks \in Seq(Chunks) /\ Len(bar.chunks) \in Nat
        /\ AtOf(bar.chunks) \in [1..Len(bar.chunks) -> Int]
    BY BarIsTyped, ChunksAre
  <2> HIDE DEF a, z, taken, rates
  <2>7. a.at \in Int /\ z.at \in Int /\ a.bytes \in Nat /\ z.bytes \in Nat
    BY <1>1, <2>2 DEF Samples
  <2>8. z.bytes > a.bytes
    BY <1>3, <2>3, <2>7
  <2>9. z.bytes \in 1..Len(bar.chunks) /\ z.bytes \in (a.bytes + 1)..Len(bar.chunks)
    BY <2>5, <2>6, <2>7, <2>8 DEF SampleIs
  <2> DEFINE came == AtOf(bar.chunks)[z.bytes]
  <2>10. came \in Int /\ came = bar.chunks[z.bytes].at
    BY <2>6, <2>9 DEF AtOf
  <2>11. came <= z.at
    <3>1. z.bytes \in 1..z.bytes
      BY <2>7, <2>9
    <3> QED  BY <2>5, <3>1 DEF SampleIs, Timely
  <2>12. came >= a.at - 1
    BY <2>5, <2>9 DEF SampleIs, Timely
  <2> HIDE DEF came
  <2>13. RATE_WINDOW \in Int /\ RATE_SAMPLE \in Int
    BY DEF StatusBarAssumption
  <2>14. came \in (taken - RATE_WINDOW - RATE_SAMPLE)..taken
    <3>1. taken \in Int /\ z.at <= taken /\ taken - z.at < RATE_SAMPLE
      BY <1>1
    <3>2. came \in Int
      BY <2>10
    <3>3. came <= taken /\ came >= taken - RATE_WINDOW - RATE_SAMPLE
      BY <2>4, <2>7, <2>11, <2>12, <2>13, <3>1, <3>2
    <3> QED  BY <2>13, <3>1, <3>2, <3>3
  <2>15. taken - RATE_WINDOW - RATE_SAMPLE \in Int
    BY <1>1, <2>13
  <2> QED  BY <1>1, <2>6, <2>9, <2>10, <2>14, <2>15, CameFirst
<1> QED  BY <1>2, <1>3 DEF RateIsRecent

LEMMA LampTellsTrue ==
    ASSUME BarInv, StatusBarAssumption, ~bar.set_back, bar.status.opened # None
    PROVE  LampIsTrue(bar.status)
<1> DEFINE last_packet == bar.status.snapshot.last
           taken == bar.status.taken
           opened == bar.status.opened
           silence == taken - (IF last_packet = None THEN opened ELSE last_packet)
<1>1. /\ bar.chunks \in Seq(Chunks) /\ Len(bar.chunks) \in Nat
      /\ \A n \in 1..Len(bar.chunks) : bar.chunks[n].at \in Int
      /\ bar.drawn \in 0..Len(bar.chunks)
      /\ taken \in Int /\ opened \in Int /\ last_packet \in Int \cup {None}
      /\ LIVE_WINDOW \in Nat /\ QUIET_WINDOW \in Nat
      /\ \A n \in 1..bar.drawn : n \in 1..Len(bar.chunks)
  <2>1. bar.chunks \in Seq(Chunks) /\ bar.drawn \in 0..Len(bar.chunks)
    BY BarIsTyped DEF BarInv, Remembering, LastIs
  <2>2. Len(bar.chunks) \in Nat /\ \A n \in 1..Len(bar.chunks) : bar.chunks[n].at \in Int
    BY <2>1, ChunksAre
  <2>3. \A n \in 1..bar.drawn : n \in 1..Len(bar.chunks)
    BY <2>1, <2>2
  <2> QED  BY <2>1, <2>2, <2>3, BarIsTyped DEF StatusBarAssumption
<1>2. /\ last_packet = None => \A n \in 1..bar.drawn : ~bar.chunks[n].packet
      /\ last_packet # None =>
          /\ last_packet <= taken
          /\ \E n \in 1..bar.drawn : bar.chunks[n].packet /\ bar.chunks[n].at = last_packet
          /\ \A n \in 1..bar.drawn : bar.chunks[n].packet => bar.chunks[n].at <= last_packet
  BY DEF BarInv, Remembering, LastIs
<1>3. silence_seconds(bar.status) = silence
  BY DEF silence_seconds
<1> HIDE DEF last_packet, taken, opened
<1>4. silence \in Int
  BY <1>1
<1>5. /\ liveness(bar.status) = "Live" =>
            /\ bar.status.running
            /\ last_packet # None /\ silence <= LIVE_WINDOW
      /\ liveness(bar.status) = "Stopped" /\ bar.status.running => silence > QUIET_WINDOW
  <2> HIDE DEF silence
  <2> QED  BY <1>3 DEF liveness, last_packet, opened
<1>6. ASSUME liveness(bar.status) = "Live"
      PROVE  CameWithin(taken - LIVE_WINDOW, taken, "packets") > 0
  <2>1. last_packet # None /\ silence <= LIVE_WINDOW
    BY <1>5, <1>6
  <2>2. PICK n \in 1..bar.drawn : bar.chunks[n].packet /\ bar.chunks[n].at = last_packet
    BY <1>2, <2>1
  <2>3. n \in 1..Len(bar.chunks)
    BY <1>1
  <2>4. last_packet \in Int /\ last_packet <= taken /\ taken - last_packet <= LIVE_WINDOW
    BY <1>1, <1>2, <2>1
  <2>5. last_packet \in (taken - LIVE_WINDOW)..taken /\ taken - LIVE_WINDOW \in Int
    BY <1>1, <2>4
  <2> QED  BY <1>1, <2>2, <2>3, <2>5, CameFirst
<1>7. ASSUME liveness(bar.status) = "Stopped", bar.status.running
      PROVE  /\ DecodedPackets = {} => taken - opened > QUIET_WINDOW
             /\ \A n \in DecodedPackets : taken - bar.chunks[n].at > QUIET_WINDOW
  <2>1. silence > QUIET_WINDOW
    BY <1>5, <1>7
  <2>2. CASE last_packet = None
    <3>1. DecodedPackets = {}
      BY <1>2, <2>2 DEF DecodedPackets
    <3> QED  BY <2>1, <2>2, <3>1
  <2>3. CASE last_packet # None
    <3>1. DecodedPackets # {}
      BY <1>2, <2>3 DEF DecodedPackets
    <3>2. ASSUME NEW n \in DecodedPackets
          PROVE  taken - bar.chunks[n].at > QUIET_WINDOW
      <4>1. n \in 1..Len(bar.chunks) /\ bar.chunks[n].at <= last_packet
        BY <1>1, <1>2, <2>3 DEF DecodedPackets
      <4>2. bar.chunks[n].at \in Int /\ last_packet \in Int
        BY <1>1, <2>3, <4>1
      <4>3. taken - last_packet > QUIET_WINDOW
        BY <2>1, <2>3
      <4> QED  BY <1>1, <4>1, <4>2, <4>3
    <3> QED  BY <3>1, <3>2
  <2> QED  BY <2>2, <2>3
<1>8. last_packet = None => liveness(bar.status) # "Live"
  BY <1>5
<1> QED  BY <1>5, <1>6, <1>7, <1>8 DEF LampIsTrue, last_packet, taken, opened

LEMMA BarInvIsTrue ==
    ASSUME BarInv, StatusBarAssumption
    PROVE  BarIsTrue
<1>1. WindowIsShort(bar.status.rates)
  BY BarIsTyped, ShortIsWindow DEF BarInv, Counting
<1> QED  BY <1>1, RatesGrow, RatesCount, RatesAreRecent, LampTellsTrue DEF BarIsTrue

\* The bar begins in order.
LEMMA OpeningBegins ==
    ASSUME OpenBar, StatusBarAssumption
    PROVE  BarInv'
<1> DEFINE none == [bytes |-> 0, packets |-> 0, last |-> None]
<1>1. /\ bar'.now = 0 /\ bar'.chunks = <<>> /\ bar'.decoded = 0 /\ bar'.stats = none
      /\ bar'.drawing = None /\ bar'.drawn = 0 /\ bar'.status = NewStatus
  BY DEF OpenBar
<1>2. NewStatus.rates = <<>> /\ NewStatus.opened = None /\ NewStatus.snapshot = none
  BY DEF NewStatus
<1>3. NewStatus \in Statuses /\ none \in Counters
  BY DEF NewStatus, Statuses, Counters
<1>4. bar' \in Bars
  BY <1>3 DEF OpenBar, Bars
<1>5. PacketsIn(<<>>, 0) = 0
  <2>1. UpTo(WithPacket(<<>>), 0) = {}
    BY DEF UpTo
  <2> QED  BY <2>1, FS_EmptySet DEF PacketsIn
<1>6. Short(<<>>) /\ Rising(<<>>)
  BY DEF Short, Rising, StatusBarAssumption
<1>7. Counting(<<>>, none, None, <<>>)
  BY <1>5, <1>6 DEF Counting
<1>8. Timing(0, <<>>, None, NewStatus)
  BY <1>2 DEF Timing
<1>9. LastIs(<<>>, 0, None)
  BY DEF LastIs
<1>10. Remembering(<<>>, 0, None, None, 0, NewStatus)
  BY <1>2, <1>9 DEF Remembering
<1>11. none.last = None /\ NewStatus.rates = <<>>
  BY <1>2
<1> HIDE DEF none
<1> QED  BY <1>1, <1>4, <1>7, <1>8, <1>10, <1>11 DEF BarInv

\* Time passes: only what is being copied stops it.
LEMMA TimingTicks ==
    ASSUME NEW now \in Int, NEW chunks \in Seq(Chunks), NEW drawing \in Copies \cup {None},
           NEW status \in Statuses, Timing(now, chunks, drawing, status),
           drawing # None => now = drawing.begun
    PROVE  Timing(now + 1, chunks, drawing, status)
<1>1. /\ \A n \in 1..Len(chunks) : chunks[n].at \in Int
      /\ \A n \in 1..Len(status.rates) : status.rates[n].at \in Int
      /\ status.taken \in Int
  <2>1. status.rates \in Seq(Samples) /\ status.taken \in Int
    BY DEF Statuses
  <2>2. \A n \in 1..Len(status.rates) : status.rates[n] \in Samples
    BY <2>1, ElementOfSeq
  <2>3. \A n \in 1..Len(status.rates) : status.rates[n].at \in Int
    BY <2>2 DEF Samples
  <2> QED  BY <2>1, <2>3, ChunksAre
<1>2. \A n \in 1..Len(chunks) : chunks[n].at <= now + 1
  BY <1>1 DEF Timing
<1>3. \A n \in 1..Len(status.rates) :
        SampleIs(chunks, status.rates[n]) /\ status.rates[n].at <= now + 1
  BY <1>1 DEF Timing
<1>4. drawing # None => drawing.begun <= now + 1 /\ now + 1 <= drawing.begun + 1
  OBVIOUS
<1>5. status.opened # None => status.taken <= now + 1
  BY <1>1 DEF Timing
<1> QED  BY <1>2, <1>3, <1>4, <1>5 DEF Timing

\* Each step of the bar keeps the invariant.
LEMMA TickKeeps ==
    ASSUME BarInv, Tick
    PROVE  BarInv'
<1>1. bar \in Bars /\ bar.now \in Int
  BY BarIsTyped DEF BarInv
<1>2. bar' = [bar EXCEPT !.now = @ + 1] /\ (bar.drawing # None => bar.now = bar.drawing.begun)
  BY DEF Tick
<1>3. bar' \in Bars /\ bar'.now = bar.now + 1
  BY <1>1, <1>2 DEF Bars
<1>4. /\ bar'.set_back = bar.set_back /\ bar'.chunks = bar.chunks /\ bar'.decoded = bar.decoded
      /\ bar'.stats = bar.stats /\ bar'.drawing = bar.drawing /\ bar'.drawn = bar.drawn
      /\ bar'.status = bar.status
  BY <1>1, <1>2 DEF Bars
<1>5. /\ bar.chunks \in Seq(Chunks) /\ bar.drawing \in Copies \cup {None}
      /\ bar.status \in Statuses
  BY <1>1 DEF Bars
<1>6. ~bar.set_back => Timing(bar.now + 1, bar.chunks, bar.drawing, bar.status)
  BY <1>1, <1>2, <1>5, TimingTicks DEF BarInv
<1> QED  BY <1>3, <1>4, <1>6 DEF BarInv

LEMMA SetBackKeeps ==
    ASSUME BarInv, ClockSetBack, StatusBarAssumption
    PROVE  BarInv'
<1>1. bar \in Bars /\ bar.now \in Int
  BY BarIsTyped DEF BarInv
<1>2. PICK by \in SetBack : bar' = [bar EXCEPT !.now = @ - by, !.set_back = TRUE]
  BY DEF ClockSetBack
<1>3. bar.now - by \in Int
  BY <1>1, <1>2 DEF StatusBarAssumption
<1>4. bar' \in Bars /\ bar'.set_back = TRUE
  BY <1>1, <1>2, <1>3 DEF Bars
<1>5. /\ bar'.chunks = bar.chunks /\ bar'.decoded = bar.decoded /\ bar'.stats = bar.stats
      /\ bar'.drawing = bar.drawing /\ bar'.status = bar.status
  BY <1>1, <1>2 DEF Bars
<1> QED  BY <1>4, <1>5 DEF BarInv

LEMMA EndKeeps ==
    ASSUME BarInv, SourceEnds
    PROVE  BarInv'
<1>1. bar \in Bars
  BY DEF BarInv
<1>2. bar' = [bar EXCEPT !.running = FALSE]
  BY DEF SourceEnds
<1>3. bar' \in Bars
  BY <1>1, <1>2 DEF Bars
<1>4. /\ bar'.now = bar.now /\ bar'.set_back = bar.set_back /\ bar'.chunks = bar.chunks
      /\ bar'.decoded = bar.decoded /\ bar'.stats = bar.stats /\ bar'.drawing = bar.drawing
      /\ bar'.drawn = bar.drawn /\ bar'.status = bar.status
  BY <1>1, <1>2 DEF Bars
<1> QED  BY <1>3, <1>4 DEF BarInv

\* What a chunk that comes changes of what is counted, timed and remembered.
LEMMA CountingGrows ==
    ASSUME NEW chunks \in Seq(Chunks), NEW c \in Chunks, NEW counters \in Counters,
           NEW drawing \in Copies \cup {None}, NEW rates \in Seq(Samples),
           Counting(chunks, counters, drawing, rates), None \notin Int
    PROVE  \A last_packet :
             Counting(Append(chunks, c),
                      [bytes |-> counters.bytes + 1,
                       packets |-> counters.packets + (IF c.packet THEN 1 ELSE 0),
                       last |-> last_packet],
                      drawing, rates)
<1> TAKE last_packet
<1> DEFINE new == [bytes |-> counters.bytes + 1,
                   packets |-> counters.packets + (IF c.packet THEN 1 ELSE 0),
                   last |-> last_packet]
<1>1. /\ counters.bytes \in Nat /\ counters.packets \in Nat
      /\ \A n \in 1..Len(rates) : rates[n].bytes \in Nat /\ rates[n].packets \in Nat
  <2>1. \A n \in 1..Len(rates) : rates[n] \in Samples
    BY ElementOfSeq
  <2> QED  BY <2>1 DEF Counters, Samples
<1>2. counters.bytes = Len(chunks) /\ counters.packets = PacketsIn(chunks, Len(chunks))
  BY DEF Counting
<1>3. /\ new.bytes = Len(Append(chunks, c))
      /\ new.packets = PacketsIn(Append(chunks, c), Len(Append(chunks, c)))
  <2>1. Len(Append(chunks, c)) = Len(chunks) + 1
    BY ChunkAppended
  <2> QED  BY <1>2, <2>1, EndCounts
<1>4. /\ new.bytes \in Nat /\ new.packets \in Nat
      /\ counters.bytes <= new.bytes /\ counters.packets <= new.packets
  BY <1>1
<1> HIDE DEF new
<1>5. \A n \in 1..Len(rates) : NoEarlier(rates[n], new)
  BY <1>1, <1>4 DEF Counting, NoEarlier
<1>6. ASSUME drawing # None
      PROVE  /\ drawing.bytes <= new.bytes
             /\ drawing.packets # None => drawing.packets <= new.packets
  <2>1. /\ drawing.bytes \in Nat /\ drawing.packets \in Nat \cup {None}
        /\ drawing.bytes <= counters.bytes
        /\ drawing.packets # None => drawing.packets <= counters.packets
    BY <1>6 DEF Copies, Counting
  <2>2. drawing.bytes <= new.bytes
    BY <1>1, <1>4, <2>1
  <2>3. ASSUME drawing.packets # None
        PROVE  drawing.packets <= new.packets
    <3>1. drawing.packets \in Nat /\ drawing.packets <= counters.packets
      BY <2>1, <2>3
    <3> QED  BY <1>1, <1>4, <3>1
  <2> QED  BY <2>2, <2>3
<1>7. Counting(Append(chunks, c), new, drawing, rates)
  BY <1>3, <1>5, <1>6 DEF Counting
<1> QED  BY <1>7 DEF new

\* A chunk that arrives is behind all that was counted.
LEMMA NoneBeforeStays ==
    ASSUME NEW chunks \in Seq(Chunks), NEW c \in Chunks, NEW k \in 0..Len(chunks),
           NEW moment \in Int, c.at >= moment, NoneBefore(chunks, k, moment)
    PROVE  NoneBefore(Append(chunks, c), k, moment)
<1>1. /\ Len(chunks) \in Nat /\ Len(Append(chunks, c)) = Len(chunks) + 1
      /\ \A n \in 1..Len(chunks) : Append(chunks, c)[n] = chunks[n]
      /\ Append(chunks, c)[Len(chunks) + 1] = c
  BY LenProperties, ChunkAppended
<1> SUFFICES ASSUME NEW n \in (k + 1)..(Len(chunks) + 1)
             PROVE  Append(chunks, c)[n].at >= moment
  BY <1>1 DEF NoneBefore
<1>2. CASE n = Len(chunks) + 1
  BY <1>1, <1>2
<1>3. CASE n # Len(chunks) + 1
  <2>1. n \in (k + 1)..Len(chunks) /\ n \in 1..Len(chunks)
    BY <1>1, <1>3
  <2> QED  BY <1>1, <2>1 DEF NoneBefore
<1> QED  BY <1>2, <1>3

LEMMA LastStays ==
    ASSUME NEW chunks \in Seq(Chunks), NEW c \in Chunks, NEW k, NEW last_packet,
           LastIs(chunks, k, last_packet)
    PROVE  LastIs(Append(chunks, c), k, last_packet)
<1>1. /\ Len(chunks) \in Nat /\ Len(Append(chunks, c)) = Len(chunks) + 1
      /\ \A n \in 1..Len(chunks) : Append(chunks, c)[n] = chunks[n]
      /\ k \in 0..Len(chunks)
  BY LenProperties, ChunkAppended DEF LastIs
<1>2. k \in 0..Len(Append(chunks, c)) /\ \A n \in 1..k : Append(chunks, c)[n] = chunks[n]
  BY <1>1
<1> QED  BY <1>2 DEF LastIs

LEMMA TimingGrows ==
    ASSUME NEW now \in Int, NEW chunks \in Seq(Chunks), NEW c \in Chunks, c.at = now,
           NEW drawing \in Copies \cup {None}, NEW status \in Statuses,
           Timing(now, chunks, drawing, status)
    PROVE  Timing(now, Append(chunks, c), drawing, status)
<1> DEFINE new == Append(chunks, c)
           size == Len(chunks)
<1>1. /\ size \in Nat /\ Len(new) = size + 1
      /\ \A n \in 1..size : new[n] = chunks[n]
      /\ new[size + 1] = c
      /\ \A n \in 1..size : chunks[n].at \in Int
  BY ChunksAre, ChunkAppended
<1>2. \A n \in 1..Len(new) : n \in 1..size \/ n = size + 1
  BY <1>1
<1> HIDE DEF new
<1>3. \A n \in 1..size : chunks[n].at <= now
  BY DEF Timing
<1>4. \A n \in 1..Len(new) : new[n].at <= now
  BY <1>1, <1>2, <1>3
<1>5. ASSUME NEW m \in 1..Len(new), NEW n \in 1..Len(new), m <= n
      PROVE  new[m].at <= new[n].at
  <2>1. CASE n = size + 1
    BY <1>1, <1>4, <2>1
  <2>2. CASE n \in 1..size
    <3>1. m \in 1..size
      BY <1>1, <1>5, <2>2
    <3>2. chunks[m].at <= chunks[n].at
      BY <1>5, <2>2, <3>1 DEF Timing
    <3> QED  BY <1>1, <2>2, <3>1, <3>2
  <2> QED  BY <1>2, <2>1, <2>2
<1>6. ASSUME NEW n \in 1..Len(status.rates)
      PROVE  SampleIs(new, status.rates[n]) /\ status.rates[n].at <= now
  <2>1. status.rates[n] \in Samples
    BY ElementOfSeq DEF Statuses
  <2>2. SampleIs(chunks, status.rates[n]) /\ status.rates[n].at <= now
    BY DEF Timing
  <2>3. status.rates[n].at \in Int
    BY <2>1 DEF Samples
  <2>4. c.at >= status.rates[n].at - 1
    BY <2>2, <2>3
  <2> QED  BY <2>1, <2>2, <2>4, SampleStays DEF new
<1>7. ASSUME drawing # None
      PROVE  /\ drawing.bytes \in 0..Len(new)
             /\ NoneBefore(new, drawing.bytes, drawing.begun)
             /\ drawing.packets # None =>
                 \E k \in 0..Len(new) :
                    drawing.packets = PacketsIn(new, k) /\ NoneBefore(new, k, drawing.begun)
  <2>1. drawing.begun \in Int /\ drawing.begun <= now
    BY <1>7 DEF Copies, Timing
  <2>2. drawing.bytes \in 0..size /\ NoneBefore(chunks, drawing.bytes, drawing.begun)
    BY <1>7 DEF Timing
  <2>3. drawing.bytes \in 0..Len(new)
    BY <1>1, <2>2
  <2>4. NoneBefore(new, drawing.bytes, drawing.begun)
    BY <2>1, <2>2, NoneBeforeStays DEF new
  <2>5. ASSUME drawing.packets # None
        PROVE  \E k \in 0..Len(new) :
                    drawing.packets = PacketsIn(new, k) /\ NoneBefore(new, k, drawing.begun)
    <3>1. PICK k \in 0..size :
            drawing.packets = PacketsIn(chunks, k) /\ NoneBefore(chunks, k, drawing.begun)
      BY <1>7, <2>5 DEF Timing
    <3>2. k \in 0..Len(new)
      BY <1>1, <3>1
    <3>3. drawing.packets = PacketsIn(new, k) /\ NoneBefore(new, k, drawing.begun)
      BY <2>1, <3>1, BeginningStays, NoneBeforeStays DEF new
    <3> QED  BY <3>2, <3>3
  <2> QED  BY <2>3, <2>4, <2>5
<1>8. Timing(now, new, drawing, status)
  BY <1>4, <1>5, <1>6, <1>7 DEF Timing
<1> QED  BY <1>8 DEF new

LEMMA ChunkKeeps ==
    ASSUME BarInv, ChunkArrives, StatusBarAssumption
    PROVE  BarInv'
<1>1. bar \in Bars /\ bar.now \in Int
  BY BarIsTyped DEF BarInv
<1>2. PICK packet \in BOOLEAN :
        bar' = [bar EXCEPT !.chunks = Append(@, [at |-> bar.now, packet |-> packet]),
                           !.stats.bytes = @ + 1,
                           !.stats.packets = @ + (IF packet THEN 1 ELSE 0)]
  BY DEF ChunkArrives
<1> DEFINE c == [at |-> bar.now, packet |-> packet]
           counted == [bytes |-> bar.stats.bytes + 1,
                       packets |-> bar.stats.packets + (IF c.packet THEN 1 ELSE 0),
                       last |-> bar.stats.last]
<1>3. c \in Chunks /\ c.at = bar.now /\ c.packet = packet
  BY <1>1 DEF Chunks
<1>4. bar.stats \in Counters /\ bar.chunks \in Seq(Chunks) /\ bar.drawing \in Copies \cup {None}
      /\ bar.status \in Statuses /\ bar.status.rates \in Seq(Samples)
  BY <1>1, BarIsTyped DEF Bars
<1>5. counted \in Counters
  BY <1>4 DEF Counters
<1>6. bar'.stats = counted
  BY <1>1, <1>2, <1>4 DEF Bars, Counters
<1>7. Append(bar.chunks, c) \in Seq(Chunks) /\ Len(Append(bar.chunks, c)) = Len(bar.chunks) + 1
  BY <1>3, <1>4, ChunkAppended
<1>8. bar'.chunks = Append(bar.chunks, c)
  BY <1>1, <1>2 DEF Bars
<1> HIDE DEF c, counted
<1>9. /\ bar'.now = bar.now /\ bar'.set_back = bar.set_back
      /\ bar'.decoded = bar.decoded /\ bar'.drawing = bar.drawing
      /\ bar'.drawn = bar.drawn /\ bar'.status = bar.status
  BY <1>1, <1>2 DEF Bars
<1>10. bar' \in Bars
  <2>1. bar' = [bar EXCEPT !.chunks = bar'.chunks, !.stats = bar'.stats]
    BY <1>1, <1>2 DEF Bars
  <2> QED  BY <1>1, <1>5, <1>6, <1>7, <1>8, <2>1 DEF Bars
<1>11. bar'.decoded <= Len(bar'.chunks)
  <2>1. bar.decoded <= Len(bar.chunks) /\ bar.decoded \in Nat /\ Len(bar.chunks) \in Nat
    BY <1>1, <1>4, LenProperties DEF BarInv, Bars
  <2> QED  BY <1>7, <1>8, <1>9, <2>1
<1>12. Counting(Append(bar.chunks, c), counted, bar.drawing, bar.status.rates)
  BY <1>3, <1>4, CountingGrows DEF BarInv, counted, StatusBarAssumption
<1>13. ~bar.set_back => Timing(bar.now, Append(bar.chunks, c), bar.drawing, bar.status)
  BY <1>1, <1>3, <1>4, TimingGrows DEF BarInv
<1>14. ~bar.set_back =>
          Remembering(Append(bar.chunks, c), bar.decoded, bar.stats.last, bar.drawing,
                      bar.drawn, bar.status)
  BY <1>3, <1>4, LastStays DEF BarInv, Remembering
<1>15. counted.last = bar.stats.last
  BY DEF counted
<1> QED  BY <1>6, <1>8, <1>9, <1>10, <1>11, <1>12, <1>13, <1>14, <1>15 DEF BarInv

\* Decoding a chunk moves the last packet on to it, if it carries one.
LEMMA LastMoves ==
    ASSUME NEW chunks \in Seq(Chunks), NEW k \in Nat, k < Len(chunks), NEW last_packet,
           \A m, n \in 1..Len(chunks) : m <= n => chunks[m].at <= chunks[n].at,
           None \notin Int, LastIs(chunks, k, last_packet)
    PROVE  LastIs(chunks, k + 1,
                  IF chunks[k + 1].packet THEN chunks[k + 1].at ELSE last_packet)
<1>1. /\ Len(chunks) \in Nat /\ k + 1 \in 1..Len(chunks) /\ k + 1 \in 0..Len(chunks)
      /\ chunks[k + 1].at \in Int
      /\ \A n \in 1..(k + 1) : n \in 1..Len(chunks) /\ n <= k + 1
      /\ \A n \in 1..(k + 1) : n \in 1..k \/ n = k + 1
      /\ \A n \in 1..k : n \in 1..(k + 1)
      /\ k + 1 \in 1..(k + 1)
  <2>1. Len(chunks) \in Nat
    BY LenProperties
  <2>2. k + 1 \in 1..Len(chunks)
    BY <2>1
  <2> QED  BY <2>1, <2>2, ChunksAre
<1>2. CASE chunks[k + 1].packet
  <2>1. \A n \in 1..(k + 1) : chunks[n].at <= chunks[k + 1].at
    BY <1>1
  <2>2. chunks[k + 1].at # None
    BY <1>1
  <2>3. LastIs(chunks, k + 1, chunks[k + 1].at)
    BY <1>1, <1>2, <2>1, <2>2 DEF LastIs
  <2> QED  BY <1>2, <2>3
<1>3. CASE ~chunks[k + 1].packet
  <2>1. LastIs(chunks, k + 1, last_packet)
    BY <1>1, <1>3 DEF LastIs
  <2> QED  BY <1>3, <2>1
<1> QED  BY <1>2, <1>3

LEMMA DecodeKeeps ==
    ASSUME BarInv, Decode, StatusBarAssumption
    PROVE  BarInv'
<1> DEFINE chunk == bar.chunks[bar.decoded + 1]
           seen == IF chunk.packet THEN chunk.at ELSE bar.stats.last
<1>1. bar \in Bars /\ bar.now \in Int
  BY BarIsTyped DEF BarInv
<1>2. /\ bar.chunks \in Seq(Chunks) /\ Len(bar.chunks) \in Nat
      /\ bar.decoded \in Nat /\ bar.decoded < Len(bar.chunks)
      /\ bar.stats \in Counters
  BY <1>1, LenProperties DEF Bars, Decode
<1>3. bar.decoded + 1 \in 1..Len(bar.chunks)
  BY <1>2
<1>4. chunk.at \in Int
  BY <1>2, <1>3, ChunksAre
<1>5. bar' = [bar EXCEPT !.decoded = @ + 1, !.stats.last = seen]
  BY DEF Decode
<1> HIDE DEF chunk
<1>6. seen \in Int \cup {None}
  BY <1>2, <1>4 DEF Counters
<1> HIDE DEF seen
<1>7. /\ bar'.now = bar.now /\ bar'.set_back = bar.set_back /\ bar'.chunks = bar.chunks
      /\ bar'.decoded = bar.decoded + 1 /\ bar'.drawing = bar.drawing
      /\ bar'.drawn = bar.drawn /\ bar'.status = bar.status
  BY <1>1, <1>5 DEF Bars
<1>8. bar'.stats = [bar.stats EXCEPT !.last = seen]
  BY <1>1, <1>5 DEF Bars
<1>9. /\ bar'.stats \in Counters /\ bar'.stats.last = seen
      /\ bar'.stats.bytes = bar.stats.bytes /\ bar'.stats.packets = bar.stats.packets
  BY <1>2, <1>6, <1>8 DEF Counters
<1>10. bar' \in Bars /\ bar'.decoded <= Len(bar'.chunks)
  <2>1. bar' = [bar EXCEPT !.decoded = bar'.decoded, !.stats = bar'.stats]
    BY <1>1, <1>5 DEF Bars
  <2>2. bar'.decoded \in Nat /\ bar'.decoded <= Len(bar'.chunks)
    BY <1>2, <1>7
  <2> QED  BY <1>1, <1>9, <2>1, <2>2 DEF Bars
<1>11. Counting(bar.chunks, bar.stats, bar.drawing, bar.status.rates)
        => Counting(bar.chunks, bar'.stats, bar.drawing, bar.status.rates)
  BY <1>9 DEF Counting, NoEarlier
<1>12. ~bar.set_back => LastIs(bar.chunks, bar.decoded + 1, seen)
  BY <1>2, LastMoves DEF BarInv, Timing, Remembering, StatusBarAssumption, seen, chunk
<1>13. ~bar.set_back =>
         Remembering(bar.chunks, bar.decoded + 1, seen, bar.drawing, bar.drawn, bar.status)
  BY <1>12 DEF BarInv, Remembering
<1> QED  BY <1>7, <1>9, <1>10, <1>11, <1>13 DEF BarInv

LEMMA CopyBytesKeeps ==
    ASSUME BarInv, CopyBytes, StatusBarAssumption
    PROVE  BarInv'
<1> DEFINE copy == [running |-> bar.running, bytes |-> bar.stats.bytes, begun |-> bar.now,
                    packets |-> None, last |-> None, decoded |-> 0]
<1>1. bar \in Bars /\ bar.now \in Int /\ bar.chunks \in Seq(Chunks)
  BY BarIsTyped DEF BarInv
<1>2. bar' = [bar EXCEPT !.drawing = copy]
  BY DEF CopyBytes
<1>3. copy \in Copies
  BY <1>1 DEF Bars, Copies, Counters
<1>4. /\ copy.bytes = bar.stats.bytes /\ copy.packets = None /\ copy.begun = bar.now
      /\ copy.last = None /\ copy.decoded = 0
  OBVIOUS
<1> HIDE DEF copy
<1>5. bar' \in Bars /\ bar'.drawing = copy
  BY <1>1, <1>2, <1>3 DEF Bars
<1>6. /\ bar'.now = bar.now /\ bar'.set_back = bar.set_back /\ bar'.chunks = bar.chunks
      /\ bar'.decoded = bar.decoded /\ bar'.stats = bar.stats /\ bar'.drawn = bar.drawn
      /\ bar'.status = bar.status
  BY <1>1, <1>2 DEF Bars
<1>7. Len(bar.chunks) \in Nat /\ bar.stats.bytes = Len(bar.chunks)
  BY <1>1, LenProperties DEF BarInv, Counting
<1>8. Counting(bar.chunks, bar.stats, copy, bar.status.rates)
  BY <1>4, <1>7 DEF BarInv, Counting, NoEarlier
<1>9. ~bar.set_back => Timing(bar.now, bar.chunks, copy, bar.status)
  <2>1. NoneBefore(bar.chunks, Len(bar.chunks), bar.now)
    BY <1>7 DEF NoneBefore
  <2>2. copy.begun <= bar.now /\ bar.now <= copy.begun + 1 /\ copy.bytes \in 0..Len(bar.chunks)
    BY <1>1, <1>4, <1>7
  <2> QED  BY <1>4, <1>7, <2>1, <2>2 DEF BarInv, Timing
<1>10. LastIs(bar.chunks, 0, None)
  BY <1>7 DEF LastIs
<1>11. ~bar.set_back =>
         Remembering(bar.chunks, bar.decoded, bar.stats.last, copy, bar.drawn, bar.status)
  BY <1>4, <1>10 DEF BarInv, Remembering
<1> QED  BY <1>5, <1>6, <1>8, <1>9, <1>11 DEF BarInv

LEMMA CopyPacketsKeeps ==
    ASSUME BarInv, CopyPackets, StatusBarAssumption
    PROVE  BarInv'
<1> DEFINE copy == [bar.drawing EXCEPT !.packets = bar.stats.packets, !.last = bar.stats.last,
                                       !.decoded = bar.decoded]
<1>1. bar \in Bars /\ bar.now \in Int /\ bar.chunks \in Seq(Chunks)
  BY BarIsTyped DEF BarInv
<1>2. bar.drawing \in Copies /\ bar.drawing # None /\ bar.stats \in Counters
  BY <1>1 DEF Bars, CopyPackets
<1>3. bar' = [bar EXCEPT !.drawing = copy]
  BY <1>1, <1>2 DEF CopyPackets, Bars
<1>4. copy \in Copies
  BY <1>1, <1>2 DEF Bars, Copies, Counters
<1>5. /\ copy.bytes = bar.drawing.bytes /\ copy.begun = bar.drawing.begun
      /\ copy.packets = bar.stats.packets /\ copy.last = bar.stats.last
      /\ copy.decoded = bar.decoded
  BY <1>2 DEF Copies
<1> HIDE DEF copy
<1>6. bar' \in Bars /\ bar'.drawing = copy
  BY <1>1, <1>3, <1>4 DEF Bars
<1>7. /\ bar'.now = bar.now /\ bar'.set_back = bar.set_back /\ bar'.chunks = bar.chunks
      /\ bar'.decoded = bar.decoded /\ bar'.stats = bar.stats /\ bar'.drawn = bar.drawn
      /\ bar'.status = bar.status
  BY <1>1, <1>3 DEF Bars
<1>8. Len(bar.chunks) \in Nat /\ Len(bar.chunks) \in 0..Len(bar.chunks)
      /\ bar.stats.packets = PacketsIn(bar.chunks, Len(bar.chunks))
      /\ bar.stats.packets \in Nat
  BY <1>1, <1>2, LenProperties DEF BarInv, Counting, Counters
<1>9. Counting(bar.chunks, bar.stats, copy, bar.status.rates)
  BY <1>2, <1>5, <1>8 DEF BarInv, Counting, NoEarlier
<1>10. ~bar.set_back => Timing(bar.now, bar.chunks, copy, bar.status)
  <2>1. NoneBefore(bar.chunks, Len(bar.chunks), copy.begun)
    BY <1>8 DEF NoneBefore
  <2> QED  BY <1>2, <1>5, <1>8, <2>1 DEF BarInv, Timing
<1>11. ~bar.set_back =>
         Remembering(bar.chunks, bar.decoded, bar.stats.last, copy, bar.drawn, bar.status)
  BY <1>5 DEF BarInv, Remembering
<1> QED  BY <1>6, <1>7, <1>9, <1>10, <1>11 DEF BarInv

\* What a refresh makes of a copy that is whole.
LEMMA CopyIsSample ==
    ASSUME NEW now \in Int, NEW chunks \in Seq(Chunks), NEW drawing \in Copies, drawing # None,
           drawing.packets # None, NEW status, Timing(now, chunks, drawing, status)
    PROVE  SampleIs(chunks, [at |-> now, bytes |-> drawing.bytes, packets |-> drawing.packets])
<1> DEFINE tick == [at |-> now, bytes |-> drawing.bytes, packets |-> drawing.packets]
           size == Len(chunks)
<1>1. size \in Nat /\ \A n \in 1..size : chunks[n].at \in Int /\ AtOf(chunks)[n] = chunks[n].at
  BY ChunksAre DEF AtOf
<1>2. drawing.begun \in Int /\ now <= drawing.begun + 1 /\ drawing.bytes \in 0..size
  BY DEF Copies, Timing
<1>3. ASSUME NEW k \in 0..size, NoneBefore(chunks, k, drawing.begun)
      PROVE  Timely(AtOf(chunks), size, k, now)
  <2>1. \A n \in 1..k : n \in 1..size
    BY <1>1
  <2>2. \A n \in (k + 1)..size : n \in 1..size
    BY <1>1
  <2>3. \A n \in 1..k : AtOf(chunks)[n] <= now
    BY <1>1, <2>1 DEF Timing
  <2>4. \A n \in (k + 1)..size : chunks[n].at >= drawing.begun
    BY <1>3 DEF NoneBefore
  <2>5. \A n \in (k + 1)..size : AtOf(chunks)[n] >= now - 1
    BY <1>1, <1>2, <2>2, <2>4
  <2> QED  BY <2>3, <2>5 DEF Timely
<1>4. Timely(AtOf(chunks), size, drawing.bytes, now)
  BY <1>2, <1>3 DEF Timing
<1>5. \E k \in 0..size : drawing.packets = PacketsIn(chunks, k)
                         /\ Timely(AtOf(chunks), size, k, now)
  BY <1>3 DEF Timing
<1>6. tick.at = now /\ tick.bytes = drawing.bytes /\ tick.packets = drawing.packets
  OBVIOUS
<1>7. SampleIs(chunks, tick)
  <2> HIDE DEF tick
  <2> QED  BY <1>2, <1>4, <1>5, <1>6 DEF SampleIs
<1> QED  BY <1>7

LEMMA RefreshKeeps ==
    ASSUME BarInv, FinishRefresh, StatusBarAssumption
    PROVE  BarInv'
<1> DEFINE copied == bar.drawing
           tick == [at |-> bar.now, bytes |-> copied.bytes, packets |-> copied.packets]
           kept == RatePush(bar.status.rates, tick)
           shown == [bytes |-> copied.bytes, packets |-> copied.packets, last |-> copied.last]
           drawn == [snapshot |-> shown, taken |-> bar.now, running |-> copied.running,
                     rates |-> kept,
                     opened |-> IF bar.status.opened = None THEN bar.now
                                ELSE bar.status.opened]
           old == bar.status.rates
<1>1. /\ bar \in Bars /\ bar.now \in Int /\ bar.chunks \in Seq(Chunks) /\ old \in Seq(Samples)
      /\ bar.status \in Statuses /\ bar.status.opened \in Int \cup {None}
  BY BarIsTyped DEF BarInv, Bars
<1>2. /\ copied \in Copies /\ copied # None /\ copied.packets # None /\ copied.packets \in Nat
      /\ copied.bytes \in Nat /\ copied.last \in Int \cup {None} /\ copied.running \in BOOLEAN
      /\ copied.decoded \in Nat
  BY <1>1 DEF Bars, Copies, FinishRefresh
<1>3. /\ tick \in Samples /\ tick.at = bar.now /\ tick.bytes = copied.bytes
      /\ tick.packets = copied.packets
  BY <1>1, <1>2 DEF Samples
<1>4. bar' = [bar EXCEPT !.drawing = None, !.drawn = copied.decoded, !.status = drawn]
  <2>1. bar.status = [snapshot |-> bar.status.snapshot, taken |-> bar.status.taken,
                      running |-> bar.status.running, rates |-> bar.status.rates,
                      opened |-> bar.status.opened]
    BY <1>1 DEF Statuses
  <2> QED  BY <1>1 DEF FinishRefresh
<1> HIDE DEF tick
<1>5. Counting(bar.chunks, bar.stats, copied, old)
  BY DEF BarInv
<1>6. Short(old) /\ Rising(old)
  BY <1>5 DEF Counting
<1>7. \A n \in 1..Len(old) : NoEarlier(old[n], tick)
  BY <1>2, <1>3, <1>5 DEF Counting, NoEarlier
<1>8. Outcome(kept, old, tick)
  BY <1>1, <1>3, <1>6, <1>7, PushKeepsWindow
<1>9. (Len(old) > 0 => old[Len(old)].at <= tick.at) =>
         Newest(kept).at <= tick.at /\ tick.at - Newest(kept).at < RATE_SAMPLE
  BY <1>1, <1>3, <1>6, <1>7, PushKeepsWindow
<1> HIDE DEF kept
<1>10. /\ kept \in Seq(Samples) /\ Len(kept) > 0 /\ Short(kept) /\ Rising(kept)
       /\ \A i \in 1..Len(kept) : kept[i] = tick \/ \E n \in 1..Len(old) : kept[i] = old[n]
  BY <1>8 DEF Outcome
<1>11. shown \in Counters /\ shown.last = copied.last
  BY <1>2 DEF Counters
<1> HIDE DEF shown
<1>12. /\ drawn \in Statuses /\ drawn.snapshot = shown /\ drawn.taken = bar.now
       /\ drawn.rates = kept
  BY <1>1, <1>2, <1>10, <1>11 DEF Statuses
<1> HIDE DEF drawn
<1>13. bar' \in Bars /\ bar'.status = drawn /\ bar'.drawing = None /\ bar'.drawn = copied.decoded
  BY <1>1, <1>2, <1>4, <1>12 DEF Bars
<1>14. /\ bar'.now = bar.now /\ bar'.set_back = bar.set_back /\ bar'.chunks = bar.chunks
       /\ bar'.decoded = bar.decoded /\ bar'.stats = bar.stats
  BY <1>1, <1>4 DEF Bars
<1>15. NoEarlier(tick, bar.stats)
  BY <1>2, <1>3, <1>5 DEF Counting, NoEarlier
<1>16. \A i \in 1..Len(kept) : NoEarlier(kept[i], bar.stats)
  BY <1>5, <1>10, <1>15 DEF Counting
<1>17. Counting(bar.chunks, bar.stats, None, kept)
  BY <1>5, <1>10, <1>16 DEF Counting
<1>18. ~bar.set_back => Timing(bar.now, bar.chunks, None, drawn)
  <2> SUFFICES ASSUME ~bar.set_back
               PROVE  Timing(bar.now, bar.chunks, None, drawn)
    OBVIOUS
  <2>1. Timing(bar.now, bar.chunks, copied, bar.status)
    BY DEF BarInv
  <2>2. SampleIs(bar.chunks, tick)
    BY <1>1, <1>2, <2>1, CopyIsSample DEF tick
  <2>3. \A n \in 1..Len(old) : SampleIs(bar.chunks, old[n]) /\ old[n].at <= bar.now
    BY <2>1 DEF Timing
  <2>4. \A i \in 1..Len(kept) : SampleIs(bar.chunks, kept[i]) /\ kept[i].at <= bar.now
    BY <1>1, <1>3, <1>10, <2>2, <2>3
  <2>5. Len(old) > 0 => old[Len(old)].at <= tick.at
    <3>1. Len(old) > 0 => Len(old) \in 1..Len(old)
      BY <1>1, LenProperties
    <3> QED  BY <1>3, <2>3, <3>1
  <2>6. Newest(kept).at <= bar.now /\ bar.now - Newest(kept).at < RATE_SAMPLE
    BY <1>3, <1>9, <2>5
  <2>7. drawn.taken <= bar.now
    BY <1>1, <1>12
  <2>8. /\ \A n \in 1..Len(bar.chunks) : bar.chunks[n].at <= bar.now
        /\ \A m, n \in 1..Len(bar.chunks) : m <= n => bar.chunks[m].at <= bar.chunks[n].at
    BY <2>1 DEF Timing
  <2> QED  BY <1>10, <1>12, <2>4, <2>6, <2>7, <2>8 DEF Timing
<1>19. ~bar.set_back =>
         Remembering(bar.chunks, bar.decoded, bar.stats.last, None, copied.decoded, drawn)
  <2> SUFFICES ASSUME ~bar.set_back
               PROVE  Remembering(bar.chunks, bar.decoded, bar.stats.last, None,
                                  copied.decoded, drawn)
    OBVIOUS
  <2>1. LastIs(bar.chunks, bar.decoded, bar.stats.last)
        /\ LastIs(bar.chunks, copied.decoded, copied.last)
    BY <1>2 DEF BarInv, Remembering
  <2>2. copied.last # None => copied.last <= bar.now
    <3>1. /\ Len(bar.chunks) \in Nat /\ copied.decoded \in 0..Len(bar.chunks)
          /\ copied.last # None =>
              \E n \in 1..copied.decoded : bar.chunks[n].at = copied.last
      BY <1>1, <2>1, LenProperties DEF LastIs
    <3>2. \A n \in 1..copied.decoded : n \in 1..Len(bar.chunks)
      BY <3>1
    <3>3. \A n \in 1..Len(bar.chunks) : bar.chunks[n].at <= bar.now
      BY DEF BarInv, Timing
    <3> QED  BY <3>1, <3>2, <3>3
  <2> QED  BY <1>11, <1>12, <2>1, <2>2 DEF Remembering
<1>20. bar'.decoded <= Len(bar'.chunks)
  BY <1>14 DEF BarInv
<1> QED  BY <1>12, <1>13, <1>14, <1>17, <1>18, <1>19, <1>20 DEF BarInv

-----------------------------------------------------------------------------
\* The bar, once it is shown.
BarIsSound == bar = None \/ BarInv

(* The rates, whatever the clock does, are of a short window of samples that *)
(* are apart, and neither is negative; while the clock was not set back,     *)
(* what they count is what came between their ends, they are recent, and the *)
(* lamp is green only for a packet that came just now and red only where     *)
(* none has for long.                                                        *)
THEOREM BarIsRecentAlways == StationSpec => []BarIsRecent
<1>1. StationInit => BarIsSound
  BY DEF StationInit, BarIsSound
<1>2. BarIsSound /\ [StationNext]_stationVars => BarIsSound'
  <2> SUFFICES ASSUME BarIsSound, [StationNext]_stationVars
               PROVE  BarIsSound'
    OBVIOUS
  <2>1. CASE UNCHANGED bar
    BY <2>1 DEF BarIsSound, BarInv
  <2>2. CASE OpenBar
    BY <2>2, OpeningBegins, StatusBarAssumption DEF BarIsSound
  <2>3. CASE bar # None /\ BarStep
    <3>1. BarInv
      BY <2>3 DEF BarIsSound
    <3>2. BarInv'
      BY <2>3, <3>1, StatusBarAssumption, TickKeeps, SetBackKeeps, ChunkKeeps, DecodeKeeps,
         EndKeeps, CopyBytesKeeps, CopyPacketsKeeps, RefreshKeeps DEF BarStep
    <3> QED  BY <3>2 DEF BarIsSound
  <2>4. UNCHANGED bar \/ OpenBar \/ (bar # None /\ BarStep)
    BY DEF StationNext, ExportRuns, ProbeRuns, BarRuns, TableRuns, PlotRuns, stationVars,
       panelVars
  <2> QED  BY <2>1, <2>2, <2>3, <2>4
<1>3. BarIsSound => BarIsRecent
  BY BarInvIsTrue, StatusBarAssumption DEF BarIsSound, BarIsRecent
<1> QED  BY <1>1, <1>2, <1>3, PTL DEF StationSpec

-----------------------------------------------------------------------------
(***************************************************************************)
(* What is started.                                                         *)
(***************************************************************************)
LEMMA StartedPipeline ==
    ASSUME NEW typed \in CommandLines
    PROVE  Started(typed).pipeline = PipelineOf(typed.pipeline)
<1>1. typed.command \in {"run", "replay", "export", "probe"}
  BY ReceptionAssumption
<1>2. RunSession(typed).pipeline = PipelineOf(typed.pipeline)
  BY DEF RunSession
<1>3. ReplaySession(typed).pipeline = PipelineOf(typed.pipeline)
  BY DEF ReplaySession, RunSession
<1>4. ExportSession(typed).pipeline = PipelineOf(typed.pipeline)
  BY DEF ExportSession, RunSession
<1>5. ProbeOf(typed).pipeline = PipelineOf(typed.pipeline)
  BY DEF ProbeOf
<1> QED  BY <1>1, <1>2, <1>3, <1>4, <1>5 DEF Started, SessionOf

\* A command line that is not refused starts a pipeline that is valid.
LEMMA StartedIsValid ==
    ASSUME NEW typed \in CommandLines, ~Refused(typed)
    PROVE  /\ ~RefusedFlags(typed.pipeline)
           /\ ValidPipeline(PipelineOf(typed.pipeline))
           /\ typed.pipeline.csp # None => Started(typed).source.kind = "udp"
<1> DEFINE started == Started(typed)
<1>1. started.pipeline = PipelineOf(typed.pipeline)
  BY StartedPipeline
<1>2. started.pipeline.csp = typed.pipeline.csp
  BY <1>1 DEF PipelineOf
<1>3. CASE typed.command = "probe"
  BY <1>3 DEF Refused, ProbeRefused
<1>4. CASE typed.command # "probe"
  <2>1. ValidSession(started) /\ ~RefusedFlags(typed.pipeline)
    BY <1>4 DEF Refused, Started
  <2> HIDE DEF started
  <2>2. /\ ValidPipeline(started.pipeline)
        /\ started.pipeline.csp # None => started.source.kind = "udp"
    BY <2>1 DEF ValidSession
  <2> QED  BY <1>1, <1>2, <2>1, <2>2 DEF started
<1> QED  BY <1>3, <1>4

\* A framing that is accepted for frames.
LEMMA FramingOfFrames ==
    ASSUME NEW typed \in CommandLines, ~Refused(typed),
           Framing(typed.pipeline).kind = "tm"
    PROVE  /\ typed.pipeline.csp = None
           /\ Framing(typed.pipeline).frame_length = typed.pipeline.frame_length
           /\ Framing(typed.pipeline).frame_length \in Nat
           /\ Overhead(Framing(typed.pipeline)) < Framing(typed.pipeline).frame_length
           /\ ValidCode(Framing(typed.pipeline))
<1>1. typed.pipeline.framing # "packets"
  BY DEF Framing, PacketFraming
<1>2. Framing(typed.pipeline).frame_length = typed.pipeline.frame_length
  BY <1>1 DEF Framing
<1>3. typed.pipeline.frame_length \in Nat
  BY ReceptionAssumption
<1>4. /\ PipelineOf(typed.pipeline).framing = Framing(typed.pipeline)
      /\ PipelineOf(typed.pipeline).csp = typed.pipeline.csp
  BY DEF PipelineOf
<1>5. ValidFrames(PipelineOf(typed.pipeline))
  BY StartedIsValid DEF ValidPipeline
<1> QED  BY <1>2, <1>3, <1>4, <1>5 DEF ValidFrames

\* While the station runs, it runs what its command line started.
Configured ==
    /\ line = None => config = None
    /\ Running => line \in CommandLines /\ ~Refused(line) /\ config = Started(line)

\* What runs is what was typed.
LEMMA FramesOfLine ==
    ASSUME Configured, Running
    PROVE  /\ Frames = Framing(line.pipeline) /\ config.pipeline.csp = line.pipeline.csp
           /\ line \in CommandLines /\ ~Refused(line) /\ config = Started(line)
<1>1. line \in CommandLines /\ ~Refused(line) /\ config = Started(line)
  BY DEF Configured
<1>2. config.pipeline = PipelineOf(line.pipeline)
  BY <1>1, StartedPipeline
<1> QED  BY <1>1, <1>2 DEF PipelineOf, Frames

LEMMA ConfiguredStays ==
    ASSUME Configured, [StationNext]_stationVars
    PROVE  Configured'
<1>1. CASE UNCHANGED <<line, config>>
  BY <1>1 DEF Configured, Running
<1>2. CASE Invoke
  <2>1. PICK typed \in CommandLines :
          line' = typed /\ config' = IF Refused(typed) THEN None ELSE Started(typed)
    BY <1>2 DEF Invoke
  <2>2. line' # None
    BY <2>1, ReceptionAssumption
  <2>3. config' # None => ~Refused(typed) /\ config' = Started(typed)
    BY <2>1
  <2> QED  BY <2>1, <2>2, <2>3 DEF Configured, Running
<1>3. UNCHANGED <<line, config>> \/ Invoke
  BY DEF StationNext, ReceptionNext, Transmit, TransmitMessage, StrayMessage, Strike,
     StrikeMessage, Receive, ReceiveMessage, Flush, ExportRuns, ProbeRuns, BarRuns, TableRuns,
     PlotRuns, stationVars, receptionVars
<1> QED  BY <1>1, <1>2, <1>3

\* A code that is given fits the frames, and each flag for frames acts on them.
LEMMA CodeFits ==
    ASSUME NEW typed \in CommandLines, ~Refused(typed),
           Framing(typed.pipeline).kind = "tm"
    PROVE  CodecFits(Framing(typed.pipeline))
<1> DEFINE framing == Framing(typed.pipeline)
           rs == framing.reed_solomon
           p == rs.parity_symbols
           i == rs.interleave
<1> SUFFICES ASSUME rs # None
             PROVE  /\ Codec(framing) # None
                    /\ codeword_length(framing) = block_length(i)
                    /\ framing.frame_length = data_length(p, i)
  BY DEF CodecFits
<1>1. ValidCode(framing)
  BY FramingOfFrames
<1> HIDE DEF framing
<1>2. p \in ACCEPTED_PARITY /\ i \in ACCEPTED_INTERLEAVE
      /\ framing.frame_length = frame_bytes(rs)
  BY <1>1 DEF ValidCode
<1>3. HasCodec(p, i)
  BY <1>2, ReceptionAssumption DEF HasCodec
<1>4. Codec(framing) # None
  BY <1>3 DEF Codec
<1>5. CODEWORD_SYMBOLS \in Int /\ p \in Int /\ i \in Int
  <2>1. CODEWORD_SYMBOLS \in Int
    BY GaloisFieldAssumption DEF CODEWORD_SYMBOLS
  <2>2. ACCEPTED_PARITY \subseteq 1..CODEWORD_SYMBOLS /\ ACCEPTED_INTERLEAVE \subseteq Nat
    BY ConfigurationAssumption
  <2> HIDE DEF p, i
  <2> QED  BY <1>2, <2>1, <2>2
<1>6. framing.frame_length = data_length(p, i)
  BY <1>2 DEF frame_bytes, data_length
<1>7. codeword_length(framing) = (CODEWORD_SYMBOLS - p) * i + p * i
  BY <1>2 DEF codeword_length, frame_bytes, parity_bytes
<1> HIDE DEF p, i
<1>8. (CODEWORD_SYMBOLS - p) * i + p * i = CODEWORD_SYMBOLS * i
  BY <1>5
<1> QED  BY <1>4, <1>6, <1>7, <1>8 DEF block_length

LEMMA FlagsAreHonoured ==
    ASSUME NEW typed \in CommandLines, ~Refused(typed),
           NEW flag \in frame_only_flags_given(typed.pipeline)
    PROVE  Honoured(flag, Framing(typed.pipeline))
<1> DEFINE args == typed.pipeline
           framing == Framing(args)
<1>1. flag \in FRAME_ONLY_FLAGS /\ Typed(args)[flag]
  BY DEF frame_only_flags_given
<1>2. ~RefusedFlags(args)
  BY StartedIsValid
<1>3. args.framing # "packets"
  BY <1>2 DEF RefusedFlags
<1>4. args.framing = "tm"
  BY <1>3, ReceptionAssumption
<1>5. args.interleave # None => args.rs # None
  BY <1>2, <1>4 DEF RefusedFlags
<1>6. /\ framing.kind = "tm"
      /\ framing.derandomize = args.derandomize
      /\ framing.has_fecf = args.fecf /\ framing.has_ocf = args.ocf
      /\ framing.reed_solomon = IF args.rs = None THEN None
                                ELSE [parity_symbols |-> args.rs,
                                      interleave |-> OrElse(args.interleave, DEFAULT_INTERLEAVE)]
  BY <1>3 DEF Framing
<1>7. args.rs # None => framing.reed_solomon # None
  <2> SUFFICES ASSUME args.rs # None
               PROVE  framing.reed_solomon # None
    OBVIOUS
  <2>1. args.rs \in Nat /\ args.interleave \in Nat \cup {None}
    BY ReceptionAssumption
  <2>2. OrElse(args.interleave, DEFAULT_INTERLEAVE) \in Nat
    BY <2>1, ConfigurationAssumption DEF OrElse
  <2>3. framing.reed_solomon \in [parity_symbols : Nat, interleave : Nat]
    BY <1>6, <2>1, <2>2
  <2> QED  BY <2>3, ReceptionAssumption
<1> HIDE DEF framing, args
<1>8. flag \in {"rs", "interleave"} => args.rs # None
  <2>1. Typed(args)["rs"] = (args.rs # None)
        /\ Typed(args)["interleave"] = (args.interleave # None)
    BY Zenon DEF Typed
  <2> QED  BY <1>1, <1>5, <2>1, Zenon
<1>9. flag = "derandomize" => args.derandomize
  BY <1>1 DEF Typed
<1>10. flag = "fecf" => args.fecf
  BY <1>1 DEF Typed
<1>11. flag = "ocf" => args.ocf
  BY <1>1 DEF Typed
<1>12. Honoured(flag, framing)
  BY <1>6, <1>7, <1>8, <1>9, <1>10, <1>11 DEF Honoured
<1> QED  BY <1>12 DEF framing, args

(* What is started on honours every flag that was typed: on a link without   *)
(* frames none about frames is accepted, CSP is never read off a byte        *)
(* stream, and with frames the codec exists, cuts blocks as long as the      *)
(* synchroniser does and gives back frames of the configured length.         *)
THEOREM ConfigurationWorksAlways == StationSpec => []ConfigurationWorks
<1>1. StationInit => Configured
  BY DEF StationInit, ReceptionInit, Configured, Running
<1>2. Configured /\ [StationNext]_stationVars => Configured'
  BY ConfiguredStays
<1>3. Configured => ConfigurationWorks
  <2> SUFFICES ASSUME Configured, Running
               PROVE  /\ \A flag \in frame_only_flags_given(line.pipeline) :
                            Honoured(flag, Frames)
                      /\ OnMessages => config.source.kind = "udp"
                      /\ OnFrames => CodecFits(Frames) /\ Overhead(Frames) < Frames.frame_length
    BY DEF ConfigurationWorks
  <2>1. /\ Frames = Framing(line.pipeline) /\ config.pipeline.csp = line.pipeline.csp
        /\ line \in CommandLines /\ ~Refused(line) /\ config = Started(line)
    BY FramesOfLine
  <2>2. \A flag \in frame_only_flags_given(line.pipeline) : Honoured(flag, Frames)
    BY <2>1, FlagsAreHonoured
  <2>3. OnMessages => config.source.kind = "udp"
    BY <2>1, StartedIsValid DEF OnMessages
  <2>4. OnFrames => CodecFits(Frames) /\ Overhead(Frames) < Frames.frame_length
    BY <2>1, CodeFits, FramingOfFrames DEF OnFrames
  <2> QED  BY <2>2, <2>3, <2>4
<1> QED  BY <1>1, <1>2, <1>3, PTL DEF StationSpec

-----------------------------------------------------------------------------
(***************************************************************************)
(* What is counted of the blocks.                                           *)
(***************************************************************************)
\* A block on its way has symbols that can be numbered.
BlockIs == block # None => "wire" \in DOMAIN block /\ IsFiniteSet(DOMAIN block.wire)

\* What is sent of a block is finite, and so is what the decoder reports of it.
LEMMA EvaluatedIs ==
    ASSUME NEW f
    PROVE  Evaluated(f) = f
  BY DEF Evaluated

LEMMA FrameIsFinite ==
    ASSUME NEW framing, framing.frame_length \in Nat, NEW header, NEW fill
    PROVE  IsFiniteSet(DOMAIN FrameSent(framing, header, fill))
<1>1. IsFiniteSet(0..(framing.frame_length - 1))
  BY FS_Interval
<1>2. DOMAIN FrameSent(framing, header, fill) = 0..(framing.frame_length - 1)
  BY DEF FrameSent
<1> QED  BY <1>1, <1>2

LEMMA WireIsFinite ==
    ASSUME NEW framing, NEW frame, IsFiniteSet(DOMAIN frame),
           framing.reed_solomon # None => framing.reed_solomon.interleave \in Nat
    PROVE  IsFiniteSet(DOMAIN BlockSent(framing, frame))
<1> DEFINE rs == framing.reed_solomon
           coded == IF rs = None THEN frame
                    ELSE encode(rs.parity_symbols, rs.interleave, frame)
<1>1. IsFiniteSet(DOMAIN coded)
  <2>1. CASE rs = None
    BY <2>1
  <2>2. CASE rs # None
    <3>1. DOMAIN coded = 0..(block_length(rs.interleave) - 1)
      BY <2>2 DEF encode
    <3>2. block_length(rs.interleave) \in Int
      <4>1. CODEWORD_SYMBOLS \in Int
        BY GaloisFieldAssumption DEF CODEWORD_SYMBOLS
      <4> QED  BY <2>2, <4>1 DEF block_length
    <3>3. IsFiniteSet(0..(block_length(rs.interleave) - 1))
      BY <3>2, FS_Interval
    <3> QED  BY <3>1, <3>3
  <2> QED  BY <2>1, <2>2
<1>2. BlockSent(framing, frame) = IF framing.derandomize THEN randomize(coded) ELSE coded
  BY DEF BlockSent
<1> HIDE DEF coded
<1>3. DOMAIN randomize(coded) = DOMAIN coded
  BY DEF randomize
<1> QED  BY <1>1, <1>2, <1>3

LEMMA SymbolsAreCounted ==
    ASSUME NEW framing, NEW taken, IsFiniteSet(DOMAIN taken)
    PROVE  Decoded(framing, taken).symbols \in Nat
<1> DEFINE codec == Codec(framing)
           p == codec.parity_symbols
           i == codec.interleave
           lanes == Evaluated([lane \in 0..(i - 1) |-> correct_codeword(p, Lane(taken, i, lane))])
           fixed == {k \in DOMAIN taken : k \div i \in lanes[k % i].repaired}
<1>1. Cardinality(fixed) \in Nat
  <2>1. fixed \in SUBSET (DOMAIN taken)
    OBVIOUS
  <2> HIDE DEF fixed
  <2> QED  BY <2>1, FS_Subset, FS_CardinalityType
<1>2. decode(p, i, taken) = PatchedBlock(i, taken, lanes, fixed)
  BY DEF decode
<1> HIDE DEF lanes, fixed
<1>3. decode(p, i, taken).symbols \in Nat
  <2>1. CASE \E lane \in DOMAIN lanes : ~lanes[lane].ok
    <3>1. decode(p, i, taken) = [ok |-> FALSE, symbols |-> 0, block |-> taken]
      BY <1>2, <2>1 DEF PatchedBlock
    <3> QED  BY <3>1
  <2>2. CASE ~(\E lane \in DOMAIN lanes : ~lanes[lane].ok)
    <3>1. \E patched : decode(p, i, taken) =
                        [ok |-> TRUE, symbols |-> Cardinality(fixed), block |-> patched]
      BY <1>2, <2>2, Zenon DEF PatchedBlock
    <3> QED  BY <1>1, <3>1
  <2> QED  BY <2>1, <2>2
<1> HIDE DEF p, i
<1>4. CASE codec = None
  BY <1>4 DEF Decoded
<1>5. CASE codec # None /\ FrameLength(taken) # block_length(i)
  BY <1>5 DEF Decoded, i
<1>6. CASE codec # None /\ FrameLength(taken) = block_length(i)
  <2> DEFINE repaired == decode(p, i, taken)
  <2>1. Decoded(framing, taken) =
            [verdict |-> IF repaired.ok THEN Parsed ELSE "Uncorrectable",
             symbols |-> repaired.symbols, block |-> repaired.block]
    BY <1>6 DEF Decoded, p, i
  <2> HIDE DEF repaired
  <2>2. Decoded(framing, taken).symbols = repaired.symbols
    BY <2>1
  <2> QED  BY <1>3, <2>2 DEF repaired
<1> QED  BY <1>4, <1>5, <1>6

Stats == [frames_seen : Nat, frames_ok : Nat, frames_dropped : Nat, idle_frames : Nat,
          rs_corrected : Nat, rs_symbols : Nat, rs_uncorrectable : Nat, crc_failures : Nat]

\* Every block is counted in one way.
Balanced(counts) ==
    /\ counts \in Stats
    /\ counts.frames_seen = counts.frames_ok + counts.frames_dropped
    /\ counts.rs_uncorrectable + counts.crc_failures <= counts.frames_dropped
    /\ counts.idle_frames <= counts.frames_ok
    /\ counts.rs_corrected <= counts.rs_symbols

\* Counting a block, whatever its verdict, keeps the counts in balance.
LEMMA CountedIsBalanced ==
    ASSUME NEW old, Balanced(old), NEW verdict, NEW decoded, decoded.symbols \in Nat, NEW header
    PROVE  /\ Balanced(Counted(old, verdict, decoded, header))
           /\ Counted(old, verdict, decoded, header).frames_seen = old.frames_seen + 1
<1> DEFINE new == Counted(old, verdict, decoded, header)
           ok == IF verdict = Parsed THEN 1 ELSE 0
           dropped == IF Dropped(verdict) THEN 1 ELSE 0
           idle == IF verdict = Parsed /\ ~header.sync /\ is_idle(header) THEN 1 ELSE 0
           corrected == IF decoded.symbols # 0 THEN 1 ELSE 0
           uncorrectable == IF verdict = "Uncorrectable" THEN 1 ELSE 0
           failed == IF verdict = "BadChecksum" THEN 1 ELSE 0
<1>1. /\ ok \in Nat /\ dropped \in Nat /\ idle \in Nat /\ corrected \in Nat
      /\ uncorrectable \in Nat /\ failed \in Nat
  OBVIOUS
<1>2. ok + dropped = 1
  BY DEF Dropped
<1>3. idle <= ok
  <2>1. idle \in {0, 1} /\ (verdict # Parsed => idle = 0) /\ (verdict = Parsed => ok = 1)
    BY Zenon
  <2> HIDE DEF idle
  <2> QED  BY <1>1, <2>1
<1>4. corrected <= decoded.symbols
  OBVIOUS
<1>5. uncorrectable + failed <= dropped
  BY DEF Dropped, Parsed
<1>6. new = [frames_seen |-> old.frames_seen + 1,
             frames_ok |-> old.frames_ok + ok,
             frames_dropped |-> old.frames_dropped + dropped,
             idle_frames |-> old.idle_frames + idle,
             rs_corrected |-> old.rs_corrected + corrected,
             rs_symbols |-> old.rs_symbols + decoded.symbols,
             rs_uncorrectable |-> old.rs_uncorrectable + uncorrectable,
             crc_failures |-> old.crc_failures + failed]
  BY Zenon DEF Counted
<1> HIDE DEF new, ok, dropped, idle, corrected, uncorrectable, failed
<1>7. new \in Stats
  BY <1>1, <1>6 DEF Balanced, Stats
<1>8. /\ new.frames_seen = old.frames_seen + 1
      /\ new.frames_ok = old.frames_ok + ok
      /\ new.frames_dropped = old.frames_dropped + dropped
      /\ new.idle_frames = old.idle_frames + idle
      /\ new.rs_corrected = old.rs_corrected + corrected
      /\ new.rs_symbols = old.rs_symbols + decoded.symbols
      /\ new.rs_uncorrectable = old.rs_uncorrectable + uncorrectable
      /\ new.crc_failures = old.crc_failures + failed
  BY <1>6
<1>9. /\ old.frames_seen \in Nat /\ old.frames_ok \in Nat /\ old.frames_dropped \in Nat
      /\ old.idle_frames \in Nat /\ old.rs_corrected \in Nat /\ old.rs_symbols \in Nat
      /\ old.rs_uncorrectable \in Nat /\ old.crc_failures \in Nat
      /\ old.frames_seen = old.frames_ok + old.frames_dropped
      /\ old.rs_uncorrectable + old.crc_failures <= old.frames_dropped
      /\ old.idle_frames <= old.frames_ok /\ old.rs_corrected <= old.rs_symbols
  BY DEF Balanced, Stats
<1>10. new.frames_seen = new.frames_ok + new.frames_dropped
  <2>1. old.frames_seen + 1 = (old.frames_ok + ok) + (old.frames_dropped + dropped)
    BY <1>1, <1>2, <1>9
  <2> QED  BY <1>8, <2>1, Zenon
<1>11. new.rs_uncorrectable + new.crc_failures <= new.frames_dropped
  BY <1>1, <1>5, <1>8, <1>9
<1>12. new.idle_frames <= new.frames_ok
  BY <1>1, <1>3, <1>8, <1>9
<1>13. new.rs_corrected <= new.rs_symbols
  BY <1>1, <1>4, <1>8, <1>9
<1>14. Balanced(new)
  BY <1>7, <1>10, <1>11, <1>12, <1>13 DEF Balanced
<1> QED  BY <1>8, <1>14 DEF new

\* Every block that came is counted, and what is on its way is a block.
Accounted ==
    /\ Configured
    /\ Balanced(stats) /\ arrivals \in Nat
    /\ BlockIs
    /\ line = None => message = None /\ block = None /\ arrivals = 0 /\ stats = NoStats
    /\ OnFrames => message = None /\ stats.frames_seen = arrivals

\* Nothing CSP is received where there are frames.
LEMMA FramesOrMessages ==
    ASSUME Configured, OnFrames
    PROVE  /\ ~OnMessages /\ line # None
           /\ Frames.frame_length \in Nat
           /\ Frames.reed_solomon # None => Frames.reed_solomon.interleave \in Nat
<1>1. /\ Frames = Framing(line.pipeline) /\ config.pipeline.csp = line.pipeline.csp
      /\ line \in CommandLines /\ ~Refused(line)
  BY FramesOfLine DEF OnFrames
<1>2. Framing(line.pipeline).kind = "tm"
  BY <1>1 DEF OnFrames
<1>3. /\ line.pipeline.csp = None /\ Frames.frame_length \in Nat /\ ValidCode(Frames)
  BY <1>1, <1>2, FramingOfFrames
<1>4. ~OnMessages
  BY <1>1, <1>3 DEF OnMessages
<1>5. line # None
  BY DEF Configured, OnFrames, Running
<1>6. Frames.reed_solomon # None => Frames.reed_solomon.interleave \in Nat
  BY <1>3, ConfigurationAssumption DEF ValidCode
<1> QED  BY <1>3, <1>4, <1>5, <1>6

\* A block stays one when it is sent and struck, and is counted when received.
LEMMA TransmitKeeps ==
    ASSUME Accounted, Transmit
    PROVE  BlockIs'
<1>1. /\ Frames.frame_length \in Nat
      /\ Frames.reed_solomon # None => Frames.reed_solomon.interleave \in Nat
  BY FramesOrMessages DEF Accounted, Transmit
<1>2. PICK header \in SentHeaders, fill \in Fills :
        LET frame == Evaluated(FrameSent(Frames, header, fill)) IN
        block' = [sent |-> frame, wire |-> Evaluated(BlockSent(Frames, frame)), struck |-> {}]
  BY DEF Transmit
<1> DEFINE frame == FrameSent(Frames, header, fill)
           wire == BlockSent(Frames, frame)
<1>3. block' = [sent |-> frame, wire |-> wire, struck |-> {}]
  BY <1>2, EvaluatedIs
<1>4. IsFiniteSet(DOMAIN frame)
  BY <1>1, FrameIsFinite
<1> HIDE DEF frame
<1>5. IsFiniteSet(DOMAIN wire)
  BY <1>1, <1>4, WireIsFinite
<1> HIDE DEF wire
<1> QED  BY <1>3, <1>5 DEF BlockIs

LEMMA StrikeKeeps ==
    ASSUME BlockIs, Strike
    PROVE  BlockIs'
<1>1. "wire" \in DOMAIN block /\ IsFiniteSet(DOMAIN block.wire)
  BY DEF BlockIs, Strike
<1>2. PICK position \in DOMAIN block.wire : block' = Struck(block, position, Noise[strikes + 1])
  BY DEF Strike
<1> DEFINE wire == [block.wire EXCEPT ![position] = @ ## Noise[strikes + 1]]
           first == [block EXCEPT !.wire = wire]
<1>3. DOMAIN wire = DOMAIN block.wire
  OBVIOUS
<1> HIDE DEF wire
<1>4. DOMAIN first = DOMAIN block /\ first.wire = wire
  BY <1>1
<1>5. block' = [first EXCEPT !.struck = @ \union {position}]
  BY <1>2, Zenon DEF Struck, wire
<1> HIDE DEF first
<1>6. DOMAIN block' = DOMAIN first /\ block'.wire = first.wire
  BY <1>1, <1>4, <1>5
<1> QED  BY <1>1, <1>3, <1>4, <1>6 DEF BlockIs

LEMMA ReceiveCounts ==
    ASSUME Accounted, Receive
    PROVE  Balanced(stats') /\ stats'.frames_seen = stats.frames_seen + 1
<1> DEFINE taken == IF Frames.derandomize THEN derandomize(block.wire, Frames.frame_length)
                    ELSE block.wire
           decoded == Decoded(Frames, taken)
           frame == Clamped(Frames, decoded.block)
<1>1. IsFiniteSet(DOMAIN block.wire)
  BY DEF Accounted, BlockIs, Receive
<1>2. DOMAIN taken = DOMAIN block.wire
  BY DEF derandomize
<1> HIDE DEF taken
<1>3. decoded.symbols \in Nat
  BY <1>1, <1>2, SymbolsAreCounted
<1>4. Judged(taken, decoded)
  BY DEF Receive, taken
<1> HIDE DEF decoded
<1>5. stats' = Counted(stats, Verdict(Frames, decoded), decoded, HeaderIn(frame))
  BY <1>4 DEF Judged, Settled
<1> QED  BY <1>3, <1>5, CountedIsBalanced DEF Accounted

(* Every block is counted once and in one way: handed on, or dropped for a   *)
(* reason, and what the repair of one cost is counted with it.               *)
THEOREM FramesAccountedAlways == StationSpec => []FramesAccounted
<1>1. StationInit => Accounted
  <2> SUFFICES ASSUME StationInit
               PROVE  Accounted
    OBVIOUS
  <2>1. /\ line = None /\ config = None /\ block = None /\ message = None
        /\ stats = NoStats /\ arrivals = 0
    BY DEF StationInit, ReceptionInit
  <2>2. Balanced(NoStats)
    BY DEF Balanced, Stats, NoStats
  <2> QED  BY <2>1, <2>2 DEF Accounted, Configured, Running, OnFrames, BlockIs
<1>2. Accounted /\ [StationNext]_stationVars => Accounted'
  <2> SUFFICES ASSUME Accounted, [StationNext]_stationVars
               PROVE  Accounted'
    OBVIOUS
  <2>1. Configured /\ Configured'
    BY ConfiguredStays DEF Accounted
  <2>2. CASE UNCHANGED <<line, config, block, message, stats, arrivals>>
    BY <2>1, <2>2 DEF Accounted, OnFrames, Running, Frames, BlockIs
  <2>3. CASE Invoke
    <3>1. line = None /\ UNCHANGED <<block, message, stats, arrivals>>
      BY <2>3 DEF Invoke, linkVars, pipelineVars
    <3>2. stats.frames_seen = 0
      BY <3>1 DEF Accounted, NoStats
    <3> QED  BY <2>1, <3>1, <3>2 DEF Accounted, BlockIs
  <2>4. CASE Transmit
    <3>1. OnFrames /\ UNCHANGED <<line, config, message, stats, arrivals>>
      BY <2>4 DEF Transmit, pipelineVars
    <3>2. line # None
      BY <2>1, <3>1, FramesOrMessages
    <3>3. BlockIs'
      BY <2>4, TransmitKeeps
    <3> QED  BY <2>1, <3>1, <3>2, <3>3 DEF Accounted, OnFrames, Running, Frames
  <2>5. CASE TransmitMessage \/ StrayMessage \/ StrikeMessage \/ ReceiveMessage \/ Flush
    <3>1. UNCHANGED <<line, config, block, stats>> /\ arrivals' \in {arrivals, arrivals + 1}
      BY <2>5 DEF TransmitMessage, StrayMessage, StrikeMessage, ReceiveMessage, Flush,
                  pipelineVars
    <3>2. OnMessages \/ message # None
      BY <2>5 DEF TransmitMessage, StrayMessage, StrikeMessage, ReceiveMessage, Flush
    <3>3. ~OnFrames
      BY <2>1, <3>2, FramesOrMessages DEF Accounted
    <3>4. line # None
      BY <2>1, <3>2 DEF Accounted, Configured, OnMessages, Running
    <3>5. arrivals' \in Nat
      BY <3>1 DEF Accounted
    <3> QED  BY <2>1, <3>1, <3>3, <3>4, <3>5 DEF Accounted, OnFrames, Running, Frames, BlockIs
  <2>6. CASE Strike
    <3>1. block # None /\ UNCHANGED <<line, config, message, stats, arrivals>>
      BY <2>6 DEF Strike, pipelineVars
    <3>2. BlockIs'
      BY <2>6, StrikeKeeps DEF Accounted
    <3> QED  BY <2>1, <3>1, <3>2 DEF Accounted, OnFrames, Running, Frames
  <2>7. CASE Receive
    <3>1. /\ block # None /\ UNCHANGED <<line, config, message>>
          /\ block' = None /\ arrivals' = arrivals + 1
      BY <2>7 DEF Receive
    <3>2. Balanced(stats') /\ stats'.frames_seen = stats.frames_seen + 1
      BY <2>7, ReceiveCounts
    <3>3. line # None
      BY <3>1 DEF Accounted
    <3>4. arrivals' \in Nat
      BY <3>1 DEF Accounted
    <3>5. OnFrames' => message' = None /\ stats'.frames_seen = arrivals'
      BY <3>1, <3>2 DEF Accounted, OnFrames, Running, Frames
    <3> QED  BY <2>1, <3>1, <3>2, <3>3, <3>4, <3>5 DEF Accounted, BlockIs
  <2>8. \/ UNCHANGED <<line, config, block, message, stats, arrivals>>
        \/ Invoke \/ Transmit \/ Strike \/ Receive
        \/ TransmitMessage \/ StrayMessage \/ StrikeMessage \/ ReceiveMessage \/ Flush
    BY DEF StationNext, ReceptionNext, ExportRuns, ProbeRuns, BarRuns, TableRuns, PlotRuns,
           stationVars, receptionVars, linkVars, pipelineVars
  <2> QED  BY <2>2, <2>3, <2>4, <2>5, <2>6, <2>7, <2>8
<1>3. Accounted => FramesAccounted
  BY DEF Accounted, FramesAccounted, Balanced
<1> QED  BY <1>1, <1>2, <1>3, PTL DEF StationSpec

-----------------------------------------------------------------------------
(***************************************************************************)
(* The arrangement of the window, for any parameters, definitions, depths   *)
(* and layouts written by hand.  What is said of plots is said of layouts   *)
(* that plot by qualified name, as the interface writes them: a leaf name   *)
(* is the case in which it fails.  What is said of the report is said of    *)
(* layouts that name a parameter in one form only.                          *)
(***************************************************************************)
LEMMA RemoveAtSeq ==
    ASSUME NEW S, NEW s \in Seq(S), NEW i \in DOMAIN s
    PROVE  RemoveAt(s, i) \in Seq(S)
<1> DEFINE front == SubSeq(s, 1, i - 1)
           back == SubSeq(s, i + 1, Len(s))
<1>1. i \in 1..Len(s) /\ Len(s) \in Nat
    BY LenProperties
<1>2. front \in Seq(S) /\ back \in Seq(S)
    BY <1>1, SubSeqProperties, ElementOfSeq
<1>3. RemoveAt(s, i) = front \o back
    BY DEF RemoveAt
<1> HIDE DEF front, back
<1> QED  BY <1>2, <1>3, ConcatProperties

LEMMA RemoveAtElements ==
    ASSUME NEW S, NEW s \in Seq(S), NEW i \in DOMAIN s,
           NEW j \in DOMAIN RemoveAt(s, i)
    PROVE  \E k \in DOMAIN s : RemoveAt(s, i)[j] = s[k]
<1> DEFINE front == SubSeq(s, 1, i - 1)
           back == SubSeq(s, i + 1, Len(s))
<1>1. i \in 1..Len(s) /\ Len(s) \in Nat /\ DOMAIN s = 1..Len(s)
    BY LenProperties
<1>2. /\ front \in Seq(S) /\ Len(front) = i - 1
      /\ \A k \in 1..(i - 1) : front[k] = s[k]
    BY <1>1, SubSeqProperties, ElementOfSeq
<1>3. /\ back \in Seq(S) /\ Len(back) = Len(s) - i
      /\ \A k \in 1..(Len(s) - i) : back[k] = s[i + k]
    BY <1>1, SubSeqProperties, ElementOfSeq
<1>4. RemoveAt(s, i) = front \o back
    BY DEF RemoveAt
<1> HIDE DEF front, back
<1>5. /\ DOMAIN RemoveAt(s, i) = 1..(Len(front) + Len(back))
      /\ \A k \in 1..(Len(front) + Len(back)) :
           (front \o back)[k] = IF k <= Len(front) THEN front[k] ELSE back[k - Len(front)]
    <2>1. /\ front \o back \in Seq(S)
          /\ Len(front \o back) = Len(front) + Len(back)
          /\ \A k \in 1..(Len(front) + Len(back)) :
               (front \o back)[k] = IF k <= Len(front) THEN front[k] ELSE back[k - Len(front)]
        BY <1>2, <1>3, ConcatProperties
    <2>2. DOMAIN (front \o back) = 1..Len(front \o back)
        BY <2>1, LenProperties
    <2> QED  BY <1>4, <2>1, <2>2
<1>6. CASE j <= i - 1
    BY <1>1, <1>2, <1>3, <1>4, <1>5, <1>6
<1>7. CASE ~(j <= i - 1)
    <2>1. j - (i - 1) \in 1..(Len(s) - i) /\ j + 1 \in DOMAIN s
        BY <1>1, <1>2, <1>3, <1>5, <1>7
    <2>2. RemoveAt(s, i)[j] = back[j - (i - 1)]
        BY <1>1, <1>2, <1>3, <1>4, <1>5, <1>7
    <2>3. back[j - (i - 1)] = s[i + (j - (i - 1))] /\ i + (j - (i - 1)) = j + 1
        BY <1>1, <1>3, <1>5, <2>1
    <2> QED  BY <2>1, <2>2, <2>3
<1> QED  BY <1>6, <1>7

\* A sequence mapped element by element.
LEMMA MappedSeq ==
    ASSUME NEW S, NEW T, NEW s \in Seq(S), NEW f, DOMAIN f = DOMAIN s,
           f = [i \in DOMAIN s |-> f[i]], \A i \in DOMAIN s : f[i] \in T
    PROVE  f \in Seq(T)
<1>1. DOMAIN s = 1..Len(s) /\ Len(s) \in Nat
    BY LenProperties
<1>2. f \in [1..Len(s) -> T]
    BY <1>1
<1> QED  BY <1>1, <1>2, SeqDef

-----------------------------------------------------------------------------
\* Every variable has its type, and a station that is down has nothing watched.
Kinds == {"missing", "torn", "foreign", "layout"}
ShapeInv ==
    /\ definition \in Definitions
    /\ disk \in [kind : Kinds, layout : Layouts]
    /\ scratch \in {"none", "torn", "whole"}
    /\ pc \in {"down", "up", "writing", "renaming"}
    /\ closing \in BOOLEAN /\ dirty \in BOOLEAN
    /\ layout \in Layouts
    /\ watched \subseteq definition
    /\ pc = "down" => watched = {}
    /\ depth \in Nat \ {0}

LEMMA AtLeastMinType == \A asked \in Nat : AtLeastMin(asked) \in Nat \ {0}
BY DEF AtLeastMin, MIN_HISTORY_DEPTH

LEMMA DepthInForceType ==
    ASSUME NEW l \in Layouts, NEW history \in Nat
    PROVE  DepthInForce(l, history) \in Nat \ {0}
BY AtLeastMinType DEF DepthInForce, Layouts

LEMMA NewLayoutType == NewLayout \in Layouts
<1>1. <<>> \in Seq(SUBSET Names)
    BY EmptySeq
<1> QED  BY <1>1 DEF NewLayout, Layouts, DefaultDepth

\* What an operator makes of a layout is a layout.
LEMMA ArrangedType ==
    ASSUME ShapeInv, NEW l \in Layouts, NEW p \in Params
    PROVE  /\ Qualified(p) \in Names
           /\ Watching(l, p) \in Layouts
           /\ \A i \in DOMAIN l.plots : Added(l, i, p) \in Layouts
           /\ WithPlot(l, p) \in Layouts
           /\ \A i \in DOMAIN l.plots : WithoutPlot(l, i) \in Layouts
           /\ PlotsWithout(l.plots, p) \in Seq(SUBSET Names)
           /\ \A i \in DOMAIN l.plots :
                [l EXCEPT !.plots[i] = Without(@, p)] \in Layouts
<1>1. Qualified(p) \in Names
    BY DEF Qualified, Names
<1>2. /\ l.watched \subseteq Names /\ l.plots \in Seq(SUBSET Names) /\ l.depth \in Nat
      /\ l = [watched |-> l.watched, plots |-> l.plots, depth |-> l.depth]
    BY DEF Layouts
<1>3. Watching(l, p) \in Layouts
    BY <1>1, <1>2 DEF Watching, Layouts
<1>4. ASSUME NEW i \in DOMAIN l.plots
      PROVE  Added(l, i, p) \in Layouts /\ [l EXCEPT !.plots[i] = Without(@, p)] \in Layouts
    <2>1. l.plots[i] \subseteq Names
        BY <1>2, ElementOfSeq, LenProperties
    <2>2. /\ l.plots[i] \union {Qualified(p)} \in SUBSET Names
          /\ Without(l.plots[i], p) \in SUBSET Names
        BY <2>1, <1>1 DEF Without
    <2>3. ASSUME NEW t \in SUBSET Names PROVE [l.plots EXCEPT ![i] = t] \in Seq(SUBSET Names)
        BY <1>2, <2>3, ExceptSeq, LenProperties
    <2> QED  BY <1>2, <2>2, <2>3 DEF Added, Layouts
<1>5. WithPlot(l, p) \in Layouts
    <2>1. Append(l.plots, {Qualified(p)}) \in Seq(SUBSET Names)
        BY <1>1, <1>2, AppendProperties
    <2> QED  BY <1>2, <2>1 DEF WithPlot, Layouts
<1>6. \A i \in DOMAIN l.plots : WithoutPlot(l, i) \in Layouts
    BY <1>2, RemoveAtSeq DEF WithoutPlot, Layouts
<1>7. PlotsWithout(l.plots, p) \in Seq(SUBSET Names)
    <2>1. /\ DOMAIN PlotsWithout(l.plots, p) = DOMAIN l.plots
          /\ PlotsWithout(l.plots, p)
                = [i \in DOMAIN l.plots |-> PlotsWithout(l.plots, p)[i]]
        BY DEF PlotsWithout
    <2>2. \A i \in DOMAIN l.plots : l.plots[i] \in SUBSET Names
        BY <1>2, ElementOfSeq, LenProperties
    <2>3. \A i \in DOMAIN l.plots : PlotsWithout(l.plots, p)[i] \in SUBSET Names
        BY <2>2 DEF PlotsWithout, Without
    <2> QED  BY <1>2, <2>1, <2>3, MappedSeq
<1> QED  BY <1>1, <1>3, <1>4, <1>5, <1>6, <1>7

LEMMA ShapeInit == ArrangementInit => ShapeInv
<1> SUFFICES ASSUME ArrangementInit PROVE ShapeInv
    OBVIOUS
<1>1. Missing \in [kind : Kinds, layout : Layouts]
    BY NewLayoutType DEF Missing, Kinds
<1>2. layout \in Layouts /\ watched \subseteq definition /\ depth \in Nat \ {0}
    BY NewLayoutType DEF ArrangementInit, DefaultDepth
<1>3. closing \in BOOLEAN /\ dirty \in BOOLEAN
    BY DEF ArrangementInit
<1> QED  BY <1>1, <1>2, <1>3 DEF ArrangementInit, ShapeInv

\* What a station reads when it starts.
LEMMA LaunchedType ==
    ASSUME ShapeInv, NEW l \in Layouts
    PROVE  /\ WatchWhatIsPlotted(l) \in Layouts
           /\ Plotted(l) \subseteq Names
           /\ Restored(l) \subseteq definition
<1>1. /\ l.watched \subseteq Names /\ l.plots \in Seq(SUBSET Names) /\ l.depth \in Nat
      /\ l = [watched |-> l.watched, plots |-> l.plots, depth |-> l.depth]
    BY DEF Layouts
<1>2. \A i \in DOMAIN l.plots : l.plots[i] \subseteq Names
    BY <1>1, ElementOfSeq, LenProperties
<1>3. Plotted(l) \subseteq Names
    BY <1>2 DEF Plotted, Range
<1> QED  BY <1>1, <1>3 DEF WatchWhatIsPlotted, Layouts, Restored, Resolved, Resolves

\* What Captured and a change of depth leave.
LEMMA CapturedType ==
    ASSUME ShapeInv, NEW l \in Layouts
    PROVE  /\ Captured(l) \in Layouts
           /\ \A d \in Nat : [l EXCEPT !.depth = d] \in Layouts
           /\ \A w \in SUBSET Names, q \in Seq(SUBSET Names) :
                [l EXCEPT !.watched = w, !.plots = q] \in Layouts
<1>1. watched \subseteq Params
    BY ArrangementAssumption DEF ShapeInv
<1>2. {Qualified(p) : p \in watched} \subseteq Names
    BY <1>1 DEF Qualified, Names
<1> QED  BY <1>2 DEF Captured, Layouts, ShapeInv

LEMMA ShapeArranged ==
    ASSUME ShapeInv, NEW l \in Layouts, NEW w \in SUBSET definition,
           NEW d \in Nat \ {0}, Arranged(l, w, d)
    PROVE  ShapeInv'
BY DEF ShapeInv, Arranged, fileVars

LEMMA ShapeArrange == ShapeInv /\ Arrange => ShapeInv'
<1> SUFFICES ASSUME ShapeInv, Arrange PROVE ShapeInv'
    OBVIOUS
<1>1. definition \subseteq Params /\ watched \subseteq definition
    BY ArrangementAssumption DEF ShapeInv
<1>2. layout \in Layouts /\ depth \in Nat \ {0}
    BY DEF ShapeInv
<1>3. /\ layout.watched \subseteq Names /\ layout.plots \in Seq(SUBSET Names)
      /\ layout = [watched |-> layout.watched, plots |-> layout.plots, depth |-> layout.depth]
    BY <1>2 DEF Layouts
<1>4. ASSUME NEW p \in definition, Watch(p) PROVE ShapeInv'
    BY <1>1, <1>2, <1>4, ArrangedType, ShapeArranged DEF Watch
<1>5. ASSUME NEW p \in definition, Unwatch(p) PROVE ShapeInv'
    <2>1. PlotsWithout(layout.plots, p) \in Seq(SUBSET Names)
        BY <1>1, <1>2, ArrangedType
    <2>2. [layout EXCEPT !.watched = @ \ {Qualified(p)}, !.plots = PlotsWithout(@, p)]
            \in Layouts
        BY <1>2, <1>3, <2>1, CapturedType
    <2> QED  BY <1>1, <1>2, <1>5, <2>2, ShapeArranged DEF Unwatch
<1>6. ASSUME NEW p \in definition, AddToPlot(p) PROVE ShapeInv'
    <2> PICK i \in DOMAIN layout.plots :
            Arranged(Watching(Added(layout, i, p), p), watched \union {p}, depth)
        BY <1>6 DEF AddToPlot
    <2>1. Watching(Added(layout, i, p), p) \in Layouts
        BY <1>1, <1>2, ArrangedType
    <2> QED  BY <1>1, <1>2, <2>1, ShapeArranged
<1>7. ASSUME NEW p \in definition, NewPlot(p) PROVE ShapeInv'
    <2>1. Watching(WithPlot(layout, p), p) \in Layouts
        BY <1>1, <1>2, ArrangedType
    <2> QED  BY <1>1, <1>2, <1>7, <2>1, ShapeArranged DEF NewPlot
<1>8. CASE RemoveFromPlot
    <2> PICK i \in DOMAIN layout.plots : \E p \in Drawing(layout)[i] :
            Arranged([layout EXCEPT !.plots[i] = Without(@, p)], watched, depth)
        BY <1>8 DEF RemoveFromPlot
    <2> PICK p \in Drawing(layout)[i] :
            Arranged([layout EXCEPT !.plots[i] = Without(@, p)], watched, depth)
        OBVIOUS
    <2>1. p \in definition
        BY DEF Drawing, Resolved, Resolves
    <2>2. [layout EXCEPT !.plots[i] = Without(@, p)] \in Layouts
        BY <1>1, <1>2, <2>1, ArrangedType
    <2> QED  BY <1>1, <1>2, <2>2, ShapeArranged
<1>9. CASE RemovePlot
    <2> PICK i \in DOMAIN layout.plots :
            Arranged(WithoutPlot(layout, i), watched, depth)
        BY <1>9 DEF RemovePlot
    <2>1. RemoveAt(layout.plots, i) \in Seq(SUBSET Names)
        BY <1>3, RemoveAtSeq
    <2>2. WithoutPlot(layout, i) = [layout EXCEPT !.plots = RemoveAt(layout.plots, i)]
        BY DEF WithoutPlot
    <2>3. WithoutPlot(layout, i) \in Layouts
        BY <1>2, <2>1, <2>2 DEF Layouts
    <2> QED  BY <1>1, <1>2, <2>3, ShapeArranged
<1>10. CASE SetHistoryDepth
    <2> PICK d \in Depths :
            Arranged([layout EXCEPT !.depth = AtLeastMin(d)], watched, AtLeastMin(d))
        BY <1>10 DEF SetHistoryDepth
    <2>1. AtLeastMin(d) \in Nat \ {0}
        BY ArrangementAssumption, AtLeastMinType
    <2>2. [layout EXCEPT !.depth = AtLeastMin(d)] \in Layouts
        BY <1>2, <2>1, CapturedType
    <2> QED  BY <1>1, <2>1, <2>2, ShapeArranged
<1> QED  BY <1>4, <1>5, <1>6, <1>7, <1>8, <1>9, <1>10 DEF Arrange

LEMMA ShapeNext == ShapeInv /\ [ArrangementNext]_arrangementVars => ShapeInv'
<1> SUFFICES ASSUME ShapeInv, [ArrangementNext]_arrangementVars PROVE ShapeInv'
    OBVIOUS
<1>1. layout \in Layouts /\ disk.layout \in Layouts /\ watched \subseteq definition
    BY DEF ShapeInv
<1>2. CASE Launch
    <2> PICK history \in {NoHistory} \union (Depths \ {0}) :
          LET filled == WatchWhatIsPlotted(disk.layout)
              inForce == DepthInForce(filled, history)
          IN  /\ layout' = [filled EXCEPT !.depth = inForce]
              /\ depth' = inForce
              /\ watched' = Restored(filled)
        BY <1>2 DEF Launch
    <2>1. WatchWhatIsPlotted(disk.layout) \in Layouts
        BY <1>1, LaunchedType
    <2>2. history \in Nat
        BY ArrangementAssumption DEF NoHistory
    <2>3. depth' \in Nat \ {0}
        BY <2>1, <2>2, DepthInForceType
    <2>4. layout' \in Layouts
        BY <2>1, <2>3, CapturedType
    <2>5. watched' \subseteq definition
        BY <2>1, LaunchedType
    <2> QED  BY <1>2, <2>3, <2>4, <2>5 DEF Launch, ShapeInv, fileVars
<1>3. CASE Arrange
    BY <1>3, ShapeArrange
<1>4. CASE Close
    BY <1>4 DEF Close, ShapeInv, fileVars
<1>5. CASE Gone
    <2>1. layout' \in Layouts /\ watched' \subseteq definition' /\ depth' \in Nat \ {0}
        BY <1>5, NewLayoutType DEF Gone, DefaultDepth
    <2>2. closing' \in BOOLEAN /\ dirty' \in BOOLEAN /\ pc' = "down" /\ watched' = {}
        BY <1>5 DEF Gone
    <2>3. UNCHANGED fileVars
        BY <1>5 DEF Gone
    <2>4. /\ definition' \in Definitions /\ disk' \in [kind : Kinds, layout : Layouts]
          /\ scratch' \in {"none", "torn", "whole"}
        BY <2>3 DEF ShapeInv, fileVars
    <2> QED  BY <2>1, <2>2, <2>4 DEF ShapeInv
<1>6. CASE Save
    <2>1. Captured(layout) \in Layouts
        BY <1>1, CapturedType
    <2> QED  BY <1>6, <2>1 DEF Save, ShapeInv
<1>7. CASE Written
    BY <1>7 DEF Written, ShapeInv, appVars
<1>8. CASE Failed
    BY <1>8 DEF Failed, ShapeInv
<1>9. CASE Rename
    BY <1>1, <1>9 DEF Rename, Whole, Kinds, ShapeInv
<1>10. CASE EditFile
    <2>1. \A file \in {Missing, Foreign} \union {Whole(s) : s \in Sheets} :
            file \in [kind : Kinds, layout : Layouts]
        BY ArrangementAssumption, NewLayoutType DEF Missing, Foreign, Whole, Kinds
    <2> QED  BY <1>10, <2>1 DEF EditFile, ShapeInv, appVars
<1>11. CASE EditDefinition
    BY <1>11 DEF EditDefinition, ShapeInv, appVars
<1>12. CASE UNCHANGED arrangementVars
    BY <1>12 DEF arrangementVars, fileVars, appVars, ShapeInv
<1> QED
    BY <1>2, <1>3, <1>4, <1>5, <1>6, <1>7, <1>8, <1>9, <1>10, <1>11, <1>12
    DEF ArrangementNext, Exit, Crash

\* Every variable of a station and of its files has its type, for any
\* definitions and any layouts written by hand (layout.rs, app.rs).
THEOREM ArrangementTyped == ArrangementSpec => []ArrangementTypeOK
<1>1. ShapeInv => ArrangementTypeOK
    BY ArrangementAssumption DEF ShapeInv, ArrangementTypeOK, Kinds, Layouts
<1> QED  BY <1>1, ShapeInit, ShapeNext, PTL DEF ArrangementSpec
-----------------------------------------------------------------------------
\* What a save is of: the depth in force, the names the definition lacks, and
\* while the file is written exactly the watch list of the store.
SavedInv ==
    /\ layout.depth = depth
    /\ pc # "down" =>
         \A n \in disk.layout.watched : ~Resolves(n) => n \in layout.watched
    /\ pc \in {"writing", "renaming"} => Resolved(layout.watched) = watched

LEMMA SavedInit == ArrangementInit => SavedInv
BY DEF ArrangementInit, SavedInv, NewLayout

LEMMA SavedArrange == ShapeInv /\ SavedInv /\ Arrange => SavedInv'
<1> SUFFICES ASSUME ShapeInv, SavedInv, Arrange PROVE SavedInv'
    OBVIOUS
<1>1. /\ watched \subseteq definition
      /\ layout = [watched |-> layout.watched, plots |-> layout.plots, depth |-> layout.depth]
    BY DEF ShapeInv, Layouts
<1>2. ASSUME NEW l, NEW w, NEW d, Arranged(l, w, d), l.depth = d,
             \A n \in layout.watched : ~Resolves(n) => n \in l.watched
      PROVE  SavedInv'
    BY <1>2 DEF Arranged, SavedInv, fileVars, Resolves
<1>3. ASSUME NEW p \in definition, Watch(p) PROVE SavedInv'
    BY <1>1, <1>2, <1>3 DEF Watch, Watching, SavedInv
<1>4. ASSUME NEW p \in definition, Unwatch(p) PROVE SavedInv'
    <2> DEFINE l == [layout EXCEPT !.watched = @ \ {Qualified(p)},
                                   !.plots = PlotsWithout(@, p)]
    <2>1. l.depth = depth /\ l.watched = layout.watched \ {Qualified(p)}
        BY <1>1 DEF SavedInv
    <2>2. Resolves(Qualified(p))
        BY DEF Resolves, Qualified
    <2>3. Arranged(l, watched \ {p}, depth)
        BY <1>4 DEF Unwatch
    <2> HIDE DEF l
    <2> QED  BY <1>2, <2>1, <2>2, <2>3
<1>5. ASSUME NEW p \in definition, AddToPlot(p) PROVE SavedInv'
    <2> PICK i \in DOMAIN layout.plots :
            Arranged(Watching(Added(layout, i, p), p), watched \union {p}, depth)
        BY <1>5 DEF AddToPlot
    <2>1. /\ Watching(Added(layout, i, p), p).depth = depth
          /\ layout.watched \subseteq Watching(Added(layout, i, p), p).watched
        BY <1>1 DEF Added, Watching, SavedInv
    <2> QED  BY <1>2, <2>1
<1>6. ASSUME NEW p \in definition, NewPlot(p) PROVE SavedInv'
    <2>1. /\ Watching(WithPlot(layout, p), p).depth = depth
          /\ layout.watched \subseteq Watching(WithPlot(layout, p), p).watched
        BY <1>1 DEF WithPlot, Watching, SavedInv
    <2> QED  BY <1>2, <1>6, <2>1 DEF NewPlot
<1>7. CASE RemoveFromPlot
    BY <1>1, <1>2, <1>7 DEF RemoveFromPlot, SavedInv
<1>8. CASE RemovePlot
    BY <1>1, <1>2, <1>8 DEF RemovePlot, WithoutPlot, SavedInv
<1>9. CASE SetHistoryDepth
    BY <1>1, <1>2, <1>9 DEF SetHistoryDepth, SavedInv
<1> QED  BY <1>3, <1>4, <1>5, <1>6, <1>7, <1>8, <1>9 DEF Arrange

LEMMA SavedNext == ShapeInv /\ SavedInv /\ [ArrangementNext]_arrangementVars => SavedInv'
<1> SUFFICES ASSUME ShapeInv, SavedInv, [ArrangementNext]_arrangementVars
             PROVE SavedInv'
    OBVIOUS
<1>1. /\ watched \subseteq definition
      /\ layout = [watched |-> layout.watched, plots |-> layout.plots, depth |-> layout.depth]
      /\ disk.layout = [watched |-> disk.layout.watched, plots |-> disk.layout.plots,
                        depth |-> disk.layout.depth]
    BY DEF ShapeInv, Layouts
<1>2. CASE Launch
    BY <1>1, <1>2 DEF Launch, SavedInv, WatchWhatIsPlotted, fileVars
<1>3. CASE Arrange
    BY <1>3, SavedArrange
<1>4. CASE Close
    BY <1>4 DEF Close, SavedInv, fileVars, Resolves, Resolved
<1>5. CASE Gone
    BY <1>5 DEF Gone, SavedInv, NewLayout
<1>6. CASE Save
    <2>1. Resolved(Captured(layout).watched) = watched
        <3>1. Captured(layout).watched = {n \in layout.watched : ~Resolves(n)}
                                           \union {Qualified(p) : p \in watched}
            BY <1>1 DEF Captured
        <3>2. \A p \in watched : Resolves(Qualified(p)) /\ Qualified(p)[1] = p
            BY <1>1 DEF Resolves, Qualified
        <3>3. {n \in Captured(layout).watched : Resolves(n)} = {Qualified(p) : p \in watched}
            BY <3>1, <3>2
        <3> QED  BY <3>2, <3>3 DEF Resolved
    <2>2. Captured(layout).depth = depth
        BY <1>1 DEF Captured
    <2>3. \A n \in layout.watched : ~Resolves(n) => n \in Captured(layout).watched
        BY <1>1 DEF Captured
    <2> QED  BY <1>6, <2>1, <2>2, <2>3 DEF Save, SavedInv, Resolved, Resolves
<1>7. CASE Written
    BY <1>7 DEF Written, SavedInv, appVars, Resolves, Resolved
<1>8. CASE Failed
    BY <1>8 DEF Failed, SavedInv, Resolves, Resolved
<1>9. CASE Rename
    BY <1>9 DEF Rename, SavedInv, Whole, Resolves, Resolved
<1>10. CASE EditFile
    BY <1>10 DEF EditFile, SavedInv, appVars
<1>11. CASE EditDefinition
    BY <1>11 DEF EditDefinition, SavedInv, appVars
<1>12. CASE UNCHANGED arrangementVars
    BY <1>12 DEF arrangementVars, fileVars, appVars, SavedInv, Resolves, Resolved
<1> QED
    BY <1>2, <1>3, <1>4, <1>5, <1>6, <1>7, <1>8, <1>9, <1>10, <1>11, <1>12
    DEF ArrangementNext, Exit, Crash

\* No save drops from the watch list a name this definition lacks, whatever the
\* definitions, the layouts written by hand and the order of edits, saves and
\* crashes (Layout::capture, App::save_layout).
THEOREM OrphansKept == ArrangementSpec => OrphansAreKept
<1>1. SavedInv /\ [ArrangementNext]_arrangementVars
        => [Rename => \A name \in disk.layout.watched :
              ~Resolves(name) => name \in disk'.layout.watched]_arrangementVars
    BY DEF SavedInv, Rename, Whole
<1> QED
    BY <1>1, ShapeInit, ShapeNext, SavedInit, SavedNext, PTL
    DEF ArrangementSpec, OrphansAreKept
-----------------------------------------------------------------------------
\* Plots name parameters the way the interface writes them, and what a plot
\* draws is watched.
ByName(l) == \A i \in DOMAIN l.plots : \A n \in l.plots[i] : n[2] = "qualified"
Backed(l, w) ==
    \A i \in DOMAIN l.plots : \A n \in l.plots[i] : n[1] \in definition => n[1] \in w

PlotInv ==
    /\ pc = "down" => layout = NewLayout
    /\ ByName(disk.layout)
    /\ ByName(layout) /\ Backed(layout, watched)

\* A layout whose plots draw no more than another's and one watched parameter.
LEMMA PlotsGrow ==
    ASSUME NEW l, NEW m, NEW w, NEW v, NEW p, ByName(l), Backed(l, w),
           w \subseteq v, p \in v,
           \A j \in DOMAIN m.plots : \A n \in m.plots[j] :
             n = Qualified(p) \/ \E i \in DOMAIN l.plots : n \in l.plots[i]
    PROVE  ByName(m) /\ Backed(m, v)
BY DEF ByName, Backed, Qualified

LEMMA PlotsShrink ==
    ASSUME NEW l, NEW m, NEW w, ByName(l), Backed(l, w),
           \A j \in DOMAIN m.plots : \A n \in m.plots[j] :
             \E i \in DOMAIN l.plots : n \in l.plots[i]
    PROVE  ByName(m) /\ Backed(m, w)
BY DEF ByName, Backed

LEMMA PlotArranged ==
    ASSUME PlotInv, NEW l, NEW w, NEW d, Arranged(l, w, d), ByName(l), Backed(l, w)
    PROVE  PlotInv'
<1>1. /\ layout' = l /\ watched' = w /\ disk' = disk /\ definition' = definition
      /\ pc' = "up"
    BY DEF Arranged, fileVars
<1> QED  BY <1>1 DEF PlotInv, ByName, Backed

LEMMA PlotAppended ==
    ASSUME NEW plots \in Seq(SUBSET Names), NEW p \in definition, ShapeInv, NEW more,
           more = Append(plots, {Qualified(p)})
    PROVE  \A j \in DOMAIN more : \A n \in more[j] :
             n = Qualified(p) \/ \E k \in DOMAIN plots : n \in plots[k]
<1>1. {Qualified(p)} \in SUBSET Names
    BY ArrangementAssumption DEF Qualified, Names, ShapeInv
<1>2. /\ Len(more) = Len(plots) + 1
      /\ \A k \in 1..Len(plots) : more[k] = plots[k]
      /\ more[Len(plots) + 1] = {Qualified(p)}
      /\ more \in Seq(SUBSET Names)
    BY <1>1, AppendProperties
<1>3. /\ DOMAIN more = 1..(Len(plots) + 1)
      /\ DOMAIN plots = 1..Len(plots) /\ Len(plots) \in Nat
    BY <1>2, LenProperties
<1> QED  BY <1>2, <1>3

LEMMA PlotArrange == ShapeInv /\ PlotInv /\ Arrange => PlotInv'
<1> SUFFICES ASSUME ShapeInv, PlotInv, Arrange PROVE PlotInv'
    OBVIOUS
<1>1. /\ watched \subseteq definition /\ layout.plots \in Seq(SUBSET Names)
      /\ layout = [watched |-> layout.watched, plots |-> layout.plots, depth |-> layout.depth]
    BY DEF ShapeInv, Layouts
<1>2. ByName(layout) /\ Backed(layout, watched)
    BY DEF PlotInv
<1>3. \A i \in DOMAIN layout.plots : layout.plots[i] \in SUBSET Names
    BY <1>1, ElementOfSeq, LenProperties
<1>4. ASSUME NEW p \in definition, Watch(p) PROVE PlotInv'
    <2>1. Watching(layout, p).plots = layout.plots
        BY <1>1 DEF Watching
    <2>2. ByName(Watching(layout, p)) /\ Backed(Watching(layout, p), watched \union {p})
        BY <1>2, <2>1 DEF ByName, Backed
    <2> QED  BY <1>4, <2>2, PlotArranged DEF Watch
<1>5. ASSUME NEW p \in definition, Unwatch(p) PROVE PlotInv'
    <2> DEFINE l == [layout EXCEPT !.watched = @ \ {Qualified(p)},
                                   !.plots = PlotsWithout(@, p)]
    <2>1. l.plots = PlotsWithout(layout.plots, p)
        BY <1>1
    <2>2. /\ DOMAIN l.plots = DOMAIN layout.plots
          /\ \A i \in DOMAIN l.plots : l.plots[i] = layout.plots[i] \ {Qualified(p)}
        BY <2>1 DEF PlotsWithout, Without
    <2>3. Arranged(l, watched \ {p}, depth)
        BY <1>5 DEF Unwatch
    <2> HIDE DEF l
    <2>4. ASSUME NEW i \in DOMAIN l.plots, NEW n \in l.plots[i]
          PROVE  n[2] = "qualified" /\ (n[1] \in definition => n[1] \in watched \ {p})
        <3>1. n \in layout.plots[i] /\ n # Qualified(p) /\ n \in Names
            BY <1>3, <2>2
        <3>2. n[2] = "qualified" /\ (n[1] \in definition => n[1] \in watched)
            BY <1>2, <2>2, <3>1 DEF ByName, Backed
        <3>3. n = <<n[1], n[2]>>
            BY <3>1 DEF Names
        <3> QED  BY <3>1, <3>2, <3>3 DEF Qualified
    <2>5. ByName(l) /\ Backed(l, watched \ {p})
        BY <2>4 DEF ByName, Backed
    <2> QED  BY <2>3, <2>5, PlotArranged
<1>6. ASSUME NEW p \in definition, AddToPlot(p) PROVE PlotInv'
    <2> PICK i \in DOMAIN layout.plots :
            Arranged(Watching(Added(layout, i, p), p), watched \union {p}, depth)
        BY <1>6 DEF AddToPlot
    <2> DEFINE m == Watching(Added(layout, i, p), p)
    <2>1. m.plots = [layout.plots EXCEPT ![i] = @ \union {Qualified(p)}]
        BY <1>1 DEF Watching, Added
    <2> HIDE DEF m
    <2>2. \A j \in DOMAIN m.plots : \A n \in m.plots[j] :
            n = Qualified(p) \/ \E k \in DOMAIN layout.plots : n \in layout.plots[k]
        BY <2>1
    <2>3. ByName(m) /\ Backed(m, watched \union {p})
        BY <1>2, <2>2, PlotsGrow
    <2> QED  BY <2>3, PlotArranged DEF m
<1>7. ASSUME NEW p \in definition, NewPlot(p) PROVE PlotInv'
    <2> DEFINE m == Watching(WithPlot(layout, p), p)
    <2>1. m.plots = Append(layout.plots, {Qualified(p)})
        BY <1>1 DEF Watching, WithPlot
    <2>2. Arranged(m, watched \union {p}, depth)
        BY <1>7 DEF NewPlot
    <2> HIDE DEF m
    <2>3. \A j \in DOMAIN m.plots : \A n \in m.plots[j] :
            n = Qualified(p) \/ \E k \in DOMAIN layout.plots : n \in layout.plots[k]
        BY <1>1, <2>1, PlotAppended
    <2>4. ByName(m) /\ Backed(m, watched \union {p})
        BY <1>2, <2>3, PlotsGrow
    <2> QED  BY <2>2, <2>4, PlotArranged
<1>8. CASE RemoveFromPlot
    <2> PICK i \in DOMAIN layout.plots : \E p \in Drawing(layout)[i] :
            Arranged([layout EXCEPT !.plots[i] = Without(@, p)], watched, depth)
        BY <1>8 DEF RemoveFromPlot
    <2> PICK p \in Drawing(layout)[i] :
            Arranged([layout EXCEPT !.plots[i] = Without(@, p)], watched, depth)
        OBVIOUS
    <2> DEFINE m == [layout EXCEPT !.plots[i] = Without(@, p)]
    <2>1. m.plots = [layout.plots EXCEPT ![i] = @ \ {Qualified(p)}]
        BY <1>1 DEF Without
    <2> HIDE DEF m
    <2>2. \A j \in DOMAIN m.plots : \A n \in m.plots[j] :
            \E k \in DOMAIN layout.plots : n \in layout.plots[k]
        BY <2>1
    <2>3. ByName(m) /\ Backed(m, watched)
        BY <1>2, <2>2, PlotsShrink
    <2> QED  BY <2>3, PlotArranged DEF m
<1>9. CASE RemovePlot
    <2> PICK i \in DOMAIN layout.plots :
            Arranged(WithoutPlot(layout, i), watched, depth)
        BY <1>9 DEF RemovePlot
    <2> DEFINE m == WithoutPlot(layout, i)
    <2>1. m.plots = RemoveAt(layout.plots, i)
        BY <1>1 DEF WithoutPlot
    <2> HIDE DEF m
    <2>2. \A j \in DOMAIN m.plots : \A n \in m.plots[j] :
            \E k \in DOMAIN layout.plots : n \in layout.plots[k]
        BY <1>1, <2>1, RemoveAtElements
    <2>3. ByName(m) /\ Backed(m, watched)
        BY <1>2, <2>2, PlotsShrink
    <2> QED  BY <2>3, PlotArranged DEF m
<1>10. CASE SetHistoryDepth
    <2> PICK d \in Depths :
            Arranged([layout EXCEPT !.depth = AtLeastMin(d)], watched, AtLeastMin(d))
        BY <1>10 DEF SetHistoryDepth
    <2> DEFINE m == [layout EXCEPT !.depth = AtLeastMin(d)]
    <2>1. m.plots = layout.plots
        BY <1>1
    <2> HIDE DEF m
    <2>2. ByName(m) /\ Backed(m, watched)
        BY <1>2, <2>1 DEF ByName, Backed
    <2> QED  BY <2>2, PlotArranged DEF m
<1> QED  BY <1>4, <1>5, <1>6, <1>7, <1>8, <1>9, <1>10 DEF Arrange

\* Layouts written by hand plot by qualified name too.
SheetsByName == \A s \in Sheets : ByName(s)

LEMMA NothingPlotted == DOMAIN NewLayout.plots = {}
BY DEF NewLayout

LEMMA PlotInit == ArrangementInit => PlotInv
<1> SUFFICES ASSUME ArrangementInit PROVE PlotInv
    OBVIOUS
<1>1. disk.layout = NewLayout /\ layout = NewLayout
    BY DEF ArrangementInit, Missing
<1> QED  BY <1>1, NothingPlotted DEF PlotInv, ByName, Backed

LEMMA PlotNext ==
    ASSUME SheetsByName
    PROVE  ShapeInv /\ PlotInv /\ [ArrangementNext]_arrangementVars => PlotInv'
<1> SUFFICES ASSUME ShapeInv, PlotInv, [ArrangementNext]_arrangementVars
             PROVE  PlotInv'
    OBVIOUS
<1>1. /\ layout = [watched |-> layout.watched, plots |-> layout.plots, depth |-> layout.depth]
      /\ disk.layout = [watched |-> disk.layout.watched, plots |-> disk.layout.plots,
                        depth |-> disk.layout.depth]
    BY DEF ShapeInv, Layouts
<1>2. CASE Launch
    <2> DEFINE filled == WatchWhatIsPlotted(disk.layout)
    <2>1. /\ layout'.plots = disk.layout.plots /\ watched' = Restored(filled)
          /\ disk' = disk /\ definition' = definition /\ pc' = "up"
        BY <1>1, <1>2 DEF Launch, WatchWhatIsPlotted, fileVars
    <2>2. filled.plots = disk.layout.plots
        BY <1>1 DEF WatchWhatIsPlotted
    <2>3. \A i \in DOMAIN disk.layout.plots : \A n \in disk.layout.plots[i] :
            n[1] \in definition => n[1] \in Restored(filled)
        BY <2>2 DEF Restored, Resolved, Resolves, Plotted, Range
    <2> HIDE DEF filled
    <2> QED  BY <2>1, <2>3 DEF PlotInv, ByName, Backed
<1>3. CASE Arrange
    BY <1>3, PlotArrange
<1>4. CASE Close
    BY <1>4 DEF Close, PlotInv, fileVars, ByName, Backed
<1>5. CASE Gone
    <2>1. layout' = NewLayout /\ disk' = disk
        BY <1>5 DEF Gone, fileVars
    <2>2. ByName(layout') /\ Backed(layout, watched)'
        BY <2>1, NothingPlotted DEF Backed, ByName
    <2> QED  BY <2>1, <2>2 DEF PlotInv, ByName
<1>6. CASE Save
    <2>1. Captured(layout).plots = layout.plots
        BY <1>1 DEF Captured
    <2> QED  BY <1>6, <2>1 DEF Save, PlotInv, ByName, Backed
<1>7. CASE Written
    BY <1>7 DEF Written, PlotInv, appVars, ByName, Backed
<1>8. CASE Failed
    BY <1>8 DEF Failed, PlotInv, ByName, Backed
<1>9. CASE Rename
    BY <1>9 DEF Rename, Whole, PlotInv, ByName, Backed
<1>10. CASE EditFile
    <2>1. \A file \in {Missing, Foreign} \union {Whole(s) : s \in Sheets} :
            ByName(file.layout)
        BY NothingPlotted DEF SheetsByName, Missing, Foreign, Whole, ByName
    <2>2. ByName(disk'.layout) /\ layout' = layout /\ watched' = watched
            /\ definition' = definition /\ pc' = pc
        BY <1>10, <2>1 DEF EditFile, appVars
    <2> QED  BY <2>2 DEF PlotInv, ByName, Backed
<1>11. CASE EditDefinition
    <2>1. /\ layout' = NewLayout /\ disk' = disk
        BY <1>11 DEF EditDefinition, PlotInv, appVars
    <2>2. ByName(layout') /\ Backed(layout, watched)'
        BY <2>1, NothingPlotted DEF Backed, ByName
    <2> QED  BY <2>1, <2>2 DEF PlotInv, ByName
<1>12. CASE UNCHANGED arrangementVars
    BY <1>12 DEF arrangementVars, fileVars, appVars, PlotInv, ByName, Backed
<1> QED
    BY <1>2, <1>3, <1>4, <1>5, <1>6, <1>7, <1>8, <1>9, <1>10, <1>11, <1>12
    DEF ArrangementNext, Exit, Crash

\* What a plot draws has a ring behind it, however plots were made, and
\* unwatching leaves no plot drawing what has none (App::apply,
\* Layout::restore), where layouts written by hand name parameters in full.
THEOREM PlottedStayWatched ==
    ASSUME SheetsByName
    PROVE  ArrangementSpec => []PlottedIsWatched
<1>1. PlotInv => PlottedIsWatched
    <2> SUFFICES ASSUME PlotInv, NEW p \in UNION Range(Drawing(layout))
                 PROVE  p \in watched
        BY DEF PlottedIsWatched
    <2>1. PICK i \in DOMAIN layout.plots : p \in Resolved(layout.plots[i])
        BY DEF Range, Drawing
    <2>2. PICK n \in layout.plots[i] : n[1] = p /\ p \in definition
        BY <2>1 DEF Resolved, Resolves
    <2> QED  BY <2>2 DEF PlotInv, Backed
<1> QED
    BY <1>1, ShapeInit, ShapeNext, PlotInit, PlotNext, PTL DEF ArrangementSpec
-----------------------------------------------------------------------------
\* What the file says of the last save, while nobody has touched the files.
PromiseInv ==
    promised.known =>
      /\ disk.kind = "layout"
      /\ Resolved(disk.layout.watched) = promised.watched
      /\ Drawing(disk.layout) = promised.plots
      /\ disk.layout.depth = promised.depth /\ promised.depth \in Nat \ {0}
      /\ Backed(disk.layout, promised.watched)

LEMMA PromiseInit == ArrangementInit => PromiseInv
BY DEF ArrangementInit, PromiseInv, NothingPromised

LEMMA PromiseKept ==
    PromiseInv /\ UNCHANGED <<definition, disk, promised>> => PromiseInv'
BY DEF PromiseInv, Resolved, Resolves, Drawing, Backed

LEMMA PromiseNext ==
    ShapeInv /\ SavedInv /\ PlotInv /\ PromiseInv /\ [ArrangementNext]_arrangementVars
        => PromiseInv'
<1> SUFFICES ASSUME ShapeInv, SavedInv, PlotInv, PromiseInv,
                    [ArrangementNext]_arrangementVars
             PROVE  PromiseInv'
    OBVIOUS
<1>1. CASE Rename
    <2>1. /\ disk' = Whole(layout) /\ definition' = definition
          /\ promised' = [known |-> TRUE, watched |-> watched,
                          plots |-> Drawing(layout), depth |-> depth]
          /\ pc = "renaming"
        BY <1>1 DEF Rename
    <2>2. /\ Resolved(layout.watched) = watched /\ layout.depth = depth
          /\ depth \in Nat \ {0} /\ Backed(layout, watched)
        BY <2>1 DEF SavedInv, PlotInv, ShapeInv
    <2>3. disk'.layout = layout /\ disk'.kind = "layout"
        BY <2>1 DEF Whole
    <2>4. /\ promised'.watched = watched /\ promised'.plots = Drawing(layout)
          /\ promised'.depth = depth
        BY <2>1
    <2> QED
        BY <2>1, <2>2, <2>3, <2>4 DEF PromiseInv, Resolved, Resolves, Drawing, Backed
<1>2. CASE EditFile \/ EditDefinition
    BY <1>2 DEF EditFile, EditDefinition, PromiseInv, NothingPromised
<1>3. CASE ~Rename /\ ~EditFile /\ ~EditDefinition
    <2>1. Arrange => UNCHANGED fileVars
        BY DEF Arrange, Watch, Unwatch, AddToPlot, NewPlot, RemoveFromPlot, RemovePlot,
               SetHistoryDepth, Arranged
    <2>2. UNCHANGED <<definition, disk, promised>>
        BY <1>3, <2>1 DEF ArrangementNext, Launch, Close, Exit, Crash, Gone, Save,
               Written, Failed, fileVars, arrangementVars
    <2> QED  BY <2>2, PromiseKept
<1> QED  BY <1>1, <1>2, <1>3

\* A station started on files nobody touched since its last save watches, plots
\* and keeps what that save was of, whenever it was killed (Layout::save,
\* Layout::capture, Layout::restore).
THEOREM RestartsRestore ==
    ASSUME SheetsByName
    PROVE  ArrangementSpec => []RestartRestores
<1>1. ShapeInv => ArrangementTypeOK
    BY ArrangementAssumption DEF ShapeInv, ArrangementTypeOK, Kinds, Layouts
<1>2. ShapeInv /\ PromiseInv => RestartRestores
    <2> SUFFICES ASSUME ShapeInv, PromiseInv, promised.known
                 PROVE  LET filled == WatchWhatIsPlotted(disk.layout) IN
                        /\ Loads(disk)
                        /\ Restored(filled) = promised.watched
                        /\ Drawing(filled) = promised.plots
                        /\ DepthInForce(filled, NoHistory) = promised.depth
        BY <1>1 DEF RestartRestores
    <2> DEFINE filled == WatchWhatIsPlotted(disk.layout)
    <2>1. /\ filled.watched = disk.layout.watched \union Plotted(disk.layout)
          /\ filled.plots = disk.layout.plots /\ filled.depth = disk.layout.depth
        BY DEF WatchWhatIsPlotted, ShapeInv, Layouts
    <2> HIDE DEF filled
    <2>2. Loads(disk)
        BY DEF Loads, PromiseInv
    <2>3. Drawing(filled) = promised.plots
        BY <2>1 DEF PromiseInv, Drawing
    <2>4. DepthInForce(filled, NoHistory) = promised.depth
        BY <2>1 DEF PromiseInv, DepthInForce, AtLeastMin, NoHistory, MIN_HISTORY_DEPTH
    <2>5. Restored(filled) = Resolved(disk.layout.watched \union Plotted(disk.layout))
        BY <2>1 DEF Restored, Plotted
    <2>6. Resolved(Plotted(disk.layout)) \subseteq Resolved(disk.layout.watched)
        BY DEF PromiseInv, Backed, Plotted, Range, Resolved, Resolves
    <2>7. Restored(filled) = promised.watched
        BY <2>5, <2>6 DEF PromiseInv, Resolved
    <2> QED  BY <2>2, <2>3, <2>4, <2>7 DEF filled
<1> QED
    BY <1>2, ShapeInit, ShapeNext, SavedInit, SavedNext, PlotInit, PlotNext,
       PromiseInit, PromiseNext, PTL
    DEF ArrangementSpec
-----------------------------------------------------------------------------
\* The names of a layout, watched and plotted.  What is saved names no parameter
\* in two forms: a layout in memory may, until the save writes the full name of
\* what is watched for whatever other there was; but not what the definition
\* lacks, of which the save keeps all.
NamesOf(l) == l.watched \union Plotted(l)
OneForm(names) == \A m, n \in names : m[1] = n[1] => m = n
SheetsInOneForm == \A s \in Sheets : OneForm(NamesOf(s))

ReportInv ==
    /\ OneForm(NamesOf(disk.layout))
    /\ pc # "down" => OneForm({n \in NamesOf(layout) : n[1] \notin definition})
    /\ pc \in {"writing", "renaming"} => OneForm(NamesOf(layout))

LEMMA NameIn ==
    ASSUME NEW l
    PROVE  \A n : n \in NamesOf(l)
                    <=> n \in l.watched \/ \E i \in DOMAIN l.plots : n \in l.plots[i]
BY DEF NamesOf, Plotted, Range

LEMMA NamesAreNames ==
    ASSUME NEW l \in Layouts
    PROVE  NamesOf(l) \subseteq Names
<1>1. l.watched \subseteq Names /\ l.plots \in Seq(SUBSET Names)
    BY DEF Layouts
<1>2. \A i \in DOMAIN l.plots : l.plots[i] \in SUBSET Names
    BY <1>1, ElementOfSeq, LenProperties
<1> QED  BY <1>1, <1>2, NameIn

LEMMA NoNames == NamesOf(NewLayout) = {}
<1>1. NewLayout.watched = {} /\ DOMAIN NewLayout.plots = {}
    BY DEF NewLayout
<1>2. \A n : n \notin NamesOf(NewLayout)
    BY <1>1, NameIn
<1> QED  BY <1>2

\* What an operator does adds names the definition has, and no others.
LEMMA ArrangeNames ==
    ASSUME ShapeInv, Arrange
    PROVE  /\ pc = "up" /\ pc' = "up" /\ disk' = disk /\ definition' = definition
           /\ \A n \in NamesOf(layout') : n \in NamesOf(layout) \/ n[1] \in definition
<1> DEFINE Known(l) == \A n \in NamesOf(l) : n \in NamesOf(layout) \/ n[1] \in definition
<1>1. /\ layout.plots \in Seq(SUBSET Names)
      /\ layout = [watched |-> layout.watched, plots |-> layout.plots, depth |-> layout.depth]
    BY DEF ShapeInv, Layouts
<1>2. ASSUME NEW l, NEW w, NEW d, Arranged(l, w, d), Known(l)
      PROVE  /\ pc = "up" /\ pc' = "up" /\ disk' = disk /\ definition' = definition
             /\ Known(layout')
    BY <1>2 DEF Arranged, fileVars
<1>3. ASSUME NEW l, NEW p,
             \A n : n \in l.watched => n \in layout.watched \/ n = Qualified(p),
             \A j \in DOMAIN l.plots : \A n \in l.plots[j] :
               n = Qualified(p) \/ \E k \in DOMAIN layout.plots : n \in layout.plots[k],
             p \in definition
      PROVE  Known(l)
    <2>1. \A n \in NamesOf(l) : n = Qualified(p) \/ n \in NamesOf(layout)
        BY <1>3, NameIn
    <2> QED  BY <1>3, <2>1 DEF Qualified
<1>4. ASSUME NEW l, l.watched \subseteq layout.watched,
             \A j \in DOMAIN l.plots : \A n \in l.plots[j] :
               \E k \in DOMAIN layout.plots : n \in layout.plots[k]
      PROVE  Known(l)
    BY <1>4, NameIn
<1> HIDE DEF Known
<1>5. ASSUME NEW p \in definition, Watch(p)
      PROVE  pc = "up" /\ pc' = "up" /\ disk' = disk /\ definition' = definition /\ Known(layout')
    <2> DEFINE l == Watching(layout, p)
    <2>1. l.plots = layout.plots /\ l.watched = layout.watched \union {Qualified(p)}
        BY <1>1 DEF Watching
    <2>2. Arranged(l, watched \union {p}, depth)
        BY <1>5 DEF Watch
    <2> HIDE DEF l
    <2>3. Known(l)
        BY <1>3, <2>1
    <2> QED  BY <1>2, <2>2, <2>3
<1>6. ASSUME NEW p \in definition, Unwatch(p)
      PROVE  pc = "up" /\ pc' = "up" /\ disk' = disk /\ definition' = definition /\ Known(layout')
    <2> DEFINE l == [layout EXCEPT !.watched = @ \ {Qualified(p)},
                                   !.plots = PlotsWithout(@, p)]
    <2>1. l.plots = PlotsWithout(layout.plots, p) /\ l.watched = layout.watched \ {Qualified(p)}
        BY <1>1
    <2>2. /\ DOMAIN l.plots = DOMAIN layout.plots
          /\ \A i \in DOMAIN l.plots : l.plots[i] = layout.plots[i] \ {Qualified(p)}
        BY <2>1 DEF PlotsWithout, Without
    <2>3. Arranged(l, watched \ {p}, depth)
        BY <1>6 DEF Unwatch
    <2> HIDE DEF l
    <2>4. Known(l)
        BY <1>4, <2>1, <2>2
    <2> QED  BY <1>2, <2>3, <2>4
<1>7. ASSUME NEW p \in definition, AddToPlot(p)
      PROVE  pc = "up" /\ pc' = "up" /\ disk' = disk /\ definition' = definition /\ Known(layout')
    <2> PICK i \in DOMAIN layout.plots :
            Arranged(Watching(Added(layout, i, p), p), watched \union {p}, depth)
        BY <1>7 DEF AddToPlot
    <2> DEFINE l == Watching(Added(layout, i, p), p)
    <2>1. /\ l.plots = [layout.plots EXCEPT ![i] = @ \union {Qualified(p)}]
          /\ l.watched = layout.watched \union {Qualified(p)}
        BY <1>1 DEF Watching, Added
    <2> HIDE DEF l
    <2>2. Known(l)
        BY <1>3, <2>1
    <2> QED  BY <1>2, <2>2 DEF l
<1>8. ASSUME NEW p \in definition, NewPlot(p)
      PROVE  pc = "up" /\ pc' = "up" /\ disk' = disk /\ definition' = definition /\ Known(layout')
    <2> DEFINE l == Watching(WithPlot(layout, p), p)
    <2>1. /\ l.plots = Append(layout.plots, {Qualified(p)})
          /\ l.watched = layout.watched \union {Qualified(p)}
        BY <1>1 DEF Watching, WithPlot
    <2>2. Arranged(l, watched \union {p}, depth)
        BY <1>8 DEF NewPlot
    <2> HIDE DEF l
    <2>3. \A j \in DOMAIN l.plots : \A n \in l.plots[j] :
            n = Qualified(p) \/ \E k \in DOMAIN layout.plots : n \in layout.plots[k]
        BY <1>1, <2>1, PlotAppended
    <2>4. Known(l)
        BY <1>3, <2>1, <2>3
    <2> QED  BY <1>2, <2>2, <2>4
<1>9. CASE RemoveFromPlot
    <2> PICK i \in DOMAIN layout.plots : \E p \in Drawing(layout)[i] :
            Arranged([layout EXCEPT !.plots[i] = Without(@, p)], watched, depth)
        BY <1>9 DEF RemoveFromPlot
    <2> PICK p \in Drawing(layout)[i] :
            Arranged([layout EXCEPT !.plots[i] = Without(@, p)], watched, depth)
        OBVIOUS
    <2> DEFINE l == [layout EXCEPT !.plots[i] = Without(@, p)]
    <2>1. /\ l.plots = [layout.plots EXCEPT ![i] = @ \ {Qualified(p)}]
          /\ l.watched = layout.watched
        BY <1>1 DEF Without
    <2> HIDE DEF l
    <2>2. Known(l)
        BY <1>4, <2>1
    <2> QED  BY <1>2, <2>2 DEF l, Known
<1>10. CASE RemovePlot
    <2> PICK i \in DOMAIN layout.plots : Arranged(WithoutPlot(layout, i), watched, depth)
        BY <1>10 DEF RemovePlot
    <2> DEFINE l == WithoutPlot(layout, i)
    <2>1. l.plots = RemoveAt(layout.plots, i) /\ l.watched = layout.watched
        BY <1>1 DEF WithoutPlot
    <2> HIDE DEF l
    <2>2. \A j \in DOMAIN l.plots : \A n \in l.plots[j] :
            \E k \in DOMAIN layout.plots : n \in layout.plots[k]
        BY <1>1, <2>1, RemoveAtElements
    <2>3. Known(l)
        BY <1>4, <2>1, <2>2
    <2> QED  BY <1>2, <2>3 DEF l, Known
<1>11. CASE SetHistoryDepth
    <2> PICK d \in Depths :
            Arranged([layout EXCEPT !.depth = AtLeastMin(d)], watched, AtLeastMin(d))
        BY <1>11 DEF SetHistoryDepth
    <2> DEFINE l == [layout EXCEPT !.depth = AtLeastMin(d)]
    <2>1. l.plots = layout.plots /\ l.watched = layout.watched
        BY <1>1
    <2> HIDE DEF l
    <2>2. Known(l)
        BY <1>4, <2>1
    <2> QED  BY <1>2, <2>2 DEF l, Known
<1> QED  BY <1>5, <1>6, <1>7, <1>8, <1>9, <1>10, <1>11 DEF Arrange, Known

\* A save leaves one form of each parameter.
LEMMA CapturedOnce ==
    ASSUME ShapeInv, PlotInv, OneForm({n \in NamesOf(layout) : n[1] \notin definition})
    PROVE  OneForm(NamesOf(Captured(layout)))
<1> DEFINE c == Captured(layout)
<1>1. /\ watched \subseteq definition /\ layout \in Layouts
      /\ layout = [watched |-> layout.watched, plots |-> layout.plots, depth |-> layout.depth]
      /\ ByName(layout)
    BY DEF ShapeInv, PlotInv, Layouts
<1>2. /\ c.plots = layout.plots
      /\ c.watched = {n \in layout.watched : n[1] \notin definition}
                       \union {Qualified(p) : p \in watched}
    BY <1>1 DEF Captured, Resolves
<1> HIDE DEF c
<1>3. NamesOf(layout) \subseteq Names
    BY <1>1, NamesAreNames
<1>4. ASSUME NEW n \in NamesOf(c)
      PROVE  \/ n \in NamesOf(layout) /\ n[1] \notin definition
             \/ n[1] \in definition /\ n = Qualified(n[1])
    <2>1. CASE n \in c.watched
        <3>1. \A p \in watched : Qualified(p)[1] = p
            BY DEF Qualified
        <3> QED  BY <1>1, <1>2, <2>1, <3>1, NameIn
    <2>2. CASE \E i \in DOMAIN c.plots : n \in c.plots[i]
        <3>1. n[2] = "qualified" /\ n \in NamesOf(layout)
            BY <1>1, <1>2, <2>2, NameIn DEF ByName
        <3>2. n = <<n[1], n[2]>>
            BY <1>3, <3>1 DEF Names
        <3> QED  BY <3>1, <3>2 DEF Qualified
    <2> QED  BY <2>1, <2>2, NameIn
<1> QED  BY <1>4 DEF OneForm, c

LEMMA ReportInit == ArrangementInit => ReportInv
BY NoNames DEF ArrangementInit, ReportInv, Missing, OneForm

LEMMA ReportNext ==
    ASSUME SheetsInOneForm
    PROVE  ShapeInv /\ PlotInv /\ ReportInv /\ [ArrangementNext]_arrangementVars => ReportInv'
<1> SUFFICES ASSUME ShapeInv, PlotInv, ReportInv, [ArrangementNext]_arrangementVars
             PROVE  ReportInv'
    OBVIOUS
<1>1. \A S, T : S \subseteq T /\ OneForm(T) => OneForm(S)
    BY DEF OneForm
<1>2. CASE Launch
    <2>1. /\ disk.layout = [watched |-> disk.layout.watched, plots |-> disk.layout.plots,
                            depth |-> disk.layout.depth]
        BY DEF ShapeInv, Layouts
    <2>2. /\ layout'.plots = disk.layout.plots /\ disk' = disk /\ definition' = definition
          /\ layout'.watched = disk.layout.watched \union Plotted(disk.layout)
          /\ pc' = "up"
        BY <1>2, <2>1 DEF Launch, WatchWhatIsPlotted, fileVars
    <2>3. NamesOf(layout') \subseteq NamesOf(disk.layout)
        <3>1. \A n : n \in NamesOf(layout') => n \in NamesOf(disk.layout)
            BY <2>2, NameIn DEF NamesOf
        <3> QED  BY <3>1
    <2>4. OneForm({n \in NamesOf(layout') : n[1] \notin definition})
        <3>1. {n \in NamesOf(layout') : n[1] \notin definition} \subseteq NamesOf(disk.layout)
            BY <2>3
        <3> QED  BY <1>1, <3>1 DEF ReportInv
    <2> QED  BY <2>2, <2>4 DEF ReportInv
<1>3. CASE Arrange
    <2>1. /\ pc = "up" /\ pc' = "up" /\ disk' = disk /\ definition' = definition
          /\ \A n \in NamesOf(layout') : n \in NamesOf(layout) \/ n[1] \in definition
        BY <1>3, ArrangeNames
    <2>2. {n \in NamesOf(layout') : n[1] \notin definition}
            \subseteq {n \in NamesOf(layout) : n[1] \notin definition}
        BY <2>1
    <2>3. OneForm({n \in NamesOf(layout') : n[1] \notin definition})
        BY <1>1, <2>1, <2>2 DEF ReportInv
    <2> QED  BY <2>1, <2>3 DEF ReportInv
<1>4. CASE Close
    BY <1>4 DEF Close, ReportInv, fileVars
<1>5. CASE Gone
    BY <1>5 DEF Gone, ReportInv, fileVars
<1>6. CASE Save
    <2>1. /\ layout' = Captured(layout) /\ disk' = disk /\ definition' = definition
          /\ pc = "up"
        BY <1>6 DEF Save
    <2>2. OneForm(NamesOf(layout'))
        BY <2>1, CapturedOnce DEF ReportInv
    <2>3. OneForm({n \in NamesOf(layout') : n[1] \notin definition})
        <3>1. {n \in NamesOf(layout') : n[1] \notin definition} \subseteq NamesOf(layout')
            OBVIOUS
        <3> QED  BY <1>1, <2>2, <3>1
    <2> QED  BY <2>1, <2>2, <2>3 DEF ReportInv
<1>7. CASE Written \/ Failed
    BY <1>7 DEF Written, Failed, ReportInv, appVars
<1>8. CASE Rename
    BY <1>8 DEF Rename, Whole, ReportInv
<1>9. CASE EditFile
    <2>1. \A file \in {Missing, Foreign} \union {Whole(s) : s \in Sheets} :
            OneForm(NamesOf(file.layout))
        BY NoNames DEF SheetsInOneForm, Missing, Foreign, Whole, OneForm
    <2> QED  BY <1>9, <2>1 DEF EditFile, ReportInv, appVars
<1>10. CASE EditDefinition
    BY <1>10 DEF EditDefinition, ReportInv, appVars
<1>11. CASE UNCHANGED arrangementVars
    BY <1>11 DEF arrangementVars, fileVars, appVars, ReportInv
<1> QED
    BY <1>2, <1>3, <1>4, <1>5, <1>6, <1>7, <1>8, <1>9, <1>10, <1>11
    DEF ArrangementNext, Exit, Crash

\* With one name for each parameter, the names less the parameters they resolve
\* to are the parameters a definition lacks.
LEMMA LackingCounted ==
    ASSUME NEW names \in SUBSET Names, OneForm(names)
    PROVE  Cardinality(names) - Cardinality(Resolved(names))
             = Cardinality({name[1] : name \in names} \ definition)
<1> DEFINE P == {name[1] : name \in names}
           f == [name \in names |-> name[1]]
<1>1. IsFiniteSet(names)
    <2>1. IsFiniteSet({"qualified", "leaf"})
        <3>1. {"qualified", "leaf"} = {"qualified"} \union {"leaf"}
            OBVIOUS
        <3>2. IsFiniteSet({"qualified"})
            BY FS_Singleton
        <3>3. IsFiniteSet({"qualified"} \union {"leaf"})
            BY <3>2, FS_AddElement
        <3> QED  BY <3>1, <3>3
    <2>2. IsFiniteSet(Names)
        BY <2>1, ArrangementAssumption, FS_Product DEF Names
    <2> QED  BY <2>2, FS_Subset
<1>2. f \in Surjection(names, P)
    BY DEF Surjection
<1>3. f \in Injection(names, P)
    <2>1. \A m, n \in names : f[m] = f[n] => m = n
        BY DEF OneForm
    <2>2. f \in [names -> P]
        OBVIOUS
    <2> HIDE DEF f, P
    <2> QED  BY <2>1, <2>2 DEF Injection, IsInjective
<1>4. Resolved(names) = P \cap definition
    BY DEF Resolved, Resolves
<1> HIDE DEF f, P
<1>5. IsFiniteSet(P) /\ Cardinality(P) = Cardinality(names)
    BY <1>1, <1>2, <1>3, FS_Surjection
<1>6. Cardinality(P \ definition) = Cardinality(P) - Cardinality(P \cap definition)
    BY <1>5, FS_Difference
<1> QED  BY <1>4, <1>5, <1>6 DEF P

\* What a start reports of the saved parameters is how many of them the
\* definition lacks, however often each is watched and plotted, and whatever the
\* station saved, or was killed saving, before (Layout::restore, Layout::named,
\* restore_report), where a layout written by hand has one name for each.
THEOREM ReportsAreHonest ==
    ASSUME SheetsByName, SheetsInOneForm
    PROVE  ArrangementSpec => ReportIsHonest
<1> DEFINE Honest ==
        LET names == disk.layout.watched \union Plotted(disk.layout) IN
        report'.named - report'.resolved =
            Cardinality({name[1] : name \in names} \ definition)
<1>1. ShapeInv /\ ReportInv /\ Launch => Honest
    <2> SUFFICES ASSUME ShapeInv, ReportInv, Launch
                 PROVE  Honest
        OBVIOUS
    <2> DEFINE names == NamesOf(disk.layout)
               filled == WatchWhatIsPlotted(disk.layout)
    <2>1. names \in SUBSET Names /\ OneForm(names)
        BY NamesAreNames DEF ShapeInv, ReportInv
    <2>2. /\ filled.watched = disk.layout.watched \union Plotted(disk.layout)
          /\ filled.plots = disk.layout.plots
        BY DEF WatchWhatIsPlotted, ShapeInv, Layouts
    <2>3. report' = Reported(filled)
        BY DEF Launch
    <2> HIDE DEF filled
    <2>4. filled.watched \union Plotted(filled) = names
        BY <2>2 DEF NamesOf, Plotted
    <2>5. report'.named = Cardinality(names) /\ report'.resolved = Cardinality(Resolved(names))
        BY <2>3, <2>4 DEF Reported, Named, RestoredCount, Restored
    <2> HIDE DEF names
    <2>6. report'.named - report'.resolved
            = Cardinality({name[1] : name \in names} \ definition)
        BY <2>1, <2>5, LackingCounted
    <2> QED  BY <2>6 DEF names, NamesOf
<1>2. ShapeInv /\ ReportInv /\ [ArrangementNext]_arrangementVars
        => [Launch => Honest]_arrangementVars
    BY <1>1
<1> QED
    BY <1>2, ShapeInit, ShapeNext, PlotInit, PlotNext, ReportInit, ReportNext, PTL
    DEF ArrangementSpec, ReportIsHonest
=============================================================================
