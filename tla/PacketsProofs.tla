--------------------------- MODULE PacketsProofs ---------------------------
(***************************************************************************)
(* What the packet stages promise whatever frames and bytes they are given, *)
(* for every header size, packet length and number of channels; and what    *)
(* they hand out of what a spacecraft sends over a lossy link.              *)
(***************************************************************************)
EXTENDS Downlink, SequenceTheorems, FiniteSetTheorems, WellFoundedInduction, TLAPS

LEMMA Cut ==
    ASSUME NEW s \in Seq(Bytes), NEW k \in 0..Len(s)
    PROVE  /\ SubSeq(s, 1, k) \in Seq(Bytes) /\ Len(SubSeq(s, 1, k)) = k
           /\ SubSeq(s, k + 1, Len(s)) \in Seq(Bytes)
           /\ Len(SubSeq(s, k + 1, Len(s))) = Len(s) - k
<1>1. Len(s) \in Nat /\ k \in Nat
    BY LenProperties
<1>2. SubSeq(s, 1, k) \in Seq(Bytes) /\ Len(SubSeq(s, 1, k)) = k
    BY <1>1, SubSeqProperties, ElementOfSeq
<1>3. /\ SubSeq(s, k + 1, Len(s)) \in Seq(Bytes)
      /\ Len(SubSeq(s, k + 1, Len(s))) = Len(s) - k
    BY <1>1, SubSeqProperties, ElementOfSeq
<1> QED  BY <1>2, <1>3

LEMMA DeclaredType ==
    ASSUME NEW s \in Seq(Bytes), HeaderKnown(s)
    PROVE  Declared(s) \in Nat /\ Declared(s) > HeaderBytes
<1>1. HeaderBytes \in 1..Len(s)
    BY PacketsAssumption, LenProperties DEF HeaderKnown
<1> QED  BY <1>1, ElementOfSeq, PacketsAssumption DEF Declared

\* A counter of one channel goes up; the others stay.
LEMMA CounterAdds ==
    ASSUME NEW f \in [Channels -> Nat], NEW c \in Channels, NEW n \in Nat
    PROVE  /\ [f EXCEPT ![c] = @ + n] \in [Channels -> Nat]
           /\ \A d \in Channels : [f EXCEPT ![c] = @ + n][d] = f[d] + IF d = c THEN n ELSE 0
    OBVIOUS

LEMMA NothingAdded ==
    ASSUME NEW f \in [Channels -> Nat], NEW c \in Channels
    PROVE  f = [f EXCEPT ![c] = @ + 0]
<1>1. f[c] \in Nat
    OBVIOUS
<1>2. f[c] + 0 = f[c]
    BY <1>1
<1> QED  BY <1>2

LEMMA SpentType == \A s : Spent(s) \in Nat
    BY DEF Spent

\* Where the work of a push stands: nothing is left over between pushes, the
\* pointer is inside the data field, and while "rest" is being split nothing is
\* held for its channel.
WorkInv ==
    /\ step \in {"ready", "pushed"} => rest = <<>>
    /\ step = "frame" /\ pointer # NO_PACKET_START => pointer \in 0..Len(rest)
    /\ step = "split" /\ rest # <<>> => partial[on] = <<>>

PacketsInv == PacketsTypeOK /\ WorkInv /\ PartialBounded /\ BytesConserved

LEMMA InitInv == PacketsInit => PacketsInv
<1> SUFFICES ASSUME PacketsInit PROVE PacketsInv
    OBVIOUS
<1>1. PacketsTypeOK
    BY PacketsAssumption, EmptySeq
       DEF PacketsInit, PacketsTypeOK, Channels, Zero, NoFrame, NO_PACKET_START
<1>2. \A c \in Channels : Len(partial[c]) = 0
    BY DEF PacketsInit
<1>3. WorkInv /\ PartialBounded /\ BytesConserved
    BY <1>2, PacketsAssumption
       DEF PacketsInit, WorkInv, PartialBounded, HeaderKnown, BytesConserved, Zero
<1> QED  BY <1>1, <1>3 DEF PacketsInv

\* What the bytes in front of the pointer and those behind it are.
LEMMA AheadType ==
    ASSUME PacketsInv, step = "frame"
    PROVE  /\ Ahead \in Seq(Bytes) /\ Behind \in Seq(Bytes)
           /\ Len(Ahead) + Len(Behind) = Len(rest)
           /\ Len(Ahead) \in Nat /\ Len(Behind) \in Nat
           /\ Fed \in Seq(Bytes)
           /\ Len(Fed) = Len(partial[on]) + Len(Ahead)
<1>1. rest \in Seq(Bytes) /\ partial[on] \in Seq(Bytes) /\ Len(rest) \in Nat
    BY LenProperties DEF PacketsInv, PacketsTypeOK
<1>2. /\ Ahead \in Seq(Bytes) /\ Behind \in Seq(Bytes)
      /\ Len(Ahead) + Len(Behind) = Len(rest)
    <2>1. CASE pointer = NO_PACKET_START
        BY <1>1, <2>1, EmptySeq DEF Ahead, Behind
    <2>2. CASE pointer # NO_PACKET_START
        <3>1. pointer \in 0..Len(rest)
            BY <2>2 DEF PacketsInv, WorkInv
        <3>2. /\ SubSeq(rest, 1, pointer) \in Seq(Bytes)
              /\ Len(SubSeq(rest, 1, pointer)) = pointer
              /\ SubSeq(rest, pointer + 1, Len(rest)) \in Seq(Bytes)
              /\ Len(SubSeq(rest, pointer + 1, Len(rest))) = Len(rest) - pointer
            BY <1>1, <3>1, Cut
        <3>3. Ahead = SubSeq(rest, 1, pointer) /\ Behind = SubSeq(rest, pointer + 1, Len(rest))
            BY <2>2 DEF Ahead, Behind
        <3>4. Len(Ahead) = pointer /\ Len(Behind) = Len(rest) - pointer
            BY <3>2, <3>3
        <3>5. Len(Ahead) + Len(Behind) = Len(rest)
            BY <1>1, <3>1, <3>4
        <3> QED  BY <3>2, <3>3, <3>5
    <2> QED  BY <2>1, <2>2
<1>3. Fed \in Seq(Bytes) /\ Len(Fed) = Len(partial[on]) + Len(Ahead)
    BY <1>1, <1>2, ConcatProperties DEF Fed
<1> QED  BY <1>2, <1>3, LenProperties

\* deliver keeps the types and files the packet's bytes under its channel.
LEMMA DeliverType ==
    ASSUME PacketsTypeOK, NEW c \in Channels, NEW s \in Seq(Bytes), Deliver(c, s)
    PROVE  /\ packets' \in [Channels -> Nat] /\ idle' \in [Channels -> Nat]
           /\ handed' \in [Channels -> Nat] /\ out' \in Seq(Seq(Bytes))
           /\ handed' = [handed EXCEPT ![c] = @ + Len(s)]
<1>1. Len(s) \in Nat
    BY LenProperties
<1>2. handed' = [handed EXCEPT ![c] = @ + Len(s)]
    BY DEF Deliver
<1>3. handed' \in [Channels -> Nat]
    BY <1>1, <1>2, CounterAdds DEF PacketsTypeOK
<1>4. CASE s[1].idle
    <2>1. idle' = [idle EXCEPT ![c] = @ + 1] /\ packets' = packets /\ out' = out
        BY <1>4 DEF Deliver
    <2>2. idle' \in [Channels -> Nat]
        BY <2>1, CounterAdds DEF PacketsTypeOK
    <2> QED  BY <1>2, <1>3, <2>1, <2>2 DEF PacketsTypeOK
<1>5. CASE ~s[1].idle
    <2>1. packets' = [packets EXCEPT ![c] = @ + 1] /\ idle' = idle /\ out' = Append(out, s)
        BY <1>5 DEF Deliver
    <2>2. packets' \in [Channels -> Nat]
        BY <2>1, CounterAdds DEF PacketsTypeOK
    <2>3. out' \in Seq(Seq(Bytes))
        BY <2>1, AppendProperties DEF PacketsTypeOK
    <2> QED  BY <1>2, <1>3, <2>1, <2>2, <2>3 DEF PacketsTypeOK
<1> QED  BY <1>4, <1>5

\* A packet that is thrown away: its channel's counters.
LEMMA GiveUpType ==
    ASSUME PacketsTypeOK, NEW c \in Channels, NEW s \in Seq(Bytes), GiveUp(c, s)
    PROVE  lost' \in [Channels -> Nat] /\ discarded' \in [Channels -> Nat]
<1>1. Spent(s) \in Nat /\ Len(s) \in Nat
    BY SpentType, LenProperties
<1>2. lost' \in [Channels -> Nat]
    BY <1>1, CounterAdds DEF GiveUp, PacketsTypeOK
<1>3. discarded' \in [Channels -> Nat]
    BY <1>1, CounterAdds DEF GiveUp, PacketsTypeOK
<1> QED  BY <1>2, <1>3

\* check_continuity moves what it gives up from the partial packet to the
\* discarded bytes of its own channel.
LEMMA ContinuityType ==
    ASSUME PacketsTypeOK, NEW c \in Vcids, NEW number \in 0..(Modulus - 1),
           CheckContinuity(c, number)
    PROVE  /\ last' \in [Channels -> {NoFrame} \cup 0..(Modulus - 1)]
           /\ partial' \in [Channels -> Seq(Bytes)]
           /\ lost' \in [Channels -> Nat] /\ discarded' \in [Channels -> Nat]
           /\ \A d \in Channels : partial'[d] = partial[d] \/ partial'[d] = <<>>
           /\ \A d \in Channels :
                discarded'[d] + Len(partial'[d]) = discarded[d] + Len(partial[d])
<1>1. c \in Channels
    BY DEF Channels
<1>2. last' \in [Channels -> {NoFrame} \cup 0..(Modulus - 1)]
    BY <1>1 DEF CheckContinuity, PacketsTypeOK
<1>3. CASE Jumped(c, number)
    <2>1. partial' = [partial EXCEPT ![c] = <<>>] /\ GiveUp(c, partial[c])
        BY <1>3 DEF CheckContinuity
    <2>2. partial[c] \in Seq(Bytes) /\ Len(partial[c]) \in Nat /\ <<>> \in Seq(Bytes)
        BY <1>1, LenProperties, EmptySeq DEF PacketsTypeOK
    <2>3. lost' \in [Channels -> Nat] /\ discarded' \in [Channels -> Nat]
        BY <1>1, <2>1, <2>2, GiveUpType
    <2>4. partial' \in [Channels -> Seq(Bytes)]
        BY <2>1, <2>2 DEF PacketsTypeOK
    <2>5. \A d \in Channels : partial'[d] = IF d = c THEN <<>> ELSE partial[d]
        BY <2>1 DEF PacketsTypeOK
    <2>6. \A d \in Channels :
             discarded'[d] = discarded[d] + IF d = c THEN Len(partial[c]) ELSE 0
        BY <1>1, <2>1, <2>2, CounterAdds DEF GiveUp, PacketsTypeOK
    <2>7. ASSUME NEW d \in Channels
          PROVE  discarded'[d] + Len(partial'[d]) = discarded[d] + Len(partial[d])
        <3>1. Len(partial'[d]) = IF d = c THEN 0 ELSE Len(partial[d])
            BY <2>5
        <3>2. discarded[d] \in Nat /\ Len(partial[d]) \in Nat
            BY LenProperties DEF PacketsTypeOK
        <3> QED  BY <2>6, <3>1, <3>2
    <2> QED  BY <1>2, <2>3, <2>4, <2>5, <2>7
<1>4. CASE ~Jumped(c, number)
    <2>1. UNCHANGED <<partial, lost, discarded>>
        BY <1>4 DEF CheckContinuity
    <2> QED  BY <1>2, <2>1 DEF PacketsTypeOK
<1> QED  BY <1>3, <1>4

\* An empty partial packet is within bounds.
LEMMA EmptyBounded == ~HeaderKnown(<<>>)
    BY PacketsAssumption DEF HeaderKnown

\* A channel's bytes, while a push is at work and between pushes.
Held(c) == IF c = on THEN Len(rest) ELSE 0

LEMMA Balanced ==
    ASSUME PacketsInv, NEW d \in Channels
    PROVE  /\ taken[d] = handed[d] + discarded[d] + Len(partial[d]) + Held(d)
           /\ rest = <<>> => Held(d) = 0
           /\ taken[d] \in Nat /\ handed[d] \in Nat /\ discarded[d] \in Nat
           /\ Len(partial[d]) \in Nat /\ Len(rest) \in Nat /\ Held(d) \in Nat
<1>1. /\ taken[d] \in Nat /\ handed[d] \in Nat /\ discarded[d] \in Nat
      /\ partial[d] \in Seq(Bytes) /\ rest \in Seq(Bytes)
    BY DEF PacketsInv, PacketsTypeOK
<1>2. Len(partial[d]) \in Nat /\ Len(rest) \in Nat
    BY <1>1, LenProperties
<1>3. Held(d) \in Nat /\ (rest = <<>> => Held(d) = 0)
    BY <1>2 DEF Held
<1>4. taken[d] = handed[d] + discarded[d] + Len(partial[d]) + Held(d)
    BY DEF PacketsInv, BytesConserved, Held
<1> QED  BY <1>1, <1>2, <1>3, <1>4

LEMMA TakeFrameInv ==
    ASSUME PacketsInv, NEW c \in Vcids, NEW number \in 0..(Modulus - 1),
           NEW data \in Seq(Bytes), NEW p \in (0..Len(data)) \cup {NO_PACKET_START},
           TakeFrame(c, number, p, data)
    PROVE  PacketsInv'
<1>1. c \in Channels /\ Len(data) \in Nat
    BY LenProperties DEF Channels
<1>2. CheckContinuity(c, number) /\ taken' = [taken EXCEPT ![c] = @ + Len(data)]
    BY DEF TakeFrame, Takes
<1>3. /\ step = "ready" /\ step' = "frame" /\ on' = c /\ pointer' = p /\ rest' = data
      /\ packets' = packets /\ idle' = idle /\ handed' = handed /\ out' = out
    BY DEF TakeFrame
<1>4. taken' \in [Channels -> Nat]
    BY <1>1, <1>2, CounterAdds DEF PacketsInv, PacketsTypeOK
<1>5. p \in Nat \cup {NO_PACKET_START}
    BY <1>1
<1>6. PacketsTypeOK'
    BY <1>1, <1>2, <1>3, <1>4, <1>5, ContinuityType DEF PacketsInv, PacketsTypeOK
<1>7. WorkInv'
    BY <1>3 DEF WorkInv
<1>8. PartialBounded'
    BY <1>2, ContinuityType, EmptyBounded DEF PacketsInv, PartialBounded
<1>9. BytesConserved'
    <2> SUFFICES ASSUME NEW d \in Channels
                 PROVE  taken'[d] = handed'[d] + discarded'[d] + Len(partial'[d]) + Held(d)'
        BY DEF BytesConserved, Held
    <2>1. taken'[d] = taken[d] + IF d = c THEN Len(data) ELSE 0
        BY <1>1, <1>2, CounterAdds DEF PacketsInv, PacketsTypeOK
    <2>2. discarded'[d] + Len(partial'[d]) = discarded[d] + Len(partial[d])
        BY <1>2, ContinuityType DEF PacketsInv
    <2>3. taken[d] = handed[d] + discarded[d] + Len(partial[d])
        BY <1>3, Balanced DEF PacketsInv, WorkInv
    <2>4. discarded'[d] \in Nat /\ partial'[d] \in Seq(Bytes)
        BY <1>6 DEF PacketsTypeOK
    <2>5. Len(partial'[d]) \in Nat
        BY <2>4, LenProperties
    <2>6. Held(d)' = IF d = c THEN Len(data) ELSE 0
        BY <1>3 DEF Held
    <2>7. handed'[d] = handed[d]
        BY <1>3
    <2>8. handed[d] \in Nat /\ discarded[d] \in Nat /\ Len(partial[d]) \in Nat
        BY Balanced
    <2>9. taken'[d] = handed[d] + (discarded[d] + Len(partial[d])) + Held(d)'
        BY <1>1, <2>1, <2>3, <2>6, <2>8
    <2>10. Held(d)' \in Nat
        BY <1>1, <2>6
    <2> QED  BY <2>2, <2>4, <2>5, <2>7, <2>8, <2>9, <2>10
<1> QED  BY <1>6, <1>7, <1>8, <1>9 DEF PacketsInv

LEMMA PassFrameInv ==
    ASSUME PacketsInv, NEW c \in Vcids, NEW number \in 0..(Modulus - 1), PassFrame(c, number)
    PROVE  PacketsInv'
<1>1. CheckContinuity(c, number)
    BY DEF PassFrame
<1>2. /\ step = "ready" /\ step' = "pushed" /\ on' = on /\ pointer' = pointer /\ rest' = rest
      /\ packets' = packets /\ idle' = idle
      /\ handed' = handed /\ taken' = taken /\ out' = out
    BY DEF PassFrame, histVars
<1>3. PacketsTypeOK'
    BY <1>1, <1>2, ContinuityType DEF PacketsInv, PacketsTypeOK
<1>4. WorkInv'
    BY <1>2 DEF PacketsInv, WorkInv
<1>5. PartialBounded'
    BY <1>1, ContinuityType, EmptyBounded DEF PacketsInv, PartialBounded
<1>6. BytesConserved'
    <2> SUFFICES ASSUME NEW d \in Channels
                 PROVE  taken'[d] = handed'[d] + discarded'[d] + Len(partial'[d]) + Held(d)'
        BY DEF BytesConserved, Held
    <2>1. discarded'[d] + Len(partial'[d]) = discarded[d] + Len(partial[d])
        BY <1>1, ContinuityType DEF PacketsInv
    <2>2. Held(d)' = Held(d) /\ taken'[d] = taken[d] /\ handed'[d] = handed[d]
        BY <1>2 DEF Held
    <2>3. discarded'[d] \in Nat /\ partial'[d] \in Seq(Bytes)
        BY <1>3 DEF PacketsTypeOK
    <2>4. Len(partial'[d]) \in Nat
        BY <2>3, LenProperties
    <2>5. /\ taken[d] = handed[d] + discarded[d] + Len(partial[d]) + Held(d)
          /\ handed[d] \in Nat /\ discarded[d] \in Nat /\ Len(partial[d]) \in Nat
          /\ Held(d) \in Nat
        BY Balanced
    <2>6. taken'[d] = handed[d] + (discarded[d] + Len(partial[d])) + Held(d)
        BY <2>2, <2>5
    <2> QED  BY <2>1, <2>2, <2>3, <2>4, <2>5, <2>6
<1> QED  BY <1>3, <1>4, <1>5, <1>6 DEF PacketsInv

LEMMA PushStreamInv ==
    ASSUME PacketsInv, NEW bytes \in Seq(Bytes), PushStream(bytes)
    PROVE  PacketsInv'
<1>1. Stream \in Channels /\ Len(bytes) \in Nat /\ <<>> \in Seq(Bytes)
    BY LenProperties, EmptySeq DEF Channels
<1>2. partial[Stream] \in Seq(Bytes)
    BY <1>1 DEF PacketsInv, PacketsTypeOK
<1>3. /\ step = "ready" /\ step' = "split" /\ on' = Stream
      /\ rest' = partial[Stream] \o bytes /\ partial' = [partial EXCEPT ![Stream] = <<>>]
      /\ taken' = [taken EXCEPT ![Stream] = @ + Len(bytes)]
      /\ last' = last /\ pointer' = pointer
      /\ packets' = packets /\ lost' = lost /\ idle' = idle /\ discarded' = discarded
      /\ handed' = handed /\ out' = out
    BY DEF PushStream, Takes, countVars
<1>4. rest' \in Seq(Bytes) /\ Len(rest') = Len(partial[Stream]) + Len(bytes)
    BY <1>2, <1>3, ConcatProperties
<1>5. taken' \in [Channels -> Nat]
    BY <1>1, <1>3, CounterAdds DEF PacketsInv, PacketsTypeOK
<1>6. partial' \in [Channels -> Seq(Bytes)]
    BY <1>1, <1>3 DEF PacketsInv, PacketsTypeOK
<1>7. \A d \in Channels : partial'[d] = IF d = Stream THEN <<>> ELSE partial[d]
    BY <1>3 DEF PacketsInv, PacketsTypeOK
<1>8. PacketsTypeOK'
    BY <1>1, <1>3, <1>4, <1>5, <1>6 DEF PacketsInv, PacketsTypeOK
<1>9. WorkInv'
    BY <1>1, <1>3, <1>7 DEF WorkInv
<1>10. PartialBounded'
    BY <1>7, EmptyBounded DEF PacketsInv, PartialBounded
<1>11. BytesConserved'
    <2> SUFFICES ASSUME NEW d \in Channels
                 PROVE  taken'[d] = handed'[d] + discarded'[d] + Len(partial'[d]) + Held(d)'
        BY DEF BytesConserved, Held
    <2>1. taken'[d] = taken[d] + IF d = Stream THEN Len(bytes) ELSE 0
        BY <1>1, <1>3, CounterAdds DEF PacketsInv, PacketsTypeOK
    <2>2. taken[d] = handed[d] + discarded[d] + Len(partial[d])
        BY <1>3, Balanced DEF PacketsInv, WorkInv
    <2>3. handed'[d] = handed[d] /\ discarded'[d] = discarded[d]
        BY <1>3
    <2>4. handed[d] \in Nat /\ discarded[d] \in Nat /\ Len(partial[d]) \in Nat
        BY Balanced
    <2>5. CASE d = Stream
        <3>1. Len(partial'[d]) = 0 /\ Held(d)' = Len(partial[d]) + Len(bytes)
            BY <1>3, <1>4, <1>7, <2>5 DEF Held
        <3> QED  BY <1>1, <2>1, <2>2, <2>3, <2>4, <2>5, <3>1
    <2>6. CASE d # Stream
        <3>1. Len(partial'[d]) = Len(partial[d]) /\ Held(d)' = 0
            BY <1>3, <1>7, <2>6 DEF Held
        <3> QED  BY <2>1, <2>2, <2>3, <2>4, <2>6, <3>1
    <2> QED  BY <2>5, <2>6
<1> QED  BY <1>8, <1>9, <1>10, <1>11 DEF PacketsInv

LEMMA FlushPacketsInv == PacketsInv /\ FlushPackets => PacketsInv'
<1> SUFFICES ASSUME PacketsInv, FlushPackets PROVE PacketsInv'
    OBVIOUS
<1>1. /\ step = "ready" /\ step' = "pushed" /\ on' = on /\ pointer' = pointer /\ rest' = rest
      /\ last' = [c \in Channels |-> NoFrame] /\ partial' = [c \in Channels |-> <<>>]
      /\ lost' = [c \in Channels |-> lost[c] + Spent(partial[c])]
      /\ discarded' = [c \in Channels |-> discarded[c] + Len(partial[c])]
      /\ packets' = packets /\ idle' = idle
      /\ handed' = handed /\ taken' = taken /\ out' = out
    BY DEF FlushPackets, histVars
<1>2. \A c \in Channels : lost[c] + Spent(partial[c]) \in Nat
    <2> SUFFICES ASSUME NEW c \in Channels PROVE lost[c] + Spent(partial[c]) \in Nat
        OBVIOUS
    <2>1. lost[c] \in Nat /\ Spent(partial[c]) \in Nat
        BY SpentType DEF PacketsInv, PacketsTypeOK
    <2> QED  BY <2>1
<1>3. \A c \in Channels : discarded[c] + Len(partial[c]) \in Nat
    <2> SUFFICES ASSUME NEW c \in Channels PROVE discarded[c] + Len(partial[c]) \in Nat
        OBVIOUS
    <2>1. discarded[c] \in Nat /\ Len(partial[c]) \in Nat
        BY Balanced
    <2> QED  BY <2>1
<1>4. lost' \in [Channels -> Nat] /\ discarded' \in [Channels -> Nat]
    BY <1>1, <1>2, <1>3
<1>5. /\ partial' \in [Channels -> Seq(Bytes)]
      /\ last' \in [Channels -> {NoFrame} \cup 0..(Modulus - 1)]
    BY <1>1, EmptySeq
<1>6. PacketsTypeOK'
    BY <1>1, <1>4, <1>5 DEF PacketsInv, PacketsTypeOK
<1>7. WorkInv'
    BY <1>1 DEF PacketsInv, WorkInv
<1>8. PartialBounded'
    BY <1>1, EmptyBounded DEF PartialBounded
<1>9. BytesConserved'
    <2> SUFFICES ASSUME NEW d \in Channels
                 PROVE  taken'[d] = handed'[d] + discarded'[d] + Len(partial'[d]) + Held(d)'
        BY DEF BytesConserved, Held
    <2>1. discarded'[d] = discarded[d] + Len(partial[d]) /\ Len(partial'[d]) = 0
        BY <1>1
    <2>2. Held(d)' = Held(d) /\ taken'[d] = taken[d] /\ handed'[d] = handed[d]
        BY <1>1 DEF Held
    <2>3. /\ taken[d] = handed[d] + discarded[d] + Len(partial[d]) + Held(d)
          /\ handed[d] \in Nat /\ discarded[d] \in Nat /\ Len(partial[d]) \in Nat
          /\ Held(d) \in Nat
        BY Balanced
    <2> QED  BY <2>1, <2>2, <2>3
<1> QED  BY <1>6, <1>7, <1>8, <1>9 DEF PacketsInv

LEMMA DrainInv == PacketsInv /\ Drain => PacketsInv'
<1> SUFFICES ASSUME PacketsInv, Drain PROVE PacketsInv'
    OBVIOUS
<1>1. /\ step = "pushed" /\ step' = "ready" /\ on' = Stream /\ pointer' = 0
      /\ packets' = Zero /\ lost' = Zero /\ idle' = Zero /\ discarded' = Zero
      /\ out' = <<>> /\ handed' = Zero
      /\ taken' = [c \in Channels |-> Len(partial[c])]
      /\ last' = last /\ partial' = partial /\ rest' = rest
    BY DEF Drain
<1>2. Zero \in [Channels -> Nat] /\ Stream \in Channels /\ \A c \in Channels : Zero[c] = 0
    BY DEF Zero, Channels
<1>3. \A c \in Channels : Len(partial[c]) \in Nat
    BY Balanced
<1>4. taken' \in [Channels -> Nat]
    BY <1>1, <1>3
<1>5. out' \in Seq(Seq(Bytes))
    BY <1>1, EmptySeq
<1>6. PacketsTypeOK'
    BY <1>1, <1>2, <1>4, <1>5 DEF PacketsInv, PacketsTypeOK
<1>7. WorkInv'
    BY <1>1 DEF PacketsInv, WorkInv
<1>8. PartialBounded'
    BY <1>1 DEF PacketsInv, PartialBounded
<1>9. BytesConserved'
    <2> SUFFICES ASSUME NEW d \in Channels
                 PROVE  taken'[d] = handed'[d] + discarded'[d] + Len(partial'[d]) + Held(d)'
        BY DEF BytesConserved, Held
    <2>1. Held(d)' = 0
        <3>1. Len(rest') = 0
            BY <1>1 DEF PacketsInv, WorkInv
        <3> QED  BY <3>1 DEF Held
    <2>2. /\ taken'[d] = Len(partial[d]) /\ partial'[d] = partial[d]
          /\ handed'[d] = 0 /\ discarded'[d] = 0
        BY <1>1, <1>2
    <2>3. Len(partial[d]) \in Nat
        BY <1>3
    <2> QED  BY <2>1, <2>2, <2>3
<1> QED  BY <1>6, <1>7, <1>8, <1>9 DEF PacketsInv

\* Feeding the bytes in front of the pointer: what all its outcomes share.
LEMMA FeedingFacts ==
    ASSUME PacketsInv, Feeding
    PROVE  /\ step = "frame" /\ step' = "split" /\ rest' = Behind
           /\ last' = last /\ on' = on /\ pointer' = pointer /\ taken' = taken
           /\ on \in Channels /\ rest' \in Seq(Bytes) /\ Len(rest') \in Nat
           /\ Fed \in Seq(Bytes) /\ Len(Fed) \in Nat
           /\ Len(Fed) + Len(rest') = Len(partial[on]) + Len(rest)
<1>1. /\ step = "frame" /\ step' = "split" /\ rest' = Behind
      /\ last' = last /\ on' = on /\ pointer' = pointer /\ taken' = taken
    BY DEF Feeding
<1>2. on \in Channels
    BY DEF PacketsInv, PacketsTypeOK
<1>3. /\ Ahead \in Seq(Bytes) /\ Behind \in Seq(Bytes)
      /\ Len(Ahead) + Len(Behind) = Len(rest)
      /\ Len(Ahead) \in Nat /\ Len(Behind) \in Nat
      /\ Fed \in Seq(Bytes) /\ Len(Fed) = Len(partial[on]) + Len(Ahead)
    BY <1>1, AheadType
<1>4. Len(partial[on]) \in Nat /\ Len(rest) \in Nat
    BY <1>2, Balanced
<1>5. Len(Fed) \in Nat
    BY <1>3, LenProperties
<1>6. Len(Fed) + Len(Behind) = Len(partial[on]) + Len(rest)
    <2> DEFINE a == Len(Ahead)  b == Len(Behind)  p == Len(partial[on])
               f == Len(Fed)    r == Len(rest)
    <2>1. a \in Nat /\ b \in Nat /\ p \in Nat /\ f = p + a /\ a + b = r
        BY <1>3, <1>4
    <2> HIDE DEF a, b, p, f, r
    <2>2. f + b = p + r
        BY <2>1
    <2> QED  BY <2>2 DEF a, b, p, f, r
<1> QED  BY <1>1, <1>2, <1>3, <1>5, <1>6

\* A step that only moves bytes of the channel at work keeps the books if they
\* balance for that channel.
LEMMA OneChannel ==
    ASSUME PacketsInv, on' = on, taken' = taken,
           NEW h \in Nat, NEW g \in Nat,
           handed' = [handed EXCEPT ![on] = @ + h],
           discarded' = [discarded EXCEPT ![on] = @ + g],
           \A d \in Channels : d # on => partial'[d] = partial[d],
           Len(partial'[on]) \in Nat, Len(rest') \in Nat,
           Len(partial[on]) + Len(rest) = h + g + Len(partial'[on]) + Len(rest')
    PROVE  BytesConserved'
<1> SUFFICES ASSUME NEW d \in Channels
             PROVE  taken'[d] = handed'[d] + discarded'[d] + Len(partial'[d]) + Held(d)'
    BY DEF BytesConserved, Held
<1>1. on \in Channels /\ taken'[d] = taken[d]
    BY DEF PacketsInv, PacketsTypeOK
<1>2. /\ handed'[d] = handed[d] + IF d = on THEN h ELSE 0
      /\ discarded'[d] = discarded[d] + IF d = on THEN g ELSE 0
    <2>1. handed \in [Channels -> Nat] /\ discarded \in [Channels -> Nat]
        BY DEF PacketsInv, PacketsTypeOK
    <2>2. handed'[d] = handed[d] + IF d = on THEN h ELSE 0
        BY <1>1, <2>1, CounterAdds
    <2>3. discarded'[d] = discarded[d] + IF d = on THEN g ELSE 0
        BY <1>1, <2>1, CounterAdds
    <2> QED  BY <2>2, <2>3
<1>3. /\ taken[d] = handed[d] + discarded[d] + Len(partial[d]) + Held(d)
      /\ handed[d] \in Nat /\ discarded[d] \in Nat /\ Len(partial[d]) \in Nat
      /\ Len(rest) \in Nat
    BY Balanced
<1>4. CASE d = on
    <2>1. Held(d) = Len(rest) /\ Held(d)' = Len(rest')
        BY <1>4 DEF Held
    <2>2. handed'[d] = handed[d] + h /\ discarded'[d] = discarded[d] + g
        BY <1>2, <1>4
    <2>3. Len(partial[d]) + Len(rest) = h + g + Len(partial'[d]) + Len(rest')
        BY <1>4
    <2>4. Len(partial'[d]) \in Nat
        BY <1>4
    <2> DEFINE h0 == handed[d]  g0 == discarded[d]  p0 == Len(partial[d])  r0 == Len(rest)
               p1 == Len(partial'[d])  r1 == Len(rest')
    <2>5. /\ h0 \in Nat /\ g0 \in Nat /\ p0 \in Nat /\ r0 \in Nat /\ p1 \in Nat /\ r1 \in Nat
          /\ p0 + r0 = h + g + p1 + r1
        BY <1>3, <2>3, <2>4
    <2>6. /\ taken'[d] = h0 + g0 + p0 + r0
          /\ handed'[d] = h0 + h /\ discarded'[d] = g0 + g
          /\ Len(partial'[d]) = p1 /\ Held(d)' = r1
        BY <1>1, <1>3, <2>1, <2>2
    <2> HIDE DEF h0, g0, p0, r0, p1, r1
    <2>7. h0 + g0 + p0 + r0 = (h0 + h) + (g0 + g) + p1 + r1
        BY <2>5
    <2> QED  BY <2>6, <2>7
<1>5. CASE d # on
    <2>1. Held(d) = 0 /\ Held(d)' = 0 /\ partial'[d] = partial[d]
        BY <1>5 DEF Held
    <2> QED  BY <1>1, <1>2, <1>3, <1>5, <2>1
<1> QED  BY <1>4, <1>5

LEMMA NoPacketInFrontInv == PacketsInv /\ NoPacketInFront => PacketsInv'
<1> SUFFICES ASSUME PacketsInv, NoPacketInFront PROVE PacketsInv'
    OBVIOUS
<1>1. /\ step = "frame" /\ step' = "split" /\ rest' = Behind /\ partial[on] = <<>>
      /\ discarded' = [discarded EXCEPT ![on] = @ + Len(Ahead)]
      /\ last' = last /\ partial' = partial /\ on' = on /\ pointer' = pointer
      /\ packets' = packets /\ lost' = lost /\ idle' = idle
      /\ out' = out /\ taken' = taken /\ handed' = handed
    BY DEF NoPacketInFront, IsAssembling, Discard, histVars
<1>2. /\ on \in Channels /\ handed \in [Channels -> Nat] /\ discarded \in [Channels -> Nat]
    BY DEF PacketsInv, PacketsTypeOK
<1>3. /\ rest' \in Seq(Bytes) /\ Len(Ahead) \in Nat /\ Len(rest') \in Nat
      /\ Len(Ahead) + Len(rest') = Len(rest)
    BY <1>1, AheadType
<1>4. discarded' \in [Channels -> Nat]
    BY <1>1, <1>2, <1>3, CounterAdds
<1>5. PacketsTypeOK'
    BY <1>1, <1>3, <1>4 DEF PacketsInv, PacketsTypeOK
<1>6. WorkInv'
    BY <1>1 DEF WorkInv
<1>7. PartialBounded'
    BY <1>1 DEF PacketsInv, PartialBounded
<1>8. BytesConserved'
    <2>1. handed' = [handed EXCEPT ![on] = @ + 0]
        BY <1>1, <1>2, NothingAdded
    <2>2. Len(partial[on]) = 0 /\ Len(partial'[on]) = 0
        BY <1>1
    <2>3. Len(partial[on]) + Len(rest) = 0 + Len(Ahead) + Len(partial'[on]) + Len(rest')
        <3> DEFINE a == Len(Ahead)  b == Len(rest')  r == Len(rest)
        <3>1. a \in Nat /\ b \in Nat /\ a + b = r
            BY <1>3
        <3> HIDE DEF a, b, r
        <3>2. 0 + r = 0 + a + 0 + b
            BY <3>1
        <3> QED  BY <2>2, <3>2 DEF a, b, r
    <2> QED  BY <1>1, <1>3, <2>1, <2>2, <2>3, OneChannel
<1> QED  BY <1>5, <1>6, <1>7, <1>8 DEF PacketsInv

LEMMA FeedGrowsInv == PacketsInv /\ FeedGrows => PacketsInv'
<1> SUFFICES ASSUME PacketsInv, FeedGrows PROVE PacketsInv'
    OBVIOUS
<1>1. /\ Feeding /\ ~TooLong(Fed) /\ ~IsWhole(Fed) /\ pointer = NO_PACKET_START
      /\ partial' = [partial EXCEPT ![on] = Fed]
      /\ packets' = packets /\ lost' = lost /\ idle' = idle /\ discarded' = discarded
      /\ handed' = handed /\ out' = out
    BY DEF FeedGrows, countVars
<1>2. /\ step = "frame" /\ step' = "split" /\ rest' = Behind
      /\ last' = last /\ on' = on /\ pointer' = pointer /\ taken' = taken
      /\ on \in Channels /\ rest' \in Seq(Bytes) /\ Len(rest') \in Nat
      /\ Fed \in Seq(Bytes) /\ Len(Fed) \in Nat
      /\ Len(Fed) + Len(rest') = Len(partial[on]) + Len(rest)
    BY <1>1, FeedingFacts
<1>3. rest' = <<>>
    BY <1>1, <1>2 DEF Behind
<1>4. partial' \in [Channels -> Seq(Bytes)]
    BY <1>1, <1>2 DEF PacketsInv, PacketsTypeOK
<1>5. \A d \in Channels : partial'[d] = IF d = on THEN Fed ELSE partial[d]
    BY <1>1 DEF PacketsInv, PacketsTypeOK
<1>6. PacketsTypeOK'
    BY <1>1, <1>2, <1>4 DEF PacketsInv, PacketsTypeOK
<1>7. WorkInv'
    BY <1>2, <1>3 DEF WorkInv
<1>8. HeaderKnown(Fed) => Len(Fed) < Declared(Fed) /\ Declared(Fed) <= MaxPacketLength
    BY <1>1, <1>2, DeclaredType, PacketsAssumption DEF TooLong, IsWhole
<1>9. PartialBounded'
    BY <1>5, <1>8 DEF PacketsInv, PartialBounded
<1>10. BytesConserved'
    <2>1. handed' = [handed EXCEPT ![on] = @ + 0] /\ discarded' = [discarded EXCEPT ![on] = @ + 0]
        BY <1>1, <1>2, NothingAdded DEF PacketsInv, PacketsTypeOK
    <2>2. Len(partial'[on]) = Len(Fed)
        BY <1>2, <1>5
    <2>3. Len(partial[on]) + Len(rest) = 0 + 0 + Len(partial'[on]) + Len(rest')
        <3> DEFINE f == Len(Fed)  b == Len(rest')  t == Len(partial[on]) + Len(rest)
        <3>1. f \in Nat /\ b \in Nat /\ f + b = t
            BY <1>2
        <3> HIDE DEF f, b, t
        <3>2. t = 0 + 0 + f + b
            BY <3>1
        <3> QED  BY <2>2, <3>2 DEF f, b, t
    <2> QED  BY <1>2, <1>5, <2>1, <2>2, <2>3, OneChannel
<1> QED  BY <1>6, <1>7, <1>9, <1>10 DEF PacketsInv

\* The two outcomes that throw the packet away.
LEMMA FeedGivesUpInv ==
    ASSUME PacketsInv, Feeding, GiveUp(on, Fed), partial' = [partial EXCEPT ![on] = <<>>],
           UNCHANGED <<packets, idle, handed, out>>
    PROVE  PacketsInv'
<1>1. /\ step = "frame" /\ step' = "split" /\ rest' = Behind
      /\ last' = last /\ on' = on /\ pointer' = pointer /\ taken' = taken
      /\ on \in Channels /\ rest' \in Seq(Bytes) /\ Len(rest') \in Nat
      /\ Fed \in Seq(Bytes) /\ Len(Fed) \in Nat
      /\ Len(Fed) + Len(rest') = Len(partial[on]) + Len(rest)
    BY FeedingFacts
<1>2. lost' \in [Channels -> Nat] /\ discarded' \in [Channels -> Nat]
    BY <1>1, GiveUpType DEF PacketsInv
<1>3. \A d \in Channels : partial'[d] = IF d = on THEN <<>> ELSE partial[d]
    BY DEF PacketsInv, PacketsTypeOK
<1>4. partial' \in [Channels -> Seq(Bytes)]
    BY EmptySeq DEF PacketsInv, PacketsTypeOK
<1>5. PacketsTypeOK'
    BY <1>1, <1>2, <1>4 DEF PacketsInv, PacketsTypeOK
<1>6. WorkInv'
    BY <1>1, <1>3 DEF WorkInv
<1>7. PartialBounded'
    BY <1>3, EmptyBounded DEF PacketsInv, PartialBounded
<1>8. BytesConserved'
    <2>1. handed' = [handed EXCEPT ![on] = @ + 0]
        BY <1>1, NothingAdded DEF PacketsInv, PacketsTypeOK
    <2>2. discarded' = [discarded EXCEPT ![on] = @ + Len(Fed)]
        BY DEF GiveUp
    <2>3. Len(partial'[on]) = 0
        BY <1>1, <1>3
    <2>4. Len(partial[on]) + Len(rest) = 0 + Len(Fed) + Len(partial'[on]) + Len(rest')
        <3> DEFINE f == Len(Fed)  b == Len(rest')  t == Len(partial[on]) + Len(rest)
        <3>1. f \in Nat /\ b \in Nat /\ f + b = t
            BY <1>1
        <3> HIDE DEF f, b, t
        <3>2. t = 0 + f + 0 + b
            BY <3>1
        <3> QED  BY <2>3, <3>2 DEF f, b, t
    <2>5. /\ \A d \in Channels : d # on => partial'[d] = partial[d]
          /\ Len(partial'[on]) \in Nat
        BY <1>3, <2>3
    <2> QED  BY <1>1, <2>1, <2>2, <2>4, <2>5, OneChannel
<1> QED  BY <1>5, <1>6, <1>7, <1>8 DEF PacketsInv

LEMMA FeedCompletesInv == PacketsInv /\ FeedCompletes => PacketsInv'
<1> SUFFICES ASSUME PacketsInv, FeedCompletes PROVE PacketsInv'
    OBVIOUS
<1> DEFINE whole == SubSeq(Fed, 1, Declared(Fed))
           over == Len(Fed) - Declared(Fed)
<1>1. /\ Feeding /\ IsWhole(Fed) /\ partial' = [partial EXCEPT ![on] = <<>>]
      /\ Deliver(on, whole) /\ discarded' = [discarded EXCEPT ![on] = @ + over]
      /\ lost' = lost
    BY DEF FeedCompletes, Discard
<1>2. /\ step = "frame" /\ step' = "split" /\ rest' = Behind
      /\ last' = last /\ on' = on /\ pointer' = pointer /\ taken' = taken
      /\ on \in Channels /\ rest' \in Seq(Bytes) /\ Len(rest') \in Nat
      /\ Fed \in Seq(Bytes) /\ Len(Fed) \in Nat
      /\ Len(Fed) + Len(rest') = Len(partial[on]) + Len(rest)
    BY <1>1, FeedingFacts
<1>3. Declared(Fed) \in 0..Len(Fed)
    BY <1>1, <1>2, DeclaredType DEF IsWhole
<1>4. whole \in Seq(Bytes) /\ Len(whole) = Declared(Fed)
    BY <1>2, <1>3, Cut
<1>5. over \in Nat /\ Len(whole) + over = Len(Fed)
    BY <1>2, <1>3, <1>4
<1> HIDE DEF whole, over
<1>6. /\ packets' \in [Channels -> Nat] /\ idle' \in [Channels -> Nat]
      /\ handed' \in [Channels -> Nat] /\ out' \in Seq(Seq(Bytes))
      /\ handed' = [handed EXCEPT ![on] = @ + Len(whole)]
    BY <1>1, <1>2, <1>4, DeliverType DEF PacketsInv
<1>7. discarded' \in [Channels -> Nat]
    BY <1>1, <1>2, <1>5, CounterAdds DEF PacketsInv, PacketsTypeOK
<1>8. \A d \in Channels : partial'[d] = IF d = on THEN <<>> ELSE partial[d]
    BY <1>1 DEF PacketsInv, PacketsTypeOK
<1>9. partial' \in [Channels -> Seq(Bytes)]
    BY <1>1, EmptySeq DEF PacketsInv, PacketsTypeOK
<1>10. PacketsTypeOK'
    BY <1>1, <1>2, <1>6, <1>7, <1>9 DEF PacketsInv, PacketsTypeOK
<1>11. WorkInv'
    BY <1>2, <1>8 DEF WorkInv
<1>12. PartialBounded'
    BY <1>8, EmptyBounded DEF PacketsInv, PartialBounded
<1>13. BytesConserved'
    <2>1. Len(partial'[on]) = 0
        BY <1>2, <1>8
    <2>2. Len(whole) \in Nat
        BY <1>3, <1>4
    <2>3. Len(partial[on]) + Len(rest) = Len(whole) + over + Len(partial'[on]) + Len(rest')
        <3> DEFINE f == Len(Fed)  b == Len(rest')  t == Len(partial[on]) + Len(rest)
                   w == Len(whole)
        <3>1. f \in Nat /\ b \in Nat /\ f + b = t /\ w \in Nat /\ over \in Nat /\ w + over = f
            BY <1>2, <1>5, <2>2
        <3> HIDE DEF f, b, t, w
        <3>2. t = w + over + 0 + b
            BY <3>1
        <3> QED  BY <2>1, <3>2 DEF f, b, t, w
    <2>4. /\ \A d \in Channels : d # on => partial'[d] = partial[d]
          /\ Len(partial'[on]) \in Nat
        BY <1>8, <2>1
    <2> QED  BY <1>1, <1>2, <1>5, <1>6, <2>2, <2>3, <2>4, OneChannel
<1> QED  BY <1>10, <1>11, <1>12, <1>13 DEF PacketsInv

\* Splitting what starts at the pointer, or what a stream holds.
LEMMA SplittingFacts ==
    ASSUME PacketsInv, Splitting
    PROVE  /\ step = "split" /\ step' = "split" /\ rest # <<>>
           /\ last' = last /\ on' = on /\ pointer' = pointer /\ taken' = taken
           /\ on \in Channels /\ rest \in Seq(Bytes) /\ Len(rest) \in Nat
           /\ partial[on] = <<>> /\ Len(partial[on]) = 0
    BY Balanced DEF Splitting, PacketsInv, PacketsTypeOK, WorkInv

LEMMA SplitDeliversInv == PacketsInv /\ SplitDelivers => PacketsInv'
<1> SUFFICES ASSUME PacketsInv, SplitDelivers PROVE PacketsInv'
    OBVIOUS
<1> DEFINE n == Declared(rest)
           whole == SubSeq(rest, 1, n)
           tail == SubSeq(rest, n + 1, Len(rest))
<1>1. /\ Splitting /\ IsWhole(rest) /\ Deliver(on, whole) /\ rest' = tail
      /\ partial' = partial /\ lost' = lost /\ discarded' = discarded
    BY DEF SplitDelivers
<1>2. /\ step = "split" /\ step' = "split" /\ rest # <<>>
      /\ last' = last /\ on' = on /\ pointer' = pointer /\ taken' = taken
      /\ on \in Channels /\ rest \in Seq(Bytes) /\ Len(rest) \in Nat
      /\ partial[on] = <<>> /\ Len(partial[on]) = 0
    BY <1>1, SplittingFacts
<1>3. n \in 0..Len(rest)
    BY <1>1, <1>2, DeclaredType DEF IsWhole
<1>4. /\ whole \in Seq(Bytes) /\ Len(whole) = n
      /\ tail \in Seq(Bytes) /\ Len(tail) = Len(rest) - n
    BY <1>2, <1>3, Cut
<1>5. /\ Len(whole) \in Nat /\ Len(tail) \in Nat /\ Len(whole) + Len(tail) = Len(rest)
    BY <1>2, <1>3, <1>4
<1> HIDE DEF n, whole, tail
<1>6. /\ packets' \in [Channels -> Nat] /\ idle' \in [Channels -> Nat]
      /\ handed' \in [Channels -> Nat] /\ out' \in Seq(Seq(Bytes))
      /\ handed' = [handed EXCEPT ![on] = @ + Len(whole)]
    BY <1>1, <1>2, <1>4, DeliverType DEF PacketsInv
<1>7. PacketsTypeOK'
    BY <1>1, <1>2, <1>4, <1>6 DEF PacketsInv, PacketsTypeOK
<1>8. WorkInv'
    BY <1>1, <1>2 DEF WorkInv
<1>9. PartialBounded'
    BY <1>1 DEF PacketsInv, PartialBounded
<1>10. BytesConserved'
    <2>1. discarded' = [discarded EXCEPT ![on] = @ + 0]
        BY <1>1, <1>2, NothingAdded DEF PacketsInv, PacketsTypeOK
    <2>2. Len(partial[on]) + Len(rest) = Len(whole) + 0 + Len(partial'[on]) + Len(rest')
        <3> DEFINE w == Len(whole)  t == Len(tail)  r == Len(rest)
        <3>1. w \in Nat /\ t \in Nat /\ w + t = r
            BY <1>5
        <3> HIDE DEF w, t, r
        <3>2. 0 + r = w + 0 + 0 + t
            BY <3>1
        <3> QED  BY <1>1, <1>2, <3>2 DEF w, t, r
    <2>3. /\ \A d \in Channels : d # on => partial'[d] = partial[d]
          /\ Len(partial'[on]) \in Nat /\ Len(rest') \in Nat
        BY <1>1, <1>2, <1>5
    <2> QED  BY <1>2, <1>5, <1>6, <2>1, <2>2, <2>3, OneChannel
<1> QED  BY <1>7, <1>8, <1>9, <1>10 DEF PacketsInv

LEMMA SplitKeepsTailInv == PacketsInv /\ SplitKeepsTail => PacketsInv'
<1> SUFFICES ASSUME PacketsInv, SplitKeepsTail PROVE PacketsInv'
    OBVIOUS
<1>1. /\ Splitting /\ ~TooLong(rest) /\ ~IsWhole(rest)
      /\ partial' = [partial EXCEPT ![on] = @ \o rest] /\ rest' = <<>>
      /\ packets' = packets /\ lost' = lost /\ idle' = idle /\ discarded' = discarded
      /\ handed' = handed /\ out' = out
    BY DEF SplitKeepsTail, countVars
<1>2. /\ step = "split" /\ step' = "split" /\ rest # <<>>
      /\ last' = last /\ on' = on /\ pointer' = pointer /\ taken' = taken
      /\ on \in Channels /\ rest \in Seq(Bytes) /\ Len(rest) \in Nat
      /\ partial[on] = <<>> /\ Len(partial[on]) = 0
    BY <1>1, SplittingFacts
<1>3. partial[on] \o rest = rest
    BY <1>2, ConcatEmptySeq
<1>4. \A d \in Channels : partial'[d] = IF d = on THEN rest ELSE partial[d]
    BY <1>1, <1>3 DEF PacketsInv, PacketsTypeOK
<1>5. partial' \in [Channels -> Seq(Bytes)]
    BY <1>1, <1>2, <1>3 DEF PacketsInv, PacketsTypeOK
<1>6. PacketsTypeOK'
    BY <1>1, <1>2, <1>5, EmptySeq DEF PacketsInv, PacketsTypeOK
<1>7. WorkInv'
    BY <1>1, <1>2 DEF WorkInv
<1>8. HeaderKnown(rest) => Len(rest) < Declared(rest) /\ Declared(rest) <= MaxPacketLength
    BY <1>1, <1>2, DeclaredType, PacketsAssumption DEF TooLong, IsWhole
<1>9. PartialBounded'
    BY <1>4, <1>8 DEF PacketsInv, PartialBounded
<1>10. BytesConserved'
    <2>1. handed' = [handed EXCEPT ![on] = @ + 0] /\ discarded' = [discarded EXCEPT ![on] = @ + 0]
        BY <1>1, <1>2, NothingAdded DEF PacketsInv, PacketsTypeOK
    <2>2. Len(partial'[on]) = Len(rest) /\ Len(rest') = 0
        BY <1>1, <1>2, <1>4
    <2>3. Len(partial[on]) + Len(rest) = 0 + 0 + Len(partial'[on]) + Len(rest')
        <3> DEFINE r == Len(rest)
        <3>1. r \in Nat
            BY <1>2
        <3> HIDE DEF r
        <3>2. 0 + r = 0 + 0 + r + 0
            BY <3>1
        <3> QED  BY <1>2, <2>2, <3>2 DEF r
    <2>4. /\ \A d \in Channels : d # on => partial'[d] = partial[d]
          /\ Len(partial'[on]) \in Nat /\ Len(rest') \in Nat
        BY <1>2, <1>4, <2>2
    <2> QED  BY <1>2, <2>1, <2>3, <2>4, OneChannel
<1> QED  BY <1>6, <1>7, <1>9, <1>10 DEF PacketsInv

LEMMA SplitDesynchronisedInv == PacketsInv /\ SplitDesynchronised => PacketsInv'
<1> SUFFICES ASSUME PacketsInv, SplitDesynchronised PROVE PacketsInv'
    OBVIOUS
<1>1. /\ Splitting /\ TooLong(rest) /\ rest' = <<>>
      /\ discarded' = [discarded EXCEPT ![on] = @ + Len(rest)] /\ partial' = partial
      /\ packets' = packets /\ lost' = lost /\ idle' = idle
      /\ handed' = handed /\ out' = out
    BY DEF SplitDesynchronised, Discard
<1>2. /\ step = "split" /\ step' = "split" /\ rest # <<>>
      /\ last' = last /\ on' = on /\ pointer' = pointer /\ taken' = taken
      /\ on \in Channels /\ rest \in Seq(Bytes) /\ Len(rest) \in Nat
      /\ partial[on] = <<>> /\ Len(partial[on]) = 0
    BY <1>1, SplittingFacts
<1>3. discarded' \in [Channels -> Nat]
    BY <1>1, <1>2, CounterAdds DEF PacketsInv, PacketsTypeOK
<1>4. PacketsTypeOK'
    BY <1>1, <1>2, <1>3, EmptySeq DEF PacketsInv, PacketsTypeOK
<1>5. WorkInv'
    BY <1>1, <1>2 DEF WorkInv
<1>6. PartialBounded'
    BY <1>1 DEF PacketsInv, PartialBounded
<1>7. BytesConserved'
    <2>1. handed' = [handed EXCEPT ![on] = @ + 0]
        BY <1>1, <1>2, NothingAdded DEF PacketsInv, PacketsTypeOK
    <2>2. Len(partial[on]) + Len(rest) = 0 + Len(rest) + Len(partial'[on]) + Len(rest')
        <3> DEFINE r == Len(rest)
        <3>1. r \in Nat
            BY <1>2
        <3> HIDE DEF r
        <3>2. 0 + r = 0 + r + 0 + 0
            BY <3>1
        <3>3. Len(partial'[on]) = 0 /\ Len(rest') = 0
            BY <1>1, <1>2
        <3> QED  BY <1>2, <3>2, <3>3 DEF r
    <2>3. /\ \A d \in Channels : d # on => partial'[d] = partial[d]
          /\ Len(partial'[on]) \in Nat /\ Len(rest') \in Nat
        BY <1>1, <1>2
    <2> QED  BY <1>1, <1>2, <2>1, <2>2, <2>3, OneChannel
<1> QED  BY <1>4, <1>5, <1>6, <1>7 DEF PacketsInv

LEMMA SplitDoneInv == PacketsInv /\ SplitDone => PacketsInv'
<1> SUFFICES ASSUME PacketsInv, SplitDone PROVE PacketsInv'
    OBVIOUS
<1>1. /\ step' = "pushed" /\ rest = <<>> /\ rest' = rest
      /\ last' = last /\ partial' = partial /\ on' = on /\ pointer' = pointer
      /\ packets' = packets /\ lost' = lost /\ idle' = idle /\ discarded' = discarded
      /\ out' = out /\ taken' = taken /\ handed' = handed
    BY DEF SplitDone, countVars, histVars
<1>2. PacketsTypeOK' /\ WorkInv'
    BY <1>1 DEF PacketsInv, PacketsTypeOK, WorkInv
<1>3. PartialBounded' /\ BytesConserved'
    BY <1>1 DEF PacketsInv, PartialBounded, BytesConserved
<1> QED  BY <1>2, <1>3 DEF PacketsInv

LEMMA StutterInv == PacketsInv /\ UNCHANGED packetVars => PacketsInv'
<1> SUFFICES ASSUME PacketsInv, UNCHANGED packetVars PROVE PacketsInv'
    OBVIOUS
<1>1. /\ step' = step /\ rest' = rest /\ last' = last /\ partial' = partial
      /\ on' = on /\ pointer' = pointer
      /\ packets' = packets /\ lost' = lost /\ idle' = idle /\ discarded' = discarded
      /\ out' = out /\ taken' = taken /\ handed' = handed
    BY DEF packetVars, workVars, countVars, histVars
<1>2. PacketsTypeOK' /\ WorkInv'
    BY <1>1 DEF PacketsInv, PacketsTypeOK, WorkInv
<1>3. PartialBounded' /\ BytesConserved'
    BY <1>1 DEF PacketsInv, PartialBounded, BytesConserved
<1> QED  BY <1>2, <1>3 DEF PacketsInv

LEMMA StepInv == PacketsInv /\ PacketsStep => PacketsInv'
<1> SUFFICES ASSUME PacketsInv, PacketsStep PROVE PacketsInv'
    OBVIOUS
<1>1. CASE NoPacketInFront
    BY <1>1, NoPacketInFrontInv
<1>2. CASE FeedGrows
    BY <1>2, FeedGrowsInv
<1>3. CASE FeedAbandoned
    BY <1>3, FeedGivesUpInv DEF FeedAbandoned
<1>4. CASE FeedCompletes
    BY <1>4, FeedCompletesInv
<1>5. CASE FeedDropped
    BY <1>5, FeedGivesUpInv DEF FeedDropped
<1>6. CASE SplitDelivers
    BY <1>6, SplitDeliversInv
<1>7. CASE SplitKeepsTail
    BY <1>7, SplitKeepsTailInv
<1>8. CASE SplitDesynchronised
    BY <1>8, SplitDesynchronisedInv
<1>9. CASE SplitDone
    BY <1>9, SplitDoneInv
<1>10. CASE Drain
    BY <1>10, DrainInv
<1> QED  BY <1>1, <1>2, <1>3, <1>4, <1>5, <1>6, <1>7, <1>8, <1>9, <1>10 DEF PacketsStep

\* Whatever is pushed into the packet stages, the invariant holds: the one
\* every theorem below follows from.
LEMMA InvHolds == PacketsSpec => []PacketsInv
<1>1. PacketsInv /\ [PacketsNext]_packetVars => PacketsInv'
    <2> SUFFICES ASSUME PacketsInv, [PacketsNext]_packetVars PROVE PacketsInv'
        OBVIOUS
    <2>1. ASSUME NEW c \in Vcids, NEW number \in 0..(Modulus - 1), NEW data \in Seq(Bytes),
                 NEW p \in (0..Len(data)) \cup {NO_PACKET_START}, TakeFrame(c, number, p, data)
          PROVE  PacketsInv'
        BY <2>1, TakeFrameInv
    <2>2. ASSUME NEW c \in Vcids, NEW number \in 0..(Modulus - 1), PassFrame(c, number)
          PROVE  PacketsInv'
        BY <2>2, PassFrameInv
    <2>3. ASSUME NEW bytes \in Seq(Bytes), PushStream(bytes) PROVE PacketsInv'
        BY <2>3, PushStreamInv
    <2>4. CASE FlushPackets
        BY <2>4, FlushPacketsInv
    <2>5. CASE PacketsStep
        BY <2>5, StepInv
    <2>6. CASE UNCHANGED packetVars
        BY <2>6, StutterInv
    <2> QED  BY <2>1, <2>2, <2>3, <2>4, <2>5, <2>6 DEF PacketsNext
<1> QED  BY InitInv, <1>1, PTL DEF PacketsSpec

\* The type invariant of the packet stages, for every number of channels and
\* every frame and stream they may be given.
THEOREM PacketsTypeCorrect == PacketsSpec => []PacketsTypeOK
<1>1. PacketsInv => PacketsTypeOK
    BY DEF PacketsInv
<1> QED  BY InvHolds, <1>1, PTL

\* No channel ever holds a packet that is already whole, nor as many bytes as
\* max_packet_length, whatever lengths the frames declare.
THEOREM PartialIsBounded == PacketsSpec => []PartialBounded
<1>1. PacketsInv => PartialBounded
    BY DEF PacketsInv
<1> QED  BY InvHolds, <1>1, PTL

\* No byte given to a packet stage is lost without being counted: neither by a
\* gap, nor by a desynchronised field, nor by a reset.
THEOREM NoByteUncounted == PacketsSpec => []BytesConserved
<1>1. PacketsInv => BytesConserved
    BY DEF PacketsInv
<1> QED  BY InvHolds, <1>1, PTL

-----------------------------------------------------------------------------
(***************************************************************************)
(* The downlink.  Between two pushes each channel holds the beginning of    *)
(* the packet the spacecraft is in the middle of, as far as the ground was  *)
(* given it; during one, the bytes not yet taken apart are a stretch of the *)
(* packets laid end to end, cut at a packet start, and the packets before   *)
(* the cut are handed out, counted or skipped as was owed (AsSentInv).      *)
(***************************************************************************)
\* Induction on numbers: a property that fails, fails at a least one.
Fewer == {pair \in Nat \X Nat : pair[1] < pair[2]}

LEMMA FewestOf ==
    ASSUME NEW T, T \subseteq Nat, T # {}
    PROVE  \E n \in T : \A m \in T : n <= m
<1>1. OpToRel(<, Nat) = Fewer
    BY DEF OpToRel, Fewer
<1>2. \E x \in T : \A y \in T : ~(<<y, x>> \in Fewer)
    BY <1>1, NatLessThanWellFounded, WFMin
<1>3. \A x, y \in Nat : <<y, x>> \notin Fewer => x <= y
    BY DEF Fewer
<1> QED  BY <1>2, <1>3

-----------------------------------------------------------------------------
(***************************************************************************)
(* What is sent.                                                            *)
(***************************************************************************)
SpacePackets == {p \in Seq(Bytes) : Len(p) > HeaderBytes /\ p[HeaderBytes].len = Len(p)}

\* Packets laid end to end, the last of them starting inside n bytes and not
\* ending before.
Laid(pieces, start, n) ==
    /\ pieces \in Seq(SpacePackets) /\ n \in Nat
    /\ Len(pieces) \in Nat /\ Len(pieces) >= 1
    /\ start \in [1..(Len(pieces) + 1) -> Int]
    /\ start[1] <= 0 /\ start[2] > 0
    /\ \A i \in 1..Len(pieces) : start[i + 1] = start[i] + Len(pieces[i])
    /\ start[Len(pieces)] < n /\ n <= start[Len(pieces) + 1]

LEMMA HeaderIs == HeaderBytes \in Nat /\ HeaderBytes >= 1 /\ MaxPacketLength \in Nat
    BY PacketsAssumption

\* A packet of a sequence of them: its bytes, and the length its header says.
LEMMA PieceIs ==
    ASSUME NEW pieces \in Seq(SpacePackets), NEW i \in 1..Len(pieces)
    PROVE  /\ pieces[i] \in Seq(Bytes)
           /\ Len(pieces[i]) \in Nat /\ Len(pieces[i]) > HeaderBytes
           /\ pieces[i][HeaderBytes].len = Len(pieces[i])
           /\ pieces[i][1] \in Bytes /\ pieces[i][1].idle \in BOOLEAN
<1>1. pieces[i] \in SpacePackets
    BY ElementOfSeq
<1>2. /\ pieces[i] \in Seq(Bytes) /\ Len(pieces[i]) > HeaderBytes
      /\ pieces[i][HeaderBytes].len = Len(pieces[i])
    BY <1>1 DEF SpacePackets
<1>3. Len(pieces[i]) \in Nat
    BY <1>2, LenProperties
<1>4. 1 \in 1..Len(pieces[i])
    BY <1>2, <1>3, PacketsAssumption
<1>5. pieces[i][1] \in Bytes
    BY <1>2, <1>4, ElementOfSeq
<1> QED  BY <1>2, <1>3, <1>5, PacketsAssumption

\* Each packet starts after the ones before it.
LEMMA LaidAscends ==
    ASSUME NEW pieces, NEW start, NEW n, Laid(pieces, start, n)
    PROVE  \A i, j \in 1..(Len(pieces) + 1) : i < j => start[i] < start[j]
<1> DEFINE m == Len(pieces)
           Bad == {j \in 1..(m + 1) : \E i \in 1..(m + 1) : i < j /\ ~(start[i] < start[j])}
<1>1. m \in Nat /\ start \in [1..(m + 1) -> Int]
    BY DEF Laid
<1>2. \A i \in 1..m : start[i + 1] = start[i] + Len(pieces[i]) /\ Len(pieces[i]) \in Nat /\ Len(pieces[i]) > 0
    <2>1. pieces \in Seq(SpacePackets)
        BY DEF Laid
    <2>2. \A i \in 1..m : Len(pieces[i]) \in Nat /\ Len(pieces[i]) > HeaderBytes
        BY <2>1, PieceIs
    <2>3. \A i \in 1..m : start[i + 1] = start[i] + Len(pieces[i])
        BY DEF Laid
    <2> HIDE DEF m
    <2> QED  BY <2>2, <2>3, HeaderIs
<1> SUFFICES ASSUME Bad # {} PROVE FALSE
    OBVIOUS
<1> HIDE DEF m
<1>3. Bad \subseteq Nat
    BY <1>1
<1>4. PICK j \in Bad : \A k \in Bad : j <= k
    <2> HIDE DEF Bad
    <2> QED  BY <1>3, FewestOf
<1>5. PICK i \in 1..(m + 1) : i < j /\ ~(start[i] < start[j])
    BY <1>4
<1>6. j \in 1..(m + 1) /\ j \in Nat /\ i \in Nat /\ j - 1 \in 1..m /\ j - 1 \in 1..(m + 1) /\ (j - 1) + 1 = j
    BY <1>1, <1>4, <1>5
<1>7. start[j] > start[j - 1] /\ start[j] \in Int /\ start[j - 1] \in Int /\ start[i] \in Int
    <2>1. start[j] \in Int /\ start[j - 1] \in Int /\ start[i] \in Int
        BY <1>1, <1>6
    <2>2. start[(j - 1) + 1] = start[j - 1] + Len(pieces[j - 1]) /\ Len(pieces[j - 1]) \in Nat
          /\ Len(pieces[j - 1]) > 0
        BY <1>2, <1>6
    <2> QED  BY <1>6, <2>1, <2>2
<1>8. i < j - 1
    BY <1>5, <1>6, <1>7
<1>9. ~(start[i] < start[j - 1])
    BY <1>5, <1>7
<1>10. j - 1 \in Bad
    BY <1>5, <1>6, <1>8, <1>9
<1>11. j <= j - 1
    <2> HIDE DEF Bad
    <2> QED  BY <1>4, <1>10
<1> QED  BY <1>6, <1>11

\* The byte at a place of what goes out: of the packet laid over that place.
ByteAt(pieces, start, q) ==
    LET i == CHOOSE i \in 1..Len(pieces) : start[i] < q /\ q <= start[i + 1]
    IN  pieces[i][q - start[i]]

\* The packet over a place is found by the place alone.
LEMMA ByteIs ==
    ASSUME NEW pieces, NEW start, NEW n, Laid(pieces, start, n),
           NEW k \in 1..Len(pieces), NEW q \in Int, start[k] < q, q <= start[k + 1]
    PROVE  ByteAt(pieces, start, q) = pieces[k][q - start[k]]
<1> DEFINE m == Len(pieces)
           i == CHOOSE j \in 1..m : start[j] < q /\ q <= start[j + 1]
<1>1. m \in Nat /\ start \in [1..(m + 1) -> Int]
    BY DEF Laid
<1>2. i \in 1..m /\ start[i] < q /\ q <= start[i + 1]
    OBVIOUS
<1>3. ByteAt(pieces, start, q) = pieces[i][q - start[i]]
    BY DEF ByteAt
<1>4. \A a, b \in 1..(m + 1) : a < b => start[a] < start[b]
    BY LaidAscends
<1> HIDE DEF m, i
<1>5. /\ k \in 1..(m + 1) /\ k + 1 \in 1..(m + 1) /\ i \in 1..(m + 1) /\ i + 1 \in 1..(m + 1)
      /\ i \in Nat /\ k \in Nat
    BY <1>1, <1>2 DEF m
<1>6. /\ start[k] \in Int /\ start[k + 1] \in Int /\ start[i] \in Int /\ start[i + 1] \in Int
    BY <1>1, <1>5
<1>7. ~(i < k)
    <2> SUFFICES ASSUME i < k PROVE FALSE
        OBVIOUS
    <2>1. i + 1 = k \/ i + 1 < k
        BY <1>5
    <2>2. start[i + 1] <= start[k]
        BY <1>4, <1>5, <1>6, <2>1
    <2> QED  BY <1>2, <1>6, <2>2
<1>8. ~(k < i)
    <2> SUFFICES ASSUME k < i PROVE FALSE
        OBVIOUS
    <2>1. k + 1 = i \/ k + 1 < i
        BY <1>5
    <2>2. start[k + 1] <= start[i]
        BY <1>4, <1>5, <1>6, <2>1
    <2> QED  BY <1>2, <1>6, <2>2
<1>9. i = k
    BY <1>5, <1>7, <1>8
<1> QED  BY <1>3, <1>9

\* The recursive function of Starts, up to the packet m: it exists, and so it is
\* the one CHOOSE finds.
IsStarts(f, pieces, a, m) ==
    f = [i \in 1..(m + 1) |-> IF i = 1 THEN a ELSE f[i - 1] + Len(pieces[i - 1])]

LEMMA StartsExist ==
    ASSUME NEW pieces \in Seq(SpacePackets), NEW a \in Int
    PROVE  \A m \in 0..Len(pieces) : \E f \in [1..(m + 1) -> Int] : IsStarts(f, pieces, a, m)
<1> DEFINE N == Len(pieces)
           Bad == {m \in 0..N : ~\E f \in [1..(m + 1) -> Int] : IsStarts(f, pieces, a, m)}
<1>1. N \in Nat
    BY LenProperties
<1>2. \A i \in 1..N : Len(pieces[i]) \in Nat
    BY PieceIs
<1> SUFFICES ASSUME Bad # {} PROVE FALSE
    OBVIOUS
<1> HIDE DEF N
<1>3. Bad \subseteq Nat
    BY <1>1
<1>4. PICK m \in Bad : \A k \in Bad : m <= k
    <2> HIDE DEF Bad
    <2> QED  BY <1>3, FewestOf
<1>5. m \in 0..N /\ ~\E f \in [1..(m + 1) -> Int] : IsStarts(f, pieces, a, m)
    BY <1>4
<1>6. m # 0
    <2> SUFFICES ASSUME m = 0 PROVE FALSE
        OBVIOUS
    <2> DEFINE f == [i \in 1..(0 + 1) |-> a]
    <2>1. f \in [1..(0 + 1) -> Int]
        OBVIOUS
    <2>2. \A i \in 1..(0 + 1) : i = 1
        OBVIOUS
    <2>3. f = [i \in 1..(0 + 1) |-> IF i = 1 THEN a ELSE f[i - 1] + Len(pieces[i - 1])]
        BY <2>2
    <2> HIDE DEF f
    <2>4. IsStarts(f, pieces, a, 0)
        BY <2>3 DEF IsStarts
    <2> QED  BY <1>5, <2>1, <2>4
<1>7. m \in Nat /\ m - 1 \in 0..N /\ m \in 1..N /\ (m - 1) + 1 = m
    BY <1>1, <1>5, <1>6
<1>8. m - 1 \notin Bad
    <2>1. ~(m <= m - 1)
        BY <1>7
    <2> HIDE DEF Bad
    <2> QED  BY <1>4, <2>1
<1>9. PICK g \in [1..((m - 1) + 1) -> Int] : IsStarts(g, pieces, a, m - 1)
    BY <1>7, <1>8
<1>10. g \in [1..m -> Int] /\ g = [i \in 1..m |-> IF i = 1 THEN a ELSE g[i - 1] + Len(pieces[i - 1])]
    BY <1>7, <1>9 DEF IsStarts
<1> DEFINE f == [i \in 1..(m + 1) |-> IF i \in 1..m THEN g[i] ELSE g[m] + Len(pieces[m])]
<1>11. m \in 1..m /\ g[m] \in Int /\ Len(pieces[m]) \in Nat
    BY <1>2, <1>7, <1>10
<1>12. f \in [1..(m + 1) -> Int]
    BY <1>10, <1>11
<1>13. ASSUME NEW i \in 1..(m + 1)
       PROVE  f[i] = IF i = 1 THEN a ELSE f[i - 1] + Len(pieces[i - 1])
    <2>1. CASE i \in 1..m
        <3>1. f[i] = g[i] /\ g[i] = IF i = 1 THEN a ELSE g[i - 1] + Len(pieces[i - 1])
            BY <1>10, <2>1
        <3>2. i # 1 => i - 1 \in 1..m /\ i - 1 \in 1..(m + 1)
            BY <1>7, <2>1
        <3>3. i # 1 => f[i - 1] = g[i - 1]
            BY <3>2
        <3> HIDE DEF f
        <3> QED  BY <3>1, <3>3
    <2>2. CASE i \notin 1..m
        <3>1. i = m + 1 /\ i # 1 /\ i - 1 = m /\ m \in 1..(m + 1)
            BY <1>7, <2>2
        <3>2. f[i] = g[m] + Len(pieces[m]) /\ f[m] = g[m]
            BY <1>11, <2>2, <3>1
        <3> HIDE DEF f
        <3> QED  BY <3>1, <3>2
    <2> QED  BY <2>1, <2>2
<1>14. f = [i \in 1..(m + 1) |-> f[i]]
    OBVIOUS
<1> HIDE DEF f
<1>15. f = [i \in 1..(m + 1) |-> IF i = 1 THEN a ELSE f[i - 1] + Len(pieces[i - 1])]
    BY <1>13, <1>14
<1> QED  BY <1>5, <1>12, <1>15 DEF IsStarts

\* Where the packets of a push start.
LEMMA StartsAre ==
    ASSUME NEW pieces \in Seq(SpacePackets), NEW c, sent[c] \in Nat
    PROVE  /\ Starts(c, pieces) \in [1..(Len(pieces) + 1) -> Int]
           /\ Starts(c, pieces)[1] = -sent[c]
           /\ \A i \in 1..Len(pieces) :
                 Starts(c, pieces)[i + 1] = Starts(c, pieces)[i] + Len(pieces[i])
<1> DEFINE N == Len(pieces)
           f == Starts(c, pieces)
<1>1. N \in Nat /\ N \in 0..N
    BY LenProperties
<1>2. f = CHOOSE g : IsStarts(g, pieces, -sent[c], N)
    BY DEF Starts, IsStarts
<1>3. \E g : IsStarts(g, pieces, -sent[c], N)
    <2>1. -sent[c] \in Int
        OBVIOUS
    <2> QED  BY <1>1, <2>1, StartsExist
<1>4. IsStarts(f, pieces, -sent[c], N)
    BY <1>2, <1>3
<1>5. \A i \in 1..N : Len(pieces[i]) \in Nat
    BY PieceIs
<1> HIDE DEF f, N
<1>6. f = [i \in 1..(N + 1) |-> IF i = 1 THEN -sent[c] ELSE f[i - 1] + Len(pieces[i - 1])]
    BY <1>4 DEF IsStarts
<1>7. DOMAIN f = 1..(N + 1) /\ f[1] = -sent[c]
    BY <1>1, <1>6
<1>8. \A i \in 1..N : f[i + 1] = f[i] + Len(pieces[i])
    <2> TAKE i \in 1..N
    <2>1. i + 1 \in 1..(N + 1) /\ i + 1 # 1 /\ (i + 1) - 1 = i
        BY <1>1
    <2> QED  BY <1>6, <2>1
<1>9. \A i \in 1..(N + 1) : f[i] \in Int
    <2> DEFINE Bad == {i \in 1..(N + 1) : f[i] \notin Int}
    <2> SUFFICES ASSUME Bad # {} PROVE FALSE
        OBVIOUS
    <2>1. Bad \subseteq Nat
        BY <1>1
    <2>2. PICK j \in Bad : \A k \in Bad : j <= k
        <3> HIDE DEF Bad
        <3> QED  BY <2>1, FewestOf
    <2>3. j \in 1..(N + 1) /\ f[j] \notin Int /\ j # 1
        BY <1>7, <2>2
    <2>4. j - 1 \in 1..N /\ j - 1 \in 1..(N + 1) /\ (j - 1) + 1 = j /\ ~(j <= j - 1)
        BY <1>1, <2>3
    <2>5. f[j - 1] \in Int
        <3>1. j - 1 \notin Bad
            <4> HIDE DEF Bad
            <4> QED  BY <2>2, <2>4
        <3> QED  BY <2>4, <3>1
    <2>6. f[j] = f[j - 1] + Len(pieces[j - 1])
        BY <1>8, <2>4
    <2>7. Len(pieces[j - 1]) \in Int
        BY <1>5, <2>4
    <2> QED  BY <2>3, <2>5, <2>6, <2>7
<1> QED  BY <1>6, <1>7, <1>8, <1>9 DEF f, N

\* What the spacecraft is in the middle of sending on a channel.
SenderOK(c) ==
    /\ sent[c] \in Nat /\ made[c] \in Nat
    /\ \/ packet[c] = <<>> /\ sent[c] = 0
       \/ packet[c] \in SpacePackets /\ sent[c] > 0 /\ sent[c] < Len(packet[c])

\* What the spacecraft sends are packets whose header says their length.
LEMMA PacketOfIs ==
    ASSUME NEW c \in Channels, pass \in Passes, NEW kind \in pass.kinds[c],
           NEW id \in 0..(PacketIds - 1)
    PROVE  PacketOf(id, kind) \in SpacePackets
<1> DEFINE size == kind[1]
           p == PacketOf(id, kind)
<1>1. size \in Nat /\ size > HeaderBytes
    <2>1. kind \in {n \in Nat : n > HeaderBytes} \X BOOLEAN
        BY DownlinkAssumption
    <2> QED  BY <2>1
<1>2. p = [at \in 1..size |-> [id |-> id, at |-> at,
                              len |-> IF at = HeaderBytes THEN size ELSE Misread,
                              idle |-> at = 1 /\ kind[2]]]
    BY DEF PacketOf
<1>3. p \in Seq(Bytes)
    BY BytesAssumption
<1> HIDE DEF size, p
<1>4. Len(p) = size
    <2>1. DOMAIN p = 1..size
        BY <1>2
    <2>2. DOMAIN p = 1..Len(p) /\ Len(p) \in Nat
        BY <1>3, LenProperties
    <2> QED  BY <1>1, <2>1, <2>2
<1>5. HeaderBytes \in 1..size
    BY <1>1, HeaderIs
<1>6. p[HeaderBytes].len = size
    BY <1>2, <1>5
<1> QED  BY <1>1, <1>3, <1>4, <1>6 DEF SpacePackets, p

LEMMA NewIs ==
    ASSUME NEW c \in Channels, pass \in Passes, made[c] \in Nat,
           NEW b \in Nat, NEW kinds \in SeqOf(pass.kinds[c], b)
    PROVE  /\ New(c, kinds) \in Seq(SpacePackets)
           /\ Len(New(c, kinds)) = Len(kinds) /\ Len(kinds) \in Nat
           /\ kinds = <<>> <=> Len(kinds) = 0
<1> DEFINE S == pass.kinds[c]
<1>1. PICK m \in 0..b : kinds \in [1..m -> S]
    BY DEF SeqOf
<1> HIDE DEF S
<1>3. kinds \in [1..m -> S] /\ m \in Nat
    BY <1>1
<1>4. kinds \in Seq(S) /\ Len(kinds) = m
    BY <1>3
<1> DEFINE new == New(c, kinds)
<1>5. new = [i \in 1..m |-> PacketOf((made[c] + i - 1) % PacketIds, kinds[i])]
    BY <1>4 DEF New
<1>6. \A i \in 1..m : PacketOf((made[c] + i - 1) % PacketIds, kinds[i]) \in SpacePackets
    <2> TAKE i \in 1..m
    <2>1. kinds[i] \in S
        BY <1>3
    <2>2. (made[c] + i - 1) % PacketIds \in 0..(PacketIds - 1)
        <3>1. made[c] + i - 1 \in Int /\ PacketIds \in Nat \ {0}
            BY DownlinkAssumption
        <3> QED  BY <3>1
    <2> QED  BY <2>1, <2>2, PacketOfIs DEF S
<1> HIDE DEF new
<1>7. new \in [1..m -> SpacePackets]
    BY <1>5, <1>6
<1>8. new \in Seq(SpacePackets) /\ Len(new) = m
    BY <1>3, <1>7
<1>9. kinds = <<>> <=> Len(kinds) = 0
    BY <1>4, EmptySeq
<1> QED  BY <1>3, <1>4, <1>8, <1>9 DEF new

LEMMA SpacePacketIs ==
    ASSUME NEW p \in SpacePackets
    PROVE  /\ p \in Seq(Bytes) /\ Len(p) \in Nat /\ Len(p) > HeaderBytes
           /\ p # <<>> /\ p[HeaderBytes].len = Len(p)
<1>1. p \in Seq(Bytes) /\ Len(p) > HeaderBytes /\ p[HeaderBytes].len = Len(p)
    BY DEF SpacePackets
<1>2. Len(p) \in Nat
    BY <1>1, LenProperties
<1>3. p # <<>>
    BY <1>1, <1>2, HeaderIs, EmptySeq
<1> QED  BY <1>1, <1>2, <1>3

LEMMA PiecesAre ==
    ASSUME NEW c \in Channels, pass \in Passes, SenderOK(c),
           NEW b \in Nat, NEW kinds \in SeqOf(pass.kinds[c], b)
    PROVE  /\ Pieces(c, kinds) \in Seq(SpacePackets)
           /\ packet[c] = <<>> => Len(Pieces(c, kinds)) = Len(kinds)
           /\ packet[c] # <<>> => /\ Len(Pieces(c, kinds)) = Len(kinds) + 1
                                  /\ Pieces(c, kinds)[1] = packet[c]
           /\ Len(kinds) \in Nat /\ (kinds = <<>> <=> Len(kinds) = 0)
<1> DEFINE new == New(c, kinds)
<1>1. /\ new \in Seq(SpacePackets) /\ Len(new) = Len(kinds) /\ Len(kinds) \in Nat
      /\ (kinds = <<>> <=> Len(kinds) = 0)
    BY NewIs DEF SenderOK
<1> HIDE DEF new
<1>2. CASE packet[c] = <<>>
    <2>1. Pieces(c, kinds) = <<>> \o new
        BY <1>2 DEF Pieces, new
    <2>2. <<>> \o new = new
        BY <1>1, ConcatEmptySeq
    <2> QED  BY <1>1, <1>2, <2>1, <2>2
<1>3. CASE packet[c] # <<>>
    <2>1. Pieces(c, kinds) = <<packet[c]>> \o new
        BY <1>3 DEF Pieces, new
    <2>2. packet[c] \in SpacePackets
        BY <1>3 DEF SenderOK
    <2>3. <<packet[c]>> \in Seq(SpacePackets) /\ Len(<<packet[c]>>) = 1 /\ <<packet[c]>>[1] = packet[c]
        BY <2>2
    <2>4. /\ <<packet[c]>> \o new \in Seq(SpacePackets)
          /\ Len(<<packet[c]>> \o new) = 1 + Len(new)
          /\ \A i \in 1..(1 + Len(new)) : (<<packet[c]>> \o new)[i] =
                 IF i <= 1 THEN <<packet[c]>>[i] ELSE new[i - 1]
        BY <1>1, <2>3, ConcatProperties
    <2>5. 1 \in 1..(1 + Len(new))
        BY <1>1
    <2>6. (<<packet[c]>> \o new)[1] = packet[c]
        BY <2>3, <2>4, <2>5
    <2> QED  BY <1>1, <1>3, <2>1, <2>4, <2>6
<1> QED  BY <1>2, <1>3

\* The packets of a push are laid end to end from the one under way, and its
\* bytes are theirs.
LEMMA Filled ==
    ASSUME NEW c \in Channels, pass \in Passes, SenderOK(c),
           NEW n \in Nat, NEW kinds \in Fillings(c, n)
    PROVE  /\ Laid(Pieces(c, kinds), Starts(c, Pieces(c, kinds)), n)
           /\ Starts(c, Pieces(c, kinds))[1] = -sent[c]
           /\ packet[c] # <<>> => /\ Pieces(c, kinds)[1] = packet[c]
                                  /\ Starts(c, Pieces(c, kinds))[2] = Len(packet[c]) - sent[c]
           /\ kinds = <<>> <=> packet[c] # <<>> /\ Len(Pieces(c, kinds)) = 1
           /\ Sent(c, kinds, n)
                = [p \in 1..n |-> ByteAt(Pieces(c, kinds), Starts(c, Pieces(c, kinds)), p)]
<1> DEFINE pieces == Pieces(c, kinds)
           start == Starts(c, pieces)
           b == n \div (HeaderBytes + 1) + 1
<1>1. b \in Nat
    BY HeaderIs
<1>2. /\ kinds \in SeqOf(pass.kinds[c], b)
      /\ pieces # <<>> /\ start[Len(pieces)] < n /\ n <= start[Len(pieces) + 1]
    BY DEF Fillings
<1>3. Sent(c, kinds, n) = [p \in 1..n |-> ByteAt(pieces, start, p)]
    BY DEF Sent, ByteAt
<1> HIDE DEF b
<1>4. /\ pieces \in Seq(SpacePackets)
      /\ packet[c] = <<>> => Len(pieces) = Len(kinds)
      /\ packet[c] # <<>> => Len(pieces) = Len(kinds) + 1 /\ pieces[1] = packet[c]
      /\ Len(kinds) \in Nat /\ (kinds = <<>> <=> Len(kinds) = 0)
    BY <1>1, <1>2, PiecesAre
<1> HIDE DEF pieces
<1>5. /\ start \in [1..(Len(pieces) + 1) -> Int] /\ start[1] = -sent[c]
      /\ \A i \in 1..Len(pieces) : start[i + 1] = start[i] + Len(pieces[i])
    BY <1>4, StartsAre DEF SenderOK
<1> HIDE DEF start
<1>6. Len(pieces) \in Nat /\ Len(pieces) >= 1
    BY <1>2, <1>4, EmptySeq
<1>7. 1 \in 1..Len(pieces) /\ 1 + 1 = 2
    BY <1>6
<1>8. start[2] = start[1] + Len(pieces[1]) /\ Len(pieces[1]) \in Nat /\ Len(pieces[1]) > HeaderBytes
    <2>1. start[1 + 1] = start[1] + Len(pieces[1])
        BY <1>5, <1>7
    <2> QED  BY <1>4, <1>7, <2>1, PieceIs
<1>9. start[1] <= 0 /\ start[2] > 0
    <2>1. CASE packet[c] = <<>>
        BY <1>5, <1>8, <2>1, HeaderIs, SpacePacketIs DEF SenderOK
    <2>2. CASE packet[c] # <<>>
        BY <1>4, <1>5, <1>8, <2>2 DEF SenderOK
    <2> QED  BY <2>1, <2>2
<1>10. Laid(pieces, start, n)
    BY <1>2, <1>4, <1>5, <1>6, <1>9 DEF Laid
<1>11. packet[c] # <<>> => pieces[1] = packet[c] /\ start[2] = Len(packet[c]) - sent[c]
    <2> SUFFICES ASSUME packet[c] # <<>> PROVE pieces[1] = packet[c] /\ start[2] = Len(packet[c]) - sent[c]
        OBVIOUS
    <2>1. pieces[1] = packet[c] /\ sent[c] \in Nat
        BY <1>4 DEF SenderOK
    <2>2. Len(packet[c]) = Len(pieces[1]) /\ start[1] = -sent[c]
        BY <1>5, <2>1
    <2>3. start[2] = Len(pieces[1]) - sent[c]
        BY <1>8, <2>1, <2>2
    <2> QED  BY <2>1, <2>2, <2>3
<1>12. kinds = <<>> <=> packet[c] # <<>> /\ Len(pieces) = 1
    <2>1. CASE packet[c] = <<>>
        <3>1. Len(pieces) = Len(kinds)
            BY <1>4, <2>1
        <3>2. Len(kinds) # 0
            BY <1>6, <3>1
        <3>3. kinds # <<>>
            BY <1>4, <3>2
        <3> QED  BY <2>1, <3>3
    <2>2. CASE packet[c] # <<>>
        <3>1. Len(pieces) = Len(kinds) + 1 /\ Len(kinds) \in Nat
            BY <1>4, <2>2
        <3>2. Len(kinds) = 0 <=> Len(pieces) = 1
            BY <3>1
        <3>3. kinds = <<>> <=> Len(kinds) = 0
            BY <1>4
        <3> QED  BY <2>2, <3>2, <3>3
    <2> QED  BY <2>1, <2>2
<1> QED  BY <1>3, <1>5, <1>10, <1>11, <1>12 DEF pieces, start

-----------------------------------------------------------------------------
(***************************************************************************)
(* What is owed: some of the packets, in their order.                       *)
(***************************************************************************)
UpTo(T, i) == {j \in T : j <= i}
NthIn(T, k) == CHOOSE i \in T : Cardinality(UpTo(T, i)) = k
Picked(pieces, T) == [k \in 1..Cardinality(T) |-> pieces[NthIn(T, k)]]
Ranked(T) == \A k \in 1..Cardinality(T) : \E i \in T : Cardinality(UpTo(T, i)) = k

\* The element of a set of numbers that has so many of them up to it.
LEMMA UpToIs ==
    ASSUME NEW T, T \subseteq Nat, IsFiniteSet(T), NEW i \in T
    PROVE  /\ IsFiniteSet(UpTo(T, i)) /\ Cardinality(UpTo(T, i)) \in Nat
           /\ NthIn(T, Cardinality(UpTo(T, i))) = i
<1>1. \A j \in T : UpTo(T, j) \in SUBSET T
    BY DEF UpTo
<1>2. \A j \in T : IsFiniteSet(UpTo(T, j)) /\ Cardinality(UpTo(T, j)) \in Nat
    BY <1>1, FS_Subset, FS_CardinalityType
<1>3. ASSUME NEW a \in T, NEW b \in T, a < b
      PROVE  Cardinality(UpTo(T, a)) # Cardinality(UpTo(T, b))
    <2>1. UpTo(T, a) \in SUBSET UpTo(T, b) /\ b \in UpTo(T, b) /\ b \notin UpTo(T, a)
        <3>1. \A j \in T : j \in Nat
            OBVIOUS
        <3>2. b <= b /\ ~(b <= a) /\ \A j \in T : j <= a => j <= b
            BY <1>3, <3>1
        <3> QED  BY <1>3, <3>2 DEF UpTo
    <2>2. UpTo(T, a) # UpTo(T, b)
        BY <2>1
    <2> QED  BY <1>2, <2>1, <2>2, FS_Subset
<1>4. \A j \in T : Cardinality(UpTo(T, j)) = Cardinality(UpTo(T, i)) => j = i
    <2> TAKE j \in T
    <2>1. j < i \/ i < j \/ i = j
        OBVIOUS
    <2> QED  BY <1>3, <2>1
<1> DEFINE r == Cardinality(UpTo(T, i))
<1>5. NthIn(T, r) = CHOOSE j \in T : Cardinality(UpTo(T, j)) = r
    BY DEF NthIn
<1>6. \E j \in T : Cardinality(UpTo(T, j)) = r
    OBVIOUS
<1>7. NthIn(T, r) \in T /\ Cardinality(UpTo(T, NthIn(T, r))) = r
    BY <1>5, <1>6
<1> QED  BY <1>2, <1>4, <1>7

\* A greatest element more moves no other.
LEMMA OneMore ==
    ASSUME NEW T, T \subseteq Nat, IsFiniteSet(T), NEW x \in Nat, \A i \in T : i < x
    PROVE  /\ T \cup {x} \subseteq Nat /\ IsFiniteSet(T \cup {x})
           /\ Cardinality(T) \in Nat /\ Cardinality(T \cup {x}) = Cardinality(T) + 1
           /\ \A i \in T : UpTo(T \cup {x}, i) = UpTo(T, i)
           /\ Cardinality(UpTo(T \cup {x}, x)) = Cardinality(T) + 1
<1>1. x \notin T
    <2> SUFFICES ASSUME x \in T PROVE FALSE
        OBVIOUS
    <2>1. x < x
        OBVIOUS
    <2> QED  BY <2>1
<1>2. IsFiniteSet(T \cup {x}) /\ Cardinality(T \cup {x}) = Cardinality(T) + 1
    BY <1>1, FS_AddElement
<1>3. \A i \in T : UpTo(T \cup {x}, i) = UpTo(T, i)
    <2> TAKE i \in T
    <2>1. i \in Nat /\ ~(x <= i)
        OBVIOUS
    <2> QED  BY <2>1 DEF UpTo
<1>4. UpTo(T \cup {x}, x) = T \cup {x}
    <2>1. \A i \in T \cup {x} : i <= x
        OBVIOUS
    <2> QED  BY <2>1 DEF UpTo
<1>5. Cardinality(T) \in Nat
    BY FS_CardinalityType
<1> QED  BY <1>2, <1>3, <1>4, <1>5

LEMMA RankedMore ==
    ASSUME NEW T, T \subseteq Nat, IsFiniteSet(T), NEW x \in Nat, \A i \in T : i < x, Ranked(T)
    PROVE  Ranked(T \cup {x})
<1> DEFINE U == T \cup {x}
<1>1. /\ Cardinality(T) \in Nat /\ Cardinality(U) = Cardinality(T) + 1
      /\ \A i \in T : UpTo(U, i) = UpTo(T, i)
      /\ Cardinality(UpTo(U, x)) = Cardinality(T) + 1
    BY OneMore
<1> SUFFICES ASSUME NEW k \in 1..Cardinality(U)
             PROVE  \E i \in U : Cardinality(UpTo(U, i)) = k
    BY DEF Ranked
<1>2. T \subseteq U /\ x \in U
    OBVIOUS
<1> HIDE DEF U
<1>3. CASE k = Cardinality(T) + 1
    BY <1>1, <1>2, <1>3
<1>4. CASE k # Cardinality(T) + 1
    <2>1. k \in 1..Cardinality(T)
        BY <1>1, <1>4
    <2>2. PICK i \in T : Cardinality(UpTo(T, i)) = k
        BY <2>1 DEF Ranked
    <2> QED  BY <1>1, <1>2, <2>2
<1> QED  BY <1>3, <1>4

\* Every finite set of numbers has a first, a second and a last element.
LEMMA AllRanked ==
    ASSUME NEW n \in Nat, NEW T \in SUBSET (1..n)
    PROVE  Ranked(T) /\ IsFiniteSet(T)
<1> DEFINE Part(k) == {i \in T : i <= k}
           Bad == {k \in 0..n : ~Ranked(Part(k))}
<1>1. IsFiniteSet(T)
    <2>1. 1 \in Int /\ n \in Int
        OBVIOUS
    <2>2. IsFiniteSet(1..n)
        BY <2>1, FS_Interval
    <2> QED  BY <2>2, FS_Subset
<1>a. \A i \in T : i \in Nat /\ 1 <= i /\ i <= n
    OBVIOUS
<1>2. Part(n) = T
    BY <1>a
<1> SUFFICES ASSUME Bad # {} PROVE FALSE
    <2>1. n \in 0..n
        OBVIOUS
    <2>2. Ranked(Part(n))
        BY <2>1
    <2> QED  BY <1>1, <1>2, <2>2
<1>3. PICK k \in Bad : \A h \in Bad : k <= h
    <2>1. Bad \subseteq Nat
        OBVIOUS
    <2> HIDE DEF Bad
    <2> QED  BY <2>1, FewestOf
<1>4. k \in 0..n /\ ~Ranked(Part(k))
    BY <1>3
<1>5. k # 0
    <2> SUFFICES ASSUME k = 0 PROVE FALSE
        OBVIOUS
    <2>1. Part(0) = {}
        <3>1. \A i \in T : ~(i <= 0)
            BY <1>a
        <3> QED  BY <3>1
    <2>2. Ranked({})
        BY FS_EmptySet DEF Ranked
    <2> QED  BY <1>4, <2>1, <2>2
<1>6. k - 1 \in 0..n /\ k \in Nat /\ ~(k <= k - 1)
    BY <1>4, <1>5
<1> DEFINE V == Part(k - 1)
<1>7. Ranked(V)
    <2>1. k - 1 \notin Bad
        <3> HIDE DEF Bad
        <3> QED  BY <1>3, <1>6
    <2> QED  BY <1>6, <2>1
<1>8. V \in SUBSET T /\ V \subseteq Nat /\ \A i \in V : i < k
    <2>1. \A i \in T : i <= k - 1 => i < k
        BY <1>6, <1>a
    <2>2. \A i \in V : i \in T /\ i <= k - 1
        OBVIOUS
    <2> HIDE DEF V
    <2> QED  BY <1>a, <2>1, <2>2
<1>9. Part(k) = V \/ Part(k) = V \cup {k}
    <2>1. \A i \in T : i <= k <=> i <= k - 1 \/ i = k
        BY <1>6, <1>a
    <2>2. Part(k) = V \cup (IF k \in T THEN {k} ELSE {})
        BY <1>6, <2>1
    <2> QED  BY <2>2
<1> HIDE DEF V
<1>10. IsFiniteSet(V)
    BY <1>1, <1>8, FS_Subset
<1>11. Ranked(V \cup {k})
    BY <1>6, <1>7, <1>8, <1>10, RankedMore
<1> QED  BY <1>4, <1>7, <1>9, <1>11

LEMMA PickedNone == \A pieces : Picked(pieces, {}) = <<>>
    BY FS_EmptySet DEF Picked

\* Picking one packet more appends it.
LEMMA PickedMore ==
    ASSUME NEW pieces, NEW n \in Nat, NEW T \in SUBSET (1..n), NEW x \in Nat, \A i \in T : i < x
    PROVE  /\ Picked(pieces, T \cup {x}) = Append(Picked(pieces, T), pieces[x])
           /\ Len(Picked(pieces, T)) = Cardinality(T)
           /\ Len(Picked(pieces, T \cup {x})) = Cardinality(T) + 1
           /\ Cardinality(T) \in Nat /\ Cardinality(T \cup {x}) = Cardinality(T) + 1
<1> DEFINE U == T \cup {x}
           N == Cardinality(T)
           s == Picked(pieces, T)
           u == Picked(pieces, U)
           A == {s[k] : k \in 1..N} \cup {pieces[x]}
<1>1. T \subseteq Nat /\ IsFiniteSet(T) /\ Ranked(T)
    BY AllRanked
<1>2. /\ U \subseteq Nat /\ IsFiniteSet(U) /\ N \in Nat /\ Cardinality(U) = N + 1
      /\ \A i \in T : UpTo(U, i) = UpTo(T, i)
      /\ Cardinality(UpTo(U, x)) = N + 1
    BY <1>1, OneMore
<1>3. T \subseteq U /\ x \in U
    OBVIOUS
<1>4. s = [k \in 1..N |-> pieces[NthIn(T, k)]]
    BY DEF Picked
<1>5. u = [k \in 1..(N + 1) |-> pieces[NthIn(U, k)]]
    BY <1>2 DEF Picked
<1> HIDE DEF U, N, s, u
<1>6. s \in [1..N -> A]
    <2>1. \A k \in 1..N : s[k] \in A
        OBVIOUS
    <2> HIDE DEF A
    <2> QED  BY <1>4, <2>1
<1>7. s \in Seq(A) /\ Len(s) = N /\ pieces[x] \in A
    <2>1. pieces[x] \in A
        OBVIOUS
    <2> HIDE DEF A
    <2> QED  BY <1>2, <1>6, <2>1
<1> HIDE DEF A
<1>8. /\ Append(s, pieces[x]) \in Seq(A) /\ Len(Append(s, pieces[x])) = N + 1
      /\ \A k \in 1..N : Append(s, pieces[x])[k] = s[k]
      /\ Append(s, pieces[x])[N + 1] = pieces[x]
    BY <1>7, AppendProperties
<1>9. ASSUME NEW k \in 1..(N + 1)
      PROVE  u[k] = Append(s, pieces[x])[k]
    <2>1. u[k] = pieces[NthIn(U, k)]
        BY <1>5
    <2>2. CASE k = N + 1
        <3>1. NthIn(U, k) = x
            BY <1>2, <1>3, <2>2, UpToIs
        <3> QED  BY <1>8, <2>1, <2>2, <3>1
    <2>3. CASE k # N + 1
        <3>1. k \in 1..N
            BY <1>2, <2>3
        <3>2. PICK i \in T : Cardinality(UpTo(T, i)) = k
            BY <1>1, <3>1 DEF Ranked, N
        <3>3. NthIn(T, k) = i
            BY <1>1, <3>2, UpToIs
        <3>4. NthIn(U, k) = i
            <4>1. i \in U /\ Cardinality(UpTo(U, i)) = k
                BY <1>2, <1>3, <3>2
            <4> QED  BY <1>2, <4>1, UpToIs
        <3>5. s[k] = pieces[i]
            BY <1>4, <3>1, <3>3
        <3> QED  BY <1>8, <2>1, <3>1, <3>4, <3>5
    <2> QED  BY <2>2, <2>3
<1>10. DOMAIN u = 1..(N + 1) /\ u \in [1..(N + 1) -> A]
    <2>1. DOMAIN u = 1..(N + 1) /\ u = [k \in 1..(N + 1) |-> u[k]]
        BY <1>5
    <2>2. \A k \in 1..(N + 1) : u[k] \in A
        <3>1. \A k \in 1..(N + 1) : Append(s, pieces[x])[k] \in A
            BY <1>8, ElementOfSeq
        <3> QED  BY <1>9, <3>1
    <2> QED  BY <2>1, <2>2
<1>11. u \in Seq(A) /\ Len(u) = N + 1
    BY <1>2, <1>10
<1>12. u = Append(s, pieces[x])
    BY <1>8, <1>9, <1>11, SeqEqual
<1> QED  BY <1>2, <1>7, <1>11, <1>12 DEF U, N, s, u

-----------------------------------------------------------------------------
(***************************************************************************)
(* What the ground reads of the bytes behind a place.                       *)
(***************************************************************************)
Stretch(pieces, start, a, n) == [p \in 1..(n - a) |-> ByteAt(pieces, start, p + a)]

\* The facts about packets laid end to end that the steps below use.
LEMMA LaidIs ==
    ASSUME NEW pieces, NEW start, NEW n, Laid(pieces, start, n)
    PROVE  /\ pieces \in Seq(SpacePackets) /\ n \in Nat
           /\ Len(pieces) \in Nat /\ Len(pieces) >= 1
           /\ \A i \in 1..(Len(pieces) + 1) : start[i] \in Int
           /\ start[1] <= 0 /\ start[2] > 0 /\ start[1] \in Int /\ start[2] \in Int
           /\ \A i \in 1..Len(pieces) :
                 /\ start[i + 1] = start[i] + Len(pieces[i]) /\ start[i] < n
                 /\ start[i] \in Int /\ start[i + 1] \in Int
           /\ start[Len(pieces)] < n /\ n <= start[Len(pieces) + 1]
           /\ start[Len(pieces)] \in Int /\ start[Len(pieces) + 1] \in Int
<1> DEFINE m == Len(pieces)
<1>1. /\ pieces \in Seq(SpacePackets) /\ n \in Nat
      /\ m \in Nat /\ m >= 1
      /\ start \in [1..(m + 1) -> Int]
      /\ start[1] <= 0 /\ start[2] > 0
      /\ \A i \in 1..m : start[i + 1] = start[i] + Len(pieces[i])
      /\ start[m] < n /\ n <= start[m + 1]
    BY DEF Laid
<1>2. \A i, j \in 1..(m + 1) : i < j => start[i] < start[j]
    BY LaidAscends
<1> HIDE DEF m
<1>3. \A i \in 1..(m + 1) : start[i] \in Int
    BY <1>1
<1>4. 1 \in 1..(m + 1) /\ 2 \in 1..(m + 1) /\ m \in 1..(m + 1) /\ m + 1 \in 1..(m + 1)
    BY <1>1
<1>5. \A i \in 1..m : start[i] < n /\ start[i] \in Int /\ start[i + 1] \in Int
    <2> TAKE i \in 1..m
    <2>1. i \in 1..(m + 1) /\ i + 1 \in 1..(m + 1) /\ (i = m \/ i < m)
        BY <1>1
    <2>2. start[i] \in Int /\ start[i + 1] \in Int /\ start[m] \in Int
        BY <1>3, <1>4, <2>1
    <2>3. i = m \/ start[i] < start[m]
        BY <1>2, <1>4, <2>1
    <2> QED  BY <1>1, <2>2, <2>3
<1> QED  BY <1>1, <1>3, <1>4, <1>5 DEF m

LEMMA Covered ==
    ASSUME NEW pieces, NEW start, NEW n, Laid(pieces, start, n),
           NEW q \in Int, start[1] < q, q <= n
    PROVE  ByteAt(pieces, start, q) \in Bytes
<1> DEFINE m == Len(pieces)
           T == {i \in 1..(m + 1) : q <= start[i]}
<1>1. /\ pieces \in Seq(SpacePackets) /\ n \in Nat /\ m \in Nat /\ m >= 1
      /\ \A i \in 1..(m + 1) : start[i] \in Int
      /\ \A i \in 1..m : start[i + 1] = start[i] + Len(pieces[i])
      /\ n <= start[m + 1]
    BY LaidIs
<1> HIDE DEF m
<1>2. m + 1 \in T
    BY <1>1
<1>3. PICK i \in T : \A j \in T : i <= j
    <2>1. T \subseteq Nat
        BY <1>1
    <2> HIDE DEF T
    <2> QED  BY <1>2, <2>1, FewestOf
<1>4. i \in 1..(m + 1) /\ q <= start[i] /\ i # 1
    BY <1>1, <1>3
<1>5. i - 1 \in 1..m /\ i - 1 \in 1..(m + 1) /\ ~(i <= i - 1) /\ (i - 1) + 1 = i
    BY <1>1, <1>4
<1>6. ~(q <= start[i - 1])
    <2>1. i - 1 \notin T
        <3> HIDE DEF T
        <3> QED  BY <1>3, <1>5
    <2> QED  BY <1>5, <2>1
<1> DEFINE k == i - 1
<1>7. k \in 1..m /\ start[k] < q /\ q <= start[k + 1] /\ start[k] \in Int /\ start[k + 1] \in Int
    BY <1>1, <1>4, <1>5, <1>6
<1> HIDE DEF k
<1>8. ByteAt(pieces, start, q) = pieces[k][q - start[k]]
    BY <1>7, ByteIs DEF m
<1>9. pieces[k] \in Seq(Bytes) /\ Len(pieces[k]) \in Nat
    BY <1>1, <1>7, PieceIs DEF m
<1>10. q - start[k] \in 1..Len(pieces[k])
    <2>1. start[k + 1] = start[k] + Len(pieces[k])
        BY <1>1, <1>7
    <2> QED  BY <1>7, <1>9, <2>1
<1> QED  BY <1>8, <1>9, <1>10, ElementOfSeq

\* The bytes from a place on: of the packets laid over them, each at its offset.
LEMMA StretchIs ==
    ASSUME NEW pieces, NEW start, NEW n, Laid(pieces, start, n),
           NEW a \in Int, start[1] <= a, a <= n
    PROVE  /\ Stretch(pieces, start, a, n) \in Seq(Bytes)
           /\ Len(Stretch(pieces, start, a, n)) = n - a
           /\ \A k \in 1..Len(pieces) : \A p \in 1..(n - a) :
                 start[k] <= a /\ p + a <= start[k + 1]
                   => Stretch(pieces, start, a, n)[p] = pieces[k][p + a - start[k]]
<1> DEFINE s == Stretch(pieces, start, a, n)
<1>1. n \in Nat /\ start[1] \in Int /\ \A i \in 1..Len(pieces) : start[i] \in Int /\ start[i + 1] \in Int
    BY LaidIs
<1>2. s = [p \in 1..(n - a) |-> ByteAt(pieces, start, p + a)]
    BY DEF Stretch
<1> HIDE DEF s
<1>3. \A p \in 1..(n - a) : s[p] \in Bytes
    <2> TAKE p \in 1..(n - a)
    <2>1. p + a \in Int /\ start[1] < p + a /\ p + a <= n
        BY <1>1
    <2> QED  BY <1>2, <2>1, Covered
<1>4. n - a \in Nat
    BY <1>1
<1>5. s \in [1..(n - a) -> Bytes]
    BY <1>2, <1>3
<1>6. s \in Seq(Bytes) /\ Len(s) = n - a
    BY <1>4, <1>5
<1>7. ASSUME NEW k \in 1..Len(pieces), NEW p \in 1..(n - a), start[k] <= a, p + a <= start[k + 1]
      PROVE  s[p] = pieces[k][p + a - start[k]]
    <2>0. start[k] \in Int /\ p \in Int /\ p >= 1
        BY <1>1
    <2>1. p + a \in Int /\ start[k] < p + a
        BY <1>7, <2>0
    <2> DEFINE q == p + a
    <2>2. q \in Int /\ start[k] < q /\ q <= start[k + 1]
        BY <1>7, <2>1
    <2> HIDE DEF q
    <2>3. ByteAt(pieces, start, q) = pieces[k][q - start[k]]
        BY <2>2, ByteIs
    <2>4. s[p] = ByteAt(pieces, start, q)
        BY <1>2 DEF q
    <2>5. q - start[k] = p + a - start[k]
        BY <2>0 DEF q
    <2>6. s[p] = pieces[k][q - start[k]]
        BY <2>3, <2>4
    <2> QED  BY <2>5, <2>6
<1> QED  BY <1>6, <1>7 DEF s

\* What is left of them behind a later place.
LEMMA StretchTail ==
    ASSUME NEW pieces, NEW start, NEW n, Laid(pieces, start, n),
           NEW a \in Int, start[1] <= a, NEW b \in Int, a <= b, b <= n
    PROVE  SubSeq(Stretch(pieces, start, a, n), b - a + 1, n - a) = Stretch(pieces, start, b, n)
<1> DEFINE s == Stretch(pieces, start, a, n)
           t == Stretch(pieces, start, b, n)
           u == SubSeq(s, b - a + 1, n - a)
<1>1. n \in Nat /\ start[1] \in Int
    BY LaidIs
<1>2. s \in Seq(Bytes) /\ Len(s) = n - a /\ t \in Seq(Bytes) /\ Len(t) = n - b
    <2>1. a <= n /\ start[1] <= b
        BY <1>1
    <2>2. s \in Seq(Bytes) /\ Len(s) = n - a
        BY <2>1, StretchIs
    <2>3. t \in Seq(Bytes) /\ Len(t) = n - b
        BY <2>1, StretchIs
    <2> QED  BY <2>2, <2>3
<1>3. /\ s = [p \in 1..(n - a) |-> ByteAt(pieces, start, p + a)]
      /\ t = [p \in 1..(n - b) |-> ByteAt(pieces, start, p + b)]
    BY DEF Stretch
<1> HIDE DEF s, t
<1>4. \A i \in (b - a + 1)..(n - a) : s[i] \in Bytes
    <2> TAKE i \in (b - a + 1)..(n - a)
    <2>1. i \in 1..Len(s)
        BY <1>1, <1>2
    <2> QED  BY <1>2, <2>1, ElementOfSeq
<1>5. b - a + 1 \in Int /\ n - a \in Int
    BY <1>1
<1>6. /\ u \in Seq(Bytes) /\ Len(u) = IF b - a + 1 <= n - a THEN (n - a) - (b - a + 1) + 1 ELSE 0
      /\ \A i \in 1..((n - a) - (b - a + 1) + 1) : u[i] = s[(b - a + 1) + i - 1]
    BY <1>4, <1>5, SubSeqProperties
<1> HIDE DEF u
<1>7. (n - a) - (b - a + 1) + 1 = n - b /\ Len(u) = n - b
    BY <1>1, <1>6
<1>8. \A i \in 1..(n - b) : u[i] = t[i]
    <2> TAKE i \in 1..(n - b)
    <2>1. u[i] = s[(b - a + 1) + i - 1]
        BY <1>6, <1>7
    <2>2. (b - a + 1) + i - 1 \in 1..(n - a) /\ ((b - a + 1) + i - 1) + a = i + b
        BY <1>1
    <2>3. s[(b - a + 1) + i - 1] = ByteAt(pieces, start, i + b)
        BY <1>3, <2>2
    <2> QED  BY <1>3, <2>1, <2>3
<1>9. u = t
    BY <1>2, <1>6, <1>7, <1>8, SeqEqual
<1> QED  BY <1>9 DEF s, t, u

\* The bytes from a packet's start are those of the packet, as far as they go.
LEMMA StretchHead ==
    ASSUME NEW pieces, NEW start, NEW n, Laid(pieces, start, n), NEW k \in 1..Len(pieces)
    PROVE  /\ start[k + 1] <= n =>
                  SubSeq(Stretch(pieces, start, start[k], n), 1, Len(pieces[k])) = pieces[k]
           /\ n <= start[k + 1] =>
                  Stretch(pieces, start, start[k], n) = SubSeq(pieces[k], 1, n - start[k])
<1> DEFINE s == Stretch(pieces, start, start[k], n)
           L == Len(pieces[k])
<1>1. /\ n \in Nat /\ start[1] \in Int /\ start[k] \in Int /\ start[k + 1] \in Int
      /\ start[k + 1] = start[k] + L /\ start[k] < n /\ pieces \in Seq(SpacePackets)
    BY LaidIs
<1>2. L \in Nat /\ pieces[k] \in Seq(Bytes)
    BY <1>1, PieceIs
<1>3. start[1] <= start[k]
    <2>1. k = 1 \/ start[1] < start[k]
        <3>1. \A i, j \in 1..(Len(pieces) + 1) : i < j => start[i] < start[j]
            BY LaidAscends
        <3>2. Len(pieces) \in Nat
            BY LaidIs
        <3>3. k \in 1..(Len(pieces) + 1) /\ 1 \in 1..(Len(pieces) + 1) /\ (k = 1 \/ 1 < k)
            BY <3>2
        <3> QED  BY <3>1, <3>3
    <2> QED  BY <1>1, <2>1
<1>4. /\ s \in Seq(Bytes) /\ Len(s) = n - start[k]
      /\ \A p \in 1..(n - start[k]) :
            start[k] <= start[k] /\ p + start[k] <= start[k + 1] => s[p] = pieces[k][p + start[k] - start[k]]
    BY <1>1, <1>3, StretchIs
<1> HIDE DEF s, L
<1>5. \A p \in 1..(n - start[k]) : p <= L => s[p] = pieces[k][p]
    <2> TAKE p \in 1..(n - start[k])
    <2> HAVE p <= L
    <2>1. p + start[k] <= start[k + 1] /\ p + start[k] - start[k] = p /\ start[k] <= start[k]
        BY <1>1, <1>2
    <2> QED  BY <1>4, <2>1
<1>6. ASSUME start[k + 1] <= n
      PROVE  SubSeq(s, 1, L) = pieces[k]
    <2> DEFINE u == SubSeq(s, 1, L)
    <2>1. L <= n - start[k]
        BY <1>1, <1>2, <1>6
    <2>2. \A i \in 1..L : s[i] \in Bytes
        <3> TAKE i \in 1..L
        <3>1. i \in 1..Len(s)
            BY <1>1, <1>2, <1>4, <2>1
        <3> QED  BY <1>4, <3>1, ElementOfSeq
    <2>3. /\ u \in Seq(Bytes) /\ Len(u) = IF 1 <= L THEN L - 1 + 1 ELSE 0
          /\ \A i \in 1..(L - 1 + 1) : u[i] = s[1 + i - 1]
        <3>1. 1 \in Int /\ L \in Int
            BY <1>2
        <3> QED  BY <2>2, <3>1, SubSeqProperties
    <2> HIDE DEF u
    <2>4. Len(u) = L /\ L - 1 + 1 = L
        BY <1>2, <2>3
    <2>5. \A i \in 1..L : u[i] = pieces[k][i]
        <3> TAKE i \in 1..L
        <3>1. i \in 1..(n - start[k]) /\ 1 + i - 1 = i /\ i <= L
            BY <1>1, <1>2, <2>1
        <3>2. u[i] = s[i]
            BY <2>3, <2>4, <3>1
        <3> QED  BY <1>5, <3>1, <3>2
    <2>6. u = pieces[k]
        BY <1>2, <2>3, <2>4, <2>5, SeqEqual DEF L
    <2> QED  BY <2>6 DEF u
<1>7. ASSUME n <= start[k + 1]
      PROVE  s = SubSeq(pieces[k], 1, n - start[k])
    <2> DEFINE d == n - start[k]
               u == SubSeq(pieces[k], 1, d)
    <2>1. d <= L /\ d \in Nat /\ d >= 1
        BY <1>1, <1>2, <1>7
    <2> HIDE DEF d
    <2>2. \A i \in 1..d : pieces[k][i] \in Bytes
        <3> TAKE i \in 1..d
        <3>1. i \in 1..Len(pieces[k])
            BY <1>2, <2>1 DEF L
        <3> QED  BY <1>2, <3>1, ElementOfSeq
    <2>3. /\ u \in Seq(Bytes) /\ Len(u) = IF 1 <= d THEN d - 1 + 1 ELSE 0
          /\ \A i \in 1..(d - 1 + 1) : u[i] = pieces[k][1 + i - 1]
        <3>1. 1 \in Int /\ d \in Int
            BY <2>1
        <3> QED  BY <2>2, <3>1, SubSeqProperties
    <2> HIDE DEF u
    <2>4. Len(u) = d /\ d - 1 + 1 = d
        BY <2>1, <2>3
    <2>5. \A i \in 1..Len(s) : s[i] = u[i]
        <3> TAKE i \in 1..Len(s)
        <3>0. Len(s) = d
            BY <1>4 DEF d
        <3>a. i \in 1..d /\ i <= L /\ 1 + i - 1 = i
            BY <1>2, <2>1, <3>0
        <3>1. i \in 1..d /\ i \in 1..(n - start[k]) /\ i <= L /\ 1 + i - 1 = i
            BY <3>a DEF d
        <3>2. u[i] = pieces[k][i]
            BY <2>3, <2>4, <3>1
        <3> QED  BY <1>5, <3>1, <3>2
    <2>6. Len(s) = Len(u)
        BY <1>4, <2>4 DEF d
    <2>7. s = u
        BY <1>4, <2>3, <2>5, <2>6, SeqEqual
    <2> QED  BY <2>7 DEF u, d
<1> QED  BY <1>6, <1>7 DEF s, L

Refuses(pieces, start, n, i) == Len(pieces[i]) > MaxPacketLength /\ start[i] + HeaderBytes <= n

\* The ground reads from a packet start what was sent from there: the length,
\* whether it is refused or whole, the packet, and what comes behind.
LEMMA StretchReads ==
    ASSUME NEW pieces, NEW start, NEW n, Laid(pieces, start, n), NEW k \in 1..Len(pieces)
    PROVE  LET s == Stretch(pieces, start, start[k], n) IN
           /\ s \in Seq(Bytes) /\ Len(s) = n - start[k] /\ s # <<>>
           /\ HeaderKnown(s) => Declared(s) = Len(pieces[k])
           /\ TooLong(s) <=> Refuses(pieces, start, n, k)
           /\ IsWhole(s) <=> start[k + 1] <= n /\ ~Refuses(pieces, start, n, k)
           /\ IsWhole(s) => /\ SubSeq(s, 1, Declared(s)) = pieces[k]
                            /\ SubSeq(s, Declared(s) + 1, Len(s))
                                 = Stretch(pieces, start, start[k + 1], n)
<1> DEFINE s == Stretch(pieces, start, start[k], n)
           L == Len(pieces[k])
           isRefused == Refuses(pieces, start, n, k)
<1>1. /\ n \in Nat /\ start[1] \in Int /\ start[k] \in Int /\ start[k + 1] \in Int
      /\ start[k + 1] = start[k] + L /\ start[k] < n /\ pieces \in Seq(SpacePackets)
    BY LaidIs
<1>2. /\ L \in Nat /\ pieces[k] \in Seq(Bytes) /\ L > HeaderBytes
      /\ pieces[k][HeaderBytes].len = L
    BY <1>1, PieceIs
<1>3. start[1] <= start[k]
    <2>1. \A i, j \in 1..(Len(pieces) + 1) : i < j => start[i] < start[j]
        BY LaidAscends
    <2>2. Len(pieces) \in Nat
        BY LaidIs
    <2>3. k \in 1..(Len(pieces) + 1) /\ 1 \in 1..(Len(pieces) + 1) /\ (k = 1 \/ 1 < k)
        BY <2>2
    <2>4. k = 1 \/ start[1] < start[k]
        BY <2>1, <2>3
    <2> QED  BY <1>1, <2>4
<1>4. /\ s \in Seq(Bytes) /\ Len(s) = n - start[k]
      /\ \A p \in 1..(n - start[k]) :
            start[k] <= start[k] /\ p + start[k] <= start[k + 1] => s[p] = pieces[k][p + start[k] - start[k]]
    BY <1>1, <1>3, StretchIs
<1>5. isRefused <=> L > MaxPacketLength /\ start[k] + HeaderBytes <= n
    BY DEF Refuses
<1>6. start[k + 1] <= n => SubSeq(s, 1, L) = pieces[k]
    BY StretchHead
<1>7. start[k + 1] <= n => SubSeq(s, L + 1, Len(s)) = Stretch(pieces, start, start[k + 1], n)
    <2> SUFFICES ASSUME start[k + 1] <= n
                 PROVE  SubSeq(s, L + 1, Len(s)) = Stretch(pieces, start, start[k + 1], n)
        OBVIOUS
    <2>1. start[k] <= start[k + 1] /\ start[k + 1] - start[k] + 1 = L + 1
        BY <1>1, <1>2
    <2>2. SubSeq(s, start[k + 1] - start[k] + 1, n - start[k]) = Stretch(pieces, start, start[k + 1], n)
        BY <1>1, <1>3, <2>1, StretchTail
    <2> QED  BY <1>4, <2>1, <2>2
<1> HIDE DEF s, L, isRefused
<1>8. HeaderKnown(s) <=> start[k] + HeaderBytes <= n
    BY <1>1, <1>4, HeaderIs DEF HeaderKnown
<1>9. HeaderKnown(s) => Declared(s) = L
    <2> SUFFICES ASSUME HeaderKnown(s) PROVE Declared(s) = L
        OBVIOUS
    <2>1. /\ HeaderBytes \in 1..(n - start[k]) /\ start[k] <= start[k]
          /\ HeaderBytes + start[k] <= start[k + 1]
          /\ HeaderBytes + start[k] - start[k] = HeaderBytes
        BY <1>1, <1>2, <1>8, HeaderIs
    <2>2. s[HeaderBytes] = pieces[k][HeaderBytes]
        BY <1>4, <2>1
    <2> QED  BY <1>2, <2>2 DEF Declared
<1>10. TooLong(s) <=> isRefused
    BY <1>5, <1>8, <1>9 DEF TooLong
<1>11. IsWhole(s) <=> start[k + 1] <= n /\ ~isRefused
    <2>1. HeaderKnown(s) => (Declared(s) <= MaxPacketLength <=> ~(L > MaxPacketLength))
        BY <1>2, <1>9, HeaderIs
    <2>2. HeaderKnown(s) => (Len(s) >= Declared(s) <=> start[k + 1] <= n)
        <3>1. n - start[k] >= L <=> start[k + 1] <= n
            BY <1>1, <1>2
        <3> QED  BY <1>4, <1>9, <3>1
    <2>3. start[k + 1] <= n => HeaderKnown(s)
        BY <1>1, <1>2, <1>8, HeaderIs
    <2> QED  BY <1>5, <1>8, <2>1, <2>2, <2>3 DEF IsWhole
<1>12. IsWhole(s) => HeaderKnown(s)
    BY DEF IsWhole
<1>13. s # <<>>
    <2>1. n - start[k] # 0
        BY <1>1
    <2> QED  BY <1>4, <2>1, EmptySeq
<1> QED  BY <1>4, <1>6, <1>7, <1>9, <1>10, <1>11, <1>12, <1>13 DEF s, L, isRefused

\* A whole packet, read.
LEMMA PacketReads ==
    ASSUME NEW p \in SpacePackets
    PROVE  /\ TooLong(p) <=> Len(p) > MaxPacketLength
           /\ IsWhole(p) <=> ~(Len(p) > MaxPacketLength)
           /\ SubSeq(p, 1, Declared(p)) = p /\ Declared(p) = Len(p)
<1>1. p \in Seq(Bytes) /\ Len(p) \in Nat /\ Len(p) > HeaderBytes /\ p[HeaderBytes].len = Len(p)
    BY SpacePacketIs
<1>2. Declared(p) = Len(p)
    BY <1>1 DEF Declared
<1>3. HeaderKnown(p)
    BY <1>1, HeaderIs DEF HeaderKnown
<1>4. SubSeq(p, 1, Len(p)) = p
    BY <1>1
<1>5. TooLong(p) <=> Len(p) > MaxPacketLength
    BY <1>2, <1>3 DEF TooLong
<1>6. IsWhole(p) <=> ~(Len(p) > MaxPacketLength)
    BY <1>1, <1>2, <1>3, HeaderIs DEF IsWhole
<1> QED  BY <1>2, <1>4, <1>5, <1>6

-----------------------------------------------------------------------------
(***************************************************************************)
(* How far the work of a push has come.                                     *)
(***************************************************************************)
Usable(pieces, start, n, whole, i) ==
    /\ start[i] < 0 => whole
    /\ ~Refuses(pieces, start, n, i)
    /\ \A j \in 1..(i - 1) : start[j] >= 0 => ~Refuses(pieces, start, n, j)
DoneOf(pieces, start, n, whole) ==
    {i \in 1..Len(pieces) : start[i + 1] <= n /\ Usable(pieces, start, n, whole, i)}
Fills(pieces, D) == {i \in D : pieces[i][1].idle}
BegunOf(pieces, start, n, whole) ==
    ~(start[Len(pieces) + 1] <= n) /\ Usable(pieces, start, n, whole, Len(pieces))

Tally(pieces, D, k) ==
    /\ out = Picked(pieces, (D \ Fills(pieces, D)) \cap (1..(k - 1)))
    /\ idle[on] = Cardinality(Fills(pieces, D) \cap (1..(k - 1)))
    /\ packets[on] = Len(out)
    /\ idle \in [Channels -> Nat] /\ packets \in [Channels -> Nat]

\* Past the last packet everything owed is handed out; each packet on the way
\* adds itself or nothing.
LEMMA TallyAll ==
    ASSUME NEW pieces, NEW D, NEW k, D \subseteq 1..(k - 1), Tally(pieces, D, k)
    PROVE  /\ out = Picked(pieces, D \ Fills(pieces, D))
           /\ idle[on] = Cardinality(Fills(pieces, D)) /\ packets[on] = Len(out)
<1>1. /\ (D \ Fills(pieces, D)) \cap (1..(k - 1)) = D \ Fills(pieces, D)
      /\ Fills(pieces, D) \cap (1..(k - 1)) = Fills(pieces, D)
    BY DEF Fills
<1> QED  BY <1>1 DEF Tally

LEMMA TallyMore ==
    ASSUME NEW pieces \in Seq(SpacePackets), NEW D, D \subseteq 1..Len(pieces),
           NEW k \in D, on \in Channels, Tally(pieces, D, k),
           Deliver(on, pieces[k]), on' = on
    PROVE  Tally(pieces, D, k + 1)'
<1> DEFINE N == Len(pieces)
           F == Fills(pieces, D)
           E == D \ F
           p == pieces[k]
<1>1. N \in Nat /\ k \in 1..N /\ k \in Nat /\ (k + 1) - 1 = k
    BY LenProperties
<1>2. p[1].idle \in BOOLEAN
    BY <1>1, PieceIs
<1>3. /\ out = Picked(pieces, E \cap (1..(k - 1)))
      /\ idle[on] = Cardinality(F \cap (1..(k - 1)))
      /\ packets[on] = Len(out)
      /\ idle \in [Channels -> Nat] /\ packets \in [Channels -> Nat]
    BY DEF Tally
<1>4. k \in F <=> p[1].idle
    BY DEF Fills
<1>5. F \subseteq D
    BY DEF Fills
<1>6. /\ IF p[1].idle
         THEN idle' = [idle EXCEPT ![on] = @ + 1] /\ UNCHANGED <<packets, out>>
         ELSE packets' = [packets EXCEPT ![on] = @ + 1] /\ out' = Append(out, p) /\ UNCHANGED idle
    BY DEF Deliver
<1> HIDE DEF N, p
<1>7. 1..k = 1..(k - 1) \cup {k}
    BY <1>1
<1>8. \A T : T \cap (1..k) = (T \cap (1..(k - 1))) \cup (T \cap {k})
    BY <1>7
<1>9. \A T : T \cap (1..(k - 1)) \in SUBSET (1..N) /\ \A i \in T \cap (1..(k - 1)) : i < k
    BY <1>1
<1>10. CASE p[1].idle
    <2>1. E \cap {k} = {} /\ F \cap {k} = {k}
        BY <1>4, <1>10
    <2>2. E \cap (1..k) = E \cap (1..(k - 1)) /\ F \cap (1..k) = (F \cap (1..(k - 1))) \cup {k}
        BY <1>8, <2>1
    <2> DEFINE T == F \cap (1..(k - 1))
    <2>3. T \in SUBSET (1..N) /\ \A i \in T : i < k
        BY <1>9
    <2> HIDE DEF T, E, F
    <2>4. Cardinality(T) \in Nat /\ Cardinality(T \cup {k}) = Cardinality(T) + 1
        BY <1>1, <2>3, PickedMore
    <2>5. idle' = [idle EXCEPT ![on] = @ + 1] /\ packets' = packets /\ out' = out
        BY <1>6, <1>10
    <2>6. idle'[on] = idle[on] + 1 /\ idle' \in [Channels -> Nat]
        BY <1>3, <2>5
    <2>7. idle'[on] = Cardinality(F \cap (1..k))
        BY <1>3, <2>2, <2>4, <2>6 DEF T
    <2>8. out' = Picked(pieces, E \cap (1..k))
        BY <1>3, <2>2, <2>5
    <2> QED  BY <1>1, <1>3, <2>5, <2>6, <2>7, <2>8 DEF Tally, E, F
<1>11. CASE ~p[1].idle
    <2>1. F \cap {k} = {} /\ E \cap {k} = {k}
        BY <1>4, <1>11
    <2>2. F \cap (1..k) = F \cap (1..(k - 1)) /\ E \cap (1..k) = (E \cap (1..(k - 1))) \cup {k}
        BY <1>8, <2>1
    <2> DEFINE T == E \cap (1..(k - 1))
    <2>3. T \in SUBSET (1..N) /\ \A i \in T : i < k
        BY <1>9
    <2> HIDE DEF T, E, F
    <2>4. /\ Picked(pieces, T \cup {k}) = Append(Picked(pieces, T), pieces[k])
          /\ Len(Picked(pieces, T)) = Cardinality(T)
          /\ Len(Picked(pieces, T \cup {k})) = Cardinality(T) + 1
          /\ Cardinality(T) \in Nat /\ Cardinality(T \cup {k}) = Cardinality(T) + 1
        <3>1. N \in Nat /\ k \in Nat
            BY <1>1
        <3> QED  BY <2>3, <3>1, PickedMore
    <2>5. packets' = [packets EXCEPT ![on] = @ + 1] /\ idle' = idle /\ out' = Append(out, p)
        BY <1>6, <1>11
    <2>6. packets'[on] = packets[on] + 1 /\ packets' \in [Channels -> Nat]
        BY <1>3, <2>5
    <2>7. out' = Picked(pieces, E \cap (1..k))
        BY <1>3, <2>2, <2>4, <2>5 DEF T, p
    <2>8. packets'[on] = Len(out')
        BY <1>3, <2>2, <2>4, <2>6, <2>7 DEF T
    <2>9. idle'[on] = Cardinality(F \cap (1..k))
        BY <1>3, <2>2, <2>5
    <2> QED  BY <1>1, <1>3, <2>5, <2>6, <2>7, <2>8, <2>9 DEF Tally, E, F
<1> QED  BY <1>2, <1>10, <1>11

LEMMA TallySkips ==
    ASSUME NEW pieces, NEW D, NEW k \in Nat, k \notin D, Tally(pieces, D, k),
           UNCHANGED <<out, idle, packets, on>>
    PROVE  Tally(pieces, D, k + 1)'
<1>1. (k + 1) - 1 = k
    OBVIOUS
<1>2. \A i \in 1..k : i \in 1..(k - 1) \/ i = k
    OBVIOUS
<1>3. 1..(k - 1) \subseteq 1..k
    OBVIOUS
<1>4. \A T \in SUBSET D : T \cap (1..k) = T \cap (1..(k - 1))
    BY <1>2, <1>3
<1>5. Fills(pieces, D) \in SUBSET D /\ D \ Fills(pieces, D) \in SUBSET D
    BY DEF Fills
<1> QED  BY <1>1, <1>4, <1>5 DEF Tally

-----------------------------------------------------------------------------
(***************************************************************************)
(* The inductive invariant.                                                 *)
(***************************************************************************)
\* What is held of a packet that is neither whole nor known to be too long.
Fragment(s) == s \in Seq(Bytes) /\ s # <<>> /\ ~TooLong(s) /\ ~IsWhole(s)

\* What is held for a channel is the beginning of the packet that is due there.
Holds(c) ==
    /\ ~begun[c] => partial[c] = <<>>
    /\ begun[c] => Fragment(partial[c])
    /\ begun[c] /\ burst[c] = 0 /\ packet[c] # <<>> => partial[c] = SubSeq(packet[c], 1, sent[c])

\* The last count that came is as many behind the next as frames were lost.
LastIs(c) ==
    /\ begun[c] => last[c] # NoFrame
    /\ last[c] # NoFrame =>
          /\ last[c] \in 0..(Modulus - 1)
          /\ \/ count[c] = last[c] + 1 + burst[c]
             \/ count[c] = last[c] + 1 + burst[c] - Modulus

\* What was sent in the push under way, and what it owes.
Due(pieces, start, n, whole) ==
    LET m == Len(pieces)
        D == DoneOf(pieces, start, n, whole)
    IN  /\ Laid(pieces, start, n) /\ whole \in BOOLEAN
        /\ owed.out = Picked(pieces, D \ Fills(pieces, D))
        /\ owed.idle = Cardinality(Fills(pieces, D))
        /\ begun[on] = BegunOf(pieces, start, n, whole)
        /\ packet[on] = (IF start[m + 1] = n THEN <<>> ELSE pieces[m])
        /\ sent[on] = (IF start[m + 1] = n THEN 0 ELSE n - start[m])
        /\ burst[on] = 0

\* Before the bytes in front of the first packet start are looked at: a channel
\* holds nothing, or the beginning of the packet they belong to, or of one that
\* was given up.
AtFrame(pieces, start, n, whole) ==
    /\ rest = Stretch(pieces, start, 0, n)
    /\ pointer = (IF start[1] >= 0 THEN 0
                  ELSE IF Len(pieces) = 1 THEN NO_PACKET_START ELSE start[2])
    /\ out = <<>> /\ idle = Zero /\ packets = Zero
    /\ \/ partial[on] = <<>> /\ lost = owed.lost /\ (start[1] < 0 => ~whole)
       \/ /\ start[1] < 0 /\ whole /\ partial[on] # <<>>
          /\ partial[on] = SubSeq(pieces[1], 1, -start[1])
          /\ lost = Zero /\ owed.lost = OneLost(on, Refuses(pieces, start, n, 1))
       \/ /\ start[1] >= 0 /\ Fragment(partial[on])
          /\ lost = Zero /\ owed.lost = OneLost(on, TRUE)

\* Before the packet k is cut off: everything before it is handed out, counted
\* or skipped.
AtCut(pieces, start, n, whole, k) ==
    /\ k \in 1..(Len(pieces) + 1) /\ start[k] <= n
    /\ start[k] < 0 => whole /\ \A i \in 1..Len(pieces) : ~Refuses(pieces, start, n, i)
    /\ \A j \in 1..(k - 1) : start[j] >= 0 => ~Refuses(pieces, start, n, j)
    /\ rest = Stretch(pieces, start, start[k], n)
    /\ partial[on] = <<>> /\ lost = owed.lost
    /\ Tally(pieces, DoneOf(pieces, start, n, whole), k)

\* A push that is through has handed out what was owed.
Settled ==
    /\ out = owed.out /\ idle[on] = owed.idle /\ lost = owed.lost
    /\ packets[on] = Len(out)
    /\ idle \in [Channels -> Nat] /\ packets \in [Channels -> Nat]
    /\ Holds(on)

\* The channels and the framings that have nothing to do with this push.
Quiet ==
    /\ partial \in [Channels -> Seq(Bytes)]
    /\ \A c \in Vcids : LastIs(c)
    /\ \A c \in Channels \ {on} : Holds(c)
    /\ pass.framing = "stream" => (packet[Stream] # <<>> <=> begun[Stream])
    /\ pass.framing = "datagrams" /\ ~flushDue => packet[Stream] = <<>> /\ ~begun[Stream]

\* Where the push under way stands.
Working ==
    /\ step = "ready" => Holds(on)
    /\ step = "pushed" => Settled
    /\ step = "frame" => \E pieces, start, n, whole :
                            Due(pieces, start, n, whole) /\ AtFrame(pieces, start, n, whole)
    /\ step = "split" =>
          \/ rest = <<>> /\ Settled
          \/ \E pieces, start, n, whole : \E k \in 1..(Len(pieces) + 1) :
                Due(pieces, start, n, whole) /\ AtCut(pieces, start, n, whole, k)

\* What holds though the stream may be past following.
Plain ==
    /\ pass \in Passes /\ on \in Channels
    /\ step \in {"ready", "frame", "split", "pushed"}
    /\ \A c \in Channels : SenderOK(c)
    /\ DOMAIN packet = Channels /\ DOMAIN sent = Channels /\ DOMAIN made = Channels
    /\ count \in [Channels -> 0..(Modulus - 1)] /\ DOMAIN last = Channels
    /\ burst \in [Channels -> 0..MaxBurst] /\ burst[Stream] = 0
    /\ begun \in [Channels -> BOOLEAN] /\ garbled \in BOOLEAN
    /\ step = "ready" =>
          lost = Zero /\ idle = Zero /\ packets = Zero /\ out = <<>> /\ on = Stream

\* A stream that carried a length past following may hand out anything until its
\* boundary; what is sent and counted is in order all the same.
AsSentInv == Plain /\ (~garbled => Quiet /\ Working)

\* What a step of the ground does not touch.
Steady == UNCHANGED <<pass, senderVars, linkVars, owed>>

\* A step of the ground disturbs only the channel it works for.
LEMMA QuietKept ==
    ASSUME Quiet, Steady, on \in Channels, UNCHANGED <<last, on>>,
           NEW x \in Seq(Bytes), partial' = [partial EXCEPT ![on] = x]
    PROVE  Quiet'
<1>1. /\ pass' = pass /\ packet' = packet /\ sent' = sent /\ count' = count /\ begun' = begun
      /\ burst' = burst /\ flushDue' = flushDue
    BY DEF Steady, senderVars, linkVars
<1>2. partial' \in [Channels -> Seq(Bytes)] /\ \A c \in Channels \ {on} : partial'[c] = partial[c]
    BY DEF Quiet
<1>3. \A c \in Vcids : LastIs(c)'
    BY <1>1 DEF Quiet, LastIs
<1>4. \A c \in Channels \ {on} : Holds(c)'
    <2> TAKE c \in Channels \ {on}
    <2>1. Holds(c) /\ partial'[c] = partial[c]
        BY <1>2 DEF Quiet
    <2> QED  BY <1>1, <2>1 DEF Holds
<1>5. on' = on
    OBVIOUS
<1>6. /\ pass'.framing = "stream" => (packet'[Stream] # <<>> <=> begun'[Stream])
      /\ pass'.framing = "datagrams" /\ ~flushDue' => packet'[Stream] = <<>> /\ ~begun'[Stream]
    BY <1>1 DEF Quiet
<1> QED  BY <1>2, <1>3, <1>4, <1>5, <1>6 DEF Quiet

LEMMA DueKept ==
    ASSUME NEW pieces, NEW start, NEW n, NEW whole, Due(pieces, start, n, whole),
           Steady, on' = on
    PROVE  Due(pieces, start, n, whole)'
<1>1. /\ packet' = packet /\ sent' = sent /\ begun' = begun /\ burst' = burst /\ owed' = owed
    BY DEF Steady, senderVars, linkVars
<1> QED  BY <1>1 DEF Due

\* A cut at the end of the bytes is the end of the work.
LEMMA DueIs ==
    ASSUME NEW pieces, NEW start, NEW n, NEW whole, Due(pieces, start, n, whole)
    PROVE  /\ Laid(pieces, start, n) /\ whole \in BOOLEAN
           /\ DoneOf(pieces, start, n, whole) \subseteq 1..Len(pieces)
    BY DEF Due, DoneOf

\* The steps of split, each of which passes one packet start.
LEMMA SplitDeliversWorks ==
    ASSUME Quiet, Working, on \in Channels, SplitDelivers, Steady
    PROVE  Working'
<1>1. /\ step = "split" /\ rest # <<>> /\ step' = "split" /\ on' = on
      /\ IsWhole(rest)
      /\ Deliver(on, SubSeq(rest, 1, Declared(rest)))
      /\ rest' = SubSeq(rest, Declared(rest) + 1, Len(rest))
      /\ partial' = partial /\ lost' = lost
    BY DEF SplitDelivers, Splitting
<1>2. PICK pieces, start, n, whole : \E k \in 1..(Len(pieces) + 1) :
                Due(pieces, start, n, whole) /\ AtCut(pieces, start, n, whole, k)
    BY <1>1 DEF Working
<1>3. PICK k \in 1..(Len(pieces) + 1) : AtCut(pieces, start, n, whole, k)
    BY <1>2
<1>4. Due(pieces, start, n, whole) /\ Laid(pieces, start, n) /\ whole \in BOOLEAN
    BY <1>2, DueIs
<1>5. /\ pieces \in Seq(SpacePackets) /\ n \in Nat /\ Len(pieces) \in Nat
      /\ n <= start[Len(pieces) + 1] /\ start[2] > 0 /\ start[2] \in Int
      /\ start[Len(pieces) + 1] \in Int
      /\ \A i \in 1..(Len(pieces) + 1) : start[i] \in Int
    BY <1>4, LaidIs
<1>6. k \in 1..Len(pieces)
    <2> SUFFICES ASSUME k = Len(pieces) + 1 PROVE FALSE
        BY <1>3, <1>5
    <2>1. start[k] <= n /\ rest = Stretch(pieces, start, start[k], n)
        BY <1>3 DEF AtCut
    <2>2. start[k] = n
        BY <1>5, <2>1
    <2>3. n - n = 0 /\ 1..0 = {}
        BY <1>5
    <2>4. Stretch(pieces, start, n, n) = <<>>
        BY <2>3 DEF Stretch
    <2> QED  BY <1>1, <2>1, <2>2, <2>4
<1> DEFINE D == DoneOf(pieces, start, n, whole)
<1>7. /\ start[k + 1] <= n /\ ~Refuses(pieces, start, n, k)
      /\ SubSeq(rest, 1, Declared(rest)) = pieces[k]
      /\ SubSeq(rest, Declared(rest) + 1, Len(rest)) = Stretch(pieces, start, start[k + 1], n)
    <2>1. rest = Stretch(pieces, start, start[k], n)
        BY <1>3 DEF AtCut
    <2> QED  BY <1>1, <1>4, <1>6, <2>1, StretchReads
<1>8. k \in D
    BY <1>3, <1>6, <1>7 DEF DoneOf, Usable, AtCut
<1>9. D \subseteq 1..Len(pieces) /\ Tally(pieces, D, k) /\ Deliver(on, pieces[k])
    BY <1>1, <1>3, <1>7 DEF DoneOf, AtCut
<1> HIDE DEF D
<1>10. Tally(pieces, D, k + 1)'
    BY <1>1, <1>5, <1>8, <1>9, TallyMore
<1>11. k + 1 \in 1..(Len(pieces) + 1) /\ ~(start[k + 1] < 0)
    <2>1. k + 1 \in 1..(Len(pieces) + 1) /\ 2 \in 1..(Len(pieces) + 1) /\ (k + 1 = 2 \/ 2 < k + 1)
        BY <1>5, <1>6
    <2>2. \A i, j \in 1..(Len(pieces) + 1) : i < j => start[i] < start[j]
        BY <1>4, LaidAscends
    <2>3. start[k + 1] = start[2] \/ start[2] < start[k + 1]
        BY <2>1, <2>2
    <2>4. start[k + 1] \in Int
        BY <1>5, <2>1
    <2> QED  BY <1>5, <2>1, <2>3, <2>4
<1>12. \A j \in 1..((k + 1) - 1) : start[j] >= 0 => ~Refuses(pieces, start, n, j)
    <2> TAKE j \in 1..((k + 1) - 1)
    <2>1. j = k \/ j \in 1..(k - 1)
        BY <1>6
    <2> QED  BY <1>3, <1>7, <2>1 DEF AtCut
<1>13. partial'[on'] = <<>> /\ lost' = owed'.lost
    BY <1>1, <1>3 DEF AtCut, Steady
<1>14. AtCut(pieces, start, n, whole, k + 1)'
    BY <1>1, <1>7, <1>10, <1>11, <1>12, <1>13 DEF AtCut, D
<1>15. Due(pieces, start, n, whole)'
    BY <1>1, <1>4, DueKept
<1> QED  BY <1>1, <1>11, <1>14, <1>15 DEF Working

LEMMA CutIs ==
    ASSUME NEW pieces, NEW start, NEW n, NEW whole, NEW k,
           Due(pieces, start, n, whole), AtCut(pieces, start, n, whole, k)
    PROVE  /\ pieces \in Seq(SpacePackets) /\ n \in Nat /\ Len(pieces) \in Nat /\ Len(pieces) >= 1
           /\ k \in 1..(Len(pieces) + 1)
           /\ rest = <<>> => k = Len(pieces) + 1 /\ start[Len(pieces) + 1] = n
           /\ rest # <<>> => k \in 1..Len(pieces)
           /\ \A i, j \in 1..(Len(pieces) + 1) : i < j => start[i] < start[j]
           /\ start[k] \in Int /\ start[Len(pieces)] \in Int /\ start[Len(pieces) + 1] \in Int
           /\ start[Len(pieces)] < n
<1> DEFINE m == Len(pieces)
<1>1. Laid(pieces, start, n)
    BY DueIs
<1>2. /\ pieces \in Seq(SpacePackets) /\ n \in Nat /\ m \in Nat /\ m >= 1
      /\ n <= start[m + 1] /\ start[m] < n
      /\ start[m] \in Int /\ start[m + 1] \in Int
      /\ \A i \in 1..(m + 1) : start[i] \in Int
    BY <1>1, LaidIs
<1>3. k \in 1..(m + 1) /\ start[k] <= n /\ rest = Stretch(pieces, start, start[k], n)
    BY DEF AtCut
<1>4. ASSUME k \in 1..m PROVE rest # <<>>
    BY <1>1, <1>3, <1>4, StretchReads
<1>5. ASSUME k = m + 1 PROVE rest = <<>> /\ start[m + 1] = n
    <2>1. start[k] = n
        BY <1>2, <1>3, <1>5
    <2>2. n - n = 0 /\ 1..0 = {}
        BY <1>2
    <2>3. Stretch(pieces, start, n, n) = <<>>
        BY <2>2 DEF Stretch
    <2> QED  BY <1>3, <1>5, <2>1, <2>3
<1>6. k \in 1..m \/ k = m + 1
    BY <1>2, <1>3
<1>7. start[k] \in Int
    BY <1>2, <1>3
<1>8. \A i, j \in 1..(m + 1) : i < j => start[i] < start[j]
    BY <1>1, LaidAscends
<1> HIDE DEF m
<1>9. /\ rest = <<>> => k = m + 1 /\ start[m + 1] = n
      /\ rest # <<>> => k \in 1..m
    BY <1>4, <1>5, <1>6
<1> QED  BY <1>2, <1>3, <1>7, <1>8, <1>9 DEF m

\* Nothing of what is done is left behind a cut: the push is over.
LEMMA Finished ==
    ASSUME NEW pieces, NEW start, NEW n, NEW whole, NEW k,
           Due(pieces, start, n, whole), AtCut(pieces, start, n, whole, k),
           DoneOf(pieces, start, n, whole) \subseteq 1..(k - 1)
    PROVE  /\ out = owed.out /\ idle[on] = owed.idle /\ lost = owed.lost
           /\ packets[on] = Len(out)
           /\ idle \in [Channels -> Nat] /\ packets \in [Channels -> Nat]
<1> DEFINE D == DoneOf(pieces, start, n, whole)
<1>1. Tally(pieces, D, k) /\ lost = owed.lost
    BY DEF AtCut
<1>2. owed.out = Picked(pieces, D \ Fills(pieces, D)) /\ owed.idle = Cardinality(Fills(pieces, D))
    BY DEF Due
<1> HIDE DEF D
<1>3. /\ out = Picked(pieces, D \ Fills(pieces, D))
      /\ idle[on] = Cardinality(Fills(pieces, D)) /\ packets[on] = Len(out)
    BY <1>1, TallyAll DEF D
<1>4. idle \in [Channels -> Nat] /\ packets \in [Channels -> Nat]
    BY <1>1 DEF Tally
<1> QED  BY <1>1, <1>2, <1>3, <1>4

LEMMA SplitKeepsTailWorks ==
    ASSUME Quiet, Working, on \in Channels, SplitKeepsTail, Steady
    PROVE  Working' /\ Quiet'
<1>1. /\ step = "split" /\ rest # <<>> /\ step' = "split" /\ on' = on /\ last' = last
      /\ ~TooLong(rest) /\ ~IsWhole(rest)
      /\ partial' = [partial EXCEPT ![on] = @ \o rest] /\ rest' = <<>>
      /\ lost' = lost /\ out' = out /\ idle' = idle /\ packets' = packets
    BY DEF SplitKeepsTail, Splitting, countVars
<1>2. PICK pieces, start, n, whole : \E k \in 1..(Len(pieces) + 1) :
                Due(pieces, start, n, whole) /\ AtCut(pieces, start, n, whole, k)
    BY <1>1 DEF Working
<1>3. PICK k \in 1..(Len(pieces) + 1) : AtCut(pieces, start, n, whole, k)
    BY <1>2
<1> DEFINE m == Len(pieces)
           D == DoneOf(pieces, start, n, whole)
<1>4. Due(pieces, start, n, whole) /\ Laid(pieces, start, n)
    BY <1>2, DueIs
<1>5. /\ pieces \in Seq(SpacePackets) /\ n \in Nat /\ m \in Nat /\ m >= 1 /\ k \in 1..m
      /\ \A i, j \in 1..(m + 1) : i < j => start[i] < start[j]
      /\ start[k] \in Int /\ start[m] \in Int /\ start[m + 1] \in Int /\ start[m] < n
    BY <1>1, <1>3, <1>4, CutIs
<1>6. rest = Stretch(pieces, start, start[k], n)
    BY <1>3 DEF AtCut
<1>7. /\ rest \in Seq(Bytes) /\ Len(rest) = n - start[k]
      /\ ~(start[k + 1] <= n) /\ ~Refuses(pieces, start, n, k)
    BY <1>1, <1>4, <1>5, <1>6, StretchReads
<1> HIDE DEF m
<1>8. k = m
    <2> SUFFICES ASSUME k # m PROVE FALSE
        OBVIOUS
    <2>1. k + 1 \in 1..(m + 1) /\ m \in 1..(m + 1) /\ (k + 1 = m \/ k + 1 < m)
        BY <1>5
    <2>2. start[k + 1] = start[m] \/ start[k + 1] < start[m]
        BY <1>5, <2>1
    <2>3. start[k + 1] \in Int
        BY <1>4, <2>1, LaidIs DEF m
    <2> QED  BY <1>5, <1>7, <2>2, <2>3
<1>9. D \subseteq 1..(k - 1)
    <2> SUFFICES ASSUME NEW i \in D PROVE i \in 1..(k - 1)
        OBVIOUS
    <2>1. i \in 1..m /\ start[i + 1] <= n
        BY DEF DoneOf, m
    <2>2. i # k
        BY <1>7, <2>1
    <2> QED  BY <1>5, <1>8, <2>1, <2>2
<1>10. /\ out = owed.out /\ idle[on] = owed.idle /\ lost = owed.lost
       /\ packets[on] = Len(out)
       /\ idle \in [Channels -> Nat] /\ packets \in [Channels -> Nat]
    BY <1>3, <1>4, <1>9, Finished
<1>11. begun[on]
    <2>1. Usable(pieces, start, n, whole, k)
        BY <1>3, <1>7 DEF AtCut, Usable
    <2> QED  BY <1>4, <1>7, <1>8, <2>1 DEF Due, BegunOf, m
<1>12. packet[on] = pieces[k] /\ sent[on] = n - start[k]
    <2>1. start[m + 1] # n
        BY <1>5, <1>7, <1>8
    <2>2. /\ packet[on] = (IF start[m + 1] = n THEN <<>> ELSE pieces[m])
          /\ sent[on] = (IF start[m + 1] = n THEN 0 ELSE n - start[m])
        BY <1>4 DEF Due, m
    <2> QED  BY <1>8, <2>1, <2>2
<1>13. rest = SubSeq(packet[on], 1, sent[on])
    <2>1. n <= start[k + 1]
        <3>1. start[k + 1] \in Int
            BY <1>5, <1>8
        <3> QED  BY <1>5, <1>7, <3>1
    <2>2. Stretch(pieces, start, start[k], n) = SubSeq(pieces[k], 1, n - start[k])
        BY <1>4, <1>5, <2>1, StretchHead DEF m
    <2> QED  BY <1>6, <1>12, <2>2
<1>14. partial' = [partial EXCEPT ![on] = rest] /\ partial'[on] = rest
    <2>1. partial[on] = <<>>
        BY <1>3 DEF AtCut
    <2>2. <<>> \o rest = rest
        BY <1>7, ConcatEmptySeq
    <2>3. partial \in [Channels -> Seq(Bytes)]
        BY DEF Quiet
    <2> QED  BY <1>1, <2>1, <2>2, <2>3
<1>15. Quiet'
    BY <1>1, <1>7, <1>14, QuietKept
<1>16. /\ packet' = packet /\ sent' = sent /\ begun' = begun /\ burst' = burst /\ owed' = owed
    BY DEF Steady, senderVars, linkVars
<1>17. Fragment(rest)
    BY <1>1, <1>7 DEF Fragment
<1>18. Holds(on)'
    BY <1>1, <1>11, <1>13, <1>14, <1>16, <1>17 DEF Holds
<1>19. Settled'
    BY <1>1, <1>10, <1>16, <1>18 DEF Settled
<1> QED  BY <1>1, <1>15, <1>19 DEF Working

LEMMA SplitDesynchronisedWorks ==
    ASSUME Quiet, Working, on \in Channels, SplitDesynchronised, Steady
    PROVE  Working'
<1>1. /\ step = "split" /\ rest # <<>> /\ step' = "split" /\ on' = on
      /\ TooLong(rest) /\ rest' = <<>> /\ partial' = partial
      /\ lost' = lost /\ out' = out /\ idle' = idle /\ packets' = packets
    BY DEF SplitDesynchronised, Splitting
<1>2. PICK pieces, start, n, whole : \E k \in 1..(Len(pieces) + 1) :
                Due(pieces, start, n, whole) /\ AtCut(pieces, start, n, whole, k)
    BY <1>1 DEF Working
<1>3. PICK k \in 1..(Len(pieces) + 1) : AtCut(pieces, start, n, whole, k)
    BY <1>2
<1> DEFINE m == Len(pieces)
           D == DoneOf(pieces, start, n, whole)
<1>4. Due(pieces, start, n, whole) /\ Laid(pieces, start, n)
    BY <1>2, DueIs
<1>5. /\ n \in Nat /\ m \in Nat /\ m >= 1 /\ k \in 1..m /\ start[k] \in Int
    BY <1>1, <1>3, <1>4, CutIs
<1>6. Refuses(pieces, start, n, k)
    <2>1. rest = Stretch(pieces, start, start[k], n)
        BY <1>3 DEF AtCut
    <2> QED  BY <1>1, <1>4, <1>5, <2>1, StretchReads
<1>7. start[k] >= 0
    <2>1. ~(start[k] < 0)
        BY <1>3, <1>5, <1>6 DEF AtCut
    <2> QED  BY <1>5, <2>1
<1>8. \A i \in 1..m : Usable(pieces, start, n, whole, i) => i < k
    <2> SUFFICES ASSUME NEW i \in 1..m, Usable(pieces, start, n, whole, i), ~(i < k)
                 PROVE  FALSE
        OBVIOUS
    <2> HIDE DEF m
    <2>1. i # k
        BY <1>6 DEF Usable
    <2>2. k \in 1..(i - 1)
        BY <1>5, <2>1
    <2> QED  BY <1>6, <1>7, <2>2 DEF Usable
<1>9. D \subseteq 1..(k - 1)
    <2> SUFFICES ASSUME NEW i \in D PROVE i \in 1..(k - 1)
        OBVIOUS
    <2>1. i \in 1..m /\ Usable(pieces, start, n, whole, i)
        BY DEF DoneOf
    <2>2. i < k
        BY <1>8, <2>1
    <2> HIDE DEF m
    <2> QED  BY <1>5, <2>1, <2>2
<1>10. /\ out = owed.out /\ idle[on] = owed.idle /\ lost = owed.lost
       /\ packets[on] = Len(out)
       /\ idle \in [Channels -> Nat] /\ packets \in [Channels -> Nat]
    BY <1>3, <1>4, <1>9, Finished
<1>11. ~begun[on]
    <2>1. ~Usable(pieces, start, n, whole, m)
        <3>1. m \in 1..m /\ ~(m < k)
            BY <1>5
        <3> QED  BY <1>8, <3>1
    <2> QED  BY <1>4, <2>1 DEF Due, BegunOf
<1>12. /\ packet' = packet /\ sent' = sent /\ begun' = begun /\ burst' = burst /\ owed' = owed
    BY DEF Steady, senderVars, linkVars
<1>13. partial[on] = <<>>
    BY <1>3 DEF AtCut
<1>14. Holds(on)'
    BY <1>1, <1>11, <1>12, <1>13 DEF Holds
<1>15. Settled'
    BY <1>1, <1>10, <1>12, <1>14 DEF Settled
<1> QED  BY <1>1, <1>15 DEF Working

LEMMA SplitDoneWorks ==
    ASSUME Quiet, Working, on \in Channels, SplitDone, Steady
    PROVE  Working'
<1>1. /\ step = "split" /\ rest = <<>> /\ step' = "pushed" /\ on' = on
      /\ partial' = partial
      /\ lost' = lost /\ out' = out /\ idle' = idle /\ packets' = packets
    BY DEF SplitDone, countVars, histVars
<1>2. /\ packet' = packet /\ sent' = sent /\ begun' = begun /\ burst' = burst /\ owed' = owed
    BY DEF Steady, senderVars, linkVars
<1> SUFFICES Settled
    <2>1. Settled'
        BY <1>1, <1>2 DEF Settled, Holds, Fragment
    <2> QED  BY <1>1, <2>1 DEF Working
<1> SUFFICES ASSUME NEW pieces, NEW start, NEW n, NEW whole, NEW k \in 1..(Len(pieces) + 1),
                    Due(pieces, start, n, whole), AtCut(pieces, start, n, whole, k)
             PROVE  Settled
    BY <1>1 DEF Working
<1> DEFINE m == Len(pieces)
<1>3. n \in Nat /\ m \in Nat /\ k = m + 1 /\ start[m + 1] = n
    BY <1>1, CutIs
<1>4. DoneOf(pieces, start, n, whole) \subseteq 1..(k - 1)
    <2>1. k - 1 = m
        BY <1>3
    <2> QED  BY <2>1, DueIs
<1>5. /\ out = owed.out /\ idle[on] = owed.idle /\ lost = owed.lost
      /\ packets[on] = Len(out)
      /\ idle \in [Channels -> Nat] /\ packets \in [Channels -> Nat]
    BY <1>4, Finished
<1>6. ~begun[on]
    <2>1. start[m + 1] <= n
        BY <1>3
    <2> QED  BY <2>1 DEF Due, BegunOf
<1>7. partial[on] = <<>>
    BY DEF AtCut
<1> QED  BY <1>5, <1>6, <1>7 DEF Settled, Holds

-----------------------------------------------------------------------------
(***************************************************************************)
(* The bytes in front of the first packet that starts in a frame.           *)
(***************************************************************************)
LEMMA HeadOfJoin ==
    ASSUME NEW S, NEW x \in Seq(S), NEW y \in Seq(S), NEW b \in 0..Len(y)
    PROVE  x \o SubSeq(y, 1, b) = SubSeq(x \o y, 1, Len(x) + b)
<1> DEFINE z == SubSeq(y, 1, b)
           w == SubSeq(x \o y, 1, Len(x) + b)
<1>1. Len(x) \in Nat /\ Len(y) \in Nat /\ b \in Nat /\ b <= Len(y)
    BY LenProperties
<1>2. /\ x \o y \in Seq(S) /\ Len(x \o y) = Len(x) + Len(y)
      /\ \A i \in 1..(Len(x) + Len(y)) : (x \o y)[i] = IF i <= Len(x) THEN x[i] ELSE y[i - Len(x)]
    BY ConcatProperties
<1>3. z \in Seq(S) /\ Len(z) = b /\ \A i \in 1..b : z[i] = y[i]
    BY <1>1
<1>4. w \in Seq(S) /\ Len(w) = Len(x) + b /\ \A i \in 1..(Len(x) + b) : w[i] = (x \o y)[i]
    <2> DEFINE xy == x \o y
    <2>1. xy \in Seq(S) /\ Len(xy) = Len(x) + Len(y)
        BY <1>2
    <2> HIDE DEF xy
    <2>2. /\ SubSeq(xy, 1, Len(x) + b) \in Seq(S) /\ Len(SubSeq(xy, 1, Len(x) + b)) = Len(x) + b
          /\ \A i \in 1..(Len(x) + b) : SubSeq(xy, 1, Len(x) + b)[i] = xy[i]
        BY <1>1, <2>1
    <2> QED  BY <2>2 DEF xy
<1>5. /\ x \o z \in Seq(S) /\ Len(x \o z) = Len(x) + Len(z)
      /\ \A i \in 1..(Len(x) + Len(z)) : (x \o z)[i] = IF i <= Len(x) THEN x[i] ELSE z[i - Len(x)]
    BY <1>3, ConcatProperties
<1> HIDE DEF z, w
<1>6. \A i \in 1..(Len(x) + b) : (x \o z)[i] = w[i]
    <2> TAKE i \in 1..(Len(x) + b)
    <2>1. w[i] = IF i <= Len(x) THEN x[i] ELSE y[i - Len(x)]
        <3>1. i \in 1..(Len(x) + Len(y))
            BY <1>1
        <3> QED  BY <1>2, <1>4, <3>1
    <2>2. (x \o z)[i] = IF i <= Len(x) THEN x[i] ELSE z[i - Len(x)]
        BY <1>3, <1>5
    <2>3. ~(i <= Len(x)) => i - Len(x) \in 1..b
        BY <1>1
    <2> QED  BY <1>3, <2>1, <2>2, <2>3
<1>7. x \o z = w
    <2>1. Len(x \o z) = Len(w) /\ Len(w) = Len(x) + b
        BY <1>3, <1>4, <1>5
    <2> QED  BY <1>4, <1>5, <1>6, <2>1, SeqEqual
<1> QED  BY <1>7 DEF z, w

\* The piece that is held and the bytes that follow are one stretch.
LEMMA Joined ==
    ASSUME NEW pieces, NEW start, NEW n, Laid(pieces, start, n), start[1] < 0
    PROVE  /\ SubSeq(pieces[1], 1, -start[1]) \o Stretch(pieces, start, 0, n)
                = Stretch(pieces, start, start[1], n)
           /\ SubSeq(pieces[1], 1, -start[1]) \in Seq(Bytes)
           /\ Len(SubSeq(pieces[1], 1, -start[1])) = -start[1]
<1> DEFINE d == -start[1]
           x == SubSeq(pieces[1], 1, d)
           y == Stretch(pieces, start, 0, n)
           s == Stretch(pieces, start, start[1], n)
<1>1. /\ pieces \in Seq(SpacePackets) /\ n \in Nat /\ 1 \in 1..Len(pieces)
      /\ start[1] \in Int /\ start[2] \in Int /\ start[2] > 0
    BY LaidIs
<1>2. pieces[1] \in Seq(Bytes) /\ Len(pieces[1]) \in Nat
    BY <1>1, PieceIs
<1>3. start[2] = start[1] + Len(pieces[1])
    <2>1. start[1 + 1] = start[1] + Len(pieces[1])
        BY <1>1, LaidIs
    <2> QED  BY <2>1
<1>4. d \in Nat /\ d >= 1 /\ d <= Len(pieces[1])
    BY <1>1, <1>2, <1>3
<1>5. x \in Seq(Bytes) /\ Len(x) = d /\ \A i \in 1..d : x[i] = pieces[1][i]
    BY <1>2, <1>4
<1>6. y \in Seq(Bytes) /\ Len(y) = n
    <2>1. 0 \in Int /\ start[1] <= 0 /\ 0 <= n /\ n - 0 = n
        BY <1>1
    <2> QED  BY <2>1, StretchIs
<1>7. /\ s \in Seq(Bytes) /\ Len(s) = n - start[1]
      /\ \A p \in 1..(n - start[1]) : start[1] <= start[1] /\ p + start[1] <= start[1 + 1]
            => s[p] = pieces[1][p + start[1] - start[1]]
    <2>1. start[1] <= start[1] /\ start[1] <= n
        BY <1>1
    <2> QED  BY <1>1, <2>1, StretchIs
<1>8. /\ y = [p \in 1..(n - 0) |-> ByteAt(pieces, start, p + 0)]
      /\ s = [p \in 1..(n - start[1]) |-> ByteAt(pieces, start, p + start[1])]
    BY DEF Stretch
<1> HIDE DEF x, y, s
<1>9. /\ x \o y \in Seq(Bytes) /\ Len(x \o y) = d + n
      /\ \A i \in 1..(d + n) : (x \o y)[i] = IF i <= d THEN x[i] ELSE y[i - d]
    <2>1. x \in Seq(Bytes) /\ y \in Seq(Bytes) /\ Len(x) = d /\ Len(y) = n
        BY <1>5, <1>6
    <2>2. /\ x \o y \in Seq(Bytes) /\ Len(x \o y) = Len(x) + Len(y)
          /\ \A i \in 1..(Len(x) + Len(y)) : (x \o y)[i] = IF i <= Len(x) THEN x[i] ELSE y[i - Len(x)]
        BY <2>1, ConcatProperties
    <2> HIDE DEF d
    <2> QED  BY <2>1, <2>2
<1>10. d + n = n - start[1]
    BY <1>1
<1>11. \A i \in 1..(d + n) : (x \o y)[i] = s[i]
    <2> TAKE i \in 1..(d + n)
    <2>1. CASE i <= d
        <3>1. i \in 1..d /\ i \in 1..(n - start[1]) /\ start[1] <= start[1]
            BY <1>4, <1>10, <1>1, <2>1
        <3>2. i + start[1] <= start[1 + 1] /\ i + start[1] - start[1] = i
            BY <1>1, <2>1
        <3>3. s[i] = pieces[1][i]
            BY <1>7, <3>1, <3>2
        <3> QED  BY <1>5, <1>9, <2>1, <3>1, <3>3
    <2>2. CASE ~(i <= d)
        <3>1. i - d \in 1..(n - 0) /\ i \in 1..(n - start[1]) /\ (i - d) + 0 = i + start[1]
            BY <1>1, <1>4, <1>10, <2>2
        <3>2. y[i - d] = ByteAt(pieces, start, i + start[1])
            BY <1>8, <3>1
        <3>3. s[i] = ByteAt(pieces, start, i + start[1])
            BY <1>8, <3>1
        <3> QED  BY <1>9, <2>2, <3>2, <3>3
    <2> QED  BY <2>1, <2>2
<1>12. x \o y = s
    <2>1. Len(s) = d + n
        BY <1>7, <1>10
    <2> QED  BY <1>7, <1>9, <1>11, <2>1, SeqEqual
<1> QED  BY <1>5, <1>12 DEF x, y, s

\* What the ground makes of the packet under way with the bytes of this frame.
LEMMA FrontIs ==
    ASSUME NEW pieces, NEW start, NEW n, Laid(pieces, start, n), start[1] < 0,
           partial[on] = SubSeq(pieces[1], 1, -start[1]),
           rest = Stretch(pieces, start, 0, n),
           pointer = (IF Len(pieces) = 1 THEN NO_PACKET_START ELSE start[2])
    PROVE  /\ TooLong(Fed) <=> Refuses(pieces, start, n, 1)
           /\ IsWhole(Fed) <=> start[2] <= n /\ ~Refuses(pieces, start, n, 1)
           /\ IsWhole(Fed) => SubSeq(Fed, 1, Declared(Fed)) = pieces[1]
           /\ start[2] <= n => Behind = Stretch(pieces, start, start[2], n)
           /\ ~(start[2] <= n) => /\ Len(pieces) = 1 /\ Behind = <<>>
                                  /\ Fed \in Seq(Bytes)
                                  /\ Fed = SubSeq(pieces[1], 1, n - start[1])
           /\ pointer # NO_PACKET_START => start[2] <= n
           /\ Fed # <<>>
<1> DEFINE m == Len(pieces)
           x == SubSeq(pieces[1], 1, -start[1])
           y == Stretch(pieces, start, 0, n)
           s == Stretch(pieces, start, start[1], n)
<1>1. /\ pieces \in Seq(SpacePackets) /\ n \in Nat /\ m \in Nat /\ m >= 1 /\ 1 \in 1..m
      /\ start[1] \in Int /\ start[2] \in Int /\ start[2] > 0
      /\ start[m] < n /\ n <= start[m + 1] /\ start[m] \in Int
    BY LaidIs
<1>2. pieces[1] \in SpacePackets /\ pieces[1] \in Seq(Bytes) /\ Len(pieces[1]) \in Nat
      /\ Len(pieces[1]) > HeaderBytes
    BY <1>1, PieceIs, ElementOfSeq
<1>3. start[2] = start[1] + Len(pieces[1])
    <2>1. start[1 + 1] = start[1] + Len(pieces[1])
        BY <1>1, LaidIs
    <2> QED  BY <2>1
<1>4. x \o y = s /\ x \in Seq(Bytes) /\ Len(x) = -start[1]
    BY Joined
<1>5. y \in Seq(Bytes) /\ Len(y) = n
    <2>1. 0 \in Int /\ start[1] <= 0 /\ 0 <= n /\ n - 0 = n
        BY <1>1
    <2> QED  BY <2>1, StretchIs
<1>6. /\ s \in Seq(Bytes) /\ s # <<>>
      /\ TooLong(s) <=> Refuses(pieces, start, n, 1)
      /\ IsWhole(s) <=> start[2] <= n /\ ~Refuses(pieces, start, n, 1)
      /\ IsWhole(s) => SubSeq(s, 1, Declared(s)) = pieces[1]
    <2>1. 1 + 1 = 2
        OBVIOUS
    <2> QED  BY <1>1, <2>1, StretchReads
<1>7. CASE m = 1
    <2>1. pointer = NO_PACKET_START /\ Ahead = rest /\ Behind = <<>>
        BY <1>7 DEF Ahead, Behind
    <2>2. Fed = s
        BY <1>4, <2>1 DEF Fed
    <2>3. start[2] <= n => Behind = Stretch(pieces, start, start[2], n)
        <3> SUFFICES ASSUME start[2] <= n PROVE Behind = Stretch(pieces, start, start[2], n)
            OBVIOUS
        <3>1. start[2] = n
            BY <1>1, <1>7
        <3>2. n - n = 0 /\ 1..0 = {}
            BY <1>1
        <3>3. Stretch(pieces, start, n, n) = <<>>
            BY <3>2 DEF Stretch
        <3> QED  BY <2>1, <3>1, <3>3
    <2>4. ~(start[2] <= n) => s = SubSeq(pieces[1], 1, n - start[1])
        <3>1. ~(start[2] <= n) => n <= start[1 + 1]
            BY <1>1
        <3> QED  BY <1>1, <3>1, StretchHead
    <2> HIDE DEF s
    <2> QED  BY <1>6, <1>7, <2>1, <2>2, <2>3, <2>4
<1>8. CASE m # 1
    <2>1. pointer = start[2]
        BY <1>8
    <2>2. start[2] <= n
        <3> HIDE DEF m
        <3>1. 2 \in 1..(m + 1) /\ m \in 1..(m + 1) /\ (m = 2 \/ 2 < m)
            BY <1>1, <1>8
        <3>2. \A i, j \in 1..(m + 1) : i < j => start[i] < start[j]
            BY LaidAscends DEF m
        <3>3. start[2] = start[m] \/ start[2] < start[m]
            BY <3>1, <3>2
        <3> QED  BY <1>1, <3>3
    <2>3. pointer # NO_PACKET_START
        BY <1>1, <2>1 DEF NO_PACKET_START
    <2>4. Ahead = SubSeq(y, 1, start[2]) /\ Behind = SubSeq(y, start[2] + 1, Len(y))
        BY <2>1, <2>3 DEF Ahead, Behind
    <2>5. Behind = Stretch(pieces, start, start[2], n)
        <3>1. /\ 0 \in Int /\ start[1] <= 0 /\ 0 <= start[2]
              /\ start[2] - 0 + 1 = start[2] + 1 /\ n - 0 = n
            BY <1>1
        <3>a. \A a, b \in Int : start[1] <= a /\ a <= b /\ b <= n =>
                 SubSeq(Stretch(pieces, start, a, n), b - a + 1, n - a) = Stretch(pieces, start, b, n)
            BY StretchTail
        <3>2. SubSeq(y, start[2] - 0 + 1, n - 0) = Stretch(pieces, start, start[2], n)
            BY <1>1, <2>2, <3>1, <3>a
        <3> QED  BY <1>5, <2>4, <3>1, <3>2
    <2>6. Fed = pieces[1]
        <3>1. start[2] \in 0..Len(y)
            BY <1>1, <1>5, <2>2
        <3> HIDE DEF x, y, s
        <3>a. x \in Seq(Bytes) /\ y \in Seq(Bytes)
            BY <1>4, <1>5
        <3>b. \A b \in 0..Len(y) : x \o SubSeq(y, 1, b) = SubSeq(x \o y, 1, Len(x) + b)
            BY <3>a, HeadOfJoin
        <3>2. x \o SubSeq(y, 1, start[2]) = SubSeq(x \o y, 1, Len(x) + start[2])
            BY <3>1, <3>b
        <3>3. Len(x) + start[2] = Len(pieces[1])
            <4>1. Len(x) = -start[1] /\ start[1] \in Int /\ Len(pieces[1]) \in Nat
                BY <1>1, <1>2, <1>4
            <4>2. start[2] = start[1] + Len(pieces[1])
                BY <1>3
            <4> DEFINE a == start[1]
                       len == Len(pieces[1])
            <4> HIDE DEF a, len
            <4>3. a \in Int /\ len \in Nat => -a + (a + len) = len
                OBVIOUS
            <4> QED  BY <4>1, <4>2, <4>3 DEF a, len
        <3>4. SubSeq(s, 1, Len(pieces[1])) = pieces[1]
            <4>1. 1 + 1 = 2
                OBVIOUS
            <4> QED  BY <1>1, <2>2, <4>1, StretchHead DEF s
        <3>5. Fed = x \o SubSeq(y, 1, start[2])
            BY <2>4 DEF Fed, x
        <3> QED  BY <1>4, <3>2, <3>3, <3>4, <3>5
    <2>7. Refuses(pieces, start, n, 1) <=> Len(pieces[1]) > MaxPacketLength
        <3>1. start[1] + HeaderBytes <= n
            BY <1>1, <1>2, <1>3, <2>2, HeaderIs
        <3> QED  BY <3>1 DEF Refuses
    <2>8. /\ TooLong(pieces[1]) <=> Len(pieces[1]) > MaxPacketLength
          /\ IsWhole(pieces[1]) <=> ~(Len(pieces[1]) > MaxPacketLength)
          /\ SubSeq(pieces[1], 1, Declared(pieces[1])) = pieces[1]
          /\ pieces[1] # <<>>
        BY <1>2, PacketReads, SpacePacketIs
    <2> QED  BY <2>2, <2>5, <2>6, <2>7, <2>8
<1> QED  BY <1>7, <1>8

LEMMA TallyNone ==
    ASSUME on \in Channels, NEW pieces, NEW D, NEW k, D \cap (1..(k - 1)) = {},
           out = <<>>, idle = Zero, packets = Zero
    PROVE  Tally(pieces, D, k)
<1>1. /\ (D \ Fills(pieces, D)) \cap (1..(k - 1)) = {}
      /\ Fills(pieces, D) \cap (1..(k - 1)) = {}
    BY DEF Fills
<1>2. out = Picked(pieces, {})
    BY PickedNone
<1>3. Cardinality({}) = 0
    BY FS_EmptySet
<1>4. Len(out) = 0
    OBVIOUS
<1>5. /\ idle \in [Channels -> Nat] /\ packets \in [Channels -> Nat]
      /\ idle[on] = 0 /\ packets[on] = 0
    BY DEF Zero
<1> QED  BY <1>1, <1>2, <1>3, <1>4, <1>5 DEF Tally

\* The counter of lost packets after none was given up, and after one.
LEMMA NothingLost ==
    ASSUME NEW c \in Channels
    PROVE  /\ \A isLost : ~isLost => OneLost(c, isLost) = Zero
           /\ \A isLost, s : isLost /\ s # <<>> =>
                 [Zero EXCEPT ![c] = @ + Spent(s)] = OneLost(c, isLost)
<1>1. \A isLost : /\ ~isLost => OneLost(c, isLost) = [Zero EXCEPT ![c] = 0]
                  /\ isLost => OneLost(c, isLost) = [Zero EXCEPT ![c] = 1]
    BY DEF OneLost
<1>2. Zero[c] = 0 /\ [Zero EXCEPT ![c] = 0] = Zero
    BY DEF Zero
<1>3. \A s : s # <<>> => Spent(s) = 1
    BY DEF Spent
<1>4. Zero[c] + 1 = 1
    BY <1>2
<1> QED  BY <1>1, <1>2, <1>3, <1>4

\* The data field is read from its first byte when no packet reaches into it.
LEMMA BehindAll ==
    ASSUME NEW pieces, NEW start, NEW n, Laid(pieces, start, n), start[1] >= 0,
           rest = Stretch(pieces, start, 0, n), pointer = 0
    PROVE  Behind = Stretch(pieces, start, start[1], n) /\ start[1] = 0 /\ Ahead = <<>>
<1>1. n \in Nat /\ start[1] \in Int /\ start[1] <= 0
    BY LaidIs
<1>2. start[1] = 0
    BY <1>1
<1>3. rest \in Seq(Bytes)
    <2>1. 0 \in Int /\ start[1] <= 0 /\ 0 <= n
        BY <1>1
    <2> QED  BY <2>1, StretchIs
<1>4. Behind = SubSeq(rest, 0 + 1, Len(rest)) /\ Ahead = SubSeq(rest, 1, 0)
    BY DEF Behind, Ahead, NO_PACKET_START
<1>5. SubSeq(rest, 0 + 1, Len(rest)) = rest /\ SubSeq(rest, 1, 0) = <<>>
    BY <1>3
<1> QED  BY <1>2, <1>4, <1>5

\* The five ways to look at the bytes in front of the first packet start.
LEMMA NoPacketInFrontWorks ==
    ASSUME Quiet, Working, on \in Channels, NoPacketInFront, Steady
    PROVE  Working'
<1>1. /\ step = "frame" /\ partial[on] = <<>> /\ step' = "split" /\ rest' = Behind
      /\ partial' = partial /\ on' = on
      /\ lost' = lost /\ out' = out /\ idle' = idle /\ packets' = packets
    BY DEF NoPacketInFront, IsAssembling, histVars
<1>2. PICK pieces, start, n, whole :
                Due(pieces, start, n, whole) /\ AtFrame(pieces, start, n, whole)
    BY <1>1 DEF Working
<1> DEFINE m == Len(pieces)
           D == DoneOf(pieces, start, n, whole)
<1>3. /\ rest = Stretch(pieces, start, 0, n)
      /\ pointer = (IF start[1] >= 0 THEN 0
                    ELSE IF Len(pieces) = 1 THEN NO_PACKET_START ELSE start[2])
      /\ out = <<>> /\ idle = Zero /\ packets = Zero
      /\ lost = owed.lost /\ (start[1] < 0 => ~whole)
    BY <1>1, <1>2 DEF AtFrame, Fragment
<1>4. Laid(pieces, start, n) /\ Due(pieces, start, n, whole)'
    BY <1>1, <1>2, DueIs, DueKept
<1>5. /\ packet' = packet /\ sent' = sent /\ begun' = begun /\ burst' = burst /\ owed' = owed
    BY DEF Steady, senderVars, linkVars
<1>6. /\ n \in Nat /\ m \in Nat /\ m >= 1 /\ start[1] \in Int /\ start[1] <= 0
      /\ start[2] \in Int /\ start[2] > 0 /\ start[m] < n /\ start[m] \in Int
    BY <1>4, LaidIs
<1>7. CASE start[1] >= 0
    <2>1. rest' = Stretch(pieces, start, start[1], n) /\ start[1] = 0
        BY <1>1, <1>3, <1>4, <1>7, BehindAll
    <2>2. Tally(pieces, D, 1)
        <3>1. D \cap (1..(1 - 1)) = {}
            OBVIOUS
        <3> HIDE DEF D
        <3> QED  BY <1>3, <3>1, TallyNone
    <2>3. Tally(pieces, D, 1)'
        BY <1>1, <2>2 DEF Tally
    <2>4. 1 \in 1..(m + 1) /\ start[1] <= n /\ ~(start[1] < 0) /\ 1..(1 - 1) = {}
        BY <1>6, <2>1
    <2>5. AtCut(pieces, start, n, whole, 1)'
        BY <1>1, <1>3, <1>5, <2>1, <2>3, <2>4 DEF AtCut
    <2> QED  BY <1>1, <1>4, <2>4, <2>5 DEF Working
<1>8. CASE ~(start[1] >= 0) /\ m = 1
    <2>1. rest' = <<>>
        BY <1>1, <1>3, <1>8 DEF Behind
    <2>2. ~Usable(pieces, start, n, whole, 1)
        BY <1>3, <1>6, <1>8 DEF Usable
    <2>3. D \subseteq 1..(1 - 1) /\ ~begun[on]
        <3>1. D = {}
            BY <1>8, <2>2 DEF DoneOf
        <3> QED  BY <1>2, <1>8, <2>2, <3>1 DEF Due, BegunOf
    <2>4. Tally(pieces, D, 1)
        <3>1. D \cap (1..(1 - 1)) = {}
            OBVIOUS
        <3> HIDE DEF D
        <3> QED  BY <1>3, <3>1, TallyNone
    <2>5. /\ out = Picked(pieces, D \ Fills(pieces, D))
          /\ idle[on] = Cardinality(Fills(pieces, D)) /\ packets[on] = Len(out)
        <3> HIDE DEF D
        <3> QED  BY <2>3, <2>4, TallyAll
    <2>6. idle \in [Channels -> Nat] /\ packets \in [Channels -> Nat]
        BY <2>4 DEF Tally
    <2>7. out = owed.out /\ idle[on] = owed.idle
        BY <1>2, <2>5 DEF Due
    <2>8. Holds(on)'
        BY <1>1, <1>5, <2>3 DEF Holds
    <2>9. Settled'
        BY <1>1, <1>3, <1>5, <2>5, <2>6, <2>7, <2>8 DEF Settled
    <2> QED  BY <1>1, <2>1, <2>9 DEF Working
<1>9. CASE ~(start[1] >= 0) /\ m # 1
    <2>1. pointer = start[2] /\ pointer # NO_PACKET_START /\ ~whole
        BY <1>3, <1>6, <1>9 DEF NO_PACKET_START
    <2>2. start[2] <= n /\ 2 \in 1..(m + 1)
        <3> HIDE DEF m
        <3>1. 2 \in 1..(m + 1) /\ m \in 1..(m + 1) /\ (m = 2 \/ 2 < m)
            BY <1>6, <1>9
        <3>2. \A i, j \in 1..(m + 1) : i < j => start[i] < start[j]
            BY <1>4, LaidAscends DEF m
        <3>3. start[2] = start[m] \/ start[2] < start[m]
            BY <3>1, <3>2
        <3> QED  BY <1>6, <3>1, <3>3
    <2>3. rest' = Stretch(pieces, start, start[2], n)
        <3>1. Len(rest) = n
            <4>1. 0 \in Int /\ start[1] <= 0 /\ 0 <= n /\ n - 0 = n
                BY <1>6
            <4> QED  BY <1>3, <1>4, <4>1, StretchIs
        <3>2. \A a, b \in Int : start[1] <= a /\ a <= b /\ b <= n =>
                 SubSeq(Stretch(pieces, start, a, n), b - a + 1, n - a) = Stretch(pieces, start, b, n)
            BY <1>4, StretchTail
        <3>3. start[2] - 0 + 1 = start[2] + 1 /\ n - 0 = n /\ 0 <= start[2] /\ start[1] <= 0
            BY <1>6
        <3>4. SubSeq(rest, start[2] - 0 + 1, n - 0) = Stretch(pieces, start, start[2], n)
            <4>1. 0 \in Int /\ start[2] \in Int /\ start[1] <= 0 /\ 0 <= start[2] /\ start[2] <= n
                BY <1>6, <2>2
            <4>2. SubSeq(Stretch(pieces, start, 0, n), start[2] - 0 + 1, n - 0)
                    = Stretch(pieces, start, start[2], n)
                BY <3>2, <4>1
            <4>3. rest = Stretch(pieces, start, 0, n)
                BY <1>3
            <4> QED  BY <4>2, <4>3
        <3>5. Behind = SubSeq(rest, start[2] + 1, Len(rest))
            BY <2>1 DEF Behind
        <3> QED  BY <1>1, <3>1, <3>3, <3>4, <3>5
    <2>4. 1 \notin D
        <3>1. start[1] < 0
            BY <1>6, <1>9
        <3> QED  BY <2>1, <3>1 DEF DoneOf, Usable
    <2>5. Tally(pieces, D, 2)
        <3>1. 1..(2 - 1) = {1}
            OBVIOUS
        <3> HIDE DEF D
        <3>2. D \cap (1..(2 - 1)) = {}
            BY <2>4, <3>1
        <3> QED  BY <1>3, <3>2, TallyNone
    <2>6. Tally(pieces, D, 2)'
        BY <1>1, <2>5 DEF Tally
    <2>7. ~(start[2] < 0) /\ \A j \in 1..(2 - 1) : ~(start[j] >= 0)
        <3>1. \A j \in 1..(2 - 1) : j = 1
            OBVIOUS
        <3> QED  BY <1>6, <1>9, <3>1
    <2>8. AtCut(pieces, start, n, whole, 2)'
        BY <1>1, <1>3, <1>5, <2>2, <2>3, <2>6, <2>7 DEF AtCut
    <2> QED  BY <1>1, <1>4, <2>2, <2>8 DEF Working
<1> QED  BY <1>7, <1>8, <1>9

LEMMA FeedGrowsWorks ==
    ASSUME Quiet, Working, on \in Channels, FeedGrows, Steady
    PROVE  Working' /\ Quiet'
<1>1. /\ step = "frame" /\ partial[on] # <<>> /\ step' = "split" /\ rest' = Behind
      /\ partial' = [partial EXCEPT ![on] = Fed] /\ on' = on /\ last' = last
      /\ ~TooLong(Fed) /\ ~IsWhole(Fed) /\ pointer = NO_PACKET_START
      /\ lost' = lost /\ out' = out /\ idle' = idle /\ packets' = packets
    BY DEF FeedGrows, Feeding, IsAssembling, countVars
<1>2. PICK pieces, start, n, whole :
                Due(pieces, start, n, whole) /\ AtFrame(pieces, start, n, whole)
    BY <1>1 DEF Working
<1> DEFINE D == DoneOf(pieces, start, n, whole)
<1>3. Laid(pieces, start, n)
    BY <1>2, DueIs
<1>4. ~(start[1] >= 0)
    BY <1>1, <1>2 DEF AtFrame, NO_PACKET_START
<1>5. /\ rest = Stretch(pieces, start, 0, n)
      /\ pointer = (IF Len(pieces) = 1 THEN NO_PACKET_START ELSE start[2])
      /\ out = <<>> /\ idle = Zero /\ packets = Zero
      /\ start[1] < 0 /\ whole
      /\ partial[on] = SubSeq(pieces[1], 1, -start[1])
      /\ lost = Zero /\ owed.lost = OneLost(on, Refuses(pieces, start, n, 1))
    BY <1>1, <1>2, <1>4 DEF AtFrame
<1>6. /\ TooLong(Fed) <=> Refuses(pieces, start, n, 1)
      /\ IsWhole(Fed) <=> start[2] <= n /\ ~Refuses(pieces, start, n, 1)
      /\ ~(start[2] <= n) => /\ Len(pieces) = 1 /\ Behind = <<>>
                             /\ Fed \in Seq(Bytes)
                             /\ Fed = SubSeq(pieces[1], 1, n - start[1])
      /\ Fed # <<>>
    BY <1>3, <1>5, FrontIs
<1>7. ~Refuses(pieces, start, n, 1) /\ ~(start[2] <= n)
    BY <1>1, <1>6
<1>8. /\ n \in Nat /\ start[2] \in Int
    BY <1>3, LaidIs
<1>9. D = {} /\ begun[on]
    <2>1. \A i \in 1..1 : i = 1 /\ i + 1 = 2
        OBVIOUS
    <2>2. D = {}
        BY <1>6, <1>7, <2>1 DEF DoneOf
    <2>3. \A j \in 1..(1 - 1) : FALSE
        OBVIOUS
    <2>4. Usable(pieces, start, n, whole, 1)
        BY <1>5, <1>7, <2>3 DEF Usable
    <2>a. Len(pieces) = 1
        BY <1>6, <1>7
    <2>b. Len(pieces) + 1 = 2
        BY <2>a
    <2>5. BegunOf(pieces, start, n, whole)
        BY <1>7, <2>4, <2>a, <2>b DEF BegunOf
    <2> QED  BY <1>2, <2>2, <2>5 DEF Due
<1>10. Tally(pieces, D, 1)
    <2> HIDE DEF D
    <2> QED  BY <1>5, <1>9, TallyNone
<1>11. /\ out = Picked(pieces, D \ Fills(pieces, D))
       /\ idle[on] = Cardinality(Fills(pieces, D)) /\ packets[on] = Len(out)
    <2>1. D \subseteq 1..(1 - 1)
        BY <1>9
    <2> HIDE DEF D
    <2> QED  BY <1>10, <2>1, TallyAll
<1>12. idle \in [Channels -> Nat] /\ packets \in [Channels -> Nat]
    BY <1>10 DEF Tally
<1>13. out = owed.out /\ idle[on] = owed.idle
    BY <1>2, <1>11 DEF Due
<1>14. lost = owed.lost
    BY <1>5, <1>7, NothingLost
<1>15. packet[on] = pieces[1] /\ sent[on] = n - start[1]
    <2>1. start[Len(pieces) + 1] # n
        <3>1. start[2] # n
            BY <1>7, <1>8
        <3>a. Len(pieces) = 1
            BY <1>6, <1>7
        <3>2. Len(pieces) + 1 = 2
            BY <3>a
        <3> QED  BY <3>1, <3>2
    <2> QED  BY <1>2, <1>6, <1>7, <2>1 DEF Due
<1>16. /\ packet' = packet /\ sent' = sent /\ begun' = begun /\ burst' = burst /\ owed' = owed
    BY DEF Steady, senderVars, linkVars
<1>17. Fed \in Seq(Bytes) /\ Fragment(Fed) /\ Fed = SubSeq(packet[on], 1, sent[on])
    BY <1>1, <1>6, <1>7, <1>15 DEF Fragment
<1>18. partial'[on] = Fed
    BY <1>1 DEF Quiet
<1> HIDE DEF D
<1>19. Holds(on)'
    BY <1>1, <1>9, <1>16, <1>17, <1>18 DEF Holds
<1>20. Settled'
    BY <1>1, <1>11, <1>12, <1>13, <1>14, <1>16, <1>19 DEF Settled
<1>21. Quiet'
    BY <1>1, <1>17, QuietKept
<1>22. rest' = <<>>
    BY <1>1, <1>6, <1>7
<1> QED  BY <1>1, <1>20, <1>21, <1>22 DEF Working

LEMMA FeedAbandonedWorks ==
    ASSUME Quiet, Working, on \in Channels, FeedAbandoned, Steady
    PROVE  Working' /\ Quiet'
<1>1. /\ step = "frame" /\ partial[on] # <<>> /\ step' = "split" /\ rest' = Behind
      /\ partial' = [partial EXCEPT ![on] = <<>>] /\ on' = on /\ last' = last
      /\ ~TooLong(Fed) /\ ~IsWhole(Fed) /\ pointer # NO_PACKET_START
      /\ lost' = [lost EXCEPT ![on] = @ + Spent(Fed)]
      /\ out' = out /\ idle' = idle /\ packets' = packets
    BY DEF FeedAbandoned, Feeding, IsAssembling, GiveUp
<1>2. PICK pieces, start, n, whole :
                Due(pieces, start, n, whole) /\ AtFrame(pieces, start, n, whole)
    BY <1>1 DEF Working
<1> DEFINE D == DoneOf(pieces, start, n, whole)
<1>3. Laid(pieces, start, n) /\ Due(pieces, start, n, whole)'
    BY <1>1, <1>2, DueIs, DueKept
<1>4. start[1] >= 0
    <2> SUFFICES ASSUME ~(start[1] >= 0) PROVE FALSE
        OBVIOUS
    <2>1. /\ rest = Stretch(pieces, start, 0, n)
          /\ pointer = (IF Len(pieces) = 1 THEN NO_PACKET_START ELSE start[2])
          /\ start[1] < 0
          /\ partial[on] = SubSeq(pieces[1], 1, -start[1])
        BY <1>1, <1>2 DEF AtFrame
    <2> QED  BY <1>1, <1>3, <2>1, FrontIs
<1>5. n \in Nat /\ start[1] \in Int /\ Len(pieces) \in Nat
    BY <1>3, LaidIs
<1>6. /\ rest = Stretch(pieces, start, 0, n) /\ pointer = 0
      /\ out = <<>> /\ idle = Zero /\ packets = Zero
      /\ Fragment(partial[on])
      /\ lost = Zero /\ owed.lost = OneLost(on, TRUE)
    <2>1. ~(start[1] < 0)
        BY <1>4, <1>5
    <2> QED  BY <1>1, <1>2, <1>4, <2>1 DEF AtFrame
<1>7. rest' = Stretch(pieces, start, start[1], n) /\ start[1] = 0 /\ Ahead = <<>>
    BY <1>1, <1>3, <1>4, <1>6, BehindAll
<1>8. Fed = partial[on]
    BY <1>6, <1>7 DEF Fed, Fragment
<1>9. lost' = owed.lost
    BY <1>1, <1>6, <1>8, NothingLost
<1>10. Tally(pieces, D, 1)
    <2>1. D \cap (1..(1 - 1)) = {}
        OBVIOUS
    <2> HIDE DEF D
    <2> QED  BY <1>6, <2>1, TallyNone
<1>11. Tally(pieces, D, 1)'
    BY <1>1, <1>10 DEF Tally
<1>12. 1 \in 1..(Len(pieces) + 1) /\ start[1] <= n /\ ~(start[1] < 0) /\ 1..(1 - 1) = {}
    BY <1>5, <1>7
<1>13. partial'[on] = <<>> /\ <<>> \in Seq(Bytes)
    BY <1>1 DEF Quiet
<1>14. owed' = owed
    BY DEF Steady
<1>15. AtCut(pieces, start, n, whole, 1)'
    BY <1>1, <1>7, <1>9, <1>11, <1>12, <1>13, <1>14 DEF AtCut
<1>16. Quiet'
    BY <1>1, <1>13, QuietKept
<1> QED  BY <1>1, <1>3, <1>12, <1>15, <1>16 DEF Working

LEMMA FeedCompletesWorks ==
    ASSUME Quiet, Working, on \in Channels, FeedCompletes, Steady
    PROVE  Working' /\ Quiet'
<1>1. /\ step = "frame" /\ partial[on] # <<>> /\ step' = "split" /\ rest' = Behind
      /\ partial' = [partial EXCEPT ![on] = <<>>] /\ on' = on /\ last' = last
      /\ IsWhole(Fed) /\ Deliver(on, SubSeq(Fed, 1, Declared(Fed))) /\ lost' = lost
    BY DEF FeedCompletes, Feeding, IsAssembling
<1>2. PICK pieces, start, n, whole :
                Due(pieces, start, n, whole) /\ AtFrame(pieces, start, n, whole)
    BY <1>1 DEF Working
<1> DEFINE D == DoneOf(pieces, start, n, whole)
<1>3. Laid(pieces, start, n) /\ Due(pieces, start, n, whole)'
    BY <1>1, <1>2, DueIs, DueKept
<1>4. /\ n \in Nat /\ start[1] \in Int /\ Len(pieces) \in Nat /\ Len(pieces) >= 1
      /\ start[2] \in Int /\ start[2] > 0 /\ pieces \in Seq(SpacePackets)
    BY <1>3, LaidIs
<1>5. ~(start[1] >= 0)
    <2> SUFFICES ASSUME start[1] >= 0 PROVE FALSE
        OBVIOUS
    <2>0. ~(start[1] < 0)
        BY <1>4
    <2>1. rest = Stretch(pieces, start, 0, n) /\ pointer = 0 /\ Fragment(partial[on])
        BY <1>1, <1>2, <2>0 DEF AtFrame
    <2>2. Ahead = <<>>
        BY <1>3, <2>1, BehindAll
    <2>3. Fed = partial[on]
        BY <2>1, <2>2 DEF Fed, Fragment
    <2> QED  BY <1>1, <2>1, <2>3 DEF Fragment
<1>6. /\ rest = Stretch(pieces, start, 0, n)
      /\ pointer = (IF Len(pieces) = 1 THEN NO_PACKET_START ELSE start[2])
      /\ out = <<>> /\ idle = Zero /\ packets = Zero
      /\ start[1] < 0 /\ whole
      /\ partial[on] = SubSeq(pieces[1], 1, -start[1])
      /\ lost = Zero /\ owed.lost = OneLost(on, Refuses(pieces, start, n, 1))
    BY <1>1, <1>2, <1>5 DEF AtFrame
<1>7. /\ IsWhole(Fed) <=> start[2] <= n /\ ~Refuses(pieces, start, n, 1)
      /\ IsWhole(Fed) => SubSeq(Fed, 1, Declared(Fed)) = pieces[1]
      /\ start[2] <= n => Behind = Stretch(pieces, start, start[2], n)
    BY <1>3, <1>6, FrontIs
<1>8. /\ start[2] <= n /\ ~Refuses(pieces, start, n, 1)
      /\ rest' = Stretch(pieces, start, start[2], n) /\ Deliver(on, pieces[1])
    BY <1>1, <1>7
<1>9. 1 \in D
    <2>1. 1 \in 1..Len(pieces) /\ 1 + 1 = 2 /\ \A j \in 1..(1 - 1) : FALSE
        BY <1>4
    <2> QED  BY <1>6, <1>8, <2>1 DEF DoneOf, Usable
<1>10. Tally(pieces, D, 1)
    <2>1. D \cap (1..(1 - 1)) = {}
        OBVIOUS
    <2> HIDE DEF D
    <2> QED  BY <1>6, <2>1, TallyNone
<1>11. Tally(pieces, D, 2)'
    <2>1. D \subseteq 1..Len(pieces) /\ 1 + 1 = 2
        BY DEF DoneOf
    <2> HIDE DEF D
    <2>2. Tally(pieces, D, 1 + 1)'
        BY <1>1, <1>4, <1>8, <1>9, <1>10, <2>1, TallyMore
    <2> QED  BY <2>1, <2>2
<1>12. lost' = owed.lost
    BY <1>1, <1>6, <1>8, NothingLost
<1>13. 2 \in 1..(Len(pieces) + 1) /\ ~(start[2] < 0) /\ \A j \in 1..(2 - 1) : ~(start[j] >= 0)
    <2>1. \A j \in 1..(2 - 1) : j = 1
        OBVIOUS
    <2> QED  BY <1>4, <1>5, <2>1
<1>14. partial'[on] = <<>> /\ <<>> \in Seq(Bytes)
    BY <1>1 DEF Quiet
<1>15. owed' = owed
    BY DEF Steady
<1>16. AtCut(pieces, start, n, whole, 2)'
    BY <1>1, <1>8, <1>11, <1>12, <1>13, <1>14, <1>15 DEF AtCut
<1>17. Quiet'
    BY <1>1, <1>14, QuietKept
<1> QED  BY <1>1, <1>3, <1>13, <1>16, <1>17 DEF Working

LEMMA FeedDroppedWorks ==
    ASSUME Quiet, Working, on \in Channels, FeedDropped, Steady
    PROVE  Working' /\ Quiet'
<1>1. /\ step = "frame" /\ partial[on] # <<>> /\ step' = "split" /\ rest' = Behind
      /\ partial' = [partial EXCEPT ![on] = <<>>] /\ on' = on /\ last' = last
      /\ TooLong(Fed) /\ lost' = [lost EXCEPT ![on] = @ + Spent(Fed)]
      /\ out' = out /\ idle' = idle /\ packets' = packets
    BY DEF FeedDropped, Feeding, IsAssembling, GiveUp
<1>2. PICK pieces, start, n, whole :
                Due(pieces, start, n, whole) /\ AtFrame(pieces, start, n, whole)
    BY <1>1 DEF Working
<1> DEFINE D == DoneOf(pieces, start, n, whole)
<1>3. Laid(pieces, start, n) /\ Due(pieces, start, n, whole)'
    BY <1>1, <1>2, DueIs, DueKept
<1>4. /\ n \in Nat /\ start[1] \in Int /\ Len(pieces) \in Nat /\ Len(pieces) >= 1
      /\ start[2] \in Int /\ start[2] > 0
    BY <1>3, LaidIs
<1>5. ~(start[1] >= 0)
    <2> SUFFICES ASSUME start[1] >= 0 PROVE FALSE
        OBVIOUS
    <2>0. ~(start[1] < 0)
        BY <1>4
    <2>1. rest = Stretch(pieces, start, 0, n) /\ pointer = 0 /\ Fragment(partial[on])
        BY <1>1, <1>2, <2>0 DEF AtFrame
    <2>2. Ahead = <<>>
        BY <1>3, <2>1, BehindAll
    <2>3. Fed = partial[on]
        BY <2>1, <2>2 DEF Fed, Fragment
    <2> QED  BY <1>1, <2>1, <2>3 DEF Fragment
<1>6. /\ rest = Stretch(pieces, start, 0, n)
      /\ pointer = (IF Len(pieces) = 1 THEN NO_PACKET_START ELSE start[2])
      /\ out = <<>> /\ idle = Zero /\ packets = Zero
      /\ start[1] < 0 /\ whole
      /\ partial[on] = SubSeq(pieces[1], 1, -start[1])
      /\ lost = Zero /\ owed.lost = OneLost(on, Refuses(pieces, start, n, 1))
    BY <1>1, <1>2, <1>5 DEF AtFrame
<1>7. /\ TooLong(Fed) <=> Refuses(pieces, start, n, 1)
      /\ start[2] <= n => Behind = Stretch(pieces, start, start[2], n)
      /\ ~(start[2] <= n) => Len(pieces) = 1 /\ Behind = <<>>
      /\ Fed # <<>>
    BY <1>3, <1>6, FrontIs
<1>8. Refuses(pieces, start, n, 1)
    BY <1>1, <1>7
<1>9. lost' = owed.lost
    BY <1>1, <1>6, <1>7, <1>8, NothingLost
<1>10. 1 \notin D /\ ~Usable(pieces, start, n, whole, 1)
    BY <1>8 DEF DoneOf, Usable
<1>11. Tally(pieces, D, 2)
    <2>1. 1..(2 - 1) = {1}
        OBVIOUS
    <2> HIDE DEF D
    <2>2. D \cap (1..(2 - 1)) = {}
        BY <1>10, <2>1
    <2> QED  BY <1>6, <2>2, TallyNone
<1>12. partial'[on] = <<>> /\ <<>> \in Seq(Bytes)
    BY <1>1 DEF Quiet
<1>13. Quiet'
    BY <1>1, <1>12, QuietKept
<1>14. /\ packet' = packet /\ sent' = sent /\ begun' = begun /\ burst' = burst /\ owed' = owed
    BY DEF Steady, senderVars, linkVars
<1>15. CASE start[2] <= n
    <2>1. rest' = Stretch(pieces, start, start[2], n)
        BY <1>1, <1>7, <1>15
    <2>2. Tally(pieces, D, 2)'
        BY <1>1, <1>11 DEF Tally
    <2>3. 2 \in 1..(Len(pieces) + 1) /\ ~(start[2] < 0) /\ \A j \in 1..(2 - 1) : ~(start[j] >= 0)
        <3>1. \A j \in 1..(2 - 1) : j = 1
            OBVIOUS
        <3> QED  BY <1>4, <1>5, <3>1
    <2>4. AtCut(pieces, start, n, whole, 2)'
        BY <1>1, <1>9, <1>12, <1>14, <1>15, <2>1, <2>2, <2>3 DEF AtCut
    <2> QED  BY <1>1, <1>3, <1>13, <2>3, <2>4 DEF Working
<1>16. CASE ~(start[2] <= n)
    <2>1. Len(pieces) = 1 /\ rest' = <<>>
        BY <1>1, <1>7, <1>16
    <2>2. D \subseteq 1..(2 - 1) /\ ~begun[on]
        <3>1. D \subseteq 1..1 /\ 2 - 1 = 1
            BY <2>1 DEF DoneOf
        <3> QED  BY <1>2, <1>10, <2>1, <3>1 DEF Due, BegunOf
    <2>3. /\ out = Picked(pieces, D \ Fills(pieces, D))
          /\ idle[on] = Cardinality(Fills(pieces, D)) /\ packets[on] = Len(out)
        <3> HIDE DEF D
        <3> QED  BY <1>11, <2>2, TallyAll
    <2>4. idle \in [Channels -> Nat] /\ packets \in [Channels -> Nat]
        BY <1>11 DEF Tally
    <2>5. out = owed.out /\ idle[on] = owed.idle
        BY <1>2, <2>3 DEF Due
    <2>6. Holds(on)'
        BY <1>1, <1>12, <1>14, <2>2 DEF Holds
    <2> HIDE DEF D
    <2>7. Settled'
        BY <1>1, <1>9, <1>14, <2>3, <2>4, <2>5, <2>6 DEF Settled
    <2> QED  BY <1>1, <1>13, <2>1, <2>7 DEF Working
<1> QED  BY <1>15, <1>16

-----------------------------------------------------------------------------
(***************************************************************************)
(* The ground's steps keep the invariant.                                   *)
(***************************************************************************)
LEMMA DrainWorks ==
    ASSUME Plain, Quiet, Working, Drain, owed' = NothingOwed,
           UNCHANGED <<pass, senderVars, linkVars>>
    PROVE  Working' /\ Quiet'
<1>1. /\ step = "pushed" /\ step' = "ready" /\ on' = Stream /\ last' = last /\ partial' = partial
    BY DEF Drain
<1>2. /\ pass' = pass /\ packet' = packet /\ sent' = sent /\ count' = count /\ begun' = begun
      /\ burst' = burst /\ flushDue' = flushDue
    BY DEF senderVars, linkVars
<1>3. \A c \in Channels : Holds(c)
    BY <1>1 DEF Working, Settled, Quiet
<1>4. \A c \in Channels : Holds(c)'
    BY <1>1, <1>2, <1>3 DEF Holds
<1>5. \A c \in Vcids : LastIs(c)'
    BY <1>1, <1>2 DEF Quiet, LastIs
<1>6. partial' \in [Channels -> Seq(Bytes)]
    BY <1>1 DEF Quiet
<1>7. /\ pass'.framing = "stream" => (packet'[Stream] # <<>> <=> begun'[Stream])
      /\ pass'.framing = "datagrams" /\ ~flushDue' => packet'[Stream] = <<>> /\ ~begun'[Stream]
    BY <1>2 DEF Quiet
<1>8. Quiet'
    BY <1>4, <1>5, <1>6, <1>7 DEF Quiet
<1>9. Stream \in Channels
    BY DEF Channels
<1> QED  BY <1>1, <1>4, <1>8, <1>9 DEF Working

\* Together they keep what is said of the push under way, and of the rest.
LEMMA StepWorks ==
    ASSUME Plain, Quiet, Working, PacketsStep, Steady, step # "pushed"
    PROVE  Working' /\ Quiet'
<1>1. on \in Channels
    BY DEF Plain
<1>2. ASSUME UNCHANGED <<last, on, partial>> PROVE Quiet'
    <2>1. partial[on] \in Seq(Bytes) /\ partial' = [partial EXCEPT ![on] = partial[on]]
        BY <1>1, <1>2 DEF Quiet
    <2> QED  BY <1>1, <1>2, <2>1, QuietKept
<1>3. CASE NoPacketInFront
    <2>1. UNCHANGED <<last, on, partial>>
        BY <1>3 DEF NoPacketInFront
    <2> QED  BY <1>1, <1>2, <1>3, <2>1, NoPacketInFrontWorks
<1>4. CASE FeedGrows
    BY <1>1, <1>4, FeedGrowsWorks
<1>5. CASE FeedAbandoned
    BY <1>1, <1>5, FeedAbandonedWorks
<1>6. CASE FeedCompletes
    BY <1>1, <1>6, FeedCompletesWorks
<1>7. CASE FeedDropped
    BY <1>1, <1>7, FeedDroppedWorks
<1>8. CASE SplitDelivers
    <2>1. UNCHANGED <<last, on, partial>>
        BY <1>8 DEF SplitDelivers, Splitting
    <2> QED  BY <1>1, <1>2, <1>8, <2>1, SplitDeliversWorks
<1>9. CASE SplitKeepsTail
    BY <1>1, <1>9, SplitKeepsTailWorks
<1>10. CASE SplitDesynchronised
    <2>1. UNCHANGED <<last, on, partial>>
        BY <1>10 DEF SplitDesynchronised, Splitting
    <2> QED  BY <1>1, <1>2, <1>10, <2>1, SplitDesynchronisedWorks
<1>11. CASE SplitDone
    <2>1. UNCHANGED <<last, on, partial>>
        BY <1>11 DEF SplitDone
    <2> QED  BY <1>1, <1>2, <1>11, <2>1, SplitDoneWorks
<1>12. ~Drain
    BY DEF Drain
<1> QED  BY <1>3, <1>4, <1>5, <1>6, <1>7, <1>8, <1>9, <1>10, <1>11, <1>12 DEF PacketsStep

LEMMA StepPlain ==
    ASSUME Plain, PacketsStep, UNCHANGED <<pass, senderVars, linkVars>>
    PROVE  Plain'
<1>1. /\ pass' = pass /\ packet' = packet /\ sent' = sent /\ made' = made /\ count' = count
      /\ begun' = begun /\ burst' = burst /\ garbled' = garbled
    BY DEF senderVars, linkVars
<1>2. CASE Drain
    <2>1. /\ on' = Stream /\ Stream \in Channels /\ step' = "ready"
          /\ lost' = Zero /\ idle' = Zero /\ packets' = Zero /\ out' = <<>> /\ last' = last
        BY <1>2 DEF Drain, Channels
    <2>2. \A c \in Channels : SenderOK(c)'
        BY <1>1 DEF Plain, SenderOK
    <2> QED  BY <1>1, <2>1, <2>2 DEF Plain
<1>3. CASE ~Drain
    <2>1. step' \in {"split", "pushed"} /\ on' = on /\ last' = last
        BY <1>3 DEF PacketsStep, NoPacketInFront, FeedGrows, FeedAbandoned, FeedCompletes, FeedDropped,
                    Feeding, SplitDelivers, SplitKeepsTail, SplitDesynchronised, Splitting, SplitDone
    <2>2. \A c \in Channels : SenderOK(c)'
        BY <1>1 DEF Plain, SenderOK
    <2> QED  BY <1>1, <2>1, <2>2 DEF Plain
<1> QED  BY <1>2, <1>3

\* A step of the ground keeps the invariant.
LEMMA WorkAsSent == AsSentInv /\ Work => AsSentInv'
<1> SUFFICES ASSUME AsSentInv, Work PROVE AsSentInv'
    OBVIOUS
<1>1. /\ Plain /\ (~garbled => Quiet /\ Working)
      /\ PacketsStep /\ owed' = (IF step = "pushed" THEN NothingOwed ELSE owed)
      /\ UNCHANGED <<pass, senderVars, linkVars>>
    BY DEF AsSentInv, Work
<1>2. Plain'
    BY <1>1, StepPlain
<1>3. garbled' = garbled
    BY <1>1 DEF linkVars
<1>4. ASSUME ~garbled, step = "pushed" PROVE Working' /\ Quiet'
    <2>1. Drain
        BY <1>1, <1>4 DEF PacketsStep, NoPacketInFront, FeedGrows, FeedAbandoned, FeedCompletes, FeedDropped,
                    Feeding, SplitDelivers, SplitKeepsTail, SplitDesynchronised, Splitting, SplitDone
    <2> QED  BY <1>1, <1>4, <2>1, DrainWorks
<1>5. ASSUME ~garbled, step # "pushed" PROVE Working' /\ Quiet'
    <2>1. Steady
        BY <1>1, <1>5 DEF Steady
    <2> QED  BY <1>1, <1>5, <2>1, StepWorks
<1> QED  BY <1>2, <1>3, <1>4, <1>5 DEF AsSentInv

LEMMA InitAsSent == DownlinkInit => AsSentInv
<1> SUFFICES ASSUME DownlinkInit PROVE AsSentInv
    OBVIOUS
<1>1. /\ last = [c \in Channels |-> NoFrame] /\ partial = [c \in Channels |-> <<>>]
      /\ step = "ready" /\ on = Stream
      /\ packets = Zero /\ lost = Zero /\ idle = Zero /\ out = <<>>
      /\ pass \in Passes
      /\ packet = [c \in Channels |-> <<>>] /\ sent = Zero
      /\ made = Zero /\ count = Zero /\ burst = Zero /\ begun = [c \in Channels |-> FALSE]
      /\ garbled = FALSE
    BY DEF DownlinkInit, PacketsInit
<1>2. Stream \in Channels
    BY DEF Channels
<1>3. \A c \in Channels : SenderOK(c) /\ Holds(c)
    BY <1>1 DEF SenderOK, Holds, Zero
<1>4. count \in [Channels -> 0..(Modulus - 1)] /\ burst \in [Channels -> 0..MaxBurst] /\ burst[Stream] = 0
    <2>1. 0 \in 0..(Modulus - 1) /\ 0 \in 0..MaxBurst
        BY PacketsAssumption, DownlinkAssumption
    <2> QED  BY <1>1, <1>2, <2>1 DEF Zero
<1>5. Plain
    BY <1>1, <1>2, <1>3, <1>4 DEF Plain, Zero
<1>6. \A c \in Vcids : LastIs(c)
    BY <1>1 DEF LastIs, Channels
<1>7. <<>> \in Seq(Bytes)
    OBVIOUS
<1>8. Quiet
    BY <1>1, <1>2, <1>3, <1>6, <1>7 DEF Quiet
<1>9. Working
    BY <1>1, <1>2, <1>3 DEF Working
<1> QED  BY <1>5, <1>8, <1>9 DEF AsSentInv

LEMMA StutterAsSent == AsSentInv /\ UNCHANGED downlinkVars => AsSentInv'
<1> SUFFICES ASSUME AsSentInv, UNCHANGED downlinkVars PROVE AsSentInv'
    OBVIOUS
<1>1. /\ pass' = pass /\ packet' = packet /\ sent' = sent /\ made' = made /\ count' = count
      /\ begun' = begun /\ burst' = burst /\ garbled' = garbled /\ flushDue' = flushDue /\ owed' = owed
      /\ last' = last /\ partial' = partial /\ step' = step /\ on' = on /\ pointer' = pointer
      /\ rest' = rest /\ packets' = packets /\ lost' = lost /\ idle' = idle /\ out' = out
    BY DEF downlinkVars, packetVars, senderVars, linkVars, workVars, countVars, histVars
<1>2. Plain'
    <2>1. \A c \in Channels : SenderOK(c)'
        BY <1>1 DEF AsSentInv, Plain, SenderOK
    <2> QED  BY <1>1, <2>1 DEF AsSentInv, Plain
<1>3. ASSUME ~garbled PROVE Quiet' /\ Working'
    <2>1. Quiet /\ Working
        BY <1>3 DEF AsSentInv
    <2>2. Quiet'
        <3>1. \A c \in Vcids : LastIs(c)'
            BY <1>1, <2>1 DEF Quiet, LastIs
        <3>2. \A c \in Channels \ {on} : Holds(c)'
            BY <1>1, <2>1 DEF Quiet, Holds
        <3> QED  BY <1>1, <2>1, <3>1, <3>2 DEF Quiet
    <2>3. Holds(on) => Holds(on)'
        BY <1>1 DEF Holds
    <2>4. Settled => Settled'
        BY <1>1, <2>3 DEF Settled
    <2>5. \A pieces, start, n, whole : Due(pieces, start, n, whole) => Due(pieces, start, n, whole)'
        BY <1>1 DEF Due
    <2>6. ASSUME NEW pieces, NEW start, NEW n, NEW whole, AtFrame(pieces, start, n, whole)
          PROVE  AtFrame(pieces, start, n, whole)'
        <3>1. /\ rest' = rest /\ pointer' = pointer /\ out' = out /\ idle' = idle
              /\ packets' = packets /\ partial'[on'] = partial[on] /\ on' = on
              /\ lost' = lost /\ owed'.lost = owed.lost
            BY <1>1
        <3>2. AtFrame(pieces, start, n, whole)
            BY <2>6
        <3> QED  BY <3>1, <3>2, Zenon DEF AtFrame
    <2>7. \A pieces, start, n, whole, k : AtCut(pieces, start, n, whole, k) => AtCut(pieces, start, n, whole, k)'
        BY <1>1 DEF AtCut, Tally
    <2> QED  BY <1>1, <2>1, <2>2, <2>3, <2>4, <2>5, <2>6, <2>7 DEF Working
<1> QED  BY <1>1, <1>2, <1>3 DEF AsSentInv

-----------------------------------------------------------------------------
(***************************************************************************)
(* What the spacecraft sends, and the link, keep the invariant.             *)
(***************************************************************************)
LEMMA SendKeeps ==
    ASSUME Plain, NEW c \in Channels, NEW n \in Nat, NEW kinds \in Fillings(c, n), Send(c, kinds, n)
    PROVE  LET pieces == Pieces(c, kinds)
               start == Starts(c, pieces)
               m == Len(pieces)
           IN  /\ packet'[c] = (IF start[m + 1] = n THEN <<>> ELSE pieces[m])
               /\ sent'[c] = (IF start[m + 1] = n THEN 0 ELSE n - start[m])
               /\ packet'[c] # <<>> <=> ~(start[m + 1] <= n)
               /\ \A d \in Channels \ {c} : packet'[d] = packet[d] /\ sent'[d] = sent[d]
               /\ \A d \in Channels : SenderOK(d)'
               /\ DOMAIN packet' = Channels /\ DOMAIN sent' = Channels /\ DOMAIN made' = Channels
<1> DEFINE pieces == Pieces(c, kinds)
           start == Starts(c, pieces)
           m == Len(pieces)
           isAll == start[m + 1] = n
<1>1. /\ \A d \in Channels : SenderOK(d)
      /\ DOMAIN packet = Channels /\ DOMAIN sent = Channels /\ DOMAIN made = Channels
      /\ pass \in Passes
    BY DEF Plain
<1>2. /\ packet' = [packet EXCEPT ![c] = IF isAll THEN <<>> ELSE pieces[m]]
      /\ sent' = [sent EXCEPT ![c] = IF isAll THEN 0 ELSE n - start[m]]
      /\ made' = [made EXCEPT ![c] = (@ + Len(kinds)) % PacketIds]
    BY DEF Send
<1>3. Laid(pieces, start, n)
    BY <1>1, Filled
<1>4. Len(kinds) \in Nat
    <2>1. n \div (HeaderBytes + 1) + 1 \in Nat
        BY HeaderIs
    <2>2. kinds \in SeqOf(pass.kinds[c], n \div (HeaderBytes + 1) + 1)
        BY DEF Fillings
    <2> QED  BY <1>1, <2>1, <2>2, PiecesAre
<1> HIDE DEF pieces, start, m
<1>5. /\ pieces \in Seq(SpacePackets) /\ m \in Nat /\ m \in 1..m
      /\ start[m] < n /\ n <= start[m + 1] /\ start[m] \in Int /\ start[m + 1] \in Int
      /\ start[m + 1] = start[m] + Len(pieces[m])
    BY <1>3, LaidIs DEF m
<1>6. pieces[m] \in SpacePackets /\ pieces[m] # <<>> /\ Len(pieces[m]) \in Nat
    BY <1>5, ElementOfSeq, SpacePacketIs DEF m
<1>7. /\ packet'[c] = (IF isAll THEN <<>> ELSE pieces[m])
      /\ sent'[c] = (IF isAll THEN 0 ELSE n - start[m])
    BY <1>1, <1>2
<1>8. packet'[c] # <<>> <=> ~(start[m + 1] <= n)
    <2>1. start[m + 1] <= n <=> isAll
        BY <1>5
    <2> QED  BY <1>6, <1>7, <2>1
<1>9. made'[c] \in Nat /\ \A d \in Channels \ {c} : made'[d] = made[d]
    <2>1. made[c] \in Nat /\ PacketIds \in Nat \ {0}
        BY <1>1, DownlinkAssumption DEF SenderOK
    <2>2. (made[c] + Len(kinds)) % PacketIds \in Nat
        BY <1>4, <2>1
    <2> QED  BY <1>1, <1>2, <2>2
<1>10. \A d \in Channels \ {c} : packet'[d] = packet[d] /\ sent'[d] = sent[d]
    BY <1>1, <1>2
<1>11. SenderOK(c)'
    <2>1. CASE isAll
        BY <1>7, <1>9, <2>1 DEF SenderOK
    <2>2. CASE ~isAll
        <3>1. n - start[m] \in Nat /\ n - start[m] > 0 /\ n - start[m] < Len(pieces[m])
            BY <1>5, <1>6, <2>2
        <3>2. packet'[c] = pieces[m] /\ sent'[c] = n - start[m]
            BY <1>7, <2>2
        <3> QED  BY <1>6, <1>9, <3>1, <3>2 DEF SenderOK
    <2> QED  BY <2>1, <2>2
<1>12. \A d \in Channels : SenderOK(d)'
    <2> TAKE d \in Channels
    <2>1. CASE d = c
        BY <1>11, <2>1
    <2>2. CASE d # c
        <3>1. SenderOK(d)
            BY <1>1
        <3> QED  BY <1>9, <1>10, <2>2, <3>1 DEF SenderOK
    <2> QED  BY <2>1, <2>2
<1>13. DOMAIN packet' = Channels /\ DOMAIN sent' = Channels /\ DOMAIN made' = Channels
    BY <1>1, <1>2
<1> QED  BY <1>7, <1>8, <1>10, <1>12, <1>13 DEF pieces, start, m

\* A frame count goes up by one and wraps.
LEMMA NextIs ==
    ASSUME NEW x \in 0..(Modulus - 1)
    PROVE  /\ (x + 1) % Modulus \in 0..(Modulus - 1)
           /\ (x + 1) % Modulus = (IF x + 1 = Modulus THEN 0 ELSE x + 1)
<1>1. Modulus \in Nat /\ Modulus > 0
    BY PacketsAssumption
<1>2. CASE x + 1 = Modulus
    <2>1. Modulus % Modulus = 0
        BY <1>1
    <2> QED  BY <1>1, <1>2, <2>1
<1>3. CASE x + 1 # Modulus
    <2>1. x + 1 \in 0..(Modulus - 1)
        BY <1>1, <1>3
    <2>2. (x + 1) % Modulus = x + 1
        BY <1>1, <2>1
    <2> QED  BY <1>1, <1>3, <2>1, <2>2
<1> QED  BY <1>2, <1>3

\* A frame count tells whether frames were lost, as few as can be lost in a row.
LEMMA JumpIs ==
    ASSUME Plain, NEW c \in Vcids, LastIs(c)
    PROVE  /\ Jumped(c, count[c]) <=> last[c] # NoFrame /\ burst[c] # 0
           /\ count[c] \in 0..(Modulus - 1)
           /\ burst[c] \in Nat /\ burst[c] < Modulus
<1>1. c \in Channels
    BY DEF Channels
<1>2. count[c] \in 0..(Modulus - 1) /\ burst[c] \in 0..MaxBurst
    BY <1>1 DEF Plain
<1>3. /\ Modulus \in Nat /\ MaxBurst \in Nat /\ MaxBurst < Modulus
    BY PacketsAssumption, DownlinkAssumption
<1>4. burst[c] \in Nat /\ burst[c] < Modulus
    BY <1>2, <1>3
<1>5. ASSUME last[c] # NoFrame
      PROVE  count[c] # ExpectedCount(last[c]) <=> burst[c] # 0
    <2>1. /\ last[c] \in 0..(Modulus - 1)
          /\ \/ count[c] = last[c] + 1 + burst[c]
             \/ count[c] = last[c] + 1 + burst[c] - Modulus
        BY <1>5 DEF LastIs
    <2>2. /\ ExpectedCount(last[c]) \in 0..(Modulus - 1)
          /\ ExpectedCount(last[c]) = (IF last[c] + 1 = Modulus THEN 0 ELSE last[c] + 1)
        BY <2>1, NextIs DEF ExpectedCount
    <2> DEFINE x == last[c]
               y == count[c]
               b == burst[c]
               e == ExpectedCount(last[c])
    <2>3. /\ x \in 0..(Modulus - 1) /\ y \in 0..(Modulus - 1) /\ b \in Nat /\ b < Modulus
          /\ e \in 0..(Modulus - 1) /\ e = (IF x + 1 = Modulus THEN 0 ELSE x + 1)
          /\ (y = x + 1 + b \/ y = x + 1 + b - Modulus)
        BY <1>2, <1>4, <2>1, <2>2
    <2> HIDE DEF x, y, b, e
    <2>4. y # e <=> b # 0
        BY <1>3, <2>3
    <2> QED  BY <2>4 DEF x, y, b, e
<1>6. Jumped(c, count[c]) <=> last[c] # NoFrame /\ burst[c] # 0
    BY <1>5 DEF Jumped
<1> QED  BY <1>2, <1>4, <1>6

\* The count after a frame that came, or that did not.
LEMMA CountMoves ==
    ASSUME Plain, NEW c \in Vcids, NextCount(c)
    PROVE  /\ count' \in [Channels -> 0..(Modulus - 1)]
           /\ count'[c] = (IF count[c] + 1 = Modulus THEN 0 ELSE count[c] + 1)
           /\ \A d \in Channels \ {c} : count'[d] = count[d]
<1>1. c \in Channels /\ count \in [Channels -> 0..(Modulus - 1)]
    BY DEF Plain, Channels
<1>2. count' = [count EXCEPT ![c] = (count[c] + 1) % Modulus]
    BY DEF NextCount
<1>3. /\ (count[c] + 1) % Modulus \in 0..(Modulus - 1)
      /\ (count[c] + 1) % Modulus = (IF count[c] + 1 = Modulus THEN 0 ELSE count[c] + 1)
    BY <1>1, NextIs
<1> QED  BY <1>1, <1>2, <1>3

\* Everything holds between pushes.
LEMMA Between ==
    ASSUME Plain, Quiet, Working, step = "ready"
    PROVE  /\ \A c \in Channels : Holds(c)
           /\ on = Stream /\ lost = Zero /\ idle = Zero /\ packets = Zero /\ out = <<>>
           /\ partial \in [Channels -> Seq(Bytes)]
           /\ \A c \in Vcids : LastIs(c)
<1>1. on = Stream /\ lost = Zero /\ idle = Zero /\ packets = Zero /\ out = <<>>
    BY DEF Plain
<1>2. Holds(on) /\ \A c \in Channels \ {on} : Holds(c)
    BY DEF Working, Quiet
<1> QED  BY <1>1, <1>2 DEF Quiet

\* What a frame's count does to what its channel holds.
LEMMA ContinuityIs ==
    ASSUME Plain, Quiet, Working, step = "ready", NEW c \in Vcids, CheckContinuity(c, count[c])
    PROVE  /\ last' = [last EXCEPT ![c] = count[c]]
           /\ partial' \in [Channels -> Seq(Bytes)]
           /\ \A d \in Channels \ {c} : partial'[d] = partial[d]
           /\ burst[c] # 0 => /\ partial'[c] = <<>>
                              /\ lost' = OneLost(c, begun[c])
           /\ burst[c] = 0 => partial' = partial /\ lost' = Zero
<1>1. /\ Holds(c) /\ LastIs(c) /\ lost = Zero /\ partial \in [Channels -> Seq(Bytes)]
      /\ c \in Channels
    BY Between DEF Channels
<1>2. last' = [last EXCEPT ![c] = count[c]]
    BY DEF CheckContinuity
<1>3. Jumped(c, count[c]) <=> last[c] # NoFrame /\ burst[c] # 0
    BY <1>1, JumpIs
<1>4. CASE Jumped(c, count[c])
    <2>1. partial' = [partial EXCEPT ![c] = <<>>] /\ lost' = [lost EXCEPT ![c] = @ + Spent(partial[c])]
        BY <1>4 DEF CheckContinuity, GiveUp
    <2>2. begun[c] <=> partial[c] # <<>>
        BY <1>1 DEF Holds, Fragment
    <2>3. lost' = OneLost(c, begun[c])
        <3>1. CASE begun[c]
            BY <1>1, <2>1, <2>2, <3>1, NothingLost
        <3>2. CASE ~begun[c]
            <4>1. Spent(partial[c]) = 0
                BY <2>2, <3>2 DEF Spent
            <4>2. [Zero EXCEPT ![c] = @ + 0] = Zero
                BY <1>1 DEF Zero
            <4> QED  BY <1>1, <2>1, <3>2, <4>1, <4>2, NothingLost
        <3> QED  BY <3>1, <3>2
    <2>4. partial' \in [Channels -> Seq(Bytes)] /\ partial'[c] = <<>>
          /\ \A d \in Channels \ {c} : partial'[d] = partial[d]
        BY <1>1, <2>1
    <2> QED  BY <1>2, <1>3, <1>4, <2>3, <2>4
<1>5. CASE ~Jumped(c, count[c])
    <2>1. partial' = partial /\ lost' = Zero
        BY <1>1, <1>5 DEF CheckContinuity
    <2>2. ASSUME burst[c] # 0 PROVE ~begun[c]
        BY <1>1, <1>3, <1>5, <2>2 DEF LastIs
    <2>3. burst[c] # 0 => partial[c] = <<>> /\ OneLost(c, begun[c]) = Zero
        BY <1>1, <2>2, NothingLost DEF Holds
    <2> QED  BY <1>1, <1>2, <2>1, <2>3
<1> QED  BY <1>4, <1>5

\* After a frame that came, its channel's last count is one behind the next.
LEMMA CountsKept ==
    ASSUME Plain, Quiet, NEW c \in Vcids, NextCount(c), last' = [last EXCEPT ![c] = count[c]],
           burst' = [burst EXCEPT ![c] = 0], \A d \in Channels \ {c} : begun'[d] = begun[d]
    PROVE  \A d \in Vcids : LastIs(d)'
<1>1. /\ c \in Channels /\ Vcids \subseteq Channels /\ DOMAIN last = Channels
      /\ burst \in [Channels -> 0..MaxBurst] /\ count[c] \in 0..(Modulus - 1)
    BY DEF Plain, Channels
<1>2. /\ last'[c] = count[c] /\ burst'[c] = 0
      /\ \A d \in Channels \ {c} : last'[d] = last[d] /\ burst'[d] = burst[d]
    BY <1>1
<1>3. /\ count'[c] = (IF count[c] + 1 = Modulus THEN 0 ELSE count[c] + 1)
      /\ \A d \in Channels \ {c} : count'[d] = count[d]
    BY CountMoves
<1>4. LastIs(c)'
    <2>1. Modulus \in Nat
        BY PacketsAssumption
    <2>2. last'[c] # NoFrame
        BY <1>1, <1>2 DEF NoFrame
    <2>3. \/ count'[c] = last'[c] + 1 + burst'[c]
          \/ count'[c] = last'[c] + 1 + burst'[c] - Modulus
        BY <1>1, <1>2, <1>3, <2>1
    <2> QED  BY <1>1, <1>2, <2>2, <2>3 DEF LastIs
<1>5. \A d \in Vcids \ {c} : LastIs(d)'
    <2> TAKE d \in Vcids \ {c}
    <2>1. LastIs(d) /\ d \in Channels \ {c}
        BY <1>1 DEF Quiet
    <2> QED  BY <1>2, <1>3, <2>1 DEF LastIs
<1> QED  BY <1>4, <1>5

LEMMA ReadAtStart ==
    ASSUME NEW pieces, NEW start, NEW n \in Nat
    PROVE  [p \in 1..n |-> ByteAt(pieces, start, p)] = Stretch(pieces, start, 0, n)
<1>1. n - 0 = n /\ \A p \in 1..n : p + 0 = p
    OBVIOUS
<1> QED  BY <1>1 DEF Stretch

\* What a push of n bytes is made of, and what it owes.
Pushed(c, kinds, n, whole, pieces, start) ==
    /\ Due(pieces, start, n, whole)' /\ Laid(pieces, start, n)
    /\ Sent(c, kinds, n) = Stretch(pieces, start, 0, n)
    /\ packet[c] = <<>> => start[1] = 0
    /\ packet[c] # <<>> => /\ start[1] < 0 /\ -start[1] = sent[c]
                           /\ pieces[1] = packet[c] /\ start[2] = Len(packet[c]) - sent[c]
    /\ kinds = <<>> <=> packet[c] # <<>> /\ Len(pieces) = 1
    /\ Promised(c, kinds, n, whole).dropped
          <=> whole /\ start[1] < 0 /\ Refuses(pieces, start, n, 1)
    /\ Promised(c, kinds, n, whole).refused
          <=> (\E i \in 1..Len(pieces) : Refuses(pieces, start, n, i))
    /\ begun'[c] = BegunOf(pieces, start, n, whole)
    /\ packet'[c] # <<>> <=> ~(start[Len(pieces) + 1] <= n)

LEMMA PushIs ==
    ASSUME Plain, NEW c \in Channels, NEW n \in Nat, NEW kinds \in Fillings(c, n), NEW whole \in BOOLEAN,
           Send(c, kinds, n), on' = c, burst'[c] = 0,
           begun'[c] = Promised(c, kinds, n, whole).begun,
           owed'.out = Promised(c, kinds, n, whole).out,
           owed'.idle = Promised(c, kinds, n, whole).idle
    PROVE  \E pieces, start : Pushed(c, kinds, n, whole, pieces, start)
<1> DEFINE due == Promised(c, kinds, n, whole)
<1> PICK pieces : pieces = Pieces(c, kinds)
    OBVIOUS
<1> PICK start : start = Starts(c, pieces)
    OBVIOUS
<1> DEFINE m == Len(pieces)
           D == DoneOf(pieces, start, n, whole)
<1>1. pass \in Passes /\ SenderOK(c)
    BY DEF Plain
<1>2. /\ Laid(pieces, start, n) /\ start[1] = -sent[c]
      /\ packet[c] # <<>> => pieces[1] = packet[c] /\ start[2] = Len(packet[c]) - sent[c]
      /\ kinds = <<>> <=> packet[c] # <<>> /\ m = 1
      /\ Sent(c, kinds, n) = [p \in 1..n |-> ByteAt(pieces, start, p)]
    BY <1>1, Filled
<1>3. /\ due.out = Picked(pieces, D \ Fills(pieces, D))
      /\ due.idle = Cardinality(Fills(pieces, D))
      /\ due.dropped = (whole /\ start[1] < 0 /\ Refuses(pieces, start, n, 1))
      /\ due.refused = (\E i \in 1..m : Refuses(pieces, start, n, i))
      /\ due.begun = BegunOf(pieces, start, n, whole)
    <2>1. due.out = Picked(pieces, D \ Fills(pieces, D))
        BY DEF Promised, DoneOf, Fills, Usable, Refuses, Picked, NthIn, UpTo
    <2>2. due.idle = Cardinality(Fills(pieces, D))
        BY DEF Promised, DoneOf, Fills, Usable, Refuses
    <2>3. due.dropped = (whole /\ start[1] < 0 /\ Refuses(pieces, start, n, 1))
        BY DEF Promised, Refuses
    <2>4. due.refused = (\E i \in 1..m : Refuses(pieces, start, n, i))
        BY DEF Promised, Refuses
    <2>5. due.begun = BegunOf(pieces, start, n, whole)
        BY DEF Promised, BegunOf, Usable, Refuses
    <2> QED  BY <2>1, <2>2, <2>3, <2>4, <2>5
<1>4. /\ packet'[c] = (IF start[m + 1] = n THEN <<>> ELSE pieces[m])
      /\ sent'[c] = (IF start[m + 1] = n THEN 0 ELSE n - start[m])
      /\ packet'[c] # <<>> <=> ~(start[m + 1] <= n)
    BY SendKeeps
<1> HIDE DEF due, D
<1>5. Sent(c, kinds, n) = Stretch(pieces, start, 0, n)
    BY <1>2, ReadAtStart
<1>6. packet[c] = <<>> => start[1] = 0
    BY <1>1, <1>2 DEF SenderOK
<1>7. packet[c] # <<>> => start[1] < 0 /\ -start[1] = sent[c]
    <2>1. packet[c] # <<>> => sent[c] \in Nat /\ sent[c] > 0
        BY <1>1 DEF SenderOK
    <2> QED  BY <1>2, <2>1
<1>8. Due(pieces, start, n, whole)'
    <2>1. /\ owed'.out = Picked(pieces, D \ Fills(pieces, D))
          /\ owed'.idle = Cardinality(Fills(pieces, D))
          /\ begun'[on'] = BegunOf(pieces, start, n, whole)
        BY <1>3 DEF due
    <2>2. /\ packet'[on'] = (IF start[m + 1] = n THEN <<>> ELSE pieces[m])
          /\ sent'[on'] = (IF start[m + 1] = n THEN 0 ELSE n - start[m])
          /\ burst'[on'] = 0
        BY <1>4
    <2> QED  BY <1>2, <2>1, <2>2 DEF Due, D
<1>9. begun'[c] = BegunOf(pieces, start, n, whole)
    BY <1>3 DEF due
<1>10. /\ Promised(c, kinds, n, whole).dropped
             <=> whole /\ start[1] < 0 /\ Refuses(pieces, start, n, 1)
       /\ Promised(c, kinds, n, whole).refused
             <=> (\E i \in 1..m : Refuses(pieces, start, n, i))
    BY <1>3 DEF due
<1>11. Pushed(c, kinds, n, whole, pieces, start)
    BY <1>2, <1>4, <1>5, <1>6, <1>7, <1>8, <1>9, <1>10 DEF Pushed
<1> QED  BY <1>11

\* A frame with packets: the gap its count shows, then the push.
LEMMA FrameArrivesInv ==
    ASSUME AsSentInv, NEW c \in Vcids, NEW kinds \in Fillings(c, DataField), FrameArrives(c, kinds)
    PROVE  AsSentInv'
<1> DEFINE n == DataField
<1>1. /\ Plain /\ (~garbled => Quiet /\ Working) /\ c \in Channels /\ c # Stream
      /\ n \in Nat /\ begun[c] \in BOOLEAN
    BY PacketsAssumption, DownlinkAssumption DEF AsSentInv, Plain, Channels
<1> PICK whole \in BOOLEAN : whole = (begun[c] /\ burst[c] = 0)
    OBVIOUS
<1> DEFINE due == Promised(c, kinds, n, whole)
<1>2. /\ pass.framing = "frames"
      /\ step = "ready" /\ CheckContinuity(c, count[c])
      /\ step' = "frame" /\ on' = c
      /\ pointer' = (IF kinds = <<>> THEN NO_PACKET_START ELSE Len(packet[c]) - sent[c])
      /\ rest' = Sent(c, kinds, n)
      /\ packets' = packets /\ idle' = idle /\ out' = out
      /\ Send(c, kinds, n) /\ NextCount(c)
      /\ owed'.out = due.out /\ owed'.idle = due.idle
      /\ owed'.lost = OneLost(c, (due.dropped \/ (begun[c] /\ (~whole \/ packet[c] = <<>>))))
      /\ begun' = [begun EXCEPT ![c] = due.begun]
      /\ burst' = [burst EXCEPT ![c] = 0]
      /\ pass' = pass /\ flushDue' = flushDue /\ garbled' = garbled
    BY DEF FrameArrives, TakeFrame
<1>3. /\ \A d \in Channels \ {c} : packet'[d] = packet[d] /\ sent'[d] = sent[d]
      /\ \A d \in Channels : SenderOK(d)'
      /\ DOMAIN packet' = Channels /\ DOMAIN sent' = Channels /\ DOMAIN made' = Channels
    BY <1>1, <1>2, SendKeeps
<1> HIDE DEF due
<1>4. /\ begun \in [Channels -> BOOLEAN] /\ burst \in [Channels -> 0..MaxBurst] /\ burst[Stream] = 0
      /\ garbled \in BOOLEAN /\ pass \in Passes /\ DOMAIN last = Channels /\ SenderOK(c)
    BY <1>1 DEF Plain
<1>5. /\ burst' \in [Channels -> 0..MaxBurst]
      /\ burst'[Stream] = 0 /\ burst'[c] = 0 /\ begun'[c] = due.begun
      /\ \A d \in Channels \ {c} : begun'[d] = begun[d] /\ burst'[d] = burst[d]
    <2>1. 0 \in 0..MaxBurst
        BY DownlinkAssumption
    <2>2. Stream \in Channels
        BY DEF Channels
    <2> QED  BY <1>1, <1>2, <1>4, <2>1, <2>2
<1>p. \E pieces, start : Pushed(c, kinds, n, whole, pieces, start)
    <2>1. /\ begun'[c] = Promised(c, kinds, n, whole).begun
          /\ owed'.out = Promised(c, kinds, n, whole).out
          /\ owed'.idle = Promised(c, kinds, n, whole).idle
        BY <1>2, <1>5 DEF due
    <2>2. Send(c, kinds, n) /\ on' = c /\ burst'[c] = 0
        BY <1>2, <1>5
    <2> QED  BY <1>1, <2>1, <2>2, PushIs
<1> PICK pieces, start :
          /\ Due(pieces, start, n, whole)' /\ Laid(pieces, start, n)
          /\ Sent(c, kinds, n) = Stretch(pieces, start, 0, n)
          /\ packet[c] = <<>> => start[1] = 0
          /\ packet[c] # <<>> => /\ start[1] < 0 /\ -start[1] = sent[c]
                                 /\ pieces[1] = packet[c] /\ start[2] = Len(packet[c]) - sent[c]
          /\ kinds = <<>> <=> packet[c] # <<>> /\ Len(pieces) = 1
          /\ due.dropped <=> whole /\ start[1] < 0 /\ Refuses(pieces, start, n, 1)
          /\ begun'[c] = BegunOf(pieces, start, n, whole)
    BY <1>p DEF Pushed, due
<1>6. begun' \in [Channels -> BOOLEAN]
    <2>1. begun'[c] \in BOOLEAN
        BY DEF BegunOf
    <2> QED  BY <1>1, <1>2, <1>4, <2>1
<1>7. count' \in [Channels -> 0..(Modulus - 1)]
    BY <1>1, <1>2, CountMoves
<1>8. DOMAIN last' = Channels
    BY <1>2, <1>4 DEF CheckContinuity
<1>9. Plain'
    BY <1>1, <1>2, <1>3, <1>4, <1>5, <1>6, <1>7, <1>8 DEF Plain
<1> SUFFICES ASSUME ~garbled PROVE Quiet' /\ Working'
    BY <1>2, <1>9 DEF AsSentInv
<1>10. /\ last' = [last EXCEPT ![c] = count[c]]
       /\ partial' \in [Channels -> Seq(Bytes)]
       /\ \A d \in Channels \ {c} : partial'[d] = partial[d]
       /\ burst[c] # 0 => partial'[c] = <<>> /\ lost' = OneLost(c, begun[c])
       /\ burst[c] = 0 => partial' = partial /\ lost' = Zero
    BY <1>1, <1>2, ContinuityIs
<1>11. /\ \A d \in Channels : Holds(d)
       /\ idle = Zero /\ packets = Zero /\ out = <<>>
    BY <1>1, <1>2, Between
<1>12. Quiet'
    <2>1. \A d \in Vcids : LastIs(d)'
        BY <1>1, <1>2, <1>5, <1>10, CountsKept
    <2>2. \A d \in Channels \ {c} : Holds(d)'
        <3> TAKE d \in Channels \ {c}
        <3>1. Holds(d) /\ partial'[d] = partial[d] /\ packet'[d] = packet[d] /\ sent'[d] = sent[d]
              /\ begun'[d] = begun[d] /\ burst'[d] = burst[d]
            BY <1>3, <1>5, <1>10, <1>11
        <3> QED  BY <3>1 DEF Holds
    <2>3. pass'.framing = "frames"
        BY <1>2
    <2> QED  BY <1>2, <1>10, <2>1, <2>2, <2>3 DEF Quiet
<1>13. pointer' = (IF start[1] >= 0 THEN 0
                   ELSE IF Len(pieces) = 1 THEN NO_PACKET_START ELSE start[2])
    <2>1. CASE packet[c] = <<>>
        <3>1. sent[c] = 0 /\ Len(packet[c]) = 0
            BY <1>4, <2>1, SpacePacketIs DEF SenderOK
        <3> QED  BY <1>2, <2>1, <3>1
    <2>2. CASE packet[c] # <<>>
        <3>1. ~(start[1] >= 0)
            <4>1. start[1] \in Int
                BY LaidIs
            <4> QED  BY <2>2, <4>1
        <3> QED  BY <1>2, <2>2, <3>1
    <2> QED  BY <2>1, <2>2
<1>14. rest' = Stretch(pieces, start, 0, n) /\ out' = <<>> /\ idle' = Zero /\ packets' = Zero
    BY <1>2, <1>11
<1>15. AtFrame(pieces, start, n, whole)'
    <2>1. CASE burst[c] # 0 \/ ~begun[c]
        <3>1. ~whole
            BY <2>1
        <3>2. owed'.lost = OneLost(c, begun[c])
            <4>1. (due.dropped \/ (begun[c] /\ (~whole \/ packet[c] = <<>>))) <=> begun[c]
                BY <3>1
            <4> QED  BY <1>2, <4>1 DEF OneLost
        <3>3. partial'[c] = <<>> /\ lost' = owed'.lost
            <4>1. CASE burst[c] # 0
                BY <1>10, <3>2, <4>1
            <4>2. CASE burst[c] = 0
                <5>1. ~begun[c] /\ Holds(c)
                    BY <1>1, <1>11, <2>1, <4>2
                <5> QED  BY <1>1, <1>10, <3>2, <4>2, <5>1, NothingLost DEF Holds
            <4> QED  BY <4>1, <4>2
        <3> QED  BY <1>2, <1>13, <1>14, <3>1, <3>3 DEF AtFrame
    <2>2. CASE burst[c] = 0 /\ begun[c] /\ packet[c] = <<>>
        <3>1. owed'.lost = OneLost(c, TRUE)
            BY <1>2, <2>2 DEF OneLost
        <3>2. partial'[c] = partial[c] /\ lost' = Zero /\ Fragment(partial[c])
            BY <1>1, <1>10, <1>11, <2>2 DEF Holds
        <3>3. start[1] >= 0
            BY <2>2
        <3>4. Fragment(partial'[c])
            BY <3>2
        <3> QED  BY <1>2, <1>13, <1>14, <3>1, <3>2, <3>3, <3>4 DEF AtFrame, Fragment
    <2>3. CASE burst[c] = 0 /\ begun[c] /\ packet[c] # <<>>
        <3>1. whole /\ start[1] < 0 /\ -start[1] = sent[c] /\ pieces[1] = packet[c]
            BY <2>3
        <3>2. owed'.lost = OneLost(c, Refuses(pieces, start, n, 1))
            <4>1. (due.dropped \/ (begun[c] /\ (~whole \/ packet[c] = <<>>)))
                    <=> Refuses(pieces, start, n, 1)
                BY <2>3, <3>1
            <4> QED  BY <1>2, <4>1 DEF OneLost
        <3>3. /\ partial'[c] = partial[c] /\ lost' = Zero /\ partial[c] # <<>>
              /\ partial[c] = SubSeq(packet[c], 1, sent[c])
            BY <1>1, <1>10, <1>11, <2>3 DEF Holds, Fragment
        <3>4. partial'[c] # <<>> /\ partial'[c] = SubSeq(pieces[1], 1, -start[1])
            BY <3>1, <3>3
        <3> QED  BY <1>2, <1>13, <1>14, <3>1, <3>2, <3>3, <3>4 DEF AtFrame
    <2> QED  BY <1>1, <2>1, <2>2, <2>3
<1>16. Working'
    BY <1>2, <1>15 DEF Working
<1> QED  BY <1>12, <1>16

\* A frame without: the gap alone.
LEMMA OtherFrameArrivesInv ==
    ASSUME AsSentInv, NEW c \in Vcids, OtherFrameArrives(c)
    PROVE  AsSentInv'
<1>1. /\ Plain /\ (~garbled => Quiet /\ Working) /\ c \in Channels /\ c # Stream /\ Stream \in Channels
    BY PacketsAssumption DEF AsSentInv, Channels
<1>2. /\ pass.framing = "frames"
      /\ step = "ready" /\ CheckContinuity(c, count[c])
      /\ step' = "pushed" /\ on' = on /\ NextCount(c)
      /\ packets' = packets /\ idle' = idle /\ out' = out
      /\ owed'.out = <<>> /\ owed'.idle = 0
      /\ owed'.lost = OneLost(c, (begun[c] /\ burst[c] > 0))
      /\ begun' = [begun EXCEPT ![c] = (begun[c] /\ burst[c] = 0)]
      /\ burst' = [burst EXCEPT ![c] = 0]
      /\ pass' = pass /\ packet' = packet /\ sent' = sent /\ made' = made
      /\ flushDue' = flushDue /\ garbled' = garbled
    BY DEF OtherFrameArrives, PassFrame, histVars
<1>3. /\ begun \in [Channels -> BOOLEAN] /\ burst \in [Channels -> 0..MaxBurst] /\ burst[Stream] = 0
      /\ garbled \in BOOLEAN /\ pass \in Passes /\ DOMAIN last = Channels /\ on = Stream
      /\ DOMAIN packet = Channels /\ DOMAIN sent = Channels /\ DOMAIN made = Channels
    BY <1>1, <1>2 DEF Plain
<1>4. /\ begun' \in [Channels -> BOOLEAN] /\ burst' \in [Channels -> 0..MaxBurst]
      /\ burst'[Stream] = 0 /\ burst'[c] = 0
      /\ (begun'[c] <=> begun[c] /\ burst[c] = 0)
      /\ \A d \in Channels \ {c} : begun'[d] = begun[d] /\ burst'[d] = burst[d]
    <2>1. 0 \in 0..MaxBurst /\ (begun[c] /\ burst[c] = 0) \in BOOLEAN
        BY DownlinkAssumption
    <2> QED  BY <1>1, <1>2, <1>3, <2>1
<1>5. \A d \in Channels : SenderOK(d)'
    BY <1>1, <1>2 DEF Plain, SenderOK
<1>6. count' \in [Channels -> 0..(Modulus - 1)]
    BY <1>1, <1>2, CountMoves
<1>7. DOMAIN last' = Channels
    BY <1>2, <1>3 DEF CheckContinuity
<1>8. Plain'
    BY <1>1, <1>2, <1>3, <1>4, <1>5, <1>6, <1>7 DEF Plain
<1> SUFFICES ASSUME ~garbled PROVE Quiet' /\ Working'
    BY <1>2, <1>8 DEF AsSentInv
<1>9. /\ last' = [last EXCEPT ![c] = count[c]]
      /\ partial' \in [Channels -> Seq(Bytes)]
      /\ \A d \in Channels \ {c} : partial'[d] = partial[d]
      /\ burst[c] # 0 => partial'[c] = <<>> /\ lost' = OneLost(c, begun[c])
      /\ burst[c] = 0 => partial' = partial /\ lost' = Zero
    BY <1>1, <1>2, ContinuityIs
<1>10. /\ \A d \in Channels : Holds(d)
       /\ idle = Zero /\ packets = Zero /\ out = <<>>
    BY <1>1, <1>2, Between
<1>11. \A d \in Channels \ {c} : Holds(d)'
    <2> TAKE d \in Channels \ {c}
    <2>1. Holds(d) /\ partial'[d] = partial[d] /\ packet'[d] = packet[d] /\ sent'[d] = sent[d]
          /\ begun'[d] = begun[d] /\ burst'[d] = burst[d]
        BY <1>2, <1>4, <1>9, <1>10
    <2> QED  BY <2>1 DEF Holds
<1>12. Holds(c)'
    <2>1. CASE burst[c] = 0
        <3>1. Holds(c) /\ partial'[c] = partial[c] /\ packet'[c] = packet[c] /\ sent'[c] = sent[c]
              /\ (begun'[c] <=> begun[c]) /\ burst'[c] = burst[c]
            BY <1>1, <1>2, <1>4, <1>9, <1>10, <2>1
        <3> QED  BY <3>1 DEF Holds
    <2>2. CASE burst[c] # 0
        BY <1>4, <1>9, <2>2 DEF Holds
    <2> QED  BY <2>1, <2>2
<1>13. Quiet'
    <2>1. \A d \in Vcids : LastIs(d)'
        BY <1>1, <1>2, <1>4, <1>9, CountsKept
    <2>2. pass'.framing = "frames"
        BY <1>2
    <2> QED  BY <1>2, <1>9, <1>11, <1>12, <2>1, <2>2 DEF Quiet
<1>14. lost' = owed'.lost
    <2>1. burst[c] > 0 <=> burst[c] # 0
        BY <1>1, <1>3
    <2>2. CASE burst[c] = 0
        BY <1>1, <1>2, <1>9, <2>1, <2>2, NothingLost
    <2>3. CASE burst[c] # 0
        BY <1>2, <1>9, <2>1, <2>3 DEF OneLost
    <2> QED  BY <2>2, <2>3
<1>15. Settled'
    <2>1. /\ out' = <<>> /\ idle' = Zero /\ packets' = Zero /\ on' = Stream
        BY <1>2, <1>3, <1>10
    <2>2. /\ idle' \in [Channels -> Nat] /\ packets' \in [Channels -> Nat]
          /\ idle'[Stream] = 0 /\ packets'[Stream] = 0 /\ Len(<<>>) = 0
        BY <1>1, <2>1 DEF Zero
    <2>3. Holds(on)'
        BY <1>1, <1>11, <2>1
    <2> QED  BY <1>2, <1>14, <2>1, <2>2, <2>3 DEF Settled
<1>16. Working'
    BY <1>2, <1>15 DEF Working
<1> QED  BY <1>13, <1>16

\* A frame that is lost is one more the next count will show.
LEMMA FrameLostInv ==
    ASSUME AsSentInv, NEW c \in Vcids, FrameLost(c)
    PROVE  AsSentInv'
<1>1. /\ Plain /\ (~garbled => Quiet /\ Working) /\ c \in Channels /\ c # Stream /\ Stream \in Channels
      /\ DataField \in Nat
    BY PacketsAssumption, DownlinkAssumption DEF AsSentInv, Channels
<1>2. /\ pass.framing = "frames"
      /\ step = "ready" /\ step' = step /\ on' = on /\ NextCount(c) /\ burst[c] < MaxBurst
      /\ last' = last /\ partial' = partial
      /\ packets' = packets /\ idle' = idle /\ out' = out /\ lost' = lost
      /\ begun' = begun /\ burst' = [burst EXCEPT ![c] = @ + 1]
      /\ pass' = pass /\ flushDue' = flushDue /\ garbled' = garbled
      /\ \/ \E kinds \in Fillings(c, DataField) : Send(c, kinds, DataField)
         \/ UNCHANGED <<packet, sent, made>>
    BY DEF FrameLost, packetVars, workVars, countVars, histVars
<1>3. /\ begun \in [Channels -> BOOLEAN] /\ burst \in [Channels -> 0..MaxBurst] /\ burst[Stream] = 0
      /\ on = Stream /\ count[c] \in 0..(Modulus - 1)
    BY <1>1, <1>2 DEF Plain
<1>4. /\ burst' \in [Channels -> 0..MaxBurst] /\ burst'[Stream] = 0
      /\ burst'[c] = burst[c] + 1 /\ burst'[c] # 0
      /\ \A d \in Channels \ {c} : burst'[d] = burst[d]
    <2>1. burst[c] \in Nat /\ burst[c] + 1 \in 0..MaxBurst /\ burst[c] + 1 # 0
        BY <1>1, <1>2, <1>3, DownlinkAssumption
    <2> QED  BY <1>1, <1>2, <1>3, <2>1
<1>5. /\ \A d \in Channels : SenderOK(d)'
      /\ DOMAIN packet' = Channels /\ DOMAIN sent' = Channels /\ DOMAIN made' = Channels
      /\ \A d \in Channels \ {c} : packet'[d] = packet[d] /\ sent'[d] = sent[d]
    <2>1. CASE \E kinds \in Fillings(c, DataField) : Send(c, kinds, DataField)
        BY <1>1, <2>1, SendKeeps
    <2>2. CASE UNCHANGED <<packet, sent, made>>
        BY <1>1, <2>2 DEF Plain, SenderOK
    <2> QED  BY <1>2, <2>1, <2>2
<1>6. /\ count' \in [Channels -> 0..(Modulus - 1)]
      /\ count'[c] = (IF count[c] + 1 = Modulus THEN 0 ELSE count[c] + 1)
      /\ \A d \in Channels \ {c} : count'[d] = count[d]
    BY <1>1, <1>2, CountMoves
<1>7. Plain'
    BY <1>1, <1>2, <1>4, <1>5, <1>6 DEF Plain
<1> SUFFICES ASSUME ~garbled PROVE Quiet' /\ Working'
    BY <1>2, <1>7 DEF AsSentInv
<1>8. /\ \A d \in Channels : Holds(d)
      /\ partial \in [Channels -> Seq(Bytes)]
      /\ \A d \in Vcids : LastIs(d)
    BY <1>1, <1>2, Between
<1>9. \A d \in Channels : Holds(d)'
    <2> TAKE d \in Channels
    <2>1. CASE d = c
        BY <1>2, <1>4, <1>8, <2>1 DEF Holds
    <2>2. CASE d # c
        <3>1. Holds(d) /\ partial'[d] = partial[d] /\ packet'[d] = packet[d] /\ sent'[d] = sent[d]
              /\ begun'[d] = begun[d] /\ burst'[d] = burst[d]
            BY <1>2, <1>4, <1>5, <1>8, <2>2
        <3> QED  BY <3>1 DEF Holds
    <2> QED  BY <2>1, <2>2
<1>10. LastIs(c)'
    <2>1. /\ Modulus \in Nat /\ MaxBurst \in Nat /\ MaxBurst < Modulus
          /\ burst[c] \in Nat /\ burst[c] < MaxBurst
        BY <1>1, <1>2, <1>3, PacketsAssumption, DownlinkAssumption
    <2>2. LastIs(c)
        BY <1>8
    <2>3. ASSUME last[c] # NoFrame
          PROVE  \/ count'[c] = last[c] + 1 + burst'[c]
                 \/ count'[c] = last[c] + 1 + burst'[c] - Modulus
        <3>1. /\ last[c] \in 0..(Modulus - 1)
              /\ \/ count[c] = last[c] + 1 + burst[c]
                 \/ count[c] = last[c] + 1 + burst[c] - Modulus
            BY <2>2, <2>3 DEF LastIs
        <3> DEFINE x == last[c]
                   y == count[c]
                   z == count'[c]
                   b == burst[c]
        <3>2. /\ x \in 0..(Modulus - 1) /\ y \in 0..(Modulus - 1) /\ b \in Nat /\ b < MaxBurst
              /\ z = (IF y + 1 = Modulus THEN 0 ELSE y + 1)
              /\ (y = x + 1 + b \/ y = x + 1 + b - Modulus)
            BY <1>3, <1>6, <2>1, <3>1
        <3> HIDE DEF x, y, z, b
        <3>3. z = x + 1 + (b + 1) \/ z = x + 1 + (b + 1) - Modulus
            BY <2>1, <3>2
        <3> QED  BY <1>4, <3>3 DEF x, y, z, b
    <2> QED  BY <1>2, <2>2, <2>3 DEF LastIs
<1>11. \A d \in Vcids \ {c} : LastIs(d)'
    <2> TAKE d \in Vcids \ {c}
    <2>1. d \in Channels \ {c} /\ LastIs(d)
        BY <1>8 DEF Channels
    <2> QED  BY <1>2, <1>4, <1>6, <2>1 DEF LastIs
<1>12. Quiet'
    <2>1. pass'.framing = "frames"
        BY <1>2
    <2> QED  BY <1>2, <1>8, <1>9, <1>10, <1>11, <2>1 DEF Quiet
<1>13. Working'
    BY <1>1, <1>2, <1>3, <1>9 DEF Working
<1> QED  BY <1>12, <1>13

\* A packet the spacecraft gives up stays held, but is the beginning of nothing.
LEMMA PacketGivenUpInv ==
    ASSUME AsSentInv, NEW c \in Vcids, PacketGivenUp(c)
    PROVE  AsSentInv'
<1>1. /\ Plain /\ (~garbled => Quiet /\ Working) /\ c \in Channels /\ c # Stream /\ Stream \in Channels
    BY PacketsAssumption DEF AsSentInv, Channels
<1>2. /\ step = "ready" /\ step' = step /\ on' = on /\ count' = count
      /\ last' = last /\ partial' = partial
      /\ packets' = packets /\ idle' = idle /\ out' = out /\ lost' = lost
      /\ begun' = begun /\ burst' = burst
      /\ pass' = pass /\ flushDue' = flushDue /\ garbled' = garbled /\ made' = made
      /\ packet' = [packet EXCEPT ![c] = <<>>] /\ sent' = [sent EXCEPT ![c] = 0]
    BY DEF PacketGivenUp, packetVars, workVars, countVars, histVars, linkVars
<1>3. /\ DOMAIN packet = Channels /\ DOMAIN sent = Channels /\ on = Stream
      /\ \A d \in Channels : SenderOK(d)
    BY <1>1, <1>2 DEF Plain
<1>4. /\ packet'[c] = <<>> /\ sent'[c] = 0
      /\ DOMAIN packet' = Channels /\ DOMAIN sent' = Channels
      /\ \A d \in Channels \ {c} : packet'[d] = packet[d] /\ sent'[d] = sent[d]
    BY <1>1, <1>2, <1>3
<1>5. \A d \in Channels : SenderOK(d)'
    BY <1>2, <1>3, <1>4 DEF SenderOK
<1>6. Plain'
    BY <1>1, <1>2, <1>4, <1>5 DEF Plain
<1> SUFFICES ASSUME ~garbled PROVE Quiet' /\ Working'
    BY <1>2, <1>6 DEF AsSentInv
<1>7. /\ \A d \in Channels : Holds(d)
      /\ partial \in [Channels -> Seq(Bytes)]
      /\ \A d \in Vcids : LastIs(d)
    BY <1>1, <1>2, Between
<1>8. \A d \in Channels : Holds(d)'
    <2> TAKE d \in Channels
    <2>1. Holds(d)
        BY <1>7
    <2> QED  BY <1>2, <1>4, <2>1 DEF Holds
<1>9. \A d \in Vcids : LastIs(d)'
    BY <1>2, <1>7 DEF LastIs
<1>10. Quiet'
    <2>1. packet'[Stream] = packet[Stream]
        BY <1>1, <1>4
    <2>2. /\ pass.framing = "stream" => (packet[Stream] # <<>> <=> begun[Stream])
          /\ pass.framing = "datagrams" /\ ~flushDue => packet[Stream] = <<>> /\ ~begun[Stream]
        BY <1>1 DEF Quiet
    <2> QED  BY <1>2, <1>7, <1>8, <1>9, <2>1, <2>2 DEF Quiet
<1>11. Working'
    BY <1>1, <1>2, <1>3, <1>8 DEF Working
<1> QED  BY <1>10, <1>11

\* A push to the packet stream, for what needs no following of the stream.
LEMMA StreamPlain ==
    ASSUME Plain, NEW n \in Nat, NEW kinds \in Fillings(Stream, n), NEW isBegun \in BOOLEAN,
           PushStream(Sent(Stream, kinds, n)), Send(Stream, kinds, n),
           begun' = [begun EXCEPT ![Stream] = isBegun], garbled' \in BOOLEAN,
           UNCHANGED <<pass, count, burst>>
    PROVE  Plain'
<1>1. Stream \in Channels
    BY DEF Channels
<1>2. step' = "split" /\ on' = Stream /\ last' = last
    BY DEF PushStream
<1>3. /\ \A d \in Channels : SenderOK(d)'
      /\ DOMAIN packet' = Channels /\ DOMAIN sent' = Channels /\ DOMAIN made' = Channels
    BY <1>1, SendKeeps
<1>4. begun' \in [Channels -> BOOLEAN]
    BY <1>1 DEF Plain
<1> QED  BY <1>1, <1>2, <1>3, <1>4 DEF Plain

\* What a push joins to the piece that is held, when there is one, is cut like
\* bytes that came at once.
LEMMA StreamPushed ==
    ASSUME Plain, Quiet, Working, step = "ready",
           NEW n \in Nat, NEW kinds \in Fillings(Stream, n), NEW whole \in BOOLEAN,
           NEW pieces, NEW start, Pushed(Stream, kinds, n, whole, pieces, start),
           PushStream(Sent(Stream, kinds, n)), Send(Stream, kinds, n), owed'.lost = Zero,
           begun' = [begun EXCEPT ![Stream] = Promised(Stream, kinds, n, whole).begun],
           UNCHANGED <<count, burst>>,
           packet[Stream] = <<>> => ~begun[Stream],
           packet[Stream] # <<>> =>
                whole /\ begun[Stream] /\ ~Promised(Stream, kinds, n, whole).refused
    PROVE  /\ Working' /\ partial' \in [Channels -> Seq(Bytes)]
           /\ \A c \in Vcids : LastIs(c)'
           /\ \A c \in Channels \ {on'} : Holds(c)'
<1>1. Stream \in Channels /\ \A c \in Vcids : c \in Channels \ {Stream}
    BY PacketsAssumption DEF Channels
<1>2. /\ step' = "split" /\ on' = Stream /\ last' = last /\ pointer' = pointer
      /\ rest' = partial[Stream] \o Sent(Stream, kinds, n)
      /\ partial' = [partial EXCEPT ![Stream] = <<>>]
      /\ packets' = packets /\ lost' = lost /\ idle' = idle /\ out' = out
    BY DEF PushStream, countVars
<1>3. /\ Due(pieces, start, n, whole)' /\ Laid(pieces, start, n)
      /\ Sent(Stream, kinds, n) = Stretch(pieces, start, 0, n)
      /\ packet[Stream] = <<>> => start[1] = 0
      /\ packet[Stream] # <<>> => /\ start[1] < 0 /\ -start[1] = sent[Stream]
                                  /\ pieces[1] = packet[Stream]
    BY DEF Pushed
<1>4. Promised(Stream, kinds, n, whole).refused
          <=> (\E i \in 1..Len(pieces) : Refuses(pieces, start, n, i))
    BY DEF Pushed
<1>5. /\ \A c \in Channels : Holds(c)
      /\ lost = Zero /\ idle = Zero /\ packets = Zero /\ out = <<>>
      /\ partial \in [Channels -> Seq(Bytes)]
      /\ \A c \in Vcids : LastIs(c)
      /\ begun \in [Channels -> BOOLEAN] /\ burst[Stream] = 0
    <2>1. begun \in [Channels -> BOOLEAN] /\ burst[Stream] = 0
        BY DEF Plain
    <2> QED  BY <2>1, Between
<1>6. \A c \in Channels \ {Stream} :
          /\ partial'[c] = partial[c] /\ begun'[c] = begun[c]
          /\ packet'[c] = packet[c] /\ sent'[c] = sent[c]
    <2>1. \A c \in Channels \ {Stream} : packet'[c] = packet[c] /\ sent'[c] = sent[c]
        BY <1>1, SendKeeps
    <2> QED  BY <1>2, <1>5, <2>1
<1>7. partial' \in [Channels -> Seq(Bytes)] /\ partial'[Stream] = <<>>
    <2>1. <<>> \in Seq(Bytes)
        OBVIOUS
    <2> QED  BY <1>1, <1>2, <1>5, <2>1
<1>8. \A c \in Vcids : LastIs(c)'
    <2> TAKE c \in Vcids
    <2>1. LastIs(c) /\ begun'[c] = begun[c]
        BY <1>1, <1>5, <1>6
    <2> QED  BY <1>2, <2>1 DEF LastIs
<1>9. \A c \in Channels \ {on'} : Holds(c)'
    <2> TAKE c \in Channels \ {on'}
    <2>1. Holds(c) /\ partial'[c] = partial[c] /\ begun'[c] = begun[c]
          /\ packet'[c] = packet[c] /\ sent'[c] = sent[c]
        BY <1>2, <1>5, <1>6
    <2> QED  BY <2>1 DEF Holds
<1>10. /\ Len(pieces) \in Nat /\ Len(pieces) >= 1 /\ start[1] \in Int /\ start[1] <= 0 /\ n \in Nat
    BY <1>3, LaidIs
<1>11. rest' = Stretch(pieces, start, start[1], n)
    <2>1. CASE packet[Stream] = <<>>
        <3>1. partial[Stream] = <<>> /\ start[1] = 0
            BY <1>1, <1>3, <1>5, <2>1 DEF Holds
        <3>2. Stretch(pieces, start, 0, n) \in Seq(Bytes)
            <4>1. 0 \in Int /\ start[1] <= 0 /\ 0 <= n
                BY <1>10
            <4> QED  BY <1>3, <4>1, StretchIs
        <3> QED  BY <1>2, <1>3, <3>1, <3>2
    <2>2. CASE packet[Stream] # <<>>
        <3>1. partial[Stream] = SubSeq(packet[Stream], 1, sent[Stream])
            BY <1>1, <1>5, <2>2 DEF Holds
        <3>2. partial[Stream] = SubSeq(pieces[1], 1, -start[1])
            BY <1>3, <2>2, <3>1
        <3> QED  BY <1>2, <1>3, <2>2, <3>2, Joined
    <2> QED  BY <2>1, <2>2
<1>12. start[1] < 0 => whole /\ \A i \in 1..Len(pieces) : ~Refuses(pieces, start, n, i)
    <2>1. start[1] < 0 => packet[Stream] # <<>>
        BY <1>3
    <2> QED  BY <1>4, <2>1
<1>13. AtCut(pieces, start, n, whole, 1)'
    <2>1. Tally(pieces, DoneOf(pieces, start, n, whole), 1)'
        <3>1. \A D : D \cap (1..(1 - 1)) = {}
            OBVIOUS
        <3>2. (\A D : Tally(pieces, D, 1))'
            <4> SUFFICES ASSUME NEW D PROVE Tally(pieces, D, 1)'
                OBVIOUS
            <4>1. /\ (D \ Fills(pieces, D)) \cap (1..(1 - 1)) = {}
                  /\ Fills(pieces, D) \cap (1..(1 - 1)) = {}
                OBVIOUS
            <4>2. <<>> = Picked(pieces, {})
                BY PickedNone
            <4>3. Cardinality({}) = 0
                BY FS_EmptySet
            <4>4. /\ idle' \in [Channels -> Nat] /\ packets' \in [Channels -> Nat]
                  /\ idle'[on'] = 0 /\ packets'[on'] = 0 /\ out' = <<>> /\ Len(out') = 0
                BY <1>1, <1>2, <1>5 DEF Zero
            <4> QED  BY <4>1, <4>2, <4>3, <4>4 DEF Tally
        <3> QED  BY <3>2
    <2>2. 1 \in 1..(Len(pieces) + 1) /\ start[1] <= n /\ 1..(1 - 1) = {}
        BY <1>10
    <2> QED  BY <1>2, <1>5, <1>7, <1>11, <1>12, <2>1, <2>2 DEF AtCut
<1>14. Working'
    <2>1. 1 \in 1..(Len(pieces) + 1)
        BY <1>10
    <2>2. \E p, s, a, w : \E k \in 1..(Len(p) + 1) : Due(p, s, a, w)' /\ AtCut(p, s, a, w, k)'
        BY <1>3, <1>13, <2>1
    <2> QED  BY <1>2, <2>2 DEF Working
<1> QED  BY <1>7, <1>8, <1>9, <1>14

\* A read of a byte stream goes on where the last one stopped.
LEMMA StreamReadInv ==
    ASSUME AsSentInv, NEW n \in 1..MaxRead, NEW kinds \in Fillings(Stream, n), StreamRead(n, kinds)
    PROVE  AsSentInv'
<1>1. /\ Plain /\ (~garbled => Quiet /\ Working) /\ Stream \in Channels /\ n \in Nat
      /\ begun \in [Channels -> BOOLEAN] /\ garbled \in BOOLEAN /\ burst[Stream] = 0
    BY DownlinkAssumption DEF AsSentInv, Plain, Channels
<1> PICK whole \in BOOLEAN : whole = begun[Stream]
    BY <1>1
<1> DEFINE due == Promised(Stream, kinds, n, whole)
<1>2. /\ pass.framing = "stream"
      /\ step = "ready" /\ step' = "split" /\ on' = Stream
      /\ PushStream(Sent(Stream, kinds, n)) /\ Send(Stream, kinds, n)
      /\ owed'.out = due.out /\ owed'.idle = due.idle /\ owed'.lost = Zero
      /\ garbled' = (garbled \/ due.refused)
      /\ begun' = [begun EXCEPT ![Stream] = due.begun]
      /\ pass' = pass /\ count' = count /\ burst' = burst /\ flushDue' = flushDue
    BY DEF StreamRead, PushStream
<1>3. begun'[Stream] = due.begun
    BY <1>1, <1>2
<1>p. \E pieces, start : Pushed(Stream, kinds, n, whole, pieces, start)
    <2>1. /\ begun'[Stream] = Promised(Stream, kinds, n, whole).begun
          /\ owed'.out = Promised(Stream, kinds, n, whole).out
          /\ owed'.idle = Promised(Stream, kinds, n, whole).idle
        BY <1>2, <1>3
    <2>2. Send(Stream, kinds, n) /\ on' = Stream /\ burst'[Stream] = 0
        BY <1>1, <1>2
    <2> QED  BY <1>1, <2>1, <2>2, PushIs
<1> PICK pieces, start : Pushed(Stream, kinds, n, whole, pieces, start)
    BY <1>p
<1>4. /\ due.refused <=> (\E i \in 1..Len(pieces) : Refuses(pieces, start, n, i))
      /\ begun'[Stream] = BegunOf(pieces, start, n, whole)
      /\ packet'[Stream] # <<>> <=> ~(start[Len(pieces) + 1] <= n)
      /\ packet[Stream] = <<>> => start[1] = 0
      /\ Laid(pieces, start, n)
    BY DEF Pushed
<1>5. due.begun \in BOOLEAN
    BY <1>3, <1>4 DEF BegunOf
<1>6. garbled' \in BOOLEAN
    <2>1. garbled' = (garbled \/ due.refused)
        BY <1>2
    <2> HIDE DEF due
    <2> QED  BY <2>1
<1>7. Plain'
    <2>1. begun' = [begun EXCEPT ![Stream] = due.begun] /\ UNCHANGED <<pass, count, burst>>
        BY <1>2
    <2> HIDE DEF due
    <2> QED  BY <1>1, <1>2, <1>5, <1>6, <2>1, StreamPlain
<1> SUFFICES ASSUME ~garbled' PROVE Quiet' /\ Working'
    BY <1>7 DEF AsSentInv
<1>8. ~garbled /\ ~due.refused
    <2> HIDE DEF due
    <2> QED  BY <1>2
<1>9. packet[Stream] # <<>> <=> begun[Stream]
    BY <1>1, <1>2, <1>8 DEF Quiet
<1>10. /\ Working' /\ partial' \in [Channels -> Seq(Bytes)]
       /\ \A c \in Vcids : LastIs(c)'
       /\ \A c \in Channels \ {on'} : Holds(c)'
    <2>1. /\ packet[Stream] = <<>> => ~begun[Stream]
          /\ packet[Stream] # <<>> =>
                whole /\ begun[Stream] /\ ~Promised(Stream, kinds, n, whole).refused
        BY <1>8, <1>9
    <2>2. begun' = [begun EXCEPT ![Stream] = Promised(Stream, kinds, n, whole).begun]
          /\ UNCHANGED <<count, burst>> /\ owed'.lost = Zero
        BY <1>2
    <2> HIDE DEF due
    <2>3. Plain /\ Quiet /\ Working /\ step = "ready" /\ n \in Nat
          /\ PushStream(Sent(Stream, kinds, n)) /\ Send(Stream, kinds, n)
        BY <1>1, <1>2, <1>8
    <2> QED  BY <2>1, <2>2, <2>3, StreamPushed
<1>11. packet'[Stream] # <<>> <=> begun'[Stream]
    <2> DEFINE m == Len(pieces)
    <2>1. \A i \in 1..m : ~Refuses(pieces, start, n, i)
        BY <1>4, <1>8
    <2>2. m \in 1..m /\ \A j \in 1..(m - 1) : j \in 1..m
        <3>1. m \in Nat /\ m >= 1
            BY <1>4, LaidIs
        <3> QED  BY <3>1
    <2>3. start[m] < 0 => whole
        <3>1. CASE packet[Stream] = <<>>
            <4>1. start[1] = 0
                BY <1>4, <3>1
            <4>2. start[m] \in Int /\ m \in Nat /\ m >= 1
                BY <1>4, LaidIs
            <4>3. m = 1 \/ start[1] < start[m]
                <5>1. \A i, j \in 1..(m + 1) : i < j => start[i] < start[j]
                    BY <1>4, LaidAscends
                <5> HIDE DEF m
                <5>2. m \in 1..(m + 1) /\ 1 \in 1..(m + 1) /\ (m = 1 \/ 1 < m)
                    BY <4>2
                <5> QED  BY <5>1, <5>2
            <4> HIDE DEF m
            <4>4. ~(start[m] < 0)
                BY <4>1, <4>2, <4>3
            <4> QED  BY <4>4
        <3>2. CASE packet[Stream] # <<>>
            BY <1>9, <3>2
        <3> QED  BY <3>1, <3>2
    <2>4. Usable(pieces, start, n, whole, m)
        BY <2>1, <2>2, <2>3 DEF Usable
    <2> QED  BY <1>4, <2>4 DEF BegunOf
<1>12. Quiet'
    <2>1. pass'.framing = "stream"
        BY <1>2
    <2> QED  BY <1>10, <1>11, <2>1 DEF Quiet
<1> QED  BY <1>10, <1>12

\* A datagram starts with a packet, and nothing is held when it comes.
LEMMA DatagramArrivesInv ==
    ASSUME AsSentInv, NEW n \in 1..MaxRead, NEW kinds \in Fillings(Stream, n),
           DatagramArrives(n, kinds)
    PROVE  AsSentInv'
<1>1. /\ Plain /\ (~garbled => Quiet /\ Working) /\ Stream \in Channels /\ n \in Nat
      /\ begun \in [Channels -> BOOLEAN] /\ garbled \in BOOLEAN /\ burst[Stream] = 0
    BY DownlinkAssumption DEF AsSentInv, Plain, Channels
<1> DEFINE due == Promised(Stream, kinds, n, FALSE)
<1>2. /\ pass.framing = "datagrams" /\ ~flushDue
      /\ step = "ready" /\ step' = "split" /\ on' = Stream
      /\ PushStream(Sent(Stream, kinds, n)) /\ Send(Stream, kinds, n)
      /\ owed'.out = due.out /\ owed'.idle = due.idle /\ owed'.lost = Zero
      /\ begun' = [begun EXCEPT ![Stream] = due.begun]
      /\ pass' = pass /\ count' = count /\ burst' = burst /\ flushDue' = TRUE /\ garbled' = garbled
    BY DEF DatagramArrives, PushStream
<1>3. begun'[Stream] = due.begun
    BY <1>1, <1>2
<1>p. \E pieces, start : Pushed(Stream, kinds, n, FALSE, pieces, start)
    <2>1. /\ begun'[Stream] = Promised(Stream, kinds, n, FALSE).begun
          /\ owed'.out = Promised(Stream, kinds, n, FALSE).out
          /\ owed'.idle = Promised(Stream, kinds, n, FALSE).idle
        BY <1>2, <1>3
    <2>2. Send(Stream, kinds, n) /\ on' = Stream /\ burst'[Stream] = 0 /\ FALSE \in BOOLEAN
        BY <1>1, <1>2
    <2> QED  BY <1>1, <2>1, <2>2, PushIs
<1> PICK pieces, start : Pushed(Stream, kinds, n, FALSE, pieces, start)
    BY <1>p
<1>4. begun'[Stream] = BegunOf(pieces, start, n, FALSE)
    BY DEF Pushed
<1>5. due.begun \in BOOLEAN
    BY <1>3, <1>4 DEF BegunOf
<1>6. Plain'
    <2>1. /\ begun' = [begun EXCEPT ![Stream] = due.begun] /\ UNCHANGED <<pass, count, burst>>
          /\ garbled' \in BOOLEAN
        BY <1>1, <1>2
    <2> HIDE DEF due
    <2> QED  BY <1>1, <1>2, <1>5, <2>1, StreamPlain
<1> SUFFICES ASSUME ~garbled PROVE Quiet' /\ Working'
    BY <1>2, <1>6 DEF AsSentInv
<1>7. packet[Stream] = <<>> /\ ~begun[Stream]
    BY <1>1, <1>2 DEF Quiet
<1>8. /\ Working' /\ partial' \in [Channels -> Seq(Bytes)]
      /\ \A c \in Vcids : LastIs(c)'
      /\ \A c \in Channels \ {on'} : Holds(c)'
    <2>1. begun' = [begun EXCEPT ![Stream] = Promised(Stream, kinds, n, FALSE).begun]
          /\ UNCHANGED <<count, burst>> /\ owed'.lost = Zero
        BY <1>2
    <2> HIDE DEF due
    <2>2. Plain /\ Quiet /\ Working /\ step = "ready" /\ n \in Nat /\ FALSE \in BOOLEAN
          /\ PushStream(Sent(Stream, kinds, n)) /\ Send(Stream, kinds, n)
        BY <1>1, <1>2
    <2> QED  BY <1>7, <2>1, <2>2, StreamPushed
<1>9. Quiet'
    <2>1. pass'.framing = "datagrams" /\ flushDue'
        BY <1>2
    <2> QED  BY <1>8, <2>1 DEF Quiet
<1> QED  BY <1>8, <1>9

\* A message boundary forgets what is held, and counts it.
LEMMA FlushMessageInv ==
    ASSUME AsSentInv, FlushMessage
    PROVE  AsSentInv'
<1>1. /\ Plain /\ (~garbled => Quiet /\ Working) /\ Stream \in Channels
      /\ burst \in [Channels -> 0..MaxBurst] /\ count \in [Channels -> 0..(Modulus - 1)]
    BY DEF AsSentInv, Plain, Channels
<1>2. /\ step = "ready" /\ step' = "pushed" /\ on' = on
      /\ last' = [c \in Channels |-> NoFrame]
      /\ partial' = [c \in Channels |-> <<>>]
      /\ lost' = [c \in Channels |-> lost[c] + Spent(partial[c])]
      /\ packets' = packets /\ idle' = idle /\ out' = out
      /\ owed'.out = <<>> /\ owed'.idle = 0
      /\ owed'.lost = (IF garbled THEN lost' ELSE [c \in Channels |-> IF begun[c] THEN 1 ELSE 0])
      /\ begun' = [c \in Channels |-> FALSE] /\ burst' = Zero
      /\ packet' = [packet EXCEPT ![Stream] = <<>>] /\ sent' = [sent EXCEPT ![Stream] = 0]
      /\ garbled' = FALSE /\ pass' = pass /\ made' = made /\ count' = count
    BY DEF FlushMessage, FlushPackets, histVars
<1>3. /\ DOMAIN packet = Channels /\ DOMAIN sent = Channels
      /\ \A c \in Channels : SenderOK(c)
      /\ on = Stream /\ lost = Zero /\ idle = Zero /\ packets = Zero /\ out = <<>>
    BY <1>1, <1>2 DEF Plain
<1>4. /\ packet'[Stream] = <<>> /\ sent'[Stream] = 0
      /\ \A c \in Channels \ {Stream} : packet'[c] = packet[c] /\ sent'[c] = sent[c]
      /\ DOMAIN packet' = Channels /\ DOMAIN sent' = Channels
    BY <1>1, <1>2, <1>3
<1>5. \A c \in Channels : SenderOK(c)'
    BY <1>2, <1>3, <1>4 DEF SenderOK
<1>6. burst' \in [Channels -> 0..MaxBurst] /\ burst'[Stream] = 0
    <2>1. 0 \in 0..MaxBurst
        BY DownlinkAssumption
    <2> QED  BY <1>1, <1>2, <2>1 DEF Zero
<1>7. /\ \A c \in Channels : ~begun'[c] /\ partial'[c] = <<>> /\ last'[c] = NoFrame
      /\ begun' \in [Channels -> BOOLEAN] /\ DOMAIN last' = Channels
      /\ partial' \in [Channels -> Seq(Bytes)]
    <2>1. <<>> \in Seq(Bytes)
        OBVIOUS
    <2> QED  BY <1>2, <2>1
<1>8. Plain'
    <2>1. count' \in [Channels -> 0..(Modulus - 1)]
        BY <1>1, <1>2
    <2>2. DOMAIN made' = Channels /\ pass' \in Passes /\ on' \in Channels
        BY <1>1, <1>2 DEF Plain
    <2> QED  BY <1>2, <1>4, <1>5, <1>6, <1>7, <2>1, <2>2 DEF Plain
<1>9. \A c \in Channels : Holds(c)'
    BY <1>7 DEF Holds
<1>10. Quiet'
    <2>1. \A c \in Vcids : LastIs(c)'
        BY <1>7 DEF LastIs, Channels
    <2> QED  BY <1>1, <1>4, <1>7, <1>9, <2>1 DEF Quiet
<1>11. lost' = owed'.lost
    <2>1. CASE garbled
        BY <1>2, <2>1
    <2>2. CASE ~garbled
        <3>1. \A c \in Channels : Holds(c)
            BY <1>1, <1>2, <2>2, Between
        <3>2. \A c \in Channels : lost[c] + Spent(partial[c]) = IF begun[c] THEN 1 ELSE 0
            <4> TAKE c \in Channels
            <4>1. begun[c] <=> partial[c] # <<>>
                BY <3>1 DEF Holds, Fragment
            <4>2. lost[c] = 0
                BY <1>3 DEF Zero
            <4>3. Spent(partial[c]) = IF begun[c] THEN 1 ELSE 0
                BY <4>1 DEF Spent
            <4> QED  BY <4>2, <4>3
        <3> QED  BY <1>2, <2>2, <3>2
    <2> QED  BY <2>1, <2>2
<1>12. Settled'
    <2>1. /\ out' = <<>> /\ idle' = Zero /\ packets' = Zero /\ on' = Stream
        BY <1>2, <1>3
    <2>2. /\ idle' \in [Channels -> Nat] /\ packets' \in [Channels -> Nat]
          /\ idle'[Stream] = 0 /\ packets'[Stream] = 0 /\ Len(<<>>) = 0
        BY <1>1, <2>1 DEF Zero
    <2>3. Holds(on)'
        BY <1>1, <1>9, <2>1
    <2> QED  BY <1>2, <1>11, <2>1, <2>2, <2>3 DEF Settled
<1>13. Working'
    BY <1>2, <1>12 DEF Working
<1> QED  BY <1>8, <1>10, <1>13 DEF AsSentInv

\* Every step keeps the invariant, which says of a finished push what is owed.
LEMMA NextAsSent == AsSentInv /\ [DownlinkNext]_downlinkVars => AsSentInv'
<1> SUFFICES ASSUME AsSentInv, [DownlinkNext]_downlinkVars PROVE AsSentInv'
    OBVIOUS
<1>1. CASE UNCHANGED downlinkVars
    BY <1>1, StutterAsSent
<1>2. CASE DownlinkNext
    <2>1. ASSUME NEW c \in Vcids, NEW kinds \in Fillings(c, DataField), FrameArrives(c, kinds)
          PROVE  AsSentInv'
        BY <2>1, FrameArrivesInv
    <2>2. ASSUME NEW c \in Vcids, OtherFrameArrives(c) \/ FrameLost(c) \/ PacketGivenUp(c)
          PROVE  AsSentInv'
        BY <2>2, OtherFrameArrivesInv, FrameLostInv, PacketGivenUpInv
    <2>3. ASSUME NEW n \in 1..MaxRead, NEW kinds \in Fillings(Stream, n),
                 StreamRead(n, kinds) \/ DatagramArrives(n, kinds)
          PROVE  AsSentInv'
        BY <2>3, StreamReadInv, DatagramArrivesInv
    <2>4. CASE FlushMessage
        BY <2>4, FlushMessageInv
    <2>5. CASE Work
        BY <2>5, WorkAsSent
    <2> QED  BY <1>2, <2>1, <2>2, <2>3, <2>4, <2>5 DEF DownlinkNext
<1> QED  BY <1>1, <1>2

LEMMA AsSentIs == AsSentInv => PacketsAsSent
<1> SUFFICES ASSUME AsSentInv, step = "pushed", ~garbled
             PROVE  /\ out = owed.out /\ idle[on] = owed.idle /\ lost = owed.lost
                    /\ packets[on] = Len(out)
                    /\ \A c \in Channels :
                        /\ begun[c] /\ burst[c] = 0 /\ packet[c] # <<>>
                              => partial[c] = SubSeq(packet[c], 1, sent[c])
                        /\ ~begun[c] => partial[c] = <<>>
    BY DEF PacketsAsSent
<1>1. Settled /\ \A c \in Channels \ {on} : Holds(c)
    BY DEF AsSentInv, Working, Quiet
<1>2. \A c \in Channels : Holds(c)
    BY <1>1 DEF Settled
<1> QED  BY <1>1, <1>2 DEF Settled, Holds

\* A packet all of whose frames arrived is handed out once, whole and in order,
\* no other is, and one that is cut short is counted at the next frame of its
\* channel or at the boundary: for every header size, packet length, frame size
\* and count modulus, so long as fewer frames are lost in a row than the count
\* tells apart.
THEOREM PacketsAreAsSent == DownlinkSpec => []PacketsAsSent
<1>1. DownlinkSpec => []AsSentInv
    BY InitAsSent, NextAsSent, PTL DEF DownlinkSpec
<1> QED  BY <1>1, AsSentIs, PTL

\* What is pushed is what the packet stages may be given: bytes, and a pointer
\* into them.
LEMMA PushedIs ==
    ASSUME Plain, NEW c \in Channels, NEW n \in Nat, NEW kinds \in Fillings(c, n)
    PROVE  /\ Sent(c, kinds, n) \in Seq(Bytes) /\ Len(Sent(c, kinds, n)) = n
           /\ kinds # <<>> => Len(packet[c]) - sent[c] \in 0..n
<1> PICK pieces : pieces = Pieces(c, kinds)
    OBVIOUS
<1> PICK start : start = Starts(c, pieces)
    OBVIOUS
<1> DEFINE m == Len(pieces)
<1>1. pass \in Passes /\ SenderOK(c)
    BY DEF Plain
<1>2. /\ Laid(pieces, start, n) /\ start[1] = -sent[c]
      /\ packet[c] # <<>> => pieces[1] = packet[c] /\ start[2] = Len(packet[c]) - sent[c]
      /\ kinds = <<>> <=> packet[c] # <<>> /\ m = 1
      /\ Sent(c, kinds, n) = [p \in 1..n |-> ByteAt(pieces, start, p)]
    BY <1>1, Filled
<1>3. m \in Nat /\ m >= 1 /\ n \in Nat /\ start[1] \in Int /\ start[1] <= 0 /\ start[2] \in Int /\ start[2] > 0
      /\ start[m] < n /\ start[m] \in Int
    BY <1>2, LaidIs
<1>4. Sent(c, kinds, n) = Stretch(pieces, start, 0, n)
    BY <1>2, ReadAtStart
<1>5. Sent(c, kinds, n) \in Seq(Bytes) /\ Len(Sent(c, kinds, n)) = n
    <2>1. 0 \in Int /\ start[1] <= 0 /\ 0 <= n /\ n - 0 = n
        BY <1>3
    <2> QED  BY <1>2, <1>4, <2>1, StretchIs
<1>6. ASSUME kinds # <<>> PROVE Len(packet[c]) - sent[c] \in 0..n
    <2>1. CASE packet[c] = <<>>
        <3>1. sent[c] = 0 /\ Len(packet[c]) = 0
            BY <1>1, <2>1, SpacePacketIs DEF SenderOK
        <3> QED  BY <1>3, <3>1
    <2>2. CASE packet[c] # <<>>
        <3>1. m # 1 /\ start[2] = Len(packet[c]) - sent[c]
            BY <1>2, <1>6, <2>2
        <3>2. \A i, j \in 1..(m + 1) : i < j => start[i] < start[j]
            BY <1>2, LaidAscends
        <3> HIDE DEF m
        <3>3. 2 \in 1..(m + 1) /\ m \in 1..(m + 1) /\ (m = 2 \/ 2 < m)
            BY <1>3, <3>1
        <3>4. m = 2 \/ start[2] < start[m]
            BY <3>2, <3>3
        <3> QED  BY <1>3, <3>1, <3>4
    <2> QED  BY <2>1, <2>2
<1> QED  BY <1>5, <1>6

\* Each step of the downlink is one of the packet stages, or none.
LEMMA NextIsPackets ==
    Plain /\ [DownlinkNext]_downlinkVars => [PacketsNext]_packetVars
<1> SUFFICES ASSUME Plain, [DownlinkNext]_downlinkVars PROVE [PacketsNext]_packetVars
    OBVIOUS
<1>1. CASE UNCHANGED downlinkVars
    BY <1>1 DEF downlinkVars
<1>2. ASSUME NEW c \in Vcids, NEW kinds \in Fillings(c, DataField), FrameArrives(c, kinds)
      PROVE  PacketsNext
    <2> DEFINE data == Sent(c, kinds, DataField)
               p == IF kinds = <<>> THEN NO_PACKET_START ELSE Len(packet[c]) - sent[c]
    <2>1. c \in Channels /\ DataField \in Nat
        BY DownlinkAssumption DEF Channels
    <2>2. data \in Seq(Bytes) /\ p \in (0..Len(data)) \cup {NO_PACKET_START}
        BY <2>1, PushedIs
    <2>3. TakeFrame(c, count[c], p, data) /\ count[c] \in 0..(Modulus - 1)
        BY <1>2, <2>1 DEF FrameArrives, Plain
    <2> HIDE DEF data, p
    <2> QED  BY <2>2, <2>3 DEF PacketsNext
<1>3. ASSUME NEW c \in Vcids, OtherFrameArrives(c) PROVE PacketsNext
    <2>1. PassFrame(c, count[c]) /\ count[c] \in 0..(Modulus - 1)
        BY <1>3 DEF OtherFrameArrives, Plain, Channels
    <2> QED  BY <2>1 DEF PacketsNext
<1>4. ASSUME NEW c \in Vcids, FrameLost(c) \/ PacketGivenUp(c) PROVE UNCHANGED packetVars
    BY <1>4 DEF FrameLost, PacketGivenUp
<1>5. ASSUME NEW n \in 1..MaxRead, NEW kinds \in Fillings(Stream, n),
             StreamRead(n, kinds) \/ DatagramArrives(n, kinds)
      PROVE  PacketsNext
    <2>1. n \in Nat /\ Stream \in Channels
        BY DownlinkAssumption DEF Channels
    <2>2. Sent(Stream, kinds, n) \in Seq(Bytes)
        BY <2>1, PushedIs
    <2>3. PushStream(Sent(Stream, kinds, n))
        BY <1>5 DEF StreamRead, DatagramArrives
    <2> QED  BY <2>2, <2>3 DEF PacketsNext
<1>6. CASE FlushMessage
    BY <1>6 DEF FlushMessage, PacketsNext
<1>7. CASE Work
    BY <1>7 DEF Work, PacketsNext
<1> QED  BY <1>1, <1>2, <1>3, <1>4, <1>5, <1>6, <1>7 DEF DownlinkNext

\* Whatever the spacecraft sends and the link loses, the packet stages do what
\* PacketsSpec lets them: what is proved of it, of every frame and every byte,
\* holds of the downlink.
THEOREM DownlinkIsPackets == DownlinkSpec => PacketsSpec
<1>1. DownlinkInit => PacketsInit
    BY DEF DownlinkInit
<1>2. AsSentInv => Plain
    BY DEF AsSentInv
<1>3. DownlinkSpec => []AsSentInv
    BY InitAsSent, NextAsSent, PTL DEF DownlinkSpec
<1> QED  BY <1>1, <1>2, <1>3, NextIsPackets, PTL DEF DownlinkSpec, PacketsSpec
=============================================================================
