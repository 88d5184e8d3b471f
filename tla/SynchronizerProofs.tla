-------------------------- MODULE SynchronizerProofs --------------------------
(***************************************************************************)
(* Proofs about the frame synchroniser: every byte is accounted for, and    *)
(* the frames handed out of the buffer are those FrameStream cuts out of    *)
(* the stream, for every marker, frame length, flywheel and size of push.   *)
(***************************************************************************)
EXTENDS Synchronizer, SequenceTheorems, TLAPS

Bits == {0, 1}
-----------------------------------------------------------------------------
(***************************************************************************)
(* Bits and bytes.  Products by ByteBits are compared and added here, so    *)
(* that what follows needs no other fact about multiplication.              *)
(***************************************************************************)
LEMMA Scaling ==
    ASSUME NEW a \in Int, NEW b \in Int
    PROVE  /\ a * ByteBits \in Int
           /\ (a + b) * ByteBits = a * ByteBits + b * ByteBits
           /\ (a - b) * ByteBits = a * ByteBits - b * ByteBits
           /\ a <= b <=> a * ByteBits <= b * ByteBits
           /\ a < b <=> a * ByteBits < b * ByteBits
<1>1. ByteBits \in Nat /\ ByteBits > 0
  BY SynchronizerAssumption
<1>2. /\ a * ByteBits \in Int
      /\ (a + b) * ByteBits = a * ByteBits + b * ByteBits
      /\ (a - b) * ByteBits = a * ByteBits - b * ByteBits
  BY <1>1
<1>3. \A d \in Nat : d * ByteBits >= 0 /\ (d > 0 => d * ByteBits > 0)
  BY <1>1
<1>4. a <= b => (b - a) * ByteBits >= 0
  <2>1. a <= b => b - a \in Nat
    OBVIOUS
  <2> QED
    BY <2>1, <1>3
<1>5. b < a => (a - b) * ByteBits > 0
  <2>1. b < a => a - b \in Nat /\ a - b > 0
    OBVIOUS
  <2> QED
    BY <2>1, <1>3
<1>6. a < b => (b - a) * ByteBits > 0
  <2>1. a < b => b - a \in Nat /\ b - a > 0
    OBVIOUS
  <2> QED
    BY <2>1, <1>3
<1>7. b <= a => (a - b) * ByteBits >= 0
  <2>1. b <= a => a - b \in Nat
    OBVIOUS
  <2> QED
    BY <2>1, <1>3
<1>8. /\ (b - a) * ByteBits = b * ByteBits - a * ByteBits
      /\ (a - b) * ByteBits = a * ByteBits - b * ByteBits
      /\ a * ByteBits \in Int /\ b * ByteBits \in Int
  BY <1>1
<1> HIDE <1>3
<1> QED
  BY <1>2, <1>4, <1>5, <1>6, <1>7, <1>8

(* A number of whole bytes is that many bytes. *)
LEMMA WholeBytes ==
    ASSUME NEW n \in Nat
    PROVE  /\ (n * ByteBits) % ByteBits = 0
           /\ (n * ByteBits) \div ByteBits = n
           /\ n % ByteBits = 0 => n = (n \div ByteBits) * ByteBits
           /\ n \div ByteBits \in Nat
  BY SynchronizerAssumption

LEMMA Sizes ==
    ASSUME NEW bits \in Seq(Bits), Len(bits) % ByteBits = 0
    PROVE  Size(bits) \in Nat /\ Len(bits) = Size(bits) * ByteBits
<1>1. Len(bits) \in Nat
  OBVIOUS
<1> QED
  BY <1>1, WholeBytes DEF Size

LEMMA MarkerBytes ==
    ASSUME marker \in Markers
    PROVE  /\ marker \in Seq(Bits) /\ MarkerLength \in Nat
           /\ Len(marker) = MarkerLength * ByteBits
           /\ marker # <<>> => MarkerLength >= 1
<1>1. marker \in Seq(Bits) /\ Len(marker) % ByteBits = 0
  BY SynchronizerAssumption DEF Bits
<1>2. MarkerLength \in Nat /\ Len(marker) = MarkerLength * ByteBits
  BY <1>1, Sizes DEF Size, MarkerLength
<1>3. MarkerLength = 0 => Len(marker) = 0
  BY <1>2, SynchronizerAssumption
<1>4. Len(marker) = 0 => marker = <<>>
  BY <1>1
<1> QED
  BY <1>1, <1>2, <1>3, <1>4
-----------------------------------------------------------------------------
(***************************************************************************)
(* Parts of sequences.                                                      *)
(***************************************************************************)

(* What stands behind the first a elements, up to the m-th. *)
LEMMA PartIs ==
    ASSUME NEW S, NEW s \in Seq(S), NEW a \in Nat, NEW m \in Nat, a <= m, m <= Len(s)
    PROVE  /\ SubSeq(s, a + 1, m) \in Seq(S)
           /\ Len(SubSeq(s, a + 1, m)) = m - a
           /\ \A k \in 1..(m - a) : SubSeq(s, a + 1, m)[k] = s[a + k]
<1>1. \A i \in (a + 1)..m : s[i] \in S
  OBVIOUS
<1>2. /\ SubSeq(s, a + 1, m) \in Seq(S)
      /\ Len(SubSeq(s, a + 1, m)) = IF a + 1 <= m THEN m - (a + 1) + 1 ELSE 0
      /\ \A k \in 1..(m - (a + 1) + 1) :
           SubSeq(s, a + 1, m)[k] = s[(a + 1) + k - 1]
  BY <1>1, SubSeqProperties
<1>3. \A k \in 1..(m - a) : (a + 1) + k - 1 = a + k
  OBVIOUS
<1>4. m - (a + 1) + 1 = m - a
  OBVIOUS
<1> QED
  BY <1>2, <1>3, <1>4

(* A part of what follows the first a elements is a part of the whole. *)
LEMMA PartOfRest ==
    ASSUME NEW S, NEW s \in Seq(S), NEW a \in 0..Len(s),
           NEW i \in Nat, NEW n \in Nat, a + i + n <= Len(s)
    PROVE  LET rest == SubSeq(s, a + 1, Len(s)) IN
           /\ rest \in Seq(S) /\ Len(rest) = Len(s) - a
           /\ SubSeq(rest, i + 1, i + n) = SubSeq(s, a + i + 1, a + i + n)
           /\ SubSeq(rest, i + 1, Len(rest)) = SubSeq(s, a + i + 1, Len(s))
<1> DEFINE rest == SubSeq(s, a + 1, Len(s))
<1>1. /\ rest \in Seq(S) /\ Len(rest) = Len(s) - a
      /\ \A k \in 1..(Len(s) - a) : rest[k] = s[a + k]
  <2>1. Len(s) \in Nat /\ a \in Nat /\ a <= Len(s)
    OBVIOUS
  <2> QED
    BY <2>1, PartIs
<1> HIDE DEF rest
<1>2. SubSeq(rest, i + 1, i + n) = SubSeq(s, a + i + 1, a + i + n)
  <2>1. /\ SubSeq(rest, i + 1, i + n) \in Seq(S)
        /\ Len(SubSeq(rest, i + 1, i + n)) = n
        /\ \A k \in 1..n : SubSeq(rest, i + 1, i + n)[k] = rest[i + k]
    <3>1. i + n \in Nat /\ i <= i + n /\ i + n <= Len(rest) /\ (i + n) - i = n
      BY <1>1
    <3> QED
      BY <1>1, <3>1, PartIs
  <2>2. /\ SubSeq(s, a + i + 1, a + i + n) \in Seq(S)
        /\ Len(SubSeq(s, a + i + 1, a + i + n)) = n
        /\ \A k \in 1..n : SubSeq(s, a + i + 1, a + i + n)[k] = s[a + i + k]
    <3> DEFINE b == a + i
               e == a + i + n
    <3>1. b \in Nat /\ e \in Nat /\ b <= e /\ e <= Len(s) /\ e - b = n
      OBVIOUS
    <3> HIDE DEF b, e
    <3>2. /\ SubSeq(s, b + 1, e) \in Seq(S)
          /\ Len(SubSeq(s, b + 1, e)) = n
          /\ \A k \in 1..n : SubSeq(s, b + 1, e)[k] = s[b + k]
      BY <3>1, PartIs
    <3> QED
      BY <3>2 DEF b, e
  <2>3. \A k \in 1..n : rest[i + k] = s[a + i + k]
    BY <1>1
  <2> QED
    BY <2>1, <2>2, <2>3, SeqEqual
<1>3. SubSeq(rest, i + 1, Len(rest)) = SubSeq(s, a + i + 1, Len(s))
  <2> DEFINE m == Len(s) - a - i
  <2>1. /\ SubSeq(rest, i + 1, Len(rest)) \in Seq(S)
        /\ Len(SubSeq(rest, i + 1, Len(rest))) = m
        /\ \A k \in 1..m : SubSeq(rest, i + 1, Len(rest))[k] = rest[i + k]
    <3>1. Len(rest) \in Nat /\ i <= Len(rest) /\ Len(rest) - i = m
      BY <1>1
    <3> QED
      BY <1>1, <3>1, PartIs
  <2>2. /\ SubSeq(s, a + i + 1, Len(s)) \in Seq(S)
        /\ Len(SubSeq(s, a + i + 1, Len(s))) = m
        /\ \A k \in 1..m : SubSeq(s, a + i + 1, Len(s))[k] = s[a + i + k]
    <3> DEFINE b == a + i
    <3>1. b \in Nat /\ Len(s) \in Nat /\ b <= Len(s) /\ Len(s) - b = m
      OBVIOUS
    <3> HIDE DEF b, m
    <3>2. /\ SubSeq(s, b + 1, Len(s)) \in Seq(S)
          /\ Len(SubSeq(s, b + 1, Len(s))) = m
          /\ \A k \in 1..m : SubSeq(s, b + 1, Len(s))[k] = s[b + k]
      BY <3>1, PartIs
    <3> QED
      BY <3>2 DEF b
  <2>3. \A k \in 1..m : rest[i + k] = s[a + i + k]
    BY <1>1
  <2> QED
    BY <2>1, <2>2, <2>3, SeqEqual
<1> QED
  BY <1>1, <1>2, <1>3 DEF rest

(* Three sequences joined can be told apart again. *)
LEMMA Joined ==
    ASSUME NEW S, NEW u \in Seq(S), NEW v \in Seq(S), NEW w \in Seq(S)
    PROVE  /\ (u \o v) \o w \in Seq(S)
           /\ Len((u \o v) \o w) = Len(u) + Len(v) + Len(w)
           /\ SubSeq((u \o v) \o w, Len(u) + 1, Len(u) + Len(v)) = v
           /\ SubSeq((u \o v) \o w, Len(u) + Len(v) + 1, Len((u \o v) \o w)) = w
<1> DEFINE uv == u \o v
           t == uv \o w
           a == Len(u)
           b == Len(u) + Len(v)
<1>1. /\ uv \in Seq(S) /\ Len(uv) = b
      /\ \A k \in 1..Len(v) : uv[a + k] = v[k]
  BY ConcatProperties
<1> HIDE DEF uv
<1>2. /\ t \in Seq(S) /\ Len(t) = b + Len(w)
      /\ \A k \in 1..b : t[k] = uv[k]
      /\ \A k \in 1..Len(w) : t[b + k] = w[k]
  <2>1. /\ t \in Seq(S) /\ Len(t) = b + Len(w)
        /\ \A k \in 1..(b + Len(w)) : t[k] = IF k <= b THEN uv[k] ELSE w[k - b]
    <3>1. /\ t \in Seq(S) /\ Len(t) = Len(uv) + Len(w)
          /\ \A k \in 1..(Len(uv) + Len(w)) :
               t[k] = IF k <= Len(uv) THEN uv[k] ELSE w[k - Len(uv)]
      <4>1. uv \in Seq(S)
        BY <1>1
      <4> QED
        BY <4>1, ConcatProperties
    <3> HIDE DEF t, b
    <3> QED
      BY <3>1, <1>1
  <2> HIDE DEF t
  <2>2. b \in Nat /\ Len(w) \in Nat
    OBVIOUS
  <2> HIDE DEF b
  <2>3. /\ \A k \in 1..b : k \in 1..(b + Len(w)) /\ k <= b
        /\ \A k \in 1..Len(w) : b + k \in 1..(b + Len(w)) /\ ~(b + k <= b) /\ (b + k) - b = k
    BY <2>2
  <2> QED
    BY <2>1, <2>3
<1>3. /\ a \in Nat /\ b \in Nat /\ a <= b /\ b - a = Len(v)
      /\ \A k \in 1..Len(v) : a + k \in 1..b
  OBVIOUS
<1>4. Len(w) \in Nat
  OBVIOUS
<1> HIDE DEF t, a, b
<1>5. \A k \in 1..Len(v) : t[a + k] = v[k]
  BY <1>1, <1>2, <1>3
<1>6. SubSeq(t, a + 1, b) = v
  <2>1. b <= Len(t)
    BY <1>2, <1>3, <1>4
  <2>2. /\ SubSeq(t, a + 1, b) \in Seq(S)
        /\ Len(SubSeq(t, a + 1, b)) = Len(v)
        /\ \A k \in 1..Len(v) : SubSeq(t, a + 1, b)[k] = t[a + k]
    BY <1>2, <1>3, <2>1, PartIs
  <2>3. \A k \in 1..Len(v) : SubSeq(t, a + 1, b)[k] = v[k]
    BY <1>5, <2>2
  <2> QED
    BY <2>2, <2>3, SeqEqual
<1>7. SubSeq(t, b + 1, Len(t)) = w
  <2>1. Len(t) \in Nat /\ b <= Len(t) /\ Len(t) - b = Len(w)
    BY <1>2, <1>3, <1>4
  <2>2. /\ SubSeq(t, b + 1, Len(t)) \in Seq(S)
        /\ Len(SubSeq(t, b + 1, Len(t))) = Len(w)
        /\ \A k \in 1..Len(w) : SubSeq(t, b + 1, Len(t))[k] = t[b + k]
    BY <1>2, <1>3, <2>1, PartIs
  <2>3. \A k \in 1..Len(w) : SubSeq(t, b + 1, Len(t))[k] = w[k]
    BY <1>2, <2>2
  <2> QED
    BY <2>2, <2>3, SeqEqual
<1> QED
  BY <1>2, <1>6, <1>7 DEF t, uv, a, b
-----------------------------------------------------------------------------
(***************************************************************************)
(* The invariant.  Counters are compared with what was given since they     *)
(* were drained, so what they are while nothing has been given belongs to   *)
(* it; and a search is for a marker, or what it keeps of the buffer would   *)
(* be longer than the buffer.                                               *)
(***************************************************************************)
SyncInv ==
    /\ BytesAccounted
    /\ state = "Searching" => marker # <<>>
    /\ marker = <<>> => misses = 0
    /\ step = "idle" => discarded = 0 /\ frames = 0

(* What the types say of the lengths, in bytes and in bits. *)
LEMMA Shape ==
    ASSUME SyncTypeOK
    PROVE  /\ Size(buffer) \in Nat /\ buffer \in Seq(Bits)
           /\ cursor \in Nat /\ cursor <= Size(buffer) /\ Buffered \in Nat
           /\ MarkerLength \in Nat /\ (marker # <<>> => MarkerLength >= 1)
           /\ bitOffset \in Nat /\ bitOffset < ByteBits
           /\ FrameLength \in Nat /\ FrameLength >= 1
           /\ Flywheel \in Nat /\ ByteBits \in Nat /\ ByteBits >= 1
<1>1. buffer \in Seq(Bits) /\ Len(buffer) % ByteBits = 0
  BY DEF SyncTypeOK, Bits
<1>2. Size(buffer) \in Nat /\ Len(buffer) = Size(buffer) * ByteBits
  BY <1>1, Sizes
<1>3. cursor \in Nat /\ cursor <= Size(buffer) /\ Buffered \in Nat
  BY <1>2 DEF SyncTypeOK, Buffered
<1>4. bitOffset \in Nat /\ bitOffset < ByteBits
  BY SynchronizerAssumption DEF SyncTypeOK, Offsets
<1>5. marker \in Markers
  BY DEF SyncTypeOK
<1> QED
  BY <1>1, <1>2, <1>3, <1>4, <1>5, MarkerBytes, SynchronizerAssumption

LEMMA ShapeBits ==
    ASSUME SyncTypeOK
    PROVE  /\ Len(buffer) = Size(buffer) * ByteBits
           /\ marker \in Seq(Bits) /\ Len(marker) = MarkerLength * ByteBits
<1>1. buffer \in Seq(Bits) /\ Len(buffer) % ByteBits = 0
  BY DEF SyncTypeOK, Bits
<1>2. marker \in Markers
  BY DEF SyncTypeOK
<1> QED
  BY <1>1, <1>2, Sizes, MarkerBytes

LEMMA CountersAreNat ==
    ASSUME SyncTypeOK
    PROVE  /\ found \in Nat /\ locks \in Nat /\ losses \in Nat /\ frames \in Nat
           /\ discarded \in Nat /\ slips \in Nat /\ given \in Nat
  BY DEF SyncTypeOK

(* A place in the buffer is somewhere a whole marker still fits. *)
LEMMA PlacesFit ==
    ASSUME SyncTypeOK, NEW p \in Places
    PROVE  /\ p[1] \in Nat /\ cursor <= p[1] /\ p[1] + MarkerLength <= Size(buffer)
           /\ p[2] \in Offsets /\ p[2] \in Nat
           /\ MarkerAt(p[1], p[2])
<1>1. /\ p \in (cursor..(Size(buffer) - MarkerLength)) \X Offsets
      /\ MarkerAt(p[1], p[2])
  BY DEF Places
<1>2. p[1] \in cursor..(Size(buffer) - MarkerLength) /\ p[2] \in Offsets
  BY <1>1
<1> QED
  BY <1>1, <1>2, Shape, SynchronizerAssumption DEF Offsets

(* A frame that is whole in the buffer is aligned in place: the frame is    *)
(* what began at the bit offset, what follows it stays, and no byte is      *)
(* gained or lost.                                                          *)
LEMMA FrameInPlace ==
    ASSUME SyncTypeOK, Ready, HandOut
    PROVE  /\ buffer' \in Seq(Bits) /\ Len(buffer') = Len(buffer)
           /\ Size(buffer') = Size(buffer)
           /\ cursor' = cursor + MarkerLength + FrameLength
           /\ cursor' \in Nat /\ cursor' + (IF bitOffset = 0 THEN 0 ELSE 1) <= Size(buffer)
           /\ frame' = BitsAt(cursor + MarkerLength, bitOffset, FrameLength)
           /\ frame' \in Seq(Bits)
           /\ SubSeq(buffer', cursor' * ByteBits + 1, Len(buffer'))
                = SubSeq(buffer, cursor' * ByteBits + 1, Len(buffer))
<1> DEFINE start == cursor + MarkerLength
           a == start * ByteBits
           n == FrameLength * ByteBits
           u == SubSeq(buffer, 1, a)
           v == SubSeq(buffer, a + bitOffset + 1, a + bitOffset + n)
           w == SubSeq(buffer, a + n + 1, Len(buffer))
           t == (u \o v) \o w
<1>0. /\ Size(buffer) \in Nat /\ Len(buffer) = Size(buffer) * ByteBits
      /\ buffer \in Seq(Bits) /\ Len(buffer) \in Nat
      /\ cursor \in Nat /\ MarkerLength \in Nat /\ FrameLength \in Nat
      /\ bitOffset \in Nat /\ bitOffset < ByteBits
  BY Shape, ShapeBits
<1>1. start \in Nat /\ start + FrameLength \in Nat
  BY <1>0
<1>2. start + FrameLength + (IF bitOffset = 0 THEN 0 ELSE 1) <= Size(buffer)
  BY <1>0 DEF Ready, Needed, Buffered
<1>3. a \in Nat /\ n \in Nat /\ a + n = (start + FrameLength) * ByteBits
  BY <1>0, <1>1, Scaling, SynchronizerAssumption
<1> HIDE DEF a, n, start
<1>4. a + n + bitOffset <= Len(buffer)
  <2> DEFINE e == start + FrameLength
  <2>0. e \in Nat /\ e + (IF bitOffset = 0 THEN 0 ELSE 1) <= Size(buffer)
        /\ a + n = e * ByteBits
    BY <1>1, <1>2, <1>3
  <2> HIDE DEF e
  <2>1. CASE bitOffset = 0
    <3>1. e \in Int /\ e <= Size(buffer) /\ Size(buffer) \in Int
      BY <2>0, <2>1, <1>0
    <3>2. e * ByteBits <= Size(buffer) * ByteBits
      BY <3>1, Scaling
    <3> QED
      BY <3>2, <2>0, <2>1, <1>0, <1>3
  <2>2. CASE bitOffset # 0
    <3> DEFINE f == e + 1
    <3>1. f \in Int /\ f <= Size(buffer) /\ Size(buffer) \in Int
      BY <2>0, <2>2, <1>0
    <3>2. f * ByteBits = e * ByteBits + ByteBits
      BY <2>0, SynchronizerAssumption
    <3> HIDE DEF f
    <3>3. f * ByteBits <= Size(buffer) * ByteBits
      BY <3>1, Scaling
    <3> QED
      BY <3>2, <3>3, <2>0, <1>0, <1>3, SynchronizerAssumption
  <2> QED
    BY <2>1, <2>2
<1>5. a + bitOffset + n <= Len(buffer)
  BY <1>0, <1>3, <1>4
<1>6. /\ t \in Seq(Bits) /\ Len(t) = Len(buffer)
      /\ SubSeq(t, a + 1, a + n) = SubSeq(buffer, a + bitOffset + 1, a + bitOffset + n)
      /\ SubSeq(t, a + n + 1, Len(t)) = SubSeq(buffer, a + n + 1, Len(buffer))
  <2>1. /\ buffer \in Seq(Bits) /\ a \in Nat /\ n \in Nat /\ bitOffset \in Nat
        /\ a + bitOffset + n <= Len(buffer) /\ Len(buffer) \in Nat
    BY <1>0, <1>3, <1>5
  <2>2. u \in Seq(Bits) /\ Len(u) = a
    BY <2>1
  <2>3. v \in Seq(Bits) /\ Len(v) = n
    BY <2>1
  <2>4. w \in Seq(Bits) /\ Len(w) = Len(buffer) - (a + n)
    BY <2>1
  <2> HIDE DEF u, v, w
  <2>5. /\ t \in Seq(Bits) /\ Len(t) = (a + n) + Len(w)
        /\ SubSeq(t, a + 1, a + n) = v
        /\ SubSeq(t, (a + n) + 1, Len(t)) = w
    <3>1. /\ t \in Seq(Bits) /\ Len(t) = Len(u) + Len(v) + Len(w)
          /\ SubSeq(t, Len(u) + 1, Len(u) + Len(v)) = v
          /\ SubSeq(t, Len(u) + Len(v) + 1, Len(t)) = w
      <4>1. u \in Seq(Bits) /\ v \in Seq(Bits) /\ w \in Seq(Bits)
        BY <2>2, <2>3, <2>4
      <4> QED
        BY <4>1, Joined
    <3> HIDE DEF t
    <3> QED
      BY <3>1, <2>2, <2>3
  <2>6. (a + n) + Len(w) = Len(buffer)
    BY <2>1, <2>4
  <2> QED
    BY <2>5, <2>6 DEF u, v, w
<1>7. buffer' = t
  <2>1. buffer' = Shifted(start)
    BY DEF HandOut, start
  <2>2. Shifted(start) = SubSeq(buffer, 1, start * ByteBits)
            \o SubSeq(buffer, start * ByteBits + bitOffset + 1,
                              start * ByteBits + bitOffset + FrameLength * ByteBits)
            \o SubSeq(buffer, (start + FrameLength) * ByteBits + 1, Len(buffer))
    BY DEF Shifted, BitsAt
  <2> QED
    BY <2>1, <2>2, <1>3 DEF a, n
<1> HIDE DEF t
<1>8. frame' = SubSeq(t, a + 1, a + n)
  <2>1. frame' = SubSeq(buffer', start * ByteBits + 1, (start + FrameLength) * ByteBits)
    BY DEF HandOut, start
  <2> QED
    BY <2>1, <1>3, <1>7 DEF a
<1>9. frame' = BitsAt(start, bitOffset, FrameLength)
  BY <1>8, <1>6 DEF BitsAt, a, n
<1>10. frame' \in Seq(Bits)
  BY <1>8, <1>6, <1>3, <1>0, <1>5
<1>11. cursor' = start + FrameLength
  BY DEF HandOut, start
<1>12. SubSeq(buffer', cursor' * ByteBits + 1, Len(buffer'))
         = SubSeq(buffer, cursor' * ByteBits + 1, Len(buffer))
  BY <1>11, <1>7, <1>6, <1>3
<1>13. Size(buffer') = Size(buffer)
  BY <1>7, <1>6 DEF Size
<1>14. start = cursor + MarkerLength
  BY DEF start
<1> QED
  BY <1>0, <1>1, <1>2, <1>6, <1>7, <1>9, <1>10, <1>11, <1>12, <1>13, <1>14

(* What is left of the buffer behind the cursor. *)
Unread == SubSeq(buffer, cursor * ByteBits + 1, Len(buffer))

LEMMA UnreadBits ==
    ASSUME SyncTypeOK
    PROVE  /\ Unread \in Seq(Bits) /\ Len(Unread) = Buffered * ByteBits
           /\ cursor * ByteBits \in Nat /\ cursor * ByteBits <= Len(buffer)
<1>0. /\ Size(buffer) \in Nat /\ Len(buffer) = Size(buffer) * ByteBits
      /\ buffer \in Seq(Bits)
      /\ cursor \in Nat /\ cursor <= Size(buffer) /\ ByteBits \in Nat
  BY Shape, ShapeBits
<1>1. /\ cursor * ByteBits \in Nat
      /\ cursor * ByteBits <= Len(buffer)
      /\ Buffered * ByteBits = Len(buffer) - cursor * ByteBits
  <2>1. cursor * ByteBits \in Nat
    BY <1>0
  <2>2. /\ cursor * ByteBits <= Size(buffer) * ByteBits
        /\ (Size(buffer) - cursor) * ByteBits
             = Size(buffer) * ByteBits - cursor * ByteBits
    BY <1>0, Scaling
  <2> QED
    BY <2>1, <2>2, <1>0 DEF Buffered
<1>2. Len(buffer) \in Nat
  BY <1>0
<1>3. /\ Unread \in Seq(Bits) /\ Len(Unread) = Len(buffer) - cursor * ByteBits
  <2> DEFINE a == cursor * ByteBits
  <2>1. buffer \in Seq(Bits) /\ a \in Nat /\ a <= Len(buffer) /\ Len(buffer) \in Nat
    BY <1>0, <1>1, <1>2
  <2> HIDE DEF a
  <2>2. /\ SubSeq(buffer, a + 1, Len(buffer)) \in Seq(Bits)
        /\ Len(SubSeq(buffer, a + 1, Len(buffer))) = Len(buffer) - a
    BY <2>1, PartIs
  <2> QED
    BY <2>2 DEF a, Unread
<1> QED
  BY <1>1, <1>3

(* n bytes pushed are n bytes more in the buffer. *)
LEMMA PushedBits ==
    ASSUME SyncTypeOK, NEW n \in Nat, n >= 1,
           NEW bytes \in [1..(n * ByteBits) -> {0, 1}],
           Push(bytes)
    PROVE  /\ bytes \in Seq(Bits) /\ Size(bytes) = n
           /\ buffer' = Unread \o bytes
           /\ buffer' \in Seq(Bits) /\ Len(buffer') = (Buffered + n) * ByteBits
           /\ Len(buffer') % ByteBits = 0
           /\ Size(buffer') = Buffered + n
<1>1. n * ByteBits \in Nat
  BY SynchronizerAssumption
<1>2. bytes \in Seq(Bits) /\ Len(bytes) = n * ByteBits
  BY <1>1 DEF Bits
<1>3. Size(bytes) = n
  BY <1>2, WholeBytes DEF Size
<1>4. Buffered \in Nat /\ Buffered + n \in Nat
  BY Shape
<1>5. buffer' = Unread \o bytes
  BY DEF Push, Unread
<1>6. Unread \in Seq(Bits) /\ Len(Unread) = Buffered * ByteBits
  BY UnreadBits
<1>7. buffer' \in Seq(Bits) /\ Len(buffer') = Buffered * ByteBits + n * ByteBits
  <2>1. Unread \o bytes \in Seq(Bits)
    BY <1>2, <1>6
  <2>2. Len(Unread \o bytes) = Len(Unread) + Len(bytes)
    BY <1>2, <1>6
  <2> QED
    BY <2>1, <2>2, <1>2, <1>5, <1>6
<1>8. (Buffered + n) * ByteBits = Buffered * ByteBits + n * ByteBits
  BY <1>4, Scaling
<1>9. /\ ((Buffered + n) * ByteBits) % ByteBits = 0
      /\ ((Buffered + n) * ByteBits) \div ByteBits = Buffered + n
  BY <1>4, WholeBytes
<1> QED
  BY <1>2, <1>3, <1>5, <1>7, <1>8, <1>9 DEF Size

(* Where a search without a result leaves the cursor. *)
LEMMA KeptPart ==
    ASSUME SyncTypeOK, marker # <<>>
    PROVE  /\ KeptFrom \in Nat /\ cursor <= KeptFrom /\ KeptFrom <= Size(buffer)
           /\ Size(buffer) - KeptFrom <= MarkerLength
           /\ Keep \in Nat
           /\ KeptFrom > cursor => KeptFrom = Size(buffer) - Keep
<1>1. /\ Size(buffer) \in Nat /\ cursor \in Nat /\ cursor <= Size(buffer)
      /\ MarkerLength \in Nat /\ MarkerLength >= 1
  BY Shape
<1>2. Keep \in Nat /\ Keep <= MarkerLength
  BY <1>1 DEF Keep
<1> HIDE DEF Keep
<1> QED
  BY <1>1, <1>2 DEF KeptFrom

-----------------------------------------------------------------------------
LEMMA SyncInvInit == Init => SyncInv
<1> SUFFICES ASSUME Init PROVE SyncInv
  OBVIOUS
<1>1. /\ marker \in Markers /\ bitSlip \in BOOLEAN /\ buffer = <<>> /\ cursor = 0
      /\ state = Resting /\ bitOffset = 0 /\ misses = 0 /\ step = "idle"
      /\ found = 0 /\ locks = 0 /\ losses = 0 /\ frames = 0 /\ discarded = 0
      /\ slips = 0 /\ frame = <<>> /\ given = 0
  BY DEF Init
<1>2. Len(buffer) = 0 /\ buffer \in Seq(Bits) /\ frame \in Seq(Bits)
  BY <1>1
<1>3. 0 * ByteBits = 0
  BY SynchronizerAssumption
<1>4. Len(buffer) % ByteBits = 0 /\ Size(buffer) = 0
  BY <1>2, <1>3, WholeBytes DEF Size
<1>5. bitOffset \in Offsets
  BY <1>1, SynchronizerAssumption DEF Offsets
<1>6. SyncTypeOK
  BY <1>1, <1>2, <1>4, <1>5, SynchronizerAssumption DEF SyncTypeOK, Resting, Bits
<1>7. Buffered = 0 /\ MarkerLength \in Nat /\ FrameLength \in Nat
  BY <1>1, <1>4, <1>6, Shape DEF Buffered
<1> QED
  BY <1>1, <1>6, <1>7 DEF SyncInv, BytesAccounted, Resting

(* The account of a step that hands out a frame. *)
LEMMA SyncInvHandOut ==
    ASSUME SyncInv, Ready, HandOut,
           misses' \in 0..Flywheel, marker = <<>> => misses' = 0, found' \in Nat
    PROVE  SyncInv'
<1>0. SyncTypeOK
  BY DEF SyncInv, BytesAccounted
<1>1. /\ buffer' \in Seq(Bits) /\ Len(buffer') = Len(buffer)
      /\ Size(buffer') = Size(buffer)
      /\ cursor' = cursor + MarkerLength + FrameLength
      /\ cursor' \in Nat /\ cursor' <= Size(buffer)
      /\ frame' \in Seq(Bits)
  <2>1. Size(buffer) \in Nat
    BY <1>0, Shape
  <2> QED
    BY <1>0, <2>1, FrameInPlace
<1>2. /\ UNCHANGED <<marker, bitSlip, state, bitOffset, step, locks, losses, discarded,
                     slips, given>>
      /\ frames' = frames + 1
  BY DEF HandOut, builtVars
<1>3. /\ MarkerLength' = MarkerLength /\ Offsets' = Offsets
  BY <1>2 DEF MarkerLength, Offsets
<1>4. /\ Size(buffer)' = Size(buffer)
      /\ Size(buffer) \in Nat /\ MarkerLength \in Nat /\ FrameLength \in Nat
  BY <1>0, <1>1, Shape DEF Size
<1>5. SyncTypeOK'
  <2>1. (marker \in Markers /\ bitSlip \in BOOLEAN)'
    BY <1>0, <1>2 DEF SyncTypeOK
  <2>2. (state \in {"Searching", "Locked"} /\ bitOffset \in Offsets)'
    BY <1>0, <1>2, <1>3 DEF SyncTypeOK
  <2>3. buffer' \in Seq({0, 1}) /\ (Len(buffer) % ByteBits = 0)'
    BY <1>0, <1>1 DEF SyncTypeOK, Bits
  <2>4. (cursor \in 0..Size(buffer))'
    BY <1>1, <1>4
  <2>5. (step \in {"idle", "look", "done"})'
    BY <1>0, <1>2 DEF SyncTypeOK
  <2>6. (\A n \in {found, locks, losses, frames, discarded, slips, given} : n \in Nat)'
    <3>1. frames' \in Nat /\ found' \in Nat
      BY <1>0, <1>2, CountersAreNat
    <3>2. /\ locks' \in Nat /\ losses' \in Nat /\ discarded' \in Nat
          /\ slips' \in Nat /\ given' \in Nat
      BY <1>0, <1>2, CountersAreNat
    <3> QED
      BY <3>1, <3>2
  <2>7. frame' \in Seq({0, 1})
    BY <1>1 DEF Bits
  <2> QED
    BY <2>1, <2>2, <2>3, <2>4, <2>5, <2>6, <2>7 DEF SyncTypeOK
<1>6. Buffered' = Buffered - (MarkerLength + FrameLength)
  <2>1. cursor \in Nat
    BY <1>0, Shape
  <2> QED
    BY <2>1, <1>1, <1>4 DEF Buffered
<1>7. given' = discarded' + frames' * (MarkerLength' + FrameLength) + Buffered'
  <2> DEFINE m == MarkerLength + FrameLength
  <2>1. m \in Nat /\ frames \in Nat /\ Buffered \in Nat /\ discarded \in Nat
    BY <1>0, <1>4, Shape, CountersAreNat
  <2>2. given = discarded + frames * m + Buffered
    BY DEF SyncInv, BytesAccounted
  <2>3. frames' * m = frames * m + m /\ frames * m \in Nat
    BY <1>2, <2>1
  <2>4. Buffered' = Buffered - m
    BY <1>6
  <2> HIDE DEF m
  <2>5. given' = discarded' + frames' * m + Buffered'
    BY <1>2, <2>1, <2>2, <2>3, <2>4
  <2> QED
    BY <2>5, <1>3 DEF m
<1>8. step' = "look"
  BY <1>2 DEF Ready
<1> QED
  BY <1>2, <1>5, <1>7, <1>8 DEF SyncInv, BytesAccounted

(* The account of a step that moves the cursor past what it counts. *)
LEMMA SyncInvSkip ==
    ASSUME SyncInv, NEW to \in Nat, cursor <= to, to <= Size(buffer), SkipTo(to),
           UNCHANGED <<builtVars, buffer, found, losses, frames, histVars>>,
           state' \in {"Searching", "Locked"}, bitOffset' \in Offsets,
           misses' \in 0..Flywheel, marker = <<>> => misses' = 0,
           locks' \in Nat, slips' \in Nat, state' = "Searching" => marker # <<>>,
           \/ step' = "look"
           \/ step' = "done" /\ Size(buffer) - to <= MarkerLength + FrameLength
    PROVE  SyncInv'
<1>0. SyncTypeOK
  BY DEF SyncInv, BytesAccounted
<1>1. /\ UNCHANGED <<marker, bitSlip, buffer, found, losses, frames, frame, given>>
      /\ cursor' = to /\ discarded' = discarded + (to - cursor)
  BY DEF SkipTo, builtVars, histVars
<1>2. /\ MarkerLength' = MarkerLength /\ Offsets' = Offsets /\ Size(buffer)' = Size(buffer)
  BY <1>1 DEF MarkerLength, Offsets, Size
<1>3. Size(buffer) \in Nat /\ cursor \in Nat /\ Buffered \in Nat
  BY <1>0, Shape
<1>4. discarded' \in Nat /\ discarded \in Nat
  BY <1>0, <1>1, <1>3, CountersAreNat
<1>5. SyncTypeOK'
  BY <1>0, <1>1, <1>2, <1>3, <1>4 DEF SyncTypeOK
<1>6. Buffered' = Size(buffer) - to
  BY <1>1, <1>2 DEF Buffered
<1>7. given' = discarded' + frames' * (MarkerLength' + FrameLength) + Buffered'
  <2> DEFINE m == frames * (MarkerLength + FrameLength)
  <2>1. m \in Nat
    <3>1. MarkerLength \in Nat /\ FrameLength \in Nat
      BY <1>0, Shape
    <3>2. frames \in Nat
      BY <1>0, CountersAreNat
    <3> QED
      BY <3>1, <3>2
  <2>2. given = discarded + m + Buffered
    BY DEF SyncInv, BytesAccounted
  <2> HIDE DEF m
  <2>3. given = discarded' + m + Buffered'
    BY <1>1, <1>3, <1>4, <1>6, <2>1, <2>2 DEF Buffered
  <2> QED
    BY <1>1, <1>2, <2>3 DEF m
<1>8. step' \in {"done", "idle"} => Buffered' <= MarkerLength' + FrameLength
  BY <1>2, <1>6
<1>9. step' # "idle"
  OBVIOUS
<1> QED
  BY <1>1, <1>5, <1>7, <1>8, <1>9 DEF SyncInv, BytesAccounted

LEMMA SyncInvStep == SyncInv /\ [Next]_syncVars => SyncInv'
<1> SUFFICES ASSUME SyncInv, [Next]_syncVars PROVE SyncInv'
  OBVIOUS
<1>0. SyncTypeOK
  BY DEF SyncInv, BytesAccounted
<1>a. /\ Size(buffer) \in Nat /\ cursor \in Nat /\ cursor <= Size(buffer)
      /\ Buffered \in Nat /\ MarkerLength \in Nat /\ FrameLength \in Nat
  BY <1>0, Shape
<1>1. ASSUME NEW n \in 1..MaxPush, NEW bytes \in [1..(n * ByteBits) -> {0, 1}], Push(bytes)
      PROVE  SyncInv'
  <2>1. n \in Nat /\ n >= 1
    OBVIOUS
  <2>2. /\ Size(bytes) = n /\ buffer' \in Seq(Bits) /\ Len(buffer') % ByteBits = 0
        /\ Size(buffer') = Buffered + n
    BY <1>0, <1>1, <2>1, PushedBits
  <2>3. /\ step = "idle" /\ step' = "look" /\ cursor' = 0 /\ given' = Buffered + n
        /\ UNCHANGED <<marker, bitSlip, state, bitOffset, misses, found, locks, losses,
                       frames, discarded, slips, frame>>
    BY <1>1, <2>2 DEF Push, builtVars, lockVars, counterVars
  <2>4. Offsets' = Offsets /\ Size(buffer)' = Buffered + n
    BY <2>2, <2>3 DEF Offsets, Size
  <2>5. SyncTypeOK'
    BY <1>0, <1>a, <2>1, <2>2, <2>3, <2>4 DEF SyncTypeOK, Bits
  <2>6. Buffered' = Buffered + n
    BY <1>a, <2>1, <2>3, <2>4 DEF Buffered
  <2>7. frames' = 0 /\ discarded' = 0
    BY <2>3 DEF SyncInv
  <2>8. (MarkerLength + FrameLength)' \in Nat
    <3>1. MarkerLength' = MarkerLength
      BY <2>3 DEF MarkerLength
    <3> QED
      BY <3>1, <1>a
  <2>9. given' = discarded' + frames' * (MarkerLength' + FrameLength) + Buffered'
    BY <2>3, <2>6, <2>7, <2>8, <1>a, <2>1
  <2> QED
    BY <2>3, <2>5, <2>9 DEF SyncInv, BytesAccounted
<1>2. CASE Acquire
  <2>1. PICK p \in Places : IsFirst(p) /\ SkipTo(p[1]) /\ bitOffset' = p[2]
                             /\ slips' = slips + IF p[2] # 0 THEN 1 ELSE 0
    BY <1>2 DEF Acquire
  <2>2. /\ p[1] \in Nat /\ cursor <= p[1] /\ p[1] <= Size(buffer)
        /\ p[2] \in Offsets
    <3>1. /\ p[1] \in Nat /\ cursor <= p[1] /\ p[1] + MarkerLength <= Size(buffer)
          /\ p[2] \in Offsets
      BY <1>0, PlacesFit
    <3> QED
      BY <3>1, <1>a
  <2>3. /\ state' = "Locked" /\ misses' = 0 /\ locks' = locks + 1 /\ step' = "look"
        /\ marker # <<>>
        /\ UNCHANGED <<builtVars, buffer, found, losses, frames, histVars>>
    BY <1>2 DEF Acquire, SyncInv
  <2>5. locks' \in Nat /\ slips' \in Nat
    BY <1>0, <2>1, <2>3, CountersAreNat
  <2>6. misses' \in 0..Flywheel
    BY <2>3, SynchronizerAssumption
  <2>7. bitOffset' \in Offsets
    BY <2>1, <2>2
  <2> QED
    BY <2>1, <2>2, <2>3, <2>5, <2>6, <2>7, SyncInvSkip
<1>3. CASE SearchEnds
  <2>1. /\ state = "Searching" /\ marker # <<>> /\ SkipTo(KeptFrom) /\ step' = "done"
        /\ UNCHANGED <<builtVars, lockVars, buffer, found, locks, losses, frames, slips,
                       histVars>>
    BY <1>3 DEF SearchEnds, SyncInv
  <2>2. /\ KeptFrom \in Nat /\ cursor <= KeptFrom /\ KeptFrom <= Size(buffer)
        /\ Size(buffer) - KeptFrom <= MarkerLength
    BY <1>0, <2>1, KeptPart
  <2>3. Size(buffer) - KeptFrom <= MarkerLength + FrameLength
    BY <2>2, <1>a
  <2>4. UNCHANGED <<state, bitOffset, misses>>
    BY <2>1 DEF lockVars
  <2>5. /\ state' = "Searching" /\ bitOffset' \in Offsets /\ misses' \in 0..Flywheel
        /\ locks' \in Nat /\ slips' \in Nat
    BY <1>0, <2>1, <2>4, CountersAreNat DEF SyncTypeOK
  <2>6. UNCHANGED <<builtVars, buffer, found, losses, frames, histVars>>
    BY <2>1, <2>4
  <2>7. KeptFrom \in Nat /\ SkipTo(KeptFrom)
    BY <2>1, <2>2
  <2> HIDE DEF KeptFrom
  <2> QED
    BY <2>1, <2>2, <2>3, <2>5, <2>6, <2>7, SyncInvSkip
<1>4. CASE WaitForMore
  <2>1. /\ step' = "done" /\ Buffered < Needed
        /\ UNCHANGED <<marker, bitSlip, state, bitOffset, misses, buffer, cursor, found,
                       locks, losses, frames, discarded, slips, frame, given>>
    BY <1>4 DEF WaitForMore, builtVars, lockVars, counterVars, histVars
  <2>2. Buffered <= MarkerLength + FrameLength
    BY <2>1, <1>a DEF Needed
  <2>3. Offsets' = Offsets /\ MarkerLength' = MarkerLength /\ Size(buffer)' = Size(buffer)
        /\ Buffered' = Buffered
    BY <2>1 DEF Offsets, MarkerLength, Size, Buffered
  <2>4. SyncTypeOK'
    BY <1>0, <2>1, <2>3 DEF SyncTypeOK
  <2> QED
    BY <2>1, <2>2, <2>3, <2>4 DEF SyncInv, BytesAccounted
<1>5. CASE CutUnmarked
  <2>1. Ready /\ HandOut /\ misses' = misses /\ found' = found /\ marker = <<>>
    BY <1>5 DEF CutUnmarked
  <2>2. misses' \in 0..Flywheel /\ found' \in Nat /\ misses' = 0
    BY <1>0, <2>1, CountersAreNat DEF SyncTypeOK, SyncInv
  <2> QED
    BY <2>1, <2>2, SyncInvHandOut
<1>6. CASE CutMarked
  <2>1. Ready /\ HandOut /\ misses' = 0 /\ found' = found + 1
    BY <1>6 DEF CutMarked
  <2>2. misses' \in 0..Flywheel /\ found' \in Nat
    BY <1>0, <2>1, CountersAreNat, SynchronizerAssumption
  <2> QED
    BY <2>1, <2>2, SyncInvHandOut
<1>7. CASE CutBlind
  <2>1. Ready /\ HandOut /\ marker # <<>> /\ misses' = misses + 1 /\ found' = found
        /\ misses + 1 <= Flywheel
    BY <1>7 DEF CutBlind, Tolerated
  <2>2. misses' \in 0..Flywheel /\ found' \in Nat
    BY <1>0, <2>1, CountersAreNat, SynchronizerAssumption DEF SyncTypeOK
  <2> QED
    BY <2>1, <2>2, SyncInvHandOut
<1>8. CASE LoseLock
  <2>1. /\ marker # <<>> /\ step = "look" /\ state' = "Searching" /\ misses' = 0
        /\ bitOffset' = 0 /\ losses' = losses + 1
        /\ UNCHANGED <<marker, bitSlip, buffer, cursor, step, found, locks, frames,
                       discarded, slips, frame, given>>
    BY <1>8 DEF LoseLock, Ready, builtVars, histVars
  <2>2. Offsets' = Offsets /\ MarkerLength' = MarkerLength /\ Size(buffer)' = Size(buffer)
        /\ Buffered' = Buffered
    BY <2>1 DEF Offsets, MarkerLength, Size, Buffered
  <2>3. 0 \in Offsets /\ 0 \in 0..Flywheel
    BY SynchronizerAssumption DEF Offsets
  <2>4. losses' \in Nat
    BY <1>0, <2>1, CountersAreNat
  <2>5. SyncTypeOK'
    BY <1>0, <2>1, <2>2, <2>3, <2>4 DEF SyncTypeOK
  <2> QED
    BY <2>1, <2>2, <2>5 DEF SyncInv, BytesAccounted
<1>9. CASE TakeCounters
  <2>1. /\ step = "done" /\ step' = "idle" /\ given' = Buffered
        /\ found' = 0 /\ locks' = 0 /\ losses' = 0 /\ frames' = 0 /\ discarded' = 0
        /\ slips' = 0
        /\ UNCHANGED <<marker, bitSlip, state, bitOffset, misses, buffer, cursor, frame>>
    BY <1>9 DEF TakeCounters, builtVars, lockVars
  <2>2. Offsets' = Offsets /\ MarkerLength' = MarkerLength /\ Size(buffer)' = Size(buffer)
        /\ Buffered' = Buffered
    BY <2>1 DEF Offsets, MarkerLength, Size, Buffered
  <2>3. SyncTypeOK'
    BY <1>0, <1>a, <2>1, <2>2 DEF SyncTypeOK
  <2>4. given' = discarded' + frames' * (MarkerLength' + FrameLength) + Buffered'
    BY <1>a, <2>1, <2>2
  <2> QED
    BY <2>1, <2>2, <2>3, <2>4 DEF SyncInv, BytesAccounted
<1>10. CASE Reset
  <2>1. /\ step = "idle" /\ buffer' = <<>> /\ cursor' = 0 /\ misses' = 0 /\ bitOffset' = 0
        /\ state' = Resting /\ given' = 0
        /\ UNCHANGED <<marker, bitSlip, step, found, locks, losses, frames, discarded,
                       slips, frame>>
    BY <1>10 DEF Reset, builtVars, counterVars
  <2>2. Len(<<>>) = 0 /\ <<>> \in Seq(Bits)
    OBVIOUS
  <2>3. Len(<<>>) % ByteBits = 0 /\ Size(<<>>) = 0
    <3>1. 0 * ByteBits = 0
      BY SynchronizerAssumption
    <3> QED
      BY <2>2, <3>1, WholeBytes DEF Size
  <2>4. Offsets' = Offsets /\ MarkerLength' = MarkerLength /\ Size(buffer)' = 0
    BY <2>1, <2>3 DEF Offsets, MarkerLength, Size
  <2>5. 0 \in Offsets /\ 0 \in 0..Flywheel
    BY SynchronizerAssumption DEF Offsets
  <2>6. SyncTypeOK'
    BY <1>0, <2>1, <2>2, <2>3, <2>4, <2>5 DEF SyncTypeOK, Resting, Bits
  <2>7. Buffered' = 0
    BY <2>1, <2>4 DEF Buffered
  <2>8. frames' = 0 /\ discarded' = 0
    BY <2>1 DEF SyncInv
  <2>9. given' = discarded' + frames' * (MarkerLength' + FrameLength) + Buffered'
    BY <1>a, <2>1, <2>4, <2>7, <2>8
  <2>10. Buffered' <= MarkerLength' + FrameLength
    BY <1>a, <2>4, <2>7
  <2> QED
    BY <2>1, <2>6, <2>8, <2>9, <2>10 DEF SyncInv, BytesAccounted, Resting
<1>11. CASE UNCHANGED syncVars
  <2>1. UNCHANGED <<marker, bitSlip, state, bitOffset, misses, buffer, cursor, step, found,
                    locks, losses, frames, discarded, slips, frame, given>>
    BY <1>11 DEF syncVars, builtVars, lockVars, counterVars, histVars
  <2>2. Offsets' = Offsets /\ MarkerLength' = MarkerLength /\ Size(buffer)' = Size(buffer)
        /\ Buffered' = Buffered
    BY <2>1 DEF Offsets, MarkerLength, Size, Buffered
  <2>3. SyncTypeOK'
    BY <1>0, <2>1, <2>2 DEF SyncTypeOK
  <2> QED
    BY <2>1, <2>2, <2>3 DEF SyncInv, BytesAccounted
<1> QED
  BY <1>1, <1>2, <1>3, <1>4, <1>5, <1>6, <1>7, <1>8, <1>9, <1>10, <1>11 DEF Next

(***************************************************************************)
(* The invariant the other two rest on holds of every behaviour: beside the *)
(* account, a search has a marker to look for, a stream without one misses  *)
(* none, and nothing is counted before bytes are pushed.                    *)
(***************************************************************************)
THEOREM SyncInvariant == Spec => []SyncInv
  BY SyncInvInit, SyncInvStep, PTL DEF Spec

(***************************************************************************)
(* Every byte pushed into the synchroniser is in a frame handed out, in the *)
(* marker before one, counted as discarded or still buffered, and what is   *)
(* held between pushes never exceeds a marker and a frame, for every        *)
(* marker, frame length, flywheel and size of push (sync.rs).               *)
(***************************************************************************)
THEOREM BytesAreAccounted == Spec => []BytesAccounted
<1>1. SyncInv => BytesAccounted
  BY DEF SyncInv
<1> QED
  BY <1>1, SyncInvariant, PTL
-----------------------------------------------------------------------------
(***************************************************************************)
(* The synchroniser implements FrameStream.  The unread part of the buffer  *)
(* is what the stream has pending, so a place i bytes into the stream is    *)
(* cursor + i bytes into the buffer.                                        *)
(***************************************************************************)
LEMMA SameWords ==
    /\ Stream!MarkerLength = MarkerLength
    /\ Stream!Offsets = Offsets
    /\ \A i, bit : Stream!Seen(i, bit) <=> i * ByteBits + bit + Len(marker) <= Len(Unread)
    /\ \A i, bit : Stream!MarkerIs(i, bit) <=>
          /\ i * ByteBits + bit + Len(marker) <= Len(Unread)
          /\ SubSeq(Unread, i * ByteBits + bit + 1, i * ByteBits + bit + MarkerLength * ByteBits)
               = marker
    /\ \A k : Stream!NoneBefore(k) <=>
          \A i \in 0..(k - 1), bit \in Offsets : Stream!Seen(i, bit) /\ ~Stream!MarkerIs(i, bit)
  BY DEF Stream!MarkerLength, Stream!Offsets, Stream!Seen, Stream!MarkerIs, Stream!BitsAt,
         Stream!NoneBefore, MarkerLength, Offsets, Unread

(* Bits of the stream are bits of the buffer. *)
LEMMA UnreadAt ==
    ASSUME SyncTypeOK, NEW i \in Nat, NEW bit \in 0..(ByteBits - 1), NEW n \in Nat,
           cursor + i + n + (IF bit = 0 THEN 0 ELSE 1) <= Size(buffer)
    PROVE  /\ i * ByteBits + bit + n * ByteBits <= Len(Unread)
           /\ SubSeq(Unread, i * ByteBits + bit + 1, i * ByteBits + bit + n * ByteBits)
                = BitsAt(cursor + i, bit, n)
<1> DEFINE c == cursor * ByteBits
           j == i * ByteBits + bit
           m == n * ByteBits
<1>1. /\ cursor \in Nat /\ buffer \in Seq(Bits) /\ ByteBits \in Nat /\ bit \in Nat
      /\ Size(buffer) \in Nat /\ bit < ByteBits
  BY Shape
<1>2. c \in Nat /\ c <= Len(buffer) /\ Len(buffer) \in Nat
  BY <1>1, UnreadBits
<1>3. i * ByteBits \in Nat /\ j \in Nat /\ m \in Nat
  BY <1>1
<1>4. c + j + m <= Len(buffer)
  <2> DEFINE e == cursor + i + n
  <2>1. e \in Nat /\ e + (IF bit = 0 THEN 0 ELSE 1) <= Size(buffer)
    BY <1>1
  <2>2. e * ByteBits = c + i * ByteBits + m
    BY <1>1
  <2> HIDE DEF e, c, m
  <2>3. c + j + m = e * ByteBits + bit
    BY <1>1, <1>2, <1>3, <2>2
  <2>4. e * ByteBits + bit <= Size(buffer) * ByteBits
    <3>1. CASE bit = 0
      <4>1. e \in Int /\ Size(buffer) \in Int /\ e <= Size(buffer)
        BY <3>1, <1>1, <2>1
      <4>2. e * ByteBits <= Size(buffer) * ByteBits /\ e * ByteBits \in Int
        BY <4>1, Scaling
      <4> QED
        BY <4>2, <3>1
    <3>2. CASE bit # 0
      <4> DEFINE f == e + 1
      <4>1. f \in Int /\ Size(buffer) \in Int /\ f <= Size(buffer)
        BY <3>2, <1>1, <2>1
      <4>2. f * ByteBits = e * ByteBits + ByteBits /\ e * ByteBits \in Nat
        BY <1>1, <2>1
      <4> HIDE DEF f
      <4>3. f * ByteBits <= Size(buffer) * ByteBits /\ Size(buffer) * ByteBits \in Int
        BY <4>1, Scaling
      <4> QED
        BY <4>2, <4>3, <1>1
    <3> QED
      BY <3>1, <3>2
  <2> QED
    BY <2>3, <2>4, ShapeBits
<1>5. c \in 0..Len(buffer)
  BY <1>2
<1>6. cursor * ByteBits + i * ByteBits = (cursor + i) * ByteBits
  BY <1>1
<1> HIDE DEF c, j, m
<1>7. /\ Len(SubSeq(buffer, c + 1, Len(buffer))) = Len(buffer) - c
      /\ SubSeq(SubSeq(buffer, c + 1, Len(buffer)), j + 1, j + m)
           = SubSeq(buffer, c + j + 1, c + j + m)
  BY <1>1, <1>3, <1>4, <1>5, PartOfRest
<1>8. Unread = SubSeq(buffer, c + 1, Len(buffer))
  BY DEF Unread, c
<1>9. j + m <= Len(Unread)
  BY <1>2, <1>3, <1>4, <1>7, <1>8
<1>10. SubSeq(Unread, j + 1, j + m) = SubSeq(buffer, c + j + 1, c + j + m)
  BY <1>7, <1>8
<1>11. c + j = (cursor + i) * ByteBits + bit
  BY <1>1, <1>2, <1>3, <1>6 DEF c, j
<1>12. SubSeq(buffer, c + j + 1, c + j + m) = BitsAt(cursor + i, bit, n)
  BY <1>11 DEF BitsAt, m
<1> QED
  BY <1>9, <1>10, <1>12 DEF j, m

(* What follows i bytes of the stream. *)
LEMMA UnreadBeyond ==
    ASSUME SyncTypeOK, NEW i \in Nat, cursor + i <= Size(buffer)
    PROVE  /\ Stream!Beyond(Unread, i)
                = SubSeq(buffer, (cursor + i) * ByteBits + 1, Len(buffer))
           /\ i <= Len(Unread) \div ByteBits
<1> DEFINE c == cursor * ByteBits
           j == i * ByteBits
<1>1. /\ cursor \in Nat /\ buffer \in Seq(Bits) /\ ByteBits \in Nat /\ Size(buffer) \in Nat
      /\ Buffered \in Nat /\ i <= Buffered
  <2>1. /\ cursor \in Nat /\ buffer \in Seq(Bits) /\ ByteBits \in Nat /\ Size(buffer) \in Nat
        /\ Buffered \in Nat
    BY Shape
  <2> QED
    BY <2>1 DEF Buffered
<1>2. c \in Nat /\ c <= Len(buffer) /\ Len(buffer) \in Nat /\ Len(Unread) = Buffered * ByteBits
  BY <1>1, UnreadBits
<1>3. j \in Nat
  BY <1>1
<1>4. (cursor + i) * ByteBits = c + j
  BY <1>1
<1>5. c + j <= Len(buffer)
  <2>1. cursor + i \in Int /\ Size(buffer) \in Int
    BY <1>1
  <2>2. (cursor + i) * ByteBits <= Size(buffer) * ByteBits
    <3> DEFINE e == cursor + i
    <3>1. e \in Int /\ e <= Size(buffer)
      BY <2>1
    <3> HIDE DEF e
    <3>2. e * ByteBits <= Size(buffer) * ByteBits
      BY <2>1, <3>1, Scaling
    <3> QED
      BY <3>2 DEF e
  <2> QED
    BY <2>2, <1>4, ShapeBits
<1>6. Len(Unread) \div ByteBits = Buffered
  BY <1>1, <1>2, WholeBytes
<1>7. c \in 0..Len(buffer) /\ 0 \in Nat /\ c + j + 0 <= Len(buffer)
  BY <1>2, <1>3, <1>5
<1> HIDE DEF c, j
<1>8. SubSeq(SubSeq(buffer, c + 1, Len(buffer)), j + 1, Len(SubSeq(buffer, c + 1, Len(buffer))))
        = SubSeq(buffer, c + j + 1, Len(buffer))
  BY <1>1, <1>3, <1>7, PartOfRest
<1>9. Unread = SubSeq(buffer, c + 1, Len(buffer))
  BY DEF Unread, c
<1>10. Stream!Beyond(Unread, i) = SubSeq(Unread, j + 1, Len(Unread))
  BY DEF Stream!Beyond, j
<1> QED
  BY <1>1, <1>4, <1>6, <1>8, <1>9, <1>10

LEMMA OffsetBits ==
    ASSUME NEW bit \in Offsets
    PROVE  bit \in Nat /\ bit < ByteBits /\ bit \in 0..(ByteBits - 1)
  BY SynchronizerAssumption DEF Offsets

(* A marker begins in the stream where one begins in the buffer, and the    *)
(* byte a slipped marker straddles is there when all of its bits are.       *)
LEMMA MarkerThere ==
    ASSUME SyncTypeOK, NEW i \in Nat, NEW bit \in Offsets
    PROVE  /\ Stream!Seen(i, bit) <=>
                cursor + i + MarkerLength + (IF bit = 0 THEN 0 ELSE 1) <= Size(buffer)
           /\ Stream!MarkerIs(i, bit) <=> MarkerAt(cursor + i, bit)
<1> DEFINE e == i + MarkerLength
<1>1. /\ cursor \in Nat /\ ByteBits \in Nat /\ Size(buffer) \in Nat /\ Buffered \in Nat
      /\ MarkerLength \in Nat /\ Buffered = Size(buffer) - cursor
  BY Shape DEF Buffered
<1>2. bit \in Nat /\ bit < ByteBits /\ bit \in 0..(ByteBits - 1)
  BY OffsetBits
<1>3. Len(marker) = MarkerLength * ByteBits /\ Len(Unread) = Buffered * ByteBits
  BY ShapeBits, UnreadBits
<1>4. i * ByteBits + bit + Len(marker) = e * ByteBits + bit
      /\ e * ByteBits \in Nat /\ Buffered * ByteBits \in Nat
  <2>1. e * ByteBits = i * ByteBits + MarkerLength * ByteBits
    BY <1>1
  <2>2. i * ByteBits \in Nat /\ MarkerLength * ByteBits \in Nat /\ Buffered * ByteBits \in Nat
    BY <1>1
  <2> HIDE DEF e
  <2> QED
    BY <1>2, <1>3, <2>1, <2>2
<1>5. Stream!Seen(i, bit) <=> e * ByteBits + bit <= Buffered * ByteBits
  BY <1>3, <1>4, SameWords
<1>6. e \in Nat
  BY <1>1
<1> HIDE DEF e
<1>7. e * ByteBits + bit <= Buffered * ByteBits <=> e + (IF bit = 0 THEN 0 ELSE 1) <= Buffered
  <2>1. /\ e <= Buffered <=> e * ByteBits <= Buffered * ByteBits
        /\ e < Buffered <=> e * ByteBits < Buffered * ByteBits
    <3>1. e \in Int /\ Buffered \in Int
      BY <1>1, <1>6
    <3> QED
      BY <3>1, Scaling
  <2>2. CASE bit = 0
    BY <1>1, <1>4, <1>6, <2>1, <2>2
  <2>3. CASE bit # 0
    <3>1. ASSUME e * ByteBits + bit <= Buffered * ByteBits PROVE e + 1 <= Buffered
      BY <1>1, <1>2, <1>4, <1>6, <2>1, <2>3, <3>1
    <3>2. ASSUME e + 1 <= Buffered PROVE e * ByteBits + bit <= Buffered * ByteBits
      <4> DEFINE f == e + 1
      <4>1. f * ByteBits = e * ByteBits + ByteBits /\ f \in Int
        BY <1>1, <1>6
      <4> HIDE DEF f
      <4>2. f <= Buffered
        BY <3>2 DEF f
      <4>3. f * ByteBits <= Buffered * ByteBits
        BY <1>1, <4>1, <4>2, Scaling
      <4> QED
        BY <1>1, <1>2, <1>4, <4>1, <4>3
    <3> QED
      BY <3>1, <3>2, <2>3
  <2> QED
    BY <2>2, <2>3
<1>8. Stream!Seen(i, bit) <=>
        cursor + i + MarkerLength + (IF bit = 0 THEN 0 ELSE 1) <= Size(buffer)
  BY <1>1, <1>5, <1>7 DEF e
<1>9. Stream!Seen(i, bit) =>
        SubSeq(Unread, i * ByteBits + bit + 1, i * ByteBits + bit + MarkerLength * ByteBits)
          = BitsAt(cursor + i, bit, MarkerLength)
  BY <1>1, <1>2, <1>8, UnreadAt
<1>10. Stream!MarkerIs(i, bit) <=> Stream!Seen(i, bit) /\
        SubSeq(Unread, i * ByteBits + bit + 1, i * ByteBits + bit + MarkerLength * ByteBits)
          = marker
  BY SameWords
<1> QED
  BY <1>8, <1>9, <1>10 DEF MarkerAt

(* A place before which none was found has no marker of the stream before   *)
(* it, and all the bits of one were there to be compared.                   *)
LEMMA NoneFoundBefore ==
    ASSUME SyncTypeOK, NEW k \in Nat,
           cursor + k + MarkerLength + (IF bitSlip THEN 1 ELSE 0) - 1 <= Size(buffer),
           \A i \in 0..(k - 1), bit \in Offsets : <<cursor + i, bit>> \notin Places
    PROVE  Stream!NoneBefore(k)
<1>1. SUFFICES ASSUME NEW i \in 0..(k - 1), NEW bit \in Offsets
               PROVE  Stream!Seen(i, bit) /\ ~Stream!MarkerIs(i, bit)
  BY SameWords
<1>2. /\ cursor \in Nat /\ Size(buffer) \in Nat /\ MarkerLength \in Nat /\ i \in Nat
      /\ bitSlip \in BOOLEAN
  BY Shape DEF SyncTypeOK
<1>3. bit = 0 \/ bitSlip
  BY DEF Offsets
<1>4. cursor + i + MarkerLength + (IF bit = 0 THEN 0 ELSE 1) <= Size(buffer)
  BY <1>2, <1>3
<1>5. cursor + i \in cursor..(Size(buffer) - MarkerLength)
  BY <1>2, <1>4
<1>6. ~MarkerAt(cursor + i, bit)
  <2> DEFINE p == <<cursor + i, bit>>
  <2>1. p \in (cursor..(Size(buffer) - MarkerLength)) \X Offsets
    BY <1>5
  <2>2. p \notin Places
    OBVIOUS
  <2>3. p[1] = cursor + i /\ p[2] = bit
    OBVIOUS
  <2> HIDE DEF p
  <2>4. ~MarkerAt(p[1], p[2])
    BY <2>1, <2>2 DEF Places
  <2> QED
    BY <2>3, <2>4
<1> QED
  BY <1>2, <1>4, <1>6, MarkerThere

LEMMA StreamStart == Init => Stream!StreamInit
<1> SUFFICES ASSUME Init PROVE Stream!StreamInit
  OBVIOUS
<1>1. SyncTypeOK
  BY SyncInvInit DEF SyncInv, BytesAccounted
<1>2. /\ marker \in Markers /\ bitSlip \in BOOLEAN /\ buffer = <<>> /\ cursor = 0
      /\ state = Resting /\ bitOffset = 0 /\ misses = 0 /\ frame = <<>>
  BY DEF Init
<1>3. Unread = <<>>
  BY <1>2, SynchronizerAssumption DEF Unread
<1>4. (state = "Locked") = (marker = <<>>)
  BY <1>2 DEF Resting
<1> QED
  BY <1>2, <1>3, <1>4 DEF Stream!StreamInit, Unread

LEMMA PushArrives ==
    ASSUME SyncInv, NEW n \in Nat, n >= 1,
           NEW bytes \in [1..(n * ByteBits) -> {0, 1}], Push(bytes)
    PROVE  Stream!Arrive
<1>0. SyncTypeOK
  BY DEF SyncInv, BytesAccounted
<1>1. /\ bytes \in Seq(Bits) /\ buffer' = Unread \o bytes /\ buffer' \in Seq(Bits)
  BY <1>0, PushedBits
<1>2. Unread \in Seq(Bits)
  BY <1>0, UnreadBits
<1>3. /\ cursor' = 0
      /\ UNCHANGED <<marker, bitSlip, state, bitOffset, misses, frame>>
  BY DEF Push, builtVars, lockVars
<1>4. Unread' = buffer'
  <2>1. Unread' = SubSeq(buffer', 0 * ByteBits + 1, Len(buffer'))
    BY <1>3 DEF Unread
  <2>2. 0 * ByteBits + 1 = 1
    BY SynchronizerAssumption
  <2>3. SubSeq(buffer', 1, Len(buffer')) = buffer'
    BY <1>1
  <2> QED
    BY <2>1, <2>2, <2>3
<1>5. /\ Len(Unread \o bytes) >= Len(Unread)
      /\ SubSeq(Unread \o bytes, 1, Len(Unread)) = Unread
  <2> DEFINE u == Unread
             w == SubSeq(u \o bytes, 1, Len(u))
  <2>1. u \in Seq(Bits) /\ bytes \in Seq(Bits)
    BY <1>1, <1>2
  <2> HIDE DEF u
  <2>2. /\ u \o bytes \in Seq(Bits) /\ Len(u \o bytes) = Len(u) + Len(bytes)
        /\ \A k \in 1..Len(u) : (u \o bytes)[k] = u[k]
    BY <2>1
  <2>3. Len(u) \in Nat /\ Len(u \o bytes) >= Len(u)
    BY <2>1, <2>2
  <2>4. w \in Seq(Bits) /\ Len(w) = Len(u) /\ \A k \in 1..Len(u) : w[k] = u[k]
    BY <2>2, <2>3
  <2>5. w = u
    BY <2>1, <2>4, SeqEqual
  <2> QED
    BY <2>3, <2>5 DEF u
<1>6. /\ Len(Unread') >= Len(Unread)
      /\ SubSeq(Unread', 1, Len(Unread)) = Unread
  BY <1>1, <1>4, <1>5
<1> QED
  BY <1>3, <1>6 DEF Stream!Arrive, Unread

(* The cursor moved i bytes on, and nothing else in the buffer. *)
LEMMA UnreadMoved ==
    ASSUME SyncTypeOK, NEW i \in Nat, cursor + i <= Size(buffer),
           cursor' = cursor + i, buffer' = buffer
    PROVE  Unread' = Stream!Beyond(Unread, i) /\ i <= Len(Unread) \div ByteBits
<1>1. Unread' = SubSeq(buffer, (cursor + i) * ByteBits + 1, Len(buffer))
  BY DEF Unread
<1> QED
  BY <1>1, UnreadBeyond

LEMMA SearchPassesOver ==
    ASSUME SyncInv, SearchEnds
    PROVE  Stream!PassOver \/ UNCHANGED Stream!streamVars
<1>0. SyncTypeOK
  BY DEF SyncInv, BytesAccounted
<1>1. /\ state = "Searching" /\ marker # <<>> /\ Places = {} /\ cursor' = KeptFrom
      /\ UNCHANGED <<marker, bitSlip, state, bitOffset, misses, buffer, frame>>
  BY DEF SearchEnds, SyncInv, SkipTo, builtVars, lockVars, histVars
<1>2. /\ KeptFrom \in Nat /\ cursor <= KeptFrom /\ KeptFrom <= Size(buffer)
      /\ KeptFrom > cursor => KeptFrom = Size(buffer) - Keep
  BY <1>0, <1>1, KeptPart
<1>3. Size(buffer) \in Nat /\ cursor \in Nat /\ MarkerLength \in Nat
  BY <1>0, Shape
<1>4. CASE KeptFrom = cursor
  <2>1. Unread' = Unread
    BY <1>1, <1>4 DEF Unread
  <2> QED
    BY <1>1, <2>1 DEF Stream!streamVars, Unread
<1>5. CASE KeptFrom # cursor
  <2> DEFINE k == KeptFrom - cursor
  <2>1. k \in Nat /\ k >= 1 /\ cursor + k = KeptFrom /\ KeptFrom = Size(buffer) - Keep
    BY <1>2, <1>3, <1>5
  <2> HIDE DEF k
  <2>2. /\ Unread' = Stream!Beyond(Unread, k) /\ k <= Len(Unread) \div ByteBits
    BY <1>0, <1>1, <1>2, <2>1, UnreadMoved
  <2>3. Len(Unread) \div ByteBits \in Nat
    <3>1. Len(Unread) \in Nat
      BY <1>0, UnreadBits
    <3> QED
      BY <3>1, WholeBytes
  <2>4. Stream!NoneBefore(k)
    <3>1. cursor + k + MarkerLength + (IF bitSlip THEN 1 ELSE 0) - 1 <= Size(buffer)
      BY <1>3, <2>1 DEF Keep
    <3>2. \A i \in 0..(k - 1), bit \in Offsets : <<cursor + i, bit>> \notin Places
      BY <1>1
    <3> QED
      BY <1>0, <2>1, <3>1, <3>2, NoneFoundBefore
  <2>5. k \in 1..(Len(Unread) \div ByteBits)
    BY <2>1, <2>2, <2>3
  <2>6. Stream!PassOver
    BY <1>1, <2>2, <2>4, <2>5 DEF Stream!PassOver, Unread
  <2> QED
    BY <2>6
<1> QED
  BY <1>4, <1>5

LEMMA AcquireLocks ==
    ASSUME SyncInv, Acquire
    PROVE  Stream!Lock
<1>0. SyncTypeOK
  BY DEF SyncInv, BytesAccounted
<1>1. PICK p \in Places : IsFirst(p) /\ cursor' = p[1] /\ bitOffset' = p[2]
  BY DEF Acquire, SkipTo
<1>2. /\ state = "Searching" /\ state' = "Locked" /\ misses' = 0
      /\ UNCHANGED <<marker, bitSlip, buffer, frame>>
  BY DEF Acquire, builtVars, histVars
<1>3. /\ p[1] \in Nat /\ cursor <= p[1] /\ p[1] + MarkerLength <= Size(buffer)
      /\ p[2] \in Offsets /\ MarkerAt(p[1], p[2])
  BY <1>0, PlacesFit
<1>4. Size(buffer) \in Nat /\ cursor \in Nat /\ MarkerLength \in Nat
  BY <1>0, Shape
<1> DEFINE k == p[1] - cursor
<1>5. k \in Nat /\ cursor + k = p[1] /\ cursor + k <= Size(buffer)
  BY <1>3, <1>4
<1> HIDE DEF k
<1>6. /\ Unread' = Stream!Beyond(Unread, k) /\ k <= Len(Unread) \div ByteBits
  BY <1>0, <1>1, <1>2, <1>5, UnreadMoved
<1>7. Len(Unread) \div ByteBits \in Nat
  <2>1. Len(Unread) \in Nat
    BY <1>0, UnreadBits
  <2> QED
    BY <2>1, WholeBytes
<1>8. Stream!MarkerIs(k, p[2])
  BY <1>0, <1>3, <1>5, MarkerThere
<1>9. ASSUME NEW i \in Nat, NEW bit \in Offsets, i < k \/ (i = k /\ bit < p[2]),
             <<cursor + i, bit>> \in Places
      PROVE  FALSE
  <2> DEFINE q == <<cursor + i, bit>>
  <2>1. q[1] = cursor + i /\ q[2] = bit
    OBVIOUS
  <2>2. q \in Places
    BY <1>9
  <2> HIDE DEF q
  <2>3. p[1] < q[1] \/ (p[1] = q[1] /\ p[2] <= q[2])
    BY <1>1, <2>2 DEF IsFirst
  <2>4. bit \in Nat /\ p[2] \in Nat
    BY <1>3, OffsetBits
  <2> QED
    BY <1>4, <1>5, <1>9, <2>1, <2>3, <2>4
<1>10. Stream!NoneBefore(k)
  <2>1. cursor + k + MarkerLength + (IF bitSlip THEN 1 ELSE 0) - 1 <= Size(buffer)
    BY <1>3, <1>4, <1>5
  <2>2. \A i \in 0..(k - 1), bit \in Offsets : <<cursor + i, bit>> \notin Places
    BY <1>5, <1>9
  <2> QED
    BY <1>0, <1>5, <2>1, <2>2, NoneFoundBefore
<1>11. ASSUME NEW b \in Offsets, b < p[2] PROVE ~Stream!MarkerIs(k, b)
  <2>1. <<p[1], b>> \notin Places
    BY <1>5, <1>9, <1>11
  <2>2. <<p[1], b>> \in (cursor..(Size(buffer) - MarkerLength)) \X Offsets
    BY <1>3, <1>4
  <2>3. ~MarkerAt(p[1], b)
    <3> DEFINE q == <<p[1], b>>
    <3>1. q[1] = p[1] /\ q[2] = b /\ q \notin Places
          /\ q \in (cursor..(Size(buffer) - MarkerLength)) \X Offsets
      BY <2>1, <2>2
    <3> HIDE DEF q
    <3>2. ~MarkerAt(q[1], q[2])
      BY <3>1 DEF Places
    <3> QED
      BY <3>1, <3>2
  <2> QED
    BY <1>0, <1>5, <2>3, MarkerThere
<1>12. k \in 0..(Len(Unread) \div ByteBits)
  BY <1>5, <1>6, <1>7
<1>13. p[2] \in Stream!Offsets /\ Stream!Offsets = Offsets
  BY <1>3, SameWords
<1> QED
  BY <1>1, <1>2, <1>6, <1>8, <1>10, <1>11, <1>12, <1>13 DEF Stream!Lock, Unread

(* In lock, a frame that is there in bytes is there in bits. *)
LEMMA ReadyIsWhole ==
    ASSUME SyncTypeOK, Ready
    PROVE  Stream!Whole
<1>1. /\ cursor \in Nat /\ Size(buffer) \in Nat /\ MarkerLength \in Nat /\ FrameLength \in Nat
      /\ bitOffset \in 0..(ByteBits - 1) /\ ByteBits \in Nat /\ bitOffset \in Nat
  BY Shape
<1> DEFINE n == MarkerLength + FrameLength
<1>2. /\ n \in Nat
      /\ cursor + 0 + n + (IF bitOffset = 0 THEN 0 ELSE 1) <= Size(buffer)
  BY <1>1 DEF Ready, Needed, Buffered
<1> HIDE DEF n
<1>3. 0 * ByteBits + bitOffset + n * ByteBits <= Len(Unread)
  BY <1>1, <1>2, UnreadAt
<1>4. 0 * ByteBits = 0 /\ n * ByteBits \in Nat
  BY <1>1, <1>2
<1>5. Len(Unread) \in Nat
  BY UnreadBits
<1>6. Len(Unread) >= n * ByteBits + bitOffset
  BY <1>1, <1>3, <1>4, <1>5
<1> QED
  BY <1>6, SameWords DEF Stream!Whole, Unread, n

LEMMA HandOutCuts ==
    ASSUME SyncInv, Ready, HandOut,
           misses' = IF marker = <<>> \/ MarkerAt(cursor, bitOffset) THEN 0 ELSE misses + 1,
           misses' <= Flywheel
    PROVE  Stream!Cut
<1>0. SyncTypeOK
  BY DEF SyncInv, BytesAccounted
<1>1. /\ Len(buffer') = Len(buffer)
      /\ cursor' = cursor + MarkerLength + FrameLength
      /\ cursor' \in Nat /\ cursor' + (IF bitOffset = 0 THEN 0 ELSE 1) <= Size(buffer)
      /\ frame' = BitsAt(cursor + MarkerLength, bitOffset, FrameLength)
      /\ SubSeq(buffer', cursor' * ByteBits + 1, Len(buffer'))
           = SubSeq(buffer, cursor' * ByteBits + 1, Len(buffer))
  BY <1>0, FrameInPlace
<1>2. state = "Locked" /\ UNCHANGED <<marker, bitSlip, state, bitOffset>>
  BY DEF Ready, HandOut, builtVars
<1>3. /\ cursor \in Nat /\ Size(buffer) \in Nat /\ MarkerLength \in Nat /\ FrameLength \in Nat
      /\ bitOffset \in 0..(ByteBits - 1) /\ ByteBits \in Nat /\ bitOffset \in Offsets
  <2>1. /\ cursor \in Nat /\ Size(buffer) \in Nat /\ MarkerLength \in Nat /\ FrameLength \in Nat
        /\ bitOffset \in Nat /\ bitOffset < ByteBits /\ ByteBits \in Nat
    BY <1>0, Shape
  <2>2. bitOffset \in Offsets
    BY <1>0 DEF SyncTypeOK
  <2>3. bitOffset \in 0..(ByteBits - 1)
    BY <2>1
  <2> QED
    BY <2>1, <2>2, <2>3
<1>4. Stream!Whole
  BY <1>0, ReadyIsWhole
<1>5. Stream!MarkerIs(0, bitOffset) <=> MarkerAt(cursor, bitOffset)
  <2>1. cursor + 0 = cursor
    BY <1>3
  <2> QED
    BY <1>0, <1>3, <2>1, MarkerThere
<1>6. frame' = SubSeq(Unread, MarkerLength * ByteBits + bitOffset + 1,
                      MarkerLength * ByteBits + bitOffset + FrameLength * ByteBits)
  <2>1. cursor + MarkerLength + FrameLength + (IF bitOffset = 0 THEN 0 ELSE 1) <= Size(buffer)
    BY <1>1
  <2> QED
    BY <1>0, <1>1, <1>3, <2>1, UnreadAt
<1>7. frame' = Stream!BitsAt(Unread, Stream!MarkerLength, bitOffset, FrameLength)
  BY <1>6, SameWords DEF Stream!BitsAt
<1>8. Unread' = Stream!Beyond(Unread, MarkerLength + FrameLength)
  <2> DEFINE n == MarkerLength + FrameLength
  <2>1. n \in Nat /\ cursor + n = cursor' /\ cursor + n <= Size(buffer)
    BY <1>1, <1>3
  <2> HIDE DEF n
  <2>2. Stream!Beyond(Unread, n) = SubSeq(buffer, cursor' * ByteBits + 1, Len(buffer))
    BY <1>0, <2>1, UnreadBeyond
  <2>3. Unread' = SubSeq(buffer', cursor' * ByteBits + 1, Len(buffer'))
    BY DEF Unread
  <2> QED
    BY <1>1, <2>2, <2>3 DEF n
<1> QED
  BY <1>2, <1>4, <1>5, <1>7, <1>8, SameWords DEF Stream!Cut, Unread

LEMMA LoseLockLoses ==
    ASSUME SyncInv, LoseLock
    PROVE  Stream!Lose
<1>0. SyncTypeOK
  BY DEF SyncInv, BytesAccounted
<1>1. /\ Ready /\ state = "Locked" /\ marker # <<>> /\ ~MarkerAt(cursor, bitOffset)
      /\ ~(misses + 1 <= Flywheel)
      /\ state' = "Searching" /\ misses' = 0 /\ bitOffset' = 0
      /\ UNCHANGED <<marker, bitSlip, buffer, cursor, frame>>
  BY DEF LoseLock, Tolerated, Ready, builtVars, histVars
<1>2. misses = Flywheel
  BY <1>0, <1>1, SynchronizerAssumption DEF SyncTypeOK
<1>3. Stream!Whole
  BY <1>0, <1>1, ReadyIsWhole
<1>4. ~Stream!MarkerIs(0, bitOffset)
  <2>1. cursor + 0 = cursor /\ bitOffset \in Offsets
    BY <1>0, Shape DEF SyncTypeOK
  <2> QED
    BY <1>0, <1>1, <2>1, MarkerThere
<1>5. Unread' = Unread
  BY <1>1 DEF Unread
<1> QED
  BY <1>1, <1>2, <1>3, <1>4, <1>5 DEF Stream!Lose, Unread

LEMMA ResetRestarts ==
    ASSUME SyncInv, Reset
    PROVE  Stream!Restart
<1>1. /\ buffer' = <<>> /\ cursor' = 0 /\ misses' = 0 /\ bitOffset' = 0 /\ state' = Resting
      /\ UNCHANGED <<marker, bitSlip, frame>>
  BY DEF Reset, builtVars
<1>2. Unread' = <<>>
  <2>1. Unread' = SubSeq(<<>>, 0 * ByteBits + 1, Len(<<>>))
    BY <1>1 DEF Unread
  <2>2. 0 * ByteBits + 1 = 1
    BY SynchronizerAssumption
  <2> QED
    BY <2>1, <2>2
<1>3. (state' = "Locked") = (marker = <<>>)
  BY <1>1 DEF Resting
<1> QED
  BY <1>1, <1>2, <1>3 DEF Stream!Restart, Unread

LEMMA StreamUntouched ==
    ASSUME UNCHANGED <<marker, bitSlip, state, bitOffset, misses, buffer, cursor, frame>>
    PROVE  UNCHANGED Stream!streamVars
<1>1. Unread' = Unread
  BY DEF Unread
<1> QED
  BY <1>1 DEF Stream!streamVars, Unread

LEMMA StreamStep == SyncInv /\ [Next]_syncVars => [Stream!StreamNext]_(Stream!streamVars)
<1> SUFFICES ASSUME SyncInv, [Next]_syncVars
             PROVE  Stream!StreamNext \/ UNCHANGED Stream!streamVars
  OBVIOUS
<1>0. SyncTypeOK
  BY DEF SyncInv, BytesAccounted
<1>1. ASSUME NEW n \in 1..MaxPush, NEW bytes \in [1..(n * ByteBits) -> {0, 1}], Push(bytes)
      PROVE  Stream!Arrive
  <2>1. n \in Nat /\ n >= 1
    OBVIOUS
  <2> QED
    BY <1>1, <2>1, PushArrives
<1>2. Acquire => Stream!Lock
  BY AcquireLocks
<1>3. SearchEnds => Stream!PassOver \/ UNCHANGED Stream!streamVars
  BY SearchPassesOver
<1>4. WaitForMore => UNCHANGED Stream!streamVars
  BY StreamUntouched DEF WaitForMore, builtVars, lockVars, histVars
<1>5. CASE CutUnmarked
  <2>1. Ready /\ HandOut /\ marker = <<>> /\ misses' = misses /\ misses = 0
    BY <1>5 DEF CutUnmarked, SyncInv
  <2>2. misses' <= Flywheel
    BY <2>1, SynchronizerAssumption
  <2> QED
    BY <2>1, <2>2, HandOutCuts DEF Stream!StreamNext
<1>6. CASE CutMarked
  <2>1. Ready /\ HandOut /\ MarkerAt(cursor, bitOffset) /\ misses' = 0
    BY <1>6 DEF CutMarked
  <2>2. misses' <= Flywheel
    BY <2>1, SynchronizerAssumption
  <2> QED
    BY <2>1, <2>2, HandOutCuts DEF Stream!StreamNext
<1>7. CASE CutBlind
  <2>1. /\ Ready /\ HandOut /\ marker # <<>> /\ ~MarkerAt(cursor, bitOffset)
        /\ misses' = misses + 1 /\ misses + 1 <= Flywheel
    BY <1>7 DEF CutBlind, Tolerated
  <2> QED
    BY <2>1, HandOutCuts DEF Stream!StreamNext
<1>8. LoseLock => Stream!Lose
  BY LoseLockLoses
<1>9. TakeCounters => UNCHANGED Stream!streamVars
  BY StreamUntouched DEF TakeCounters, builtVars, lockVars
<1>10. Reset => Stream!Restart
  BY ResetRestarts
<1>11. UNCHANGED syncVars => UNCHANGED Stream!streamVars
  BY StreamUntouched DEF syncVars, builtVars, lockVars, histVars
<1> QED
  BY <1>1, <1>2, <1>3, <1>4, <1>5, <1>6, <1>7, <1>8, <1>9, <1>10, <1>11
  DEF Next, Stream!StreamNext

(***************************************************************************)
(* However the stream is cut into pushes, and whatever is shifted inside    *)
(* the buffer, the frames are those of the stream: the synchroniser         *)
(* implements FrameStream, for every marker, frame length, flywheel and     *)
(* size of push.  Every step of it is a step of the stream or a stutter.    *)
(***************************************************************************)
THEOREM SynchronizerCutsTheStream == Spec => CutsTheStream
  BY StreamStart, StreamStep, SyncInvariant, PTL
  DEF Spec, CutsTheStream, Stream!StreamSpec
=============================================================================
