---------------------------- MODULE FrameStream ----------------------------
(***************************************************************************)
(* What a frame synchroniser promises: frames cut out of a stream of bits,  *)
(* with no word of buffers.  Out of lock, nothing is passed over in which a *)
(* marker begins, and lock is taken at the first marker there is.  In lock, *)
(* frames follow each other at the frame length, each the bits that were    *)
(* sent, and lock is given up at the marker after Flywheel missing ones.    *)
(***************************************************************************)
EXTENDS Integers, Sequences

CONSTANTS
    ByteBits,      \* bits in a byte
    FrameLength,   \* Synchronizer::frame_length, in bytes
    Flywheel,      \* Synchronizer::flywheel
    Markers        \* the markers a synchroniser may be built for

VARIABLES
    marker,    \* Synchronizer::marker
    bitSlip,   \* Synchronizer::bit_slip
    pending,   \* bits that arrived and were neither cut nor passed over
    locked,    \* whether a frame boundary is known
    offset,    \* the bit offset of that boundary
    misses,    \* markers missed in a row
    frame      \* the frame last cut

streamVars == <<marker, bitSlip, pending, locked, offset, misses, frame>>

MarkerLength == Len(marker) \div ByteBits
Offsets == IF bitSlip THEN 0..(ByteBits - 1) ELSE {0}

\* The n bytes that begin "bit" bits into the byte at index i.
BitsAt(bits, i, bit, n) ==
    SubSeq(bits, i * ByteBits + bit + 1, i * ByteBits + bit + n * ByteBits)
Beyond(bits, n) == SubSeq(bits, n * ByteBits + 1, Len(bits))

\* All of a marker's bits are there to be compared.
Seen(i, bit) == i * ByteBits + bit + Len(marker) <= Len(pending)
MarkerIs(i, bit) == Seen(i, bit) /\ BitsAt(pending, i, bit, MarkerLength) = marker

StreamInit ==
    /\ marker \in Markers /\ bitSlip \in BOOLEAN
    /\ pending = <<>> /\ locked = (marker = <<>>)
    /\ offset = 0 /\ misses = 0 /\ frame = <<>>

Arrive ==
    /\ Len(pending') >= Len(pending)
    /\ SubSeq(pending', 1, Len(pending)) = pending
    /\ UNCHANGED <<marker, bitSlip, locked, offset, misses, frame>>

\* Before a place that is passed over or locked on, no marker begins.
NoneBefore(k) == \A i \in 0..(k - 1), bit \in Offsets : Seen(i, bit) /\ ~MarkerIs(i, bit)

PassOver ==
    /\ ~locked
    /\ \E k \in 1..(Len(pending) \div ByteBits) :
          NoneBefore(k) /\ pending' = Beyond(pending, k)
    /\ UNCHANGED <<marker, bitSlip, locked, offset, misses, frame>>

Lock ==
    /\ ~locked /\ locked' = TRUE
    /\ \E k \in 0..(Len(pending) \div ByteBits), bit \in Offsets :
          /\ NoneBefore(k) /\ MarkerIs(k, bit)
          /\ \A b \in Offsets : b < bit => ~MarkerIs(k, b)
          /\ pending' = Beyond(pending, k) /\ offset' = bit
    /\ misses' = 0
    /\ UNCHANGED <<marker, bitSlip, frame>>

\* A frame and its marker are there.
Whole == Len(pending) >= (MarkerLength + FrameLength) * ByteBits + offset

Cut ==
    /\ locked /\ Whole
    /\ misses' = IF marker = <<>> \/ MarkerIs(0, offset) THEN 0 ELSE misses + 1
    /\ misses' <= Flywheel
    /\ frame' = BitsAt(pending, MarkerLength, offset, FrameLength)
    /\ pending' = Beyond(pending, MarkerLength + FrameLength)
    /\ UNCHANGED <<marker, bitSlip, locked, offset>>

Lose ==
    /\ locked /\ Whole /\ marker # <<>>
    /\ ~MarkerIs(0, offset) /\ misses = Flywheel
    /\ locked' = FALSE /\ offset' = 0 /\ misses' = 0
    /\ UNCHANGED <<marker, bitSlip, pending, frame>>

Restart ==
    /\ pending' = <<>> /\ locked' = (marker = <<>>) /\ offset' = 0 /\ misses' = 0
    /\ UNCHANGED <<marker, bitSlip, frame>>

StreamNext == Arrive \/ PassOver \/ Lock \/ Cut \/ Lose \/ Restart
StreamSpec == StreamInit /\ [][StreamNext]_streamVars
=============================================================================
