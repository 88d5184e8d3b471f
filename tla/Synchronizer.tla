---------------------------- MODULE Synchronizer ----------------------------
(***************************************************************************)
(* The frame synchroniser (link/src/sync.rs) as FrameStage::run drives it:  *)
(* one push, next_frame until there is none, and the counters drained.  A   *)
(* byte has ByteBits bits, and the bytes that arrive are any bytes.         *)
(*                                                                          *)
(* A frame length of zero is refused by PipelineConfig::validate and is not *)
(* modelled.                                                                *)
(***************************************************************************)
EXTENDS Integers, Sequences, FiniteSets, SequencesExt

CONSTANTS
    ByteBits,      \* bits in a byte
    FrameLength,   \* frame_length
    Flywheel,      \* flywheel
    Markers,       \* the markers a synchroniser may be built for
    MaxPush        \* bound: bytes in one push

ASSUME SynchronizerAssumption ==
    /\ ByteBits \in Nat \ {0} /\ FrameLength \in Nat \ {0} /\ Flywheel \in Nat
    /\ \A m \in Markers : m \in Seq({0, 1}) /\ Len(m) % ByteBits = 0

VARIABLES
    marker, bitSlip,     \* as built
    state,               \* SyncState
    bitOffset,           \* bit_offset
    misses,
    buffer,              \* buffer, in bits
    cursor,              \* cursor, in bytes
    step,                \* "idle", "look" inside next_frame, "done" after None
    found, locks, losses, frames, discarded, slips,   \* SyncCounters
    frame,               \* the frame next_frame handed out last
    given                \* bytes held or pushed since the counters were drained (history)

builtVars == <<marker, bitSlip>>
lockVars == <<state, bitOffset, misses>>
counterVars == <<found, locks, losses, frames, discarded, slips>>
histVars == <<frame, given>>
syncVars == <<builtVars, lockVars, buffer, cursor, step, counterVars, histVars>>

MarkerLength == Len(marker) \div ByteBits
Size(bits) == Len(bits) \div ByteBits
Buffered == Size(buffer) - cursor
Resting == IF marker = <<>> THEN "Locked" ELSE "Searching"

Init ==
    /\ marker \in Markers /\ bitSlip \in BOOLEAN
    /\ state = Resting /\ bitOffset = 0 /\ misses = 0
    /\ buffer = <<>> /\ cursor = 0 /\ step = "idle"
    /\ found = 0 /\ locks = 0 /\ losses = 0 /\ frames = 0 /\ discarded = 0 /\ slips = 0
    /\ frame = <<>> /\ given = 0

\* byte_at, over n bytes: the bits that begin "bit" bits into the byte at index.
BitsAt(index, bit, n) ==
    SubSeq(buffer, index * ByteBits + bit + 1, index * ByteBits + bit + n * ByteBits)

MarkerAt(index, bit) ==
    /\ index + MarkerLength + (IF bit = 0 THEN 0 ELSE 1) <= Size(buffer)
    /\ BitsAt(index, bit, MarkerLength) = marker

(***************************************************************************)
(* push.                                                                    *)
(***************************************************************************)
Push(bytes) ==
    /\ step = "idle" /\ step' = "look"
    /\ buffer' = SubSeq(buffer, cursor * ByteBits + 1, Len(buffer)) \o bytes
    /\ cursor' = 0
    /\ given' = Buffered + Size(bytes)
    /\ UNCHANGED <<builtVars, lockVars, counterVars, frame>>

(***************************************************************************)
(* acquire.                                                                 *)
(***************************************************************************)
Offsets == IF bitSlip THEN 0..(ByteBits - 1) ELSE {0}
Places == {p \in (cursor..(Size(buffer) - MarkerLength)) \X Offsets : MarkerAt(p[1], p[2])}
IsFirst(p) == \A q \in Places : p[1] < q[1] \/ (p[1] = q[1] /\ p[2] <= q[2])

\* Mutant: what is skipped on the way to a marker is not counted.
SkipToUncounted(index) == cursor' = index /\ UNCHANGED discarded
SkipTo(index) == cursor' = index /\ discarded' = discarded + (index - cursor)

Acquire ==
    /\ step = "look" /\ state = "Searching"
    /\ \E p \in Places :
          /\ IsFirst(p)
          /\ SkipTo(p[1])
          /\ bitOffset' = p[2]
          /\ slips' = slips + IF p[2] # 0 THEN 1 ELSE 0
    /\ state' = "Locked" /\ misses' = 0
    /\ locks' = locks + 1
    /\ UNCHANGED <<builtVars, buffer, step, found, losses, frames, histVars>>

\* Mutants: the byte a slipped marker straddles is not kept, or all is kept.
KeepNoStraddle == MarkerLength - 1
Keep == MarkerLength + (IF bitSlip THEN 1 ELSE 0) - 1
KeptFrom == IF Size(buffer) - Keep > cursor THEN Size(buffer) - Keep ELSE cursor

SearchEnds ==
    /\ step = "look" /\ state = "Searching" /\ Places = {}
    /\ SkipTo(KeptFrom)
    /\ step' = "done"
    /\ UNCHANGED <<builtVars, lockVars, buffer, found, locks, losses, frames, slips, histVars>>

(***************************************************************************)
(* locate_frame in lock, and next_frame.                                    *)
(***************************************************************************)
Needed == MarkerLength + FrameLength + (IF bitOffset # 0 THEN 1 ELSE 0)

WaitForMore ==
    /\ step = "look" /\ state = "Locked" /\ Buffered < Needed
    /\ step' = "done"
    /\ UNCHANGED <<builtVars, lockVars, buffer, cursor, counterVars, histVars>>

\* align: the frame's bytes, in place.
Shifted(start) ==
    SubSeq(buffer, 1, start * ByteBits)
        \o BitsAt(start, bitOffset, FrameLength)
        \o SubSeq(buffer, (start + FrameLength) * ByteBits + 1, Len(buffer))

HandOut ==
    LET start == cursor + MarkerLength IN
    /\ buffer' = Shifted(start)
    /\ cursor' = start + FrameLength
    /\ frame' = SubSeq(buffer', start * ByteBits + 1, (start + FrameLength) * ByteBits)
    /\ frames' = frames + 1
    /\ UNCHANGED <<builtVars, state, bitOffset, step, locks, losses, discarded, slips,
                   given>>

Ready == step = "look" /\ state = "Locked" /\ Buffered >= Needed

CutUnmarked ==
    /\ Ready /\ marker = <<>>
    /\ HandOut
    /\ UNCHANGED <<found, misses>>

CutMarked ==
    /\ Ready /\ marker # <<>> /\ MarkerAt(cursor, bitOffset)
    /\ HandOut
    /\ found' = found + 1 /\ misses' = 0

Tolerated == misses + 1 <= Flywheel

CutBlind ==
    /\ Ready /\ marker # <<>> /\ ~MarkerAt(cursor, bitOffset) /\ Tolerated
    /\ HandOut
    /\ misses' = misses + 1 /\ UNCHANGED found

LoseLock ==
    /\ Ready /\ marker # <<>> /\ ~MarkerAt(cursor, bitOffset) /\ ~Tolerated
    /\ state' = "Searching" /\ misses' = 0 /\ bitOffset' = 0
    /\ losses' = losses + 1
    /\ UNCHANGED <<builtVars, buffer, cursor, step, found, locks, frames, discarded, slips,
                   histVars>>

(***************************************************************************)
(* take_counters once the frames are out, and reset.                        *)
(***************************************************************************)
TakeCounters ==
    /\ step = "done" /\ step' = "idle"
    /\ found' = 0 /\ locks' = 0 /\ losses' = 0 /\ frames' = 0 /\ discarded' = 0 /\ slips' = 0
    /\ given' = Buffered
    /\ UNCHANGED <<builtVars, lockVars, buffer, cursor, frame>>

Reset ==
    /\ step = "idle"
    /\ buffer' = <<>> /\ cursor' = 0 /\ misses' = 0 /\ bitOffset' = 0 /\ state' = Resting
    /\ given' = 0
    /\ UNCHANGED <<builtVars, step, counterVars, frame>>

Next ==
    \/ \E n \in 1..MaxPush : \E bytes \in [1..(n * ByteBits) -> {0, 1}] : Push(bytes)
    \/ Acquire \/ SearchEnds
    \/ WaitForMore \/ CutUnmarked \/ CutMarked \/ CutBlind \/ LoseLock
    \/ TakeCounters \/ Reset

Spec == Init /\ [][Next]_syncVars

-----------------------------------------------------------------------------
SyncTypeOK ==
    /\ marker \in Markers /\ bitSlip \in BOOLEAN
    /\ state \in {"Searching", "Locked"} /\ bitOffset \in Offsets
    /\ misses \in 0..Flywheel
    /\ buffer \in Seq({0, 1}) /\ Len(buffer) % ByteBits = 0
    /\ cursor \in 0..Size(buffer)
    /\ step \in {"idle", "look", "done"}
    /\ \A n \in {found, locks, losses, frames, discarded, slips, given} : n \in Nat
    /\ frame \in Seq({0, 1})

\* However the stream is cut into pushes, and whatever is done to the buffer,
\* the frames are those of the stream: nothing skipped that could be a marker,
\* nothing shifted that belongs to the next frame, lock lost when the flywheel
\* says so and not otherwise.
Stream == INSTANCE FrameStream WITH
    pending <- SubSeq(buffer, cursor * ByteBits + 1, Len(buffer)),
    locked <- state = "Locked", offset <- bitOffset
CutsTheStream == Stream!StreamSpec

\* Each byte is in a frame, a marker, counted as discarded, or held; and what is
\* held between pushes never grows past one frame, in lock or out of it, on a
\* stream that never synchronises.  (With the types of the state.)
BytesAccounted ==
    /\ SyncTypeOK
    /\ given = discarded + frames * (MarkerLength + FrameLength) + Buffered
    /\ step \in {"done", "idle"} => Buffered <= MarkerLength + FrameLength
=============================================================================
