------------------------------ MODULE Packets ------------------------------
(***************************************************************************)
(* Getting space packets back out (link/src/packets.rs): PacketAssembler,  *)
(* which takes transfer frames and honours the first header pointer, and    *)
(* PacketStream, which splits a stream of back-to-back packets.             *)
(*                                                                          *)
(* One action is one branch of the code's decision table, or one turn of    *)
(* its loop over a data field; "step" says which comes next.  A byte is a   *)
(* record of what the code can read off it: what a header ending at it      *)
(* declares, and whether a packet starting at it is idle.  The counters     *)
(* are what the code's are, deltas since the last drain, and Pipeline       *)
(* drains them after every push; each channel has its own here, and the     *)
(* code's are their sums.                                                   *)
(***************************************************************************)
EXTENDS Integers, Sequences

CONSTANTS
    Vcids,            \* the virtual channels
    Stream,           \* the channel name that stands for PacketStream
    HeaderBytes,      \* SPACE_PACKET_HEADER_BYTES
    MaxPacketLength,  \* max_packet_length
    Modulus,          \* what a virtual channel frame count wraps at
    Bytes             \* records with "len" and "idle"

ASSUME PacketsAssumption ==
    /\ Stream \notin Vcids
    /\ HeaderBytes \in Nat \ {0}
    /\ MaxPacketLength \in Nat /\ MaxPacketLength > HeaderBytes
    /\ Modulus \in Nat \ {0}
    /\ \A b \in Bytes : b.len \in Nat /\ b.len > HeaderBytes /\ b.idle \in BOOLEAN

VARIABLES
    last,        \* VirtualChannel::last_frame_count
    partial,     \* VirtualChannel::partial, and PacketStream::buffer
    step,        \* where the code is
    on,          \* the channel it is working for
    pointer,     \* the frame's first header pointer
    rest,        \* bytes of the data field not yet taken apart
    packets,     \* PacketCounters::packets
    lost,        \* PacketCounters::lost
    idle,        \* PacketCounters::idle
    discarded,   \* PacketCounters::discarded_bytes
    out,         \* the packets this push appended to the caller's vector
    taken,       \* bytes this push has to account for, held ones included (history)
    handed       \* bytes this push handed out or dropped as fill (history)

workVars  == <<step, on, pointer, rest>>
countVars == <<packets, lost, idle, discarded>>
histVars  == <<out, taken, handed>>
packetVars == <<last, partial, workVars, countVars, histVars>>

Channels == Vcids \cup {Stream}
Zero == [c \in Channels |-> 0]
NoFrame == -1

\* A first header pointer that is no place in the frame.
NO_PACKET_START == -1

PacketsInit ==
    /\ last = [c \in Channels |-> NoFrame]
    /\ partial = [c \in Channels |-> <<>>]
    /\ step = "ready" /\ on = Stream /\ pointer = 0 /\ rest = <<>>
    /\ packets = Zero /\ lost = Zero /\ idle = Zero /\ discarded = Zero
    /\ out = <<>> /\ taken = Zero /\ handed = Zero

\* declared_length has an answer.
HeaderKnown(s) == Len(s) >= HeaderBytes
Declared(s) == s[HeaderBytes].len

ExpectedCount(n) == (n + 1) % Modulus
Jumped(c, count) == last[c] # NoFrame /\ count # ExpectedCount(last[c])

\* Throwing a partial packet away: what it costs.
Spent(s) == IF s = <<>> THEN 0 ELSE 1

\* Mutant: a partial packet that is thrown away is not counted.
GiveUpUncounted(c, s) == UNCHANGED <<lost, discarded>>
GiveUp(c, s) ==
    /\ lost' = [lost EXCEPT ![c] = @ + Spent(s)]
    /\ discarded' = [discarded EXCEPT ![c] = @ + Len(s)]

Discard(c, n) == discarded' = [discarded EXCEPT ![c] = @ + n]

\* deliver: an idle packet is counted and dropped, any other handed out.
Deliver(c, s) ==
    /\ handed' = [handed EXCEPT ![c] = @ + Len(s)]
    /\ IF s[1].idle
       THEN /\ idle' = [idle EXCEPT ![c] = @ + 1]
            /\ UNCHANGED <<packets, out>>
       ELSE /\ packets' = [packets EXCEPT ![c] = @ + 1]
            /\ out' = Append(out, s)
            /\ UNCHANGED idle

(***************************************************************************)
(* PacketAssembler.                                                         *)
(***************************************************************************)
\* Mutant: what is kept is the count to expect, which nobody wrapped.
CheckContinuityAhead(c, count) ==
    /\ last' = [last EXCEPT ![c] = count + 1]
    /\ IF last[c] # NoFrame /\ count # last[c]
       THEN partial' = [partial EXCEPT ![c] = <<>>] /\ GiveUp(c, partial[c])
       ELSE UNCHANGED <<partial, lost, discarded>>
\* check_continuity: after a jump nothing half-assembled can be finished.
CheckContinuity(c, count) ==
    /\ last' = [last EXCEPT ![c] = count]
    /\ IF Jumped(c, count)
       THEN partial' = [partial EXCEPT ![c] = <<>>] /\ GiveUp(c, partial[c])
       ELSE UNCHANGED <<partial, lost, discarded>>

Takes(c, n) == taken' = [taken EXCEPT ![c] = @ + n]

\* push_data up to its match on the pointer.
TakeFrame(c, count, p, data) ==
    /\ step = "ready"
    /\ CheckContinuity(c, count)
    /\ Takes(c, Len(data))
    /\ step' = "frame" /\ on' = c /\ pointer' = p /\ rest' = data
    /\ UNCHANGED <<packets, idle, handed, out>>

\* Mutant: a frame without packets is skipped before its count is looked at.
PassFrameUnseen(c, count) ==
    /\ step = "ready" /\ step' = "pushed"
    /\ UNCHANGED <<last, partial, on, pointer, rest, countVars, histVars>>
\* note_frame, and push_data on a frame of only idle data: the count is filed,
\* the partial packet is left alone and the data field is not read.
PassFrame(c, count) ==
    /\ step = "ready"
    /\ CheckContinuity(c, count)
    /\ step' = "pushed"
    /\ UNCHANGED <<on, pointer, rest, packets, idle, histVars>>

\* The bytes in front of the first packet start, and the bytes from it on.
Ahead == IF pointer = NO_PACKET_START THEN rest ELSE SubSeq(rest, 1, pointer)
Behind == IF pointer = NO_PACKET_START THEN <<>>
          ELSE SubSeq(rest, pointer + 1, Len(rest))

IsAssembling(c) == partial[c] # <<>>
Fed == partial[on] \o Ahead
TooLong(s) == HeaderKnown(s) /\ Declared(s) > MaxPacketLength
\* Mutant: a packet is complete only when bytes follow it.
IsWholeStrict(s) == HeaderKnown(s) /\ Declared(s) <= MaxPacketLength /\ Len(s) > Declared(s)
IsWhole(s) ==
    HeaderKnown(s) /\ Declared(s) <= MaxPacketLength /\ Len(s) >= Declared(s)

Feeding ==
    /\ step = "frame"
    /\ IsAssembling(on)
    /\ step' = "split" /\ rest' = Behind
    /\ UNCHANGED <<last, on, pointer, taken>>

\* Bytes with no packet in front of them.
NoPacketInFront ==
    /\ step = "frame" /\ ~IsAssembling(on)
    /\ Discard(on, Len(Ahead))
    /\ step' = "split" /\ rest' = Behind
    /\ UNCHANGED <<last, partial, on, pointer, packets, lost, idle, histVars>>

FeedGrows ==
    /\ Feeding
    /\ ~TooLong(Fed) /\ ~IsWhole(Fed) /\ pointer = NO_PACKET_START
    /\ partial' = [partial EXCEPT ![on] = Fed]
    /\ UNCHANGED <<countVars, handed, out>>

\* The pointer says the next packet starts before this one ended.
FeedAbandoned ==
    /\ Feeding
    /\ ~TooLong(Fed) /\ ~IsWhole(Fed) /\ pointer # NO_PACKET_START
    /\ partial' = [partial EXCEPT ![on] = <<>>]
    /\ GiveUp(on, Fed)
    /\ UNCHANGED <<packets, idle, handed, out>>

FeedCompletes ==
    /\ Feeding
    /\ IsWhole(Fed)
    /\ partial' = [partial EXCEPT ![on] = <<>>]
    /\ Deliver(on, SubSeq(Fed, 1, Declared(Fed)))
    /\ Discard(on, Len(Fed) - Declared(Fed))
    /\ UNCHANGED lost

FeedDropped ==
    /\ Feeding
    /\ TooLong(Fed)
    /\ partial' = [partial EXCEPT ![on] = <<>>]
    /\ GiveUp(on, Fed)
    /\ UNCHANGED <<packets, idle, handed, out>>

(***************************************************************************)
(* split, and the loop of PacketStream::push: whole packets out of "rest",  *)
(* the tail kept for the next frame or the next push.                       *)
(***************************************************************************)
Splitting ==
    /\ step = "split" /\ rest # <<>>
    /\ UNCHANGED <<last, step, on, pointer, taken>>

SplitDelivers ==
    /\ Splitting
    /\ IsWhole(rest)
    /\ Deliver(on, SubSeq(rest, 1, Declared(rest)))
    /\ rest' = SubSeq(rest, Declared(rest) + 1, Len(rest))
    /\ UNCHANGED <<partial, lost, discarded>>

SplitKeepsTail ==
    /\ Splitting
    /\ ~TooLong(rest) /\ ~IsWhole(rest)
    /\ partial' = [partial EXCEPT ![on] = @ \o rest]
    /\ rest' = <<>>
    /\ UNCHANGED <<countVars, handed, out>>

SplitDesynchronised ==
    /\ Splitting
    /\ TooLong(rest)
    /\ rest' = <<>>
    /\ Discard(on, Len(rest))
    /\ UNCHANGED <<partial, packets, lost, idle, handed, out>>

SplitDone ==
    /\ step = "split" /\ rest = <<>>
    /\ step' = "pushed"
    /\ UNCHANGED <<last, partial, on, pointer, rest, countVars, histVars>>

\* PacketAssembler::reset and PacketStream::flush, as Pipeline::flush_message
\* calls them.
FlushPackets ==
    /\ step = "ready"
    /\ last' = [c \in Channels |-> NoFrame]
    /\ partial' = [c \in Channels |-> <<>>]
    /\ lost' = [c \in Channels |-> lost[c] + Spent(partial[c])]
    /\ discarded' = [c \in Channels |-> discarded[c] + Len(partial[c])]
    /\ step' = "pushed"
    /\ UNCHANGED <<on, pointer, rest, packets, idle, histVars>>

\* take_counters, and the caller's turn with what was appended to its vector.
Drain ==
    /\ step = "pushed" /\ step' = "ready"
    /\ packets' = Zero /\ lost' = Zero /\ idle' = Zero /\ discarded' = Zero
    /\ out' = <<>> /\ handed' = Zero
    /\ taken' = [c \in Channels |-> Len(partial[c])]
    /\ on' = Stream /\ pointer' = 0
    /\ UNCHANGED <<last, partial, rest>>

(***************************************************************************)
(* PacketStream::push.                                                      *)
(***************************************************************************)
PushStream(bytes) ==
    /\ step = "ready"
    /\ Takes(Stream, Len(bytes))
    /\ rest' = partial[Stream] \o bytes
    /\ partial' = [partial EXCEPT ![Stream] = <<>>]
    /\ step' = "split" /\ on' = Stream
    /\ UNCHANGED <<last, pointer, countVars, handed, out>>

PacketsStep ==
    \/ NoPacketInFront \/ FeedGrows \/ FeedAbandoned \/ FeedCompletes \/ FeedDropped
    \/ SplitDelivers \/ SplitKeepsTail \/ SplitDesynchronised \/ SplitDone
    \/ Drain

\* Any frames and any bytes: what the packet stages promise on their own.
PacketsNext ==
    \/ \E c \in Vcids, count \in 0..(Modulus - 1), data \in Seq(Bytes) :
          \E p \in (0..Len(data)) \cup {NO_PACKET_START} : TakeFrame(c, count, p, data)
    \/ \E c \in Vcids, count \in 0..(Modulus - 1) : PassFrame(c, count)
    \/ \E bytes \in Seq(Bytes) : PushStream(bytes)
    \/ FlushPackets
    \/ PacketsStep

PacketsSpec == PacketsInit /\ [][PacketsNext]_packetVars

-----------------------------------------------------------------------------
PacketsTypeOK ==
    /\ last \in [Channels -> {NoFrame} \cup 0..(Modulus - 1)]
    /\ partial \in [Channels -> Seq(Bytes)]
    /\ step \in {"ready", "frame", "split", "pushed"}
    /\ on \in Channels
    /\ pointer \in Nat \cup {NO_PACKET_START}
    /\ rest \in Seq(Bytes)
    /\ packets \in [Channels -> Nat] /\ lost \in [Channels -> Nat]
    /\ idle \in [Channels -> Nat] /\ discarded \in [Channels -> Nat]
    /\ taken \in [Channels -> Nat] /\ handed \in [Channels -> Nat]
    /\ out \in Seq(Seq(Bytes))

\* Whatever the frames say, no channel holds a packet that is already whole, or
\* as much as max_packet_length: a wrong length byte costs a packet and not
\* memory ("what catches that instead of allocating a gigabyte").
PartialBounded ==
    \A c \in Channels : HeaderKnown(partial[c]) =>
        Len(partial[c]) < Declared(partial[c]) /\ Declared(partial[c]) <= MaxPacketLength

\* Every byte a packet stage held or was given is in a packet handed out, in
\* fill that was dropped, counted as discarded, or still held ("loud is the
\* point": what a push loses has a number when its counters are drained).
BytesConserved ==
    \A c \in Channels :
        taken[c] = handed[c] + discarded[c] + Len(partial[c])
                   + (IF c = on THEN Len(rest) ELSE 0)
=============================================================================
