------------------------------ MODULE Downlink ------------------------------
(***************************************************************************)
(* A spacecraft, a lossy link and the packet stages of the ground station   *)
(* (link/src/packets.rs, driven by pipeline.rs).  The spacecraft packs      *)
(* packets into the frames of each virtual channel, end to end and across   *)
(* frames; frames are lost on the way, or refused for their checksum; lock  *)
(* is lost; the byte stream restarts.  Without frames, packets come in a    *)
(* byte stream cut anywhere, or in datagrams.                               *)
(*                                                                          *)
(* "owed" is what the packet stages owe for the bytes they were last given, *)
(* worked out from what the spacecraft sent and not from what the code does *)
(* with it.                                                                 *)
(***************************************************************************)
EXTENDS Packets, FiniteSets, SequencesExt

CONSTANTS
    Passes,       \* the passes: the framing, and the packets each channel sends
    DataField,    \* bytes in a frame's data field
    MaxBurst,     \* bound: frames lost in a row on one channel
    Lossy,        \* the channels that lose frames, or give up a packet
    PacketIds,    \* bound: packets are numbered modulo this
    Misread,      \* the length a header read out of packet data declares
    MaxRead,      \* bound: bytes in one read of a stream
    LockLosses    \* whether a frame that is lost may cost the lock

ASSUME DownlinkAssumption ==
    /\ \A p \in Passes :
        /\ p.framing \in {"frames", "stream", "datagrams"}
        /\ \A c \in Channels : p.kinds[c] \subseteq {n \in Nat : n > HeaderBytes} \X BOOLEAN
    /\ DataField \in Nat \ {0} /\ MaxRead \in Nat \ {0}
    /\ MaxBurst \in Nat /\ MaxBurst < Modulus   \* what a frame count can tell
    /\ PacketIds \in Nat \ {0}
    /\ Lossy \subseteq Vcids /\ LockLosses \in BOOLEAN

VARIABLES
    pass,       \* framing: PipelineConfig::framing, and whether the source is a
                \* datagram one; kinds: channel -> the <<length, is idle>> it sends
    packet,     \* the packet a channel is in the middle of sending, or nothing
    sent,       \* how much of it went out
    made,       \* the number of the next packet
    count,      \* the next frame's virtual channel frame count
    burst,      \* frames lost in a row since the last that arrived
    begun,      \* whether the ground was given all that was sent of "packet"
    locked,     \* the synchroniser is in lock
    flushDue,   \* a datagram was pushed and its boundary is not flushed yet
    garbled,    \* the stream carried a length it cannot recover from
    owed        \* what the last push owes: packets, idle packets, lost packets

senderVars == <<packet, sent, made, count>>
linkVars == <<burst, begun, locked, flushDue, garbled>>
downlinkVars == <<packetVars, pass, senderVars, linkVars, owed>>

NothingOwed == [out |-> <<>>, idle |-> 0, lost |-> Zero]

DownlinkInit ==
    /\ PacketsInit
    /\ pass \in Passes
    /\ packet = [c \in Channels |-> <<>>] /\ sent = Zero
    /\ made = Zero /\ count = Zero
    /\ burst = Zero /\ begun = [c \in Channels |-> FALSE]
    /\ locked = FALSE /\ flushDue = FALSE /\ garbled = FALSE
    /\ owed = NothingOwed

(***************************************************************************)
(* What is sent: the rest of the packet under way and enough new packets    *)
(* for n bytes, end to end.                                                 *)
(***************************************************************************)
PacketOf(id, kind) ==
    [at \in 1..kind[1] |-> [id |-> id, at |-> at,
                            len |-> IF at = HeaderBytes THEN kind[1] ELSE Misread,
                            idle |-> at = 1 /\ kind[2]]]

ASSUME BytesAssumption ==
    \A p \in Passes : \A c \in Channels : \A kind \in p.kinds[c] :
        \A id \in 0..(PacketIds - 1) : PacketOf(id, kind) \in Seq(Bytes)

\* The packets with a byte among the next n, the one under way first.
New(c, kinds) ==
    [i \in 1..Len(kinds) |-> PacketOf((made[c] + i - 1) % PacketIds, kinds[i])]
Pieces(c, kinds) ==
    (IF packet[c] = <<>> THEN <<>> ELSE <<packet[c]>>) \o New(c, kinds)

\* How many of the n go out before each of them, and before what follows: less
\* than none for the packet under way.
Starts(c, pieces) ==
    LET start[i \in 1..(Len(pieces) + 1)] ==
            IF i = 1 THEN -sent[c] ELSE start[i - 1] + Len(pieces[i - 1])
    IN  start

\* The new packets that n bytes take, the last of them starting inside those n.
Fillings(c, n) ==
    {kinds \in SeqOf(pass.kinds[c], n \div (HeaderBytes + 1) + 1) :
        LET pieces == Pieces(c, kinds)
            start == Starts(c, pieces)
        IN  pieces # <<>> /\ start[Len(pieces)] < n /\ n <= start[Len(pieces) + 1]}

Sent(c, kinds, n) ==
    LET pieces == Pieces(c, kinds)
        start == Starts(c, pieces)
        Of(p) == CHOOSE i \in 1..Len(pieces) : start[i] < p /\ p <= start[i + 1]
    IN  [p \in 1..n |-> pieces[Of(p)][p - start[Of(p)]]]

Send(c, kinds, n) ==
    LET pieces == Pieces(c, kinds)
        start == Starts(c, pieces)
        isAll == start[Len(pieces) + 1] = n
    IN  /\ packet' = [packet EXCEPT ![c] = IF isAll THEN <<>> ELSE pieces[Len(pieces)]]
        /\ sent' = [sent EXCEPT ![c] = IF isAll THEN 0 ELSE n - start[Len(pieces)]]
        /\ made' = [made EXCEPT ![c] = (@ + Len(kinds)) % PacketIds]

(***************************************************************************)
(* What n bytes that arrive are good for.  "whole" says that the ground has  *)
(* what was sent before of the packet under way.  A packet that is too long  *)
(* is recognised by its header; behind one that starts here nothing of the   *)
(* data field can be read, while one that started earlier is dropped alone.  *)
(***************************************************************************)
Promised(c, kinds, n, whole) ==
    LET pieces == Pieces(c, kinds)
        start == Starts(c, pieces)
        Refused(i) == Len(pieces[i]) > MaxPacketLength /\ start[i] + HeaderBytes <= n
        Usable(i) == /\ start[i] < 0 => whole
                     /\ ~Refused(i)
                     /\ \A j \in 1..(i - 1) : start[j] >= 0 => ~Refused(j)
        Ends(i) == start[i + 1] <= n
        done == {i \in 1..Len(pieces) : Ends(i) /\ Usable(i)}
        fill == {i \in done : pieces[i][1].idle}
        others == done \ fill
        Nth(k) == CHOOSE i \in others : Cardinality({j \in others : j <= i}) = k
    IN  [out |-> [k \in 1..Cardinality(others) |-> pieces[Nth(k)]],
         idle |-> Cardinality(fill),
         dropped |-> whole /\ start[1] < 0 /\ Refused(1),
         refused |-> \E i \in 1..Len(pieces) : Refused(i),
         begun |-> ~Ends(Len(pieces)) /\ Usable(Len(pieces))]

OneLost(c, isLost) == [Zero EXCEPT ![c] = IF isLost THEN 1 ELSE 0]

(***************************************************************************)
(* Frames.                                                                  *)
(***************************************************************************)
NextCount(c) == count' = [count EXCEPT ![c] = (@ + 1) % Modulus]

\* FrameStage::run on a frame that parses.
FrameArrives(c, kinds) ==
    LET whole == begun[c] /\ burst[c] = 0
        due == Promised(c, kinds, DataField, whole)
    IN  /\ pass.framing = "frames"
        /\ TakeFrame(c, count[c],
                     IF kinds = <<>> THEN NO_PACKET_START ELSE Len(packet[c]) - sent[c],
                     Sent(c, kinds, DataField))
        /\ Send(c, kinds, DataField) /\ NextCount(c)
        /\ owed' = [out |-> due.out, idle |-> due.idle,
                    lost |-> OneLost(c, \/ due.dropped
                                        \/ begun[c] /\ (~whole \/ packet[c] = <<>>))]
        /\ begun' = [begun EXCEPT ![c] = due.begun]
        /\ burst' = [burst EXCEPT ![c] = 0]
        /\ locked' = TRUE
        /\ UNCHANGED <<pass, flushDue, garbled>>

\* An idle frame, or one whose sync flag is set.
OtherFrameArrives(c) ==
    /\ pass.framing = "frames"
    /\ pass.kinds[c] # {}
    /\ PassFrame(c, count[c])
    /\ NextCount(c)
    /\ owed' = [out |-> <<>>, idle |-> 0, lost |-> OneLost(c, begun[c] /\ burst[c] > 0)]
    /\ begun' = [begun EXCEPT ![c] = @ /\ burst[c] = 0]
    /\ burst' = [burst EXCEPT ![c] = 0]
    /\ locked' = TRUE
    /\ UNCHANGED <<pass, packet, sent, made, flushDue, garbled>>

\* A frame that is not there, or that FrameStage::run refuses: a checksum, a
\* block past repair, a header.  The synchroniser may lose lock over it, which
\* FrameStage::run and fold_sync count and do nothing else about.
FrameLost(c) ==
    /\ pass.framing = "frames" /\ step = "ready"
    /\ c \in Lossy /\ pass.kinds[c] # {} /\ burst[c] < MaxBurst
    /\ burst' = [burst EXCEPT ![c] = @ + 1]
    /\ locked' \in IF LockLosses THEN {locked, FALSE} ELSE {locked}
    /\ NextCount(c)
    /\ \/ \E kinds \in Fillings(c, DataField) : Send(c, kinds, DataField)
       \/ UNCHANGED <<packet, sent, made>>
    /\ UNCHANGED <<packetVars, pass, begun, flushDue, garbled, owed>>

\* The spacecraft gives up the packet under way and goes on with the next: the
\* first header pointer will say that one starts before the last one ended.
PacketGivenUp(c) ==
    /\ step = "ready" /\ c \in Lossy /\ packet[c] # <<>>
    /\ packet' = [packet EXCEPT ![c] = <<>>] /\ sent' = [sent EXCEPT ![c] = 0]
    /\ UNCHANGED <<packetVars, pass, made, count, linkVars, owed>>

(***************************************************************************)
(* Packets without frames.                                                  *)
(***************************************************************************)
\* One read of a byte stream.
StreamRead(n, kinds) ==
    LET due == Promised(Stream, kinds, n, begun[Stream]) IN
    /\ pass.framing = "stream"
    /\ PushStream(Sent(Stream, kinds, n))
    /\ Send(Stream, kinds, n)
    /\ owed' = [out |-> due.out, idle |-> due.idle, lost |-> Zero]
    /\ garbled' = (garbled \/ due.refused)
    /\ begun' = [begun EXCEPT ![Stream] = due.begun]
    /\ UNCHANGED <<pass, count, burst, locked, flushDue>>

\* One datagram, cut short or not; the next one starts with a packet.
DatagramArrives(n, kinds) ==
    LET due == Promised(Stream, kinds, n, FALSE) IN
    /\ pass.framing = "datagrams" /\ ~flushDue
    /\ PushStream(Sent(Stream, kinds, n))
    /\ Send(Stream, kinds, n)
    /\ owed' = [out |-> due.out, idle |-> due.idle, lost |-> Zero]
    /\ begun' = [begun EXCEPT ![Stream] = due.begun]
    /\ flushDue' = TRUE
    /\ UNCHANGED <<pass, count, burst, locked, garbled>>

\* flush_message: at a datagram's boundary, or when the byte stream restarts.
\* A peer that connects starts with a packet.
FlushMessage ==
    /\ flushDue \/ pass.framing # "datagrams"
    /\ FlushPackets
    /\ owed' = [out |-> <<>>, idle |-> 0,
                lost |-> IF garbled THEN lost'
                         ELSE [c \in Channels |-> IF begun[c] THEN 1 ELSE 0]]
    /\ begun' = [c \in Channels |-> FALSE]
    /\ burst' = Zero
    /\ packet' = [packet EXCEPT ![Stream] = <<>>] /\ sent' = [sent EXCEPT ![Stream] = 0]
    /\ flushDue' = FALSE /\ garbled' = FALSE
    /\ locked' = FALSE
    /\ UNCHANGED <<pass, made, count>>

Work ==
    /\ PacketsStep
    /\ owed' = IF step = "pushed" THEN NothingOwed ELSE owed
    /\ UNCHANGED <<pass, senderVars, linkVars>>

DownlinkNext ==
    \/ \E c \in Vcids : \E kinds \in Fillings(c, DataField) : FrameArrives(c, kinds)
    \/ \E c \in Vcids : OtherFrameArrives(c) \/ FrameLost(c) \/ PacketGivenUp(c)
    \/ \E n \in 1..MaxRead : \E kinds \in Fillings(Stream, n) :
          StreamRead(n, kinds) \/ DatagramArrives(n, kinds)
    \/ FlushMessage
    \/ Work

DownlinkSpec == DownlinkInit /\ [][DownlinkNext]_downlinkVars

-----------------------------------------------------------------------------
\* A packet all of whose frames arrived is handed out exactly once, whole, as it
\* was sent and in order; no other packet is, whatever was lost, so long as
\* fewer frames than the count can tell apart are lost in a row; and a packet
\* whose beginning arrived and whose rest did not is counted as lost at the very
\* next frame of its channel, or at the reset.  What is held of a packet is the
\* beginning of the one its channel is in the middle of, and of no other.
PacketsAsSent ==
    step = "pushed" /\ ~garbled =>
        /\ out = owed.out
        /\ idle[on] = owed.idle
        /\ lost = owed.lost
        /\ packets[on] = Len(out)
        /\ \A c \in Channels :
            /\ begun[c] /\ burst[c] = 0 /\ packet[c] # <<>>
                  => partial[c] = SubSeq(packet[c], 1, sent[c])
            /\ ~begun[c] => partial[c] = <<>>
=============================================================================
