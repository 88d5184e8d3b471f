----------------------------- MODULE MCDownlink -----------------------------
(* Downlink for TLC: what each pass sends, and the bytes it has. *)
EXTENDS Downlink

CONSTANTS A, B, S

MCVcids == {A, B}
\* Whole in a frame, over three frames, longer than max_packet_length; and fill.
Rich == {<<3, FALSE>>, <<4, FALSE>>, <<6, FALSE>>, <<7, FALSE>>, <<3, TRUE>>}
Long == {<<6, FALSE>>}
None == (A :> {}) @@ (B :> {}) @@ (S :> {})
\* One channel with everything on it, or two whose frames alternate as they like.
MCPasses ==
    {[framing |-> "frames", kinds |-> [None EXCEPT ![A] = Rich]],
     [framing |-> "frames", kinds |-> [None EXCEPT ![A] = Long, ![B] = Long]],
     [framing |-> "stream", kinds |-> [None EXCEPT ![S] = Rich]],
     [framing |-> "datagrams", kinds |-> [None EXCEPT ![S] = Rich]]}
MCLossy == {A}
MCBytes == [id : 0..(PacketIds - 1), at : 1..7, len : {3, 4, 6, 7}, idle : BOOLEAN]
=============================================================================
