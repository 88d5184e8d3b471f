------------------------------- MODULE Source -------------------------------
(***************************************************************************)
(* The sources of xtce-gs-link/src/source.rs: a UDP socket, a TCP           *)
(* connection, a TCP listener and a replayed file, as what one turn of      *)
(* their read_chunk does.  A byte knows the stream it is of (a datagram, a  *)
(* connection, a peer, a lap of the file) and its place in it.              *)
(*                                                                          *)
(* An empty datagram, a listener's failed accept of one peer and a read     *)
(* that is interrupted are waited past and leave no trace.                  *)
(***************************************************************************)
EXTENDS Naturals, Sequences

CONSTANTS
    Specs,       \* SourceSpec: the sources a session may be started with; a
                 \* rate of 0 is none given, or 0 given
    MaxRead,     \* what one read brings at most
    MaxStreams   \* bound: datagrams, peers or laps of one behaviour

ASSUME SourceAssumption ==
    /\ Specs \subseteq [scheme : {"udp", "tcp", "listen", "file"},
                        length : Nat, repeat : BOOLEAN, rate : Nat]
    /\ MaxRead \in Nat \ {0} /\ MaxStreams \in Nat \ {0}

VARIABLES
    spec,        \* the source being read
    connected,   \* the listener has a peer
    restart,     \* the stream restarted and nobody has asked yet
    rewound,     \* this read has already been to the start of the file
    stream,      \* the stream the next byte is of
    offset,      \* bytes of it read
    buf          \* the bytes the read appended

sourceVars == <<spec, connected, restart, rewound, stream, offset, buf>>

ErrorKinds == {"ConnectionReset", "ConnectionAborted", "BrokenPipe", "NotConnected",
               "Interrupted", "TimedOut", "WouldBlock", "other"}

(* What describes one connection and not the socket underneath it. *)
PerConnection(kind) ==
    kind \in {"ConnectionReset", "ConnectionAborted", "BrokenPipe", "NotConnected",
              "Interrupted"}

IsDatagram == spec.scheme = "udp"
AtEnd == spec.scheme = "file" /\ offset = spec.length

(* A rate of zero disables the limiter rather than stopping the replay. *)
Paced == spec.scheme = "file" /\ spec.rate > 0

SourceInit ==
    /\ spec \in Specs
    /\ connected = FALSE /\ restart = FALSE /\ rewound = FALSE
    /\ stream = IF spec.scheme = "listen" THEN 0 ELSE 1
    /\ offset = 0 /\ buf = <<>>

Read(n) == buf' = [i \in 1..n |-> [stream |-> stream, at |-> offset + i]]

Datagram(n) ==
    /\ IsDatagram /\ stream < MaxStreams
    /\ Read(n)
    /\ stream' = stream + 1 /\ offset' = 0
    /\ UNCHANGED <<spec, connected, restart, rewound>>

SocketBytes(n) ==
    /\ spec.scheme = "tcp" \/ connected
    /\ Read(n)
    /\ offset' = offset + n
    /\ UNCHANGED <<spec, connected, restart, rewound, stream>>

FileBytes(n) ==
    /\ spec.scheme = "file" /\ n <= spec.length - offset
    /\ Read(n)
    /\ offset' = offset + n /\ rewound' = FALSE
    /\ UNCHANGED <<spec, connected, restart, stream>>

Bytes == \E n \in 1..MaxRead : Datagram(n) \/ SocketBytes(n) \/ FileBytes(n)

(* The first peer is a restart like any other. *)
Accept ==
    /\ spec.scheme = "listen" /\ ~connected /\ stream < MaxStreams
    /\ connected' = TRUE /\ restart' = TRUE
    /\ stream' = stream + 1 /\ offset' = 0
    /\ UNCHANGED <<spec, rewound, buf>>

(* It closed, or its connection broke: the read goes on with the next peer. *)
PeerLeaves ==
    /\ connected
    /\ connected' = FALSE
    /\ UNCHANGED <<spec, restart, rewound, stream, offset, buf>>

(* Once a read, so that an empty file ends. *)
Rewind ==
    /\ AtEnd /\ spec.repeat /\ ~rewound /\ stream < MaxStreams
    /\ restart' = TRUE /\ rewound' = TRUE
    /\ stream' = stream + 1 /\ offset' = 0
    /\ UNCHANGED <<spec, connected, buf>>

(* Ok(0): only a connection and a file have an end. *)
Ends ==
    /\ spec.scheme = "tcp" \/ (AtEnd /\ (spec.repeat => rewound))
    /\ UNCHANGED sourceVars

(* Err: the socket, the disk or the listener failed, or its peer in a way   *)
(* that is not taken for a connection's, a time-out for one.                *)
Fails(kind) ==
    /\ spec.scheme = "listen" => ~PerConnection(kind)
    /\ connected' = FALSE /\ rewound' = FALSE
    /\ UNCHANGED <<spec, restart, stream, offset, buf>>

TakeRestart ==
    /\ restart' = FALSE
    /\ UNCHANGED <<spec, connected, rewound, stream, offset, buf>>

ClearBuffer ==
    /\ buf' = <<>>
    /\ UNCHANGED <<spec, connected, restart, rewound, stream, offset>>
=============================================================================
