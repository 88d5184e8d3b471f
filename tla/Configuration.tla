--------------------------- MODULE Configuration ---------------------------
(***************************************************************************)
(* From what the operator typed to what a session or a probe is started on:  *)
(* the argument structs of xtce-gs-cli/src/args.rs, PipelineConfig::validate *)
(* and SessionConfig::validate.  A path or a name is Given or Blank; an      *)
(* optional argument nobody typed is None.                                   *)
(***************************************************************************)
EXTENDS Option, TransferFrame, Integers

CONSTANTS
    Given, Blank,
    SPACE_PACKET_HEADER_BYTES,
    ACCEPTED_PARITY, ACCEPTED_INTERLEAVE,
    DEFAULT_INTERLEAVE, DEFAULT_HISTORY_DEPTH, EXPORT_HISTORY_DEPTH, DEFAULT_EVENT_CAPACITY,
    MAX_TIME_BYTES

ASSUME ConfigurationAssumption ==
    /\ SPACE_PACKET_HEADER_BYTES \in Nat
    /\ ACCEPTED_PARITY \subseteq 1..CODEWORD_SYMBOLS
    /\ ACCEPTED_INTERLEAVE \subseteq Nat \ {0}
    /\ DEFAULT_INTERLEAVE \in ACCEPTED_INTERLEAVE
    /\ Given # Blank /\ None \notin Nat

(***************************************************************************)
(* The pipeline's own arguments and what PipelineConfig::validate refuses.  *)
(***************************************************************************)
FRAME_ONLY_FLAGS == {"rs", "interleave", "derandomize", "fecf", "ocf", "insert_zone"}

Typed(args) ==
    [rs |-> args.rs # None, interleave |-> args.interleave # None,
     derandomize |-> args.derandomize, fecf |-> args.fecf, ocf |-> args.ocf,
     insert_zone |-> args.insert_zone # None]
frame_only_flags_given(args) == {flag \in FRAME_ONLY_FLAGS : Typed(args)[flag]}

OrElse(value, default) == IF value = None THEN default ELSE value

PacketFraming == [kind |-> "packets"]

Framing(args) ==
    IF args.framing = "packets" THEN PacketFraming
    ELSE [kind |-> "tm",
          frame_length |-> args.frame_length,
          attached_sync_marker |-> ~args.no_asm,
          bit_slip |-> args.bit_slip,
          flywheel |-> args.flywheel,
          reed_solomon |-> IF args.rs = None THEN None
                           ELSE [parity_symbols |-> args.rs,
                                 interleave |-> OrElse(args.interleave, DEFAULT_INTERLEAVE)],
          derandomize |-> args.derandomize,
          has_fecf |-> args.fecf,
          has_ocf |-> args.ocf,
          insert_zone |-> OrElse(args.insert_zone, 0)]

PipelineOf(args) ==
    [framing |-> Framing(args), csp |-> args.csp, max_packet_length |-> args.max_packet_length]

RefusedFlags(args) ==
    \/ args.framing = "packets" /\ frame_only_flags_given(args) # {}
    \/ args.framing = "tm" /\ args.interleave # None /\ args.rs = None

parity_bytes(rs) == rs.parity_symbols * rs.interleave
frame_bytes(rs) == (CODEWORD_SYMBOLS - rs.parity_symbols) * rs.interleave

\* From one marker to the next, the marker left out.
codeword_length(framing) ==
    framing.frame_length
    + (IF framing.reed_solomon = None THEN 0 ELSE parity_bytes(framing.reed_solomon))

Overhead(framing) ==
    PRIMARY_HEADER_BYTES + framing.insert_zone
    + (IF framing.has_ocf THEN OCF_BYTES ELSE 0) + (IF framing.has_fecf THEN FECF_BYTES ELSE 0)

ValidCode(framing) ==
    framing.reed_solomon # None =>
        /\ framing.reed_solomon.parity_symbols \in ACCEPTED_PARITY
        /\ framing.reed_solomon.interleave \in ACCEPTED_INTERLEAVE
        /\ framing.frame_length = frame_bytes(framing.reed_solomon)

ValidFrames(pipeline) ==
    pipeline.framing.kind = "tm" =>
        /\ pipeline.csp = None
        /\ pipeline.framing.frame_length # 0
        /\ Overhead(pipeline.framing) < pipeline.framing.frame_length
        /\ ValidCode(pipeline.framing)

ValidPipeline(pipeline) ==
    /\ pipeline.max_packet_length >= SPACE_PACKET_HEADER_BYTES + 1
    /\ ValidFrames(pipeline)

(***************************************************************************)
(* The clock's arguments and validate_time_source.                          *)
(***************************************************************************)
TimeFormat(time) ==
    CASE time.format = "cuc" ->
            [kind |-> "cuc", coarse_bytes |-> time.coarse_bytes, fine_bytes |-> time.fine_bytes,
             epoch |-> time.epoch]
      [] time.format = "cds" ->
            [kind |-> "cds", day_bytes |-> time.day_bytes,
             submillisecond_bytes |-> time.submillisecond_bytes, epoch |-> time.epoch]
      [] time.format = "seconds" -> [kind |-> "seconds", epoch |-> time.epoch]

TimeSourceOf(time) ==
    IF time.parameter = None THEN None
    ELSE [parameter |-> time.parameter, format |-> TimeFormat(time)]

ValidFormat(format) ==
    /\ format.kind = "cuc" =>
        /\ format.coarse_bytes # 0
        /\ format.coarse_bytes + format.fine_bytes <= MAX_TIME_BYTES
    /\ format.kind = "cds" =>
        /\ format.day_bytes \in 2..4
        /\ format.submillisecond_bytes \in {0, 2, 4}

ValidTimeSource(source) == source.parameter # Blank /\ ValidFormat(source.format)

(***************************************************************************)
(* The four subcommands.                                                    *)
(***************************************************************************)
FileSource(rate, repeat) == [kind |-> "file", bytes_per_second |-> rate, repeat |-> repeat]

RunSession(line) ==
    [definition |-> line.definition,
     source |-> [kind |-> line.source],
     pipeline |-> PipelineOf(line.pipeline),
     history_depth |-> OrElse(line.history, DEFAULT_HISTORY_DEPTH),
     event_capacity |-> DEFAULT_EVENT_CAPACITY,
     limits |-> line.limits, record |-> line.record,
     spacecraft_time |-> TimeSourceOf(line.time)]

\* A rate of 0 is no rate; a replay is not recorded again.
ReplaySession(line) ==
    [RunSession(line) EXCEPT
        !.source = FileSource(IF line.rate > 0 THEN line.rate ELSE None, line.repeat),
        !.record = None]

ExportSession(line) ==
    [RunSession(line) EXCEPT
        !.source = FileSource(None, FALSE), !.record = None, !.limits = None,
        !.history_depth = EXPORT_HISTORY_DEPTH]

\* A probe reads a file through a pipeline and starts no session.
ProbeOf(line) ==
    [source |-> FileSource(None, FALSE), pipeline |-> PipelineOf(line.pipeline)]
ProbeRefused(line) == line.pipeline.csp # None \/ ~ValidPipeline(PipelineOf(line.pipeline))

SessionOf(line) ==
    CASE line.command = "run" -> RunSession(line)
      [] line.command = "replay" -> ReplaySession(line)
      [] line.command = "export" -> ExportSession(line)

(* A mistake: CSP is taken on any source. *)
ValidSessionAnySource(session) ==
    /\ session.definition # Blank
    /\ session.history_depth # 0
    /\ session.event_capacity # 0
    /\ session.spacecraft_time # None => ValidTimeSource(session.spacecraft_time)
    /\ ValidPipeline(session.pipeline)

ValidSession(session) ==
    /\ session.definition # Blank
    /\ session.history_depth # 0
    /\ session.event_capacity # 0
    /\ session.spacecraft_time # None => ValidTimeSource(session.spacecraft_time)
    /\ session.pipeline.csp # None => session.source.kind = "udp"
    /\ ValidPipeline(session.pipeline)

Refused(line) ==
    \/ RefusedFlags(line.pipeline)
    \/ line.command = "probe" /\ ProbeRefused(line)
    \/ line.command # "probe" /\ ~ValidSession(SessionOf(line))

Started(line) == IF line.command = "probe" THEN ProbeOf(line) ELSE SessionOf(line)
=============================================================================
