------------------------------ MODULE Reception ------------------------------
(***************************************************************************)
(* A station from its command line to what it makes of each block and each   *)
(* message that reaches it: FrameStage::run and the CSP half of              *)
(* Pipeline::push in xtce-gs-link/src/pipeline.rs, over the codec, the       *)
(* randomiser, the frame and the envelope of their own modules, configured   *)
(* by Configuration.  The spacecraft sends as the station is configured, and *)
(* the link damages symbols on the way.                                      *)
(***************************************************************************)
EXTENDS ReedSolomon, TransferFrame, Csp, Configuration

CONSTANTS
    CommandLines,      \* what an operator types
    SentHeaders,       \* the headers the spacecraft gives its frames
    Fills,             \* the first symbol of what it fills a frame with
    Payloads,          \* what it sends in an envelope
    Strays,            \* messages that are none of its own
    Noise,             \* how the link changes the first symbol it changes, the second, ...
    MaxStrikes,        \* symbols changed in one pass
    MaxArrivals        \* blocks and messages of one pass

ASSUME ReceptionAssumption ==
    /\ ACCEPTED_PARITY \subseteq CodecParity /\ ACCEPTED_INTERLEAVE \subseteq InterleaveDepths
    /\ Noise \in [1..MaxStrikes -> Symbols \ {0}]
    /\ MaxStrikes \in Nat /\ MaxArrivals \in Nat
    /\ None \notin CommandLines /\ None \notin [parity_symbols : Nat, interleave : Nat]
    /\ \A typed \in CommandLines :
        /\ typed.command \in {"run", "replay", "export", "probe"}
        /\ typed.pipeline.framing \in {"packets", "tm"}
        /\ typed.pipeline.frame_length \in Nat
        /\ {typed.pipeline.rs, typed.pipeline.interleave} \subseteq Nat \cup {None}

VARIABLES
    line,            \* the command line, None before it is typed
    config,          \* what was started, None when it was refused
    block,           \* the block on its way, or None
    message,         \* the message on its way, or None
    message_start,   \* Pipeline::message_start
    stats,           \* LinkStats
    vca_reported,    \* Pipeline::vca_reported
    last,            \* what became of the block or message that came last
    arrivals,        \* how many came
    strikes          \* how many symbols were changed on the way

linkVars == <<block, message, strikes>>
pipelineVars == <<message_start, stats, vca_reported>>
receptionVars == <<line, config, linkVars, pipelineVars, last, arrivals>>

NoStats == [frames_seen |-> 0, frames_ok |-> 0, frames_dropped |-> 0, idle_frames |-> 0,
            rs_corrected |-> 0, rs_symbols |-> 0, rs_uncorrectable |-> 0, crc_failures |-> 0]

ReceptionInit ==
    /\ line = None /\ config = None
    /\ block = None /\ message = None
    /\ message_start = TRUE /\ stats = NoStats /\ vca_reported = {}
    /\ last = None /\ arrivals = 0 /\ strikes = 0

Invoke ==
    /\ line = None
    /\ \E typed \in CommandLines :
        /\ line' = typed
        /\ config' = IF Refused(typed) THEN None ELSE Started(typed)
    /\ UNCHANGED <<linkVars, pipelineVars, last, arrivals>>

Running == config # None
Frames == config.pipeline.framing
OnFrames == Running /\ Frames.kind = "tm"
OnMessages == Running /\ config.pipeline.csp # None
Quiet == block = None /\ message = None /\ arrivals < MaxArrivals

FrameOptions(framing) ==
    [has_ocf |-> framing.has_ocf, has_fecf |-> framing.has_fecf,
     insert_zone |-> framing.insert_zone]

\* The codec a pipeline is built with: none, uncoded or where there is no such code.
Codec(framing) ==
    IF framing.reed_solomon = None THEN None
    ELSE IF HasCodec(framing.reed_solomon.parity_symbols, framing.reed_solomon.interleave)
           THEN framing.reed_solomon
           ELSE None

(***************************************************************************)
(* The spacecraft's side, and the link.                                     *)
(***************************************************************************)
FrameSent(framing, header, fill) ==
    LET Filled == [k \in 0..(framing.frame_length - 1) |->
                    IF k = 0 THEN header ELSE (fill + k - 1) % 2^Bits]
    IN  IF framing.has_fecf
          THEN [Filled EXCEPT ![framing.frame_length - 1] =
                    Checksum(Filled, framing.frame_length - 1)]
          ELSE Filled

BlockSent(framing, frame) ==
    LET coded == IF framing.reed_solomon = None THEN frame
                 ELSE encode(framing.reed_solomon.parity_symbols,
                             framing.reed_solomon.interleave, frame)
    IN  IF framing.derandomize THEN randomize(coded) ELSE coded

Transmit ==
    /\ OnFrames /\ Quiet
    /\ \E header \in SentHeaders, fill \in Fills :
        LET frame == Evaluated(FrameSent(Frames, header, fill)) IN
        /\ parse(frame, FrameOptions(Frames)) = Parsed
        /\ block' = [sent |-> frame, wire |-> Evaluated(BlockSent(Frames, frame)), struck |-> {}]
    /\ last' = None
    /\ UNCHANGED <<line, config, message, strikes, pipelineVars, arrivals>>

HeaderSent(version, flags) ==
    [n \in 1..HeaderBytes[version] |-> IF n = HeaderBytes[version] THEN flags ELSE 0]

\* A message as its sender leaves it, summed whole or without its header.
MessageSent(version, flags, payload, whole) ==
    LET header == HeaderSent(version, flags)
        summed == IF whole THEN header \o payload ELSE payload
    IN  header \o payload
        \o (IF "crc32" \in FlagsOf[version][flags] THEN <<crc32c(summed)>> ELSE <<>>)

TransmitMessage ==
    /\ OnMessages /\ Quiet
    /\ \E flags \in Symbols, payload \in Payloads :
       \E whole \in BOOLEAN :
        message' = [sent |-> payload, flags |-> FlagsOf[config.pipeline.csp][flags],
                    whole |-> whole, struck |-> {}, stray |-> FALSE, pushed |-> FALSE,
                    wire |-> MessageSent(config.pipeline.csp, flags, payload, whole)]
    /\ last' = None
    /\ UNCHANGED <<line, config, block, strikes, pipelineVars, arrivals>>

StrayMessage ==
    /\ OnMessages /\ Quiet
    /\ \E wire \in Strays :
        message' = [sent |-> <<>>, flags |-> {}, whole |-> TRUE, wire |-> wire,
                    struck |-> {}, stray |-> TRUE, pushed |-> FALSE]
    /\ last' = None
    /\ UNCHANGED <<line, config, block, strikes, pipelineVars, arrivals>>

Struck(signal, position, noise) ==
    [signal EXCEPT !.wire[position] = @ ## noise, !.struck = @ \union {position}]

\* The positions are taken in order: the damage is a set.
Strike ==
    /\ block # None
    /\ strikes < MaxStrikes
    /\ strikes' = strikes + 1
    /\ \E position \in DOMAIN block.wire :
        /\ \A earlier \in block.struck : earlier < position
        /\ block' = Struck(block, position, Noise[strikes + 1])
    /\ UNCHANGED <<line, config, message, pipelineVars, last, arrivals>>

StrikeMessage ==
    /\ message # None /\ ~message.stray /\ ~message.pushed
    /\ strikes < MaxStrikes /\ message.struck = {}
    /\ strikes' = strikes + 1
    /\ \E position \in DOMAIN message.wire :
        message' = Struck(message, position, Noise[strikes + 1])
    /\ UNCHANGED <<line, config, block, pipelineVars, last, arrivals>>

(***************************************************************************)
(* The station's side.                                                      *)
(***************************************************************************)
\* What the codec makes of a block: what it holds, and the symbols repaired.
Decoded(framing, taken) ==
    LET codec == Codec(framing) IN
    IF codec = None THEN [verdict |-> Parsed, symbols |-> 0, block |-> taken]
    ELSE IF FrameLength(taken) # block_length(codec.interleave)
      THEN [verdict |-> "BadLength", symbols |-> 0, block |-> taken]
    ELSE LET repaired == decode(codec.parity_symbols, codec.interleave, taken)
         IN  [verdict |-> IF repaired.ok THEN Parsed ELSE "Uncorrectable",
              symbols |-> repaired.symbols, block |-> repaired.block]

Clamped(framing, decoded) ==
    [k \in 0..(framing.frame_length - 1) \intersect DOMAIN decoded |-> decoded[k]]

\* The verdict on a block, and the counters it moves.
Verdict(framing, decoded) ==
    IF decoded.verdict # Parsed THEN decoded.verdict
    ELSE parse(Clamped(framing, decoded.block), FrameOptions(framing))

(* A mistake: a block that cannot be repaired is not dropped. *)
DroppedByParser(verdict) == verdict \notin {Parsed, "Uncorrectable"}

Dropped(verdict) == verdict # Parsed

Counted(old, verdict, decoded, header) ==
    LET One(condition) == IF condition THEN 1 ELSE 0 IN
    [frames_seen |-> old.frames_seen + 1,
     frames_ok |-> old.frames_ok + One(verdict = Parsed),
     frames_dropped |-> old.frames_dropped + One(Dropped(verdict)),
     idle_frames |-> old.idle_frames + One(verdict = Parsed /\ ~header.sync /\ is_idle(header)),
     rs_corrected |-> old.rs_corrected + One(decoded.symbols # 0),
     rs_symbols |-> old.rs_symbols + decoded.symbols,
     rs_uncorrectable |-> old.rs_uncorrectable + One(verdict = "Uncorrectable"),
     crc_failures |-> old.crc_failures + One(verdict = "BadChecksum")]

\* FrameStage::run on one block.  Access service is reported once per channel;
\* what is idle or access service is not taken apart.
Settled(taken, decoded, verdict, frame, header) ==
    /\ stats' = Counted(stats, verdict, decoded, header)
    /\ vca_reported' = IF verdict = Parsed /\ header.sync
                         THEN vca_reported \union {header.vcid} ELSE vca_reported
    /\ last' = [sent |-> block.sent, struck |-> block.struck, taken |-> Evaluated(taken),
                verdict |-> verdict, symbols |-> decoded.symbols,
                block |-> Evaluated(decoded.block),
                data |-> IF verdict = Parsed /\ ~header.sync /\ ~is_idle(header)
                           THEN data_field(frame, FrameOptions(Frames)) ELSE <<>>]

Judged(taken, decoded) ==
    LET frame == Clamped(Frames, decoded.block)
    IN  Settled(taken, decoded, Verdict(Frames, decoded), frame, HeaderIn(frame))

Receive ==
    /\ block # None
    /\ LET taken == IF Frames.derandomize THEN derandomize(block.wire, Frames.frame_length)
                    ELSE block.wire
       IN  Judged(taken, Decoded(Frames, taken))
    /\ block' = None
    /\ arrivals' = arrivals + 1
    /\ UNCHANGED <<line, config, message, strikes, message_start>>

\* Pipeline::push on a message: its envelope comes off where a message starts.
ReceiveMessage ==
    /\ message # None /\ ~message.pushed
    /\ LET unwrapped == IF message_start
                          THEN Unwrap(message.wire, config.pipeline.csp)
                          ELSE [ok |-> TRUE, payload |-> message.wire]
       IN  IF message.wire = <<>>
             THEN last' = [sent |-> message, ok |-> FALSE, payload |-> <<>>]
                  /\ UNCHANGED message_start
             ELSE last' = [sent |-> message, ok |-> unwrapped.ok, payload |-> unwrapped.payload]
                  /\ message_start' = FALSE
    /\ message' = [message EXCEPT !.pushed = TRUE]
    /\ arrivals' = arrivals + 1
    /\ UNCHANGED <<line, config, block, strikes, stats, vca_reported>>

\* The source's next read begins another message: Pipeline::flush_message.
Flush ==
    /\ message # None /\ message.pushed
    /\ message_start' = TRUE
    /\ message' = None
    /\ UNCHANGED <<line, config, block, strikes, stats, vca_reported, last, arrivals>>

ReceptionNext ==
    \/ Invoke \/ Transmit \/ TransmitMessage \/ StrayMessage \/ Strike \/ StrikeMessage
    \/ Receive \/ ReceiveMessage \/ Flush

ReceptionSpec == ReceptionInit /\ [][ReceptionNext]_receptionVars

(***************************************************************************)
(* What the station promises.                                               *)
(***************************************************************************)
OfBlock == last # None /\ "verdict" \in DOMAIN last
OfMessage == last # None /\ "payload" \in DOMAIN last

Depth(framing) == IF Codec(framing) = None THEN 1 ELSE Codec(framing).interleave
Reach(framing) ==
    IF Codec(framing) = None THEN 0 ELSE correction_capacity(Codec(framing).parity_symbols)

InLane(positions, framing, lane) == {p \in positions : p % Depth(framing) = lane}

(* A block with no more changed symbols in each of its codewords than the    *)
(* code can repair becomes the frame that was sent, symbol for symbol, and   *)
(* the symbols it cost are counted exactly (the order of the coding stages   *)
(* and the whole decoder).                                                   *)
RepairIsExact ==
    OfBlock /\ (\A lane \in 0..(Depth(Frames) - 1) :
                    Cardinality(InLane(last.struck, Frames, lane)) <= Reach(Frames)) =>
        /\ last.verdict = Parsed
        /\ Clamped(Frames, last.block) = last.sent
        /\ last.symbols = Cardinality(last.struck)

\* The syndromes of every pattern of errors a code can repair.
Patterns(parity) ==
    UNION {{[n \in 0..(CODEWORD_SYMBOLS - 1) |-> IF n \in at THEN wrong[n] ELSE 0] :
                wrong \in [at -> 1..CODEWORD_SYMBOLS]} :
           at \in {S \in SUBSET (0..(CODEWORD_SYMBOLS - 1)) :
                    Cardinality(S) <= correction_capacity(parity)}}
Repairable ==
    Evaluated([parity \in CodecParity |-> {Syndromes(parity, e) : e \in Patterns(parity)}])

(* Whatever the damage, a block is accepted exactly when each of its         *)
(* codewords is within reach of a codeword, each then becomes that codeword, *)
(* and a block that is refused is left as it came (ReedSolomon::decode       *)
(* patches no lane before it has located the errors of all of them).  No     *)
(* block is of a length the codec or the parser cannot take.                 *)
BoundedDistance ==
    /\ OfBlock => last.verdict \notin {"BadLength", "TooShort"}
    /\ OfBlock /\ Codec(Frames) # None =>
        LET codec == Codec(Frames)
            Before(lane) == Lane(last.taken, codec.interleave, lane)
            After(lane) == Lane(last.block, codec.interleave, lane)
            lanes == 0..(codec.interleave - 1)
        IN  /\ last.verdict = "Uncorrectable" <=>
                    \E lane \in lanes :
                        Syndromes(codec.parity_symbols, Before(lane))
                            \notin Repairable[codec.parity_symbols]
            /\ last.verdict = "Uncorrectable" => last.block = last.taken
            /\ last.verdict # "Uncorrectable" =>
                    \A lane \in lanes :
                        /\ IsClean(Syndromes(codec.parity_symbols, After(lane)))
                        /\ Cardinality({n \in DOMAIN Before(lane) :
                                Before(lane)[n] # After(lane)[n]}) <= Reach(Frames)

(* Every block is counted once and in one way: handed on, or dropped for a   *)
(* reason; a repaired block cost at least one symbol (LinkStats).            *)
FramesAccounted ==
    /\ OnFrames => stats.frames_seen = arrivals
    /\ stats.frames_seen = stats.frames_ok + stats.frames_dropped
    /\ stats.rs_uncorrectable + stats.crc_failures <= stats.frames_dropped
    /\ stats.idle_frames <= stats.frames_ok
    /\ stats.rs_corrected <= stats.rs_symbols

\* A flag about frames is acted on by what was started.
Honoured(flag, framing) ==
    /\ framing.kind = "tm"
    /\ flag \in {"rs", "interleave"} => framing.reed_solomon # None
    /\ flag = "derandomize" => framing.derandomize
    /\ flag = "fecf" => framing.has_fecf
    /\ flag = "ocf" => framing.has_ocf

\* The codec exists, takes the blocks the synchroniser is told to cut, and
\* gives back frames of the configured length.
CodecFits(framing) ==
    framing.reed_solomon # None =>
        /\ Codec(framing) # None
        /\ codeword_length(framing) = block_length(framing.reed_solomon.interleave)
        /\ framing.frame_length = data_length(framing.reed_solomon.parity_symbols,
                                              framing.reed_solomon.interleave)

(* What is started does all that was typed, and can: no flag about frames is *)
(* dropped on the floor, CSP is never read off a byte stream, not even by a  *)
(* probe, which no SessionConfig::validate guards, a frame has room for data *)
(* and the codec and the synchroniser agree on the block (args.rs,           *)
(* PipelineConfig::validate).                                                *)
ConfigurationWorks ==
    Running =>
        /\ \A flag \in frame_only_flags_given(line.pipeline) : Honoured(flag, Frames)
        /\ OnMessages => config.source.kind = "udp"
        /\ OnFrames => CodecFits(Frames) /\ Overhead(Frames) < Frames.frame_length

\* The sum the sender put on a message is the one found on it.
StillSummed(m) ==
    LET version == config.pipeline.csp
    IN  Split(m.wire) >= HeaderBytes[version]
        /\ m.wire[Len(m.wire)] = crc32c(IF m.whole THEN Envelope(m.wire, version)
                                        ELSE Body(m.wire, version))

(* An undamaged message is handed on without its envelope, or refused for    *)
(* what a station cannot undo; one with a changed symbol, its flags intact   *)
(* and its own sum right, is handed on as sent or not at all.  So the packet *)
(* stage never sees an envelope, whatever came before (message_start).       *)
PayloadIsSent ==
    OfMessage /\ ~last.sent.stray =>
        /\ last.sent.struck = {} =>
                /\ last.ok <=> last.sent.flags \intersect Unsupported = {}
                /\ last.ok => last.payload = last.sent.sent
        /\ /\ last.ok /\ "crc32" \in last.sent.flags /\ StillSummed(last.sent)
           /\ HeaderBytes[config.pipeline.csp] \notin last.sent.struck
           => last.payload = last.sent.sent
=============================================================================
