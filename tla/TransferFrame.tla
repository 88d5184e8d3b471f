--------------------------- MODULE TransferFrame ---------------------------
(***************************************************************************)
(* How a TM transfer frame is checked and taken apart: TmFrame in            *)
(* xtce-gs-link/src/frame.rs.  A frame is a function from 0 to symbols.      *)
(* What the fields of a primary header say is looked up in HeaderOf by its   *)
(* first symbol; trailers, insert zone and data are symbols of the frame.    *)
(***************************************************************************)
EXTENDS GaloisField, Sequences

CONSTANTS
    PRIMARY_HEADER_BYTES, OCF_BYTES, FECF_BYTES,
    TM_VERSION,
    ONLY_IDLE_DATA, NO_PACKET_START,   \* pointers that are not offsets
    Vcids,
    HeaderOf   \* the primary header a symbol stands for

Headers == [version : Nat, vcid : Vcids, ocf : BOOLEAN, secondary : BOOLEAN,
            sync : BOOLEAN, pointer : Nat]

ASSUME TransferFrameAssumption ==
    /\ PRIMARY_HEADER_BYTES \in Nat \ {0} /\ OCF_BYTES \in Nat \ {0} /\ FECF_BYTES = 1
    /\ TM_VERSION \in Nat /\ ONLY_IDLE_DATA \in Nat /\ NO_PACKET_START \in Nat
    /\ HeaderOf \in [Symbols -> Headers]

FrameLength(frame) == Cardinality(DOMAIN frame)
HeaderIn(frame) == HeaderOf[frame[0]]

\* crc16_ccitt: the first n symbols through a cyclic register that starts full.
Checksum(frame, n) ==
    LET from[k \in 0..n] ==
            IF k = 0 THEN CODEWORD_SYMBOLS ELSE Scaled(from[k - 1] ## frame[k - 1], 1)
    IN  from[n]

ocf_present(header, options) == options.has_ocf /\ header.ocf
trailer_bytes(header, options) ==
    (IF ocf_present(header, options) THEN OCF_BYTES ELSE 0)
    + (IF options.has_fecf THEN FECF_BYTES ELSE 0)

secondary_header_start(options) == PRIMARY_HEADER_BYTES + options.insert_zone

\* One more than the low bits of its first symbol; the version is above them.
secondary_header_bytes(frame, options) ==
    IF HeaderIn(frame).secondary
      THEN (frame[secondary_header_start(options)] % 2^(Bits - 1)) + 1
      ELSE 0

DataStart(frame, options) ==
    secondary_header_start(options) + secondary_header_bytes(frame, options)
DataEnd(frame, options) ==
    FrameLength(frame) - trailer_bytes(HeaderIn(frame), options)

data_field(frame, options) ==
    [n \in 1..(DataEnd(frame, options) - DataStart(frame, options)) |->
        frame[DataStart(frame, options) + n - 1]]

is_idle(header) == header.pointer = ONLY_IDLE_DATA

Needed(header, options) ==
    PRIMARY_HEADER_BYTES + options.insert_zone + trailer_bytes(header, options)
    + (IF header.secondary THEN 1 ELSE 0)

ChecksumFails(frame, options) ==
    LET split == FrameLength(frame) - FECF_BYTES
    IN  options.has_fecf /\ frame[split] # Checksum(frame, split)

\* A pointer the data field has no room behind; undefined under access service.
PointsOutside(frame, options) ==
    LET header == HeaderIn(frame)
    IN  /\ ~header.sync
        /\ header.pointer \notin {ONLY_IDLE_DATA, NO_PACKET_START}
        /\ header.pointer >= Len(data_field(frame, options))

Parsed == "parsed"

\* What TmFrame::parse says of a frame, its checks in the order that lets each
\* one rely on those before it.
parse(frame, options) ==
    IF FrameLength(frame) < PRIMARY_HEADER_BYTES THEN "TooShort"
    ELSE IF HeaderIn(frame).version # TM_VERSION THEN "BadVersion"
    ELSE IF FrameLength(frame) < Needed(HeaderIn(frame), options) THEN "TooShort"
    ELSE IF DataStart(frame, options) > DataEnd(frame, options) THEN "BadSecondaryHeader"
    ELSE IF ChecksumFails(frame, options) THEN "BadChecksum"
    ELSE IF PointsOutside(frame, options) THEN "BadFirstHeaderPointer"
    ELSE Parsed
=============================================================================
