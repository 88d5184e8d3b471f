-------------------------------- MODULE Csp --------------------------------
(***************************************************************************)
(* How a message is taken out of its CSP envelope: CspHeader::parse in       *)
(* xtce-gs-link/src/csp.rs.  A message is a sequence of symbols: a header    *)
(* whose last symbol holds the flags, a payload, and a checksum when the     *)
(* header says there is one.                                                 *)
(***************************************************************************)
EXTENDS GaloisField, Integers, Sequences

CONSTANTS
    CspVersions,
    HeaderBytes,   \* CspVersion::header_bytes
    FlagsOf        \* for each version, the flags a symbol of the header sets

ASSUME CspAssumption ==
    /\ HeaderBytes \in [CspVersions -> Nat \ {0}]
    /\ FlagsOf \in [CspVersions -> [Symbols -> SUBSET {"hmac", "xtea", "fragment", "rdp", "crc32"}]]

CRC32_BYTES == 1

\* crc32c: symbols through a cyclic register that starts full and is inverted.
crc32c(symbols) ==
    LET from[k \in 0..Len(symbols)] ==
            IF k = 0 THEN CODEWORD_SYMBOLS ELSE Scaled(from[k - 1] ## symbols[k], 1)
    IN  from[Len(symbols)] ## CODEWORD_SYMBOLS

HeaderFlags(message, version) == FlagsOf[version][message[HeaderBytes[version]]]

\* What a station that only receives cannot undo, or must not hand on.
Unsupported == {"hmac", "xtea", "fragment", "rdp"}

Split(message) == Len(message) - CRC32_BYTES
Envelope(message, version) == SubSeq(message, 1, Split(message))
Body(message, version) == SubSeq(message, HeaderBytes[version] + 1, Split(message))

\* libcsp has summed the payload alone and, since, the header with it.
Sealed(message, version) ==
    message[Len(message)] \in {crc32c(Envelope(message, version)), crc32c(Body(message, version))}

(* A mistake: the checksum stays on the end of the payload. *)
UnwrapWithTrailer(message, version) ==
    IF \/ Len(message) < HeaderBytes[version]
       \/ HeaderFlags(message, version) \intersect Unsupported # {}
       \/ /\ "crc32" \in HeaderFlags(message, version)
          /\ ~(Split(message) >= HeaderBytes[version] /\ Sealed(message, version))
      THEN [ok |-> FALSE, payload |-> <<>>]
      ELSE [ok |-> TRUE, payload |-> SubSeq(message, HeaderBytes[version] + 1, Len(message))]

\* CspHeader::parse: the payload, or a refusal.
Unwrap(message, version) ==
    IF Len(message) < HeaderBytes[version] THEN [ok |-> FALSE, payload |-> <<>>]
    ELSE LET flags == HeaderFlags(message, version) IN
         IF flags \intersect Unsupported # {} THEN [ok |-> FALSE, payload |-> <<>>]
         ELSE IF "crc32" \notin flags
           THEN [ok |-> TRUE, payload |-> SubSeq(message, HeaderBytes[version] + 1, Len(message))]
         ELSE IF Split(message) < HeaderBytes[version] \/ ~Sealed(message, version)
           THEN [ok |-> FALSE, payload |-> <<>>]
         ELSE [ok |-> TRUE, payload |-> Body(message, version)]
=============================================================================
