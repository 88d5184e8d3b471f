---------------------------- MODULE ReedSolomon ----------------------------
(***************************************************************************)
(* The Reed-Solomon codec of xtce-gs-link/src/rs.rs: an interleaved block    *)
(* of codewords, each decoded by syndromes, Berlekamp-Massey, a root search  *)
(* and Forney's formula, all lanes before a symbol of the block is changed.  *)
(* A block is a function from 0; polynomials are functions from the power.   *)
(* And the pseudo-randomiser of derand.rs, which is put on a coded block: the *)
(* output of a shift register that starts with every bit set, packed into    *)
(* symbols and added to a codeword from its first symbol on.                 *)
(***************************************************************************)
EXTENDS GaloisField, Integers

CONSTANTS
    RootSpacing,          \* ROOT_SPACING: 11 in the code
    InverseRootSpacing,   \* INVERSE_ROOT_SPACING: its inverse modulo CODEWORD_SYMBOLS
    CodecParity,          \* the parities ReedSolomon::ccsds makes a code of
    InterleaveDepths,     \* INTERLEAVE_DEPTHS
    Taps                  \* the register's bits that are fed back: 7, 4, 2 and 0 in the code

ASSUME ReedSolomonAssumption ==
    /\ (RootSpacing * InverseRootSpacing) % CODEWORD_SYMBOLS = 1
    /\ CodecParity \subseteq {p \in 2..(CODEWORD_SYMBOLS - 1) : p % 2 = 0}
    /\ InterleaveDepths \subseteq Nat \ {0}
    /\ Taps \subseteq 0..(Bits - 1) /\ (Bits - 1) \in Taps

HasCodec(parity, interleave) == parity \in CodecParity /\ interleave \in InterleaveDepths

correction_capacity(parity) == parity \div 2
block_length(interleave) == CODEWORD_SYMBOLS * interleave
data_length(parity, interleave) == (CODEWORD_SYMBOLS - parity) * interleave

first_root(parity) == (CODEWORD_SYMBOLS + 1) \div 2 - parity \div 2
RootLog(parity, i) == ((first_root(parity) + i) * RootSpacing) % CODEWORD_SYMBOLS

(***************************************************************************)
(* Encoding: the remainder of each lane by the generator.                   *)
(***************************************************************************)
\* A polynomial multiplied by x - alpha^root.
TimesRoot(parity, poly, root) ==
    Evaluated([i \in 0..parity |->
        (IF i = 0 THEN 0 ELSE poly[i - 1]) ## Scaled(poly[i], root)])

Generator ==
    LET Product(parity) ==
            LET of[degree \in 0..parity] ==
                    IF degree = 0 THEN [i \in 0..parity |-> IF i = 0 THEN 1 ELSE 0]
                    ELSE TimesRoot(parity, of[degree - 1], RootLog(parity, degree - 1))
            IN  of[parity]
    IN  Evaluated([parity \in CodecParity |-> Product(parity)])

Feed(parity, register, symbol) ==
    LET feedback == symbol ## register[0]
        generator == Generator[parity]
    IN  Evaluated([i \in 0..(parity - 1) |->
            (IF i = parity - 1 THEN 0 ELSE register[i + 1])
                ## Times(feedback, generator[parity - 1 - i])])

Remainder(parity, data) ==
    LET after[n \in 0..(CODEWORD_SYMBOLS - parity)] ==
            IF n = 0 THEN [i \in 0..(parity - 1) |-> 0]
            ELSE Feed(parity, after[n - 1], data[n - 1])
    IN  after[CODEWORD_SYMBOLS - parity]

Lane(block, interleave, lane) ==
    Evaluated([n \in 0..((Cardinality(DOMAIN block) \div interleave) - 1) |->
        FROM_DUAL[block[n * interleave + lane]]])

encode(parity, interleave, data) ==
    LET sent == data_length(parity, interleave)
        check == Evaluated([lane \in 0..(interleave - 1) |->
                    Remainder(parity, Lane(data, interleave, lane))])
    IN  [k \in 0..(block_length(interleave) - 1) |->
            IF k < sent THEN data[k]
            ELSE TO_DUAL[check[k % interleave][(k - sent) \div interleave]]]

(***************************************************************************)
(* Decoding one codeword.                                                   *)
(***************************************************************************)
\* The codeword as a polynomial, at a root of the generator: Horner's rule.
Horner(codeword, root) ==
    LET upto[n \in 0..(CODEWORD_SYMBOLS - 1)] ==
            IF n = 0 THEN codeword[0] ELSE codeword[n] ## Scaled(upto[n - 1], root)
    IN  upto[CODEWORD_SYMBOLS - 1]

Syndromes(parity, codeword) ==
    Evaluated([i \in 0..(parity - 1) |-> Horner(codeword, RootLog(parity, i))])

\* terms[0] to terms[n - 1], added up.
SumOver(terms, n) ==
    LET first[k \in 0..n] == IF k = 0 THEN 0 ELSE first[k - 1] ## terms[k - 1]
    IN  first[n]

\* One step of Berlekamp-Massey: the locator so far, the last one that failed
\* over its discrepancy, and the length of the register.
Refine(parity, syndromes, step, at) ==
    LET discrepancy == SumOver([k \in 0..(step - 1) |->
                                    Times(at.lambda[k], syndromes[step - k - 1])], step)
        shifted == Evaluated([k \in 0..parity |-> IF k = 0 THEN 0 ELSE at.previous[k - 1]])
        candidate == [k \in 0..parity |-> at.lambda[k] ## Times(discrepancy, shifted[k])]
        longer == 2 * at.length < step
    IN  IF discrepancy = 0 THEN [at EXCEPT !.previous = shifted]
        ELSE [lambda |-> Evaluated(candidate),
              previous |-> IF longer
                             THEN Evaluated([k \in 0..parity |-> Over(at.lambda[k], discrepancy)])
                             ELSE shifted,
              length |-> IF longer THEN step - at.length ELSE at.length]

error_locator(parity, syndromes) ==
    LET one == [k \in 0..parity |-> IF k = 0 THEN 1 ELSE 0]
        after[step \in 0..parity] ==
            IF step = 0 THEN [lambda |-> one, previous |-> one, length |-> 0]
            ELSE Refine(parity, syndromes, step, after[step - 1])
    IN  after[parity].lambda

Degree(parity, lambda) ==
    CHOOSE d \in 0..parity : lambda[d] # 0 /\ \A k \in (d + 1)..parity : lambda[k] = 0

\* The value of a polynomial at a power of alpha, its terms up to "degree".
At(poly, degree, root) ==
    SumOver([k \in 0..degree |-> Scaled(poly[k], k * root)], degree + 1)

chien_search(lambda, degree) ==
    {root \in 1..CODEWORD_SYMBOLS : At(lambda, degree, root) = 0}

PositionOf(root) == (InverseRootSpacing * root - 1) % CODEWORD_SYMBOLS

\* What each root's symbol is wrong by.
forney(parity, syndromes, lambda, degree, roots) ==
    LET omega == Evaluated([term \in 0..(degree - 1) |->
                    SumOver([k \in 0..term |-> Times(lambda[k], syndromes[term - k])], term + 1)])
        derivative == [k \in 0..(degree - 1) |-> IF k % 2 = 0 THEN lambda[k + 1] ELSE 0]
    IN  Evaluated([root \in roots |->
            Over(Scaled(At(omega, degree - 1, root), root * (first_root(parity) - 1)),
                 At(derivative, degree - 1, root))])

IsClean(syndromes) == \A i \in DOMAIN syndromes : syndromes[i] = 0

Uncorrectable == [ok |-> FALSE, repaired |-> {}]

Patched(codeword, wrong) ==
    Evaluated([n \in DOMAIN codeword |->
        LET roots == {root \in DOMAIN wrong : PositionOf(root) = n} IN
        IF roots = {} THEN codeword[n] ELSE codeword[n] ## wrong[CHOOSE r \in roots : TRUE]])

Repair(parity, codeword, wrong) ==
    LET patched == Patched(codeword, wrong)
    IN  IF ~IsClean(Syndromes(parity, patched)) THEN Uncorrectable
        ELSE [ok |-> TRUE, codeword |-> patched,
              repaired |-> {PositionOf(r) : r \in {s \in DOMAIN wrong : wrong[s] # 0}}]

Located(parity, codeword, syndromes, lambda, degree) ==
    LET roots == chien_search(lambda, degree)
    IN  IF degree = 0 \/ degree > correction_capacity(parity) \/ Cardinality(roots) # degree
          THEN Uncorrectable
          ELSE Repair(parity, codeword, forney(parity, syndromes, lambda, degree, roots))

Corrected(parity, codeword, syndromes, lambda) ==
    IF IsClean(syndromes) THEN [ok |-> TRUE, repaired |-> {}, codeword |-> codeword]
    ELSE Located(parity, codeword, syndromes, lambda, Degree(parity, lambda))

correct_codeword(parity, codeword) ==
    LET syndromes == Syndromes(parity, codeword)
    IN  Corrected(parity, codeword, syndromes, error_locator(parity, syndromes))

(***************************************************************************)
(* Decoding a block.  A lane that cannot be repaired leaves all of it alone. *)
(***************************************************************************)
(* A mistake: each lane is written back as it is repaired. *)
decode_in_place(parity, interleave, block) ==
    LET lanes == Evaluated([lane \in 0..(interleave - 1) |->
                    correct_codeword(parity, Lane(block, interleave, lane))])
        fixes(lane) == IF lanes[lane].ok THEN lanes[lane].repaired ELSE {}
    IN  [ok |-> \A lane \in DOMAIN lanes : lanes[lane].ok,
         symbols |-> 0,
         block |-> [k \in DOMAIN block |->
                      IF k \div interleave \in fixes(k % interleave)
                        THEN TO_DUAL[lanes[k % interleave].codeword[k \div interleave]]
                        ELSE block[k]]]

PatchedBlock(interleave, block, lanes, fixed) ==
    IF \E lane \in DOMAIN lanes : ~lanes[lane].ok
      THEN [ok |-> FALSE, symbols |-> 0, block |-> block]
      ELSE [ok |-> TRUE, symbols |-> Cardinality(fixed),
            block |-> [k \in DOMAIN block |->
                         IF k \in fixed
                           THEN TO_DUAL[lanes[k % interleave].codeword[k \div interleave]]
                           ELSE block[k]]]

decode(parity, interleave, block) ==
    LET lanes == Evaluated([lane \in 0..(interleave - 1) |->
                    correct_codeword(parity, Lane(block, interleave, lane))])
    IN  PatchedBlock(interleave, block, lanes,
            {k \in DOMAIN block : k \div interleave \in lanes[k % interleave].repaired})

(***************************************************************************)
(* The randomiser.                                                          *)
(***************************************************************************)
SEQUENCE_LENGTH == CODEWORD_SYMBOLS

Feedback(register) == Cardinality({tap \in Taps : HasBit(register, tap)}) % 2
Advanced(register) == ((2 * register) % 2^Bits) + Feedback(register)

SEQUENCE ==
    LET register[n \in 0..(Bits * SEQUENCE_LENGTH)] ==
            IF n = 0 THEN 2^Bits - 1 ELSE Advanced(register[n - 1])
        Packed(first) ==
            LET from[n \in 0..Bits] ==
                    IF n = 0 THEN 0
                    ELSE 2 * from[n - 1] + (register[first + n - 1] \div 2^(Bits - 1))
            IN  from[Bits]
    IN  Evaluated([k \in 0..(SEQUENCE_LENGTH - 1) |-> Packed(k * Bits)])

\* The spacecraft's side.
randomize(block) == [k \in DOMAIN block |-> block[k] ## SEQUENCE[k % SEQUENCE_LENGTH]]

(* A mistake: the sequence is taken off the frame and not off the parity. *)
derandomize_frame_only(block, data) ==
    [k \in DOMAIN block |->
        IF k < data THEN block[k] ## SEQUENCE[k % SEQUENCE_LENGTH] ELSE block[k]]

\* The same operation undoes it; the first "data" symbols of the block are a frame.
derandomize(block, data) ==
    [k \in DOMAIN block |-> block[k] ## SEQUENCE[k % SEQUENCE_LENGTH]]
=============================================================================
