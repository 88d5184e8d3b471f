---------------------------- MODULE GaloisField ----------------------------
(***************************************************************************)
(* The symbols a Reed-Solomon code computes with (xtce-gs-link/src/rs.rs,   *)
(* ALPHA_TO, INDEX_OF and the dual basis).  The code is built over 8-bit     *)
(* symbols; here the width and the field polynomial are parameters, and the *)
(* tables are made the way the code makes them.                             *)
(***************************************************************************)
EXTENDS Naturals, FiniteSets

CONSTANTS
    Bits,         \* bits in a symbol: 8 in the code
    Polynomial,   \* FIELD_GENERATOR, its leading term included
    DualBasis     \* DUAL_BASIS, the image of each bit from the highest down

ASSUME GaloisFieldAssumption ==
    /\ Bits \in Nat \ {0, 1}
    /\ Polynomial \in 2^Bits..(2^(Bits + 1) - 1)
    /\ DualBasis \in [1..Bits -> 1..(2^Bits - 1)]
    /\ 2^Bits \in Nat   \* which no prover here knows

CODEWORD_SYMBOLS == 2^Bits - 1
Symbols == 0..CODEWORD_SYMBOLS

\* A function itself; TLC computes its values here, once, to compare it.
Evaluated(f) == CHOOSE g \in {f} : g = f

HasBit(a, bit) == (a \div 2^bit) % 2 = 1

\* The bits two numbers differ in; one more than a symbol's, for the polynomial.
XorTable ==
    LET Below(a, b) ==
            LET from[bit \in 0..(Bits + 1)] ==
                    IF bit = 0 THEN 0
                    ELSE from[bit - 1]
                         + (IF HasBit(a, bit - 1) = HasBit(b, bit - 1) THEN 0 ELSE 2^(bit - 1))
            IN  from[Bits + 1]
    IN  Evaluated([pair \in (0..(2^(Bits + 1) - 1)) \X (0..(2^(Bits + 1) - 1)) |->
            Below(pair[1], pair[2])])

a ## b == XorTable[<<a, b>>]

\* The next power of alpha: shifted left, and reduced when it overflows.
Shifted(a) == IF 2 * a > CODEWORD_SYMBOLS THEN (2 * a) ## Polynomial ELSE 2 * a

ALPHA_TO ==
    LET power[n \in 0..(CODEWORD_SYMBOLS - 1)] ==
            IF n = 0 THEN 1 ELSE Shifted(power[n - 1])
    IN  Evaluated([n \in 0..(CODEWORD_SYMBOLS - 1) |-> power[n]])

INDEX_OF ==
    Evaluated([a \in 1..CODEWORD_SYMBOLS |->
        CHOOSE n \in 0..(CODEWORD_SYMBOLS - 1) : ALPHA_TO[n] = a])

Power(n) == ALPHA_TO[n % CODEWORD_SYMBOLS]

\* Multiplied by a power of alpha; zero stays zero, as LOG_ZERO has it.
Scaled(a, n) == IF a = 0 THEN 0 ELSE Power(INDEX_OF[a] + n)
Times(a, b) == IF b = 0 THEN 0 ELSE Scaled(a, INDEX_OF[b])
Over(a, b) == Scaled(a, CODEWORD_SYMBOLS - INDEX_OF[b])

TO_DUAL ==
    LET Image(a) ==
            LET from[bit \in 0..Bits] ==
                    IF bit = 0 THEN 0
                    ELSE from[bit - 1]
                         ## (IF HasBit(a, bit - 1) THEN DualBasis[Bits + 1 - bit] ELSE 0)
            IN  from[Bits]
    IN  Evaluated([a \in Symbols |-> Image(a)])

FROM_DUAL == Evaluated([b \in Symbols |-> CHOOSE a \in Symbols : TO_DUAL[a] = b])
=============================================================================
