----------------------------- MODULE MCStation -----------------------------
(***************************************************************************)
(* A field of eight elements: codewords of seven symbols, of which two or    *)
(* four are parity, one or two to a block.  The basis and the taps are such  *)
(* that, as in the code, the randomiser's sequence is itself a codeword.     *)
(* Octets of four values; a day of three seconds, a second of two            *)
(* milliseconds, a millisecond of four microseconds, a microsecond of two    *)
(* nanoseconds.                                                             *)
(***************************************************************************)
EXTENDS Station

Basis == <<3, 5, 2>>

Header(version, vcid, ocf, secondary, sync, pointer) ==
    [version |-> version, vcid |-> vcid, ocf |-> ocf, secondary |-> secondary,
     sync |-> sync, pointer |-> pointer]

\* One header of each kind.  Pointers 8 and 9 are no offsets.
OneOfEach ==
    [symbol \in 0..7 |->
        CASE symbol = 0 -> Header(0, 0, FALSE, FALSE, FALSE, 0)
          [] symbol = 1 -> Header(0, 0, FALSE, FALSE, FALSE, 9)
          [] symbol = 2 -> Header(0, 1, FALSE, FALSE, FALSE, 8)
          [] symbol = 3 -> Header(0, 1, FALSE, FALSE, TRUE, 5)
          [] symbol = 4 -> Header(1, 0, FALSE, FALSE, FALSE, 0)
          [] symbol = 5 -> Header(0, 0, TRUE, FALSE, FALSE, 0)
          [] symbol = 6 -> Header(0, 0, FALSE, TRUE, FALSE, 9)
          [] symbol = 7 -> Header(0, 0, TRUE, TRUE, FALSE, 2)]

\* Two versions, of one and of two symbols; only the first one can be encrypted.
Widths == [v1 |-> 1, v2 |-> 2]
FlagSymbols ==
    LET Flags(encrypted, symbol) ==
            CASE symbol = 0 -> {}
              [] symbol = 1 -> {"crc32"}
              [] symbol = 2 -> {"rdp"}
              [] symbol = 3 -> {"rdp", "crc32"}
              [] symbol = 4 -> encrypted
              [] symbol = 5 -> encrypted \union {"crc32"}
              [] symbol = 6 -> {"hmac"}
              [] symbol = 7 -> {"fragment", "crc32"}
    IN  [v1 |-> [symbol \in 0..7 |-> Flags({"xtea"}, symbol)],
         v2 |-> [symbol \in 0..7 |-> Flags({}, symbol)]]

NoFrameFlags ==
    [framing |-> "packets", frame_length |-> 5, rs |-> None, interleave |-> None,
     derandomize |-> FALSE, fecf |-> FALSE, ocf |-> FALSE, insert_zone |-> None,
     no_asm |-> FALSE, bit_slip |-> FALSE, flywheel |-> 1, csp |-> None,
     max_packet_length |-> 7]
NoClock ==
    [parameter |-> None, format |-> "seconds", coarse_bytes |-> 4, fine_bytes |-> 2,
     day_bytes |-> 2, submillisecond_bytes |-> 0, epoch |-> "ccsds"]
Typical ==
    [command |-> "run", definition |-> Given, source |-> "udp", rate |-> 0, repeat |-> FALSE,
     history |-> None, limits |-> None, record |-> None,
     pipeline |-> NoFrameFlags, time |-> NoClock]

With(pipeline) == [Typical EXCEPT !.pipeline = pipeline]
Tm == [NoFrameFlags EXCEPT !.framing = "tm"]

\* Every command with every framing, source and length the rules tell apart.
Combinations ==
    {[Typical EXCEPT !.command = c, !.source = s,
        !.pipeline = [NoFrameFlags EXCEPT !.framing = f, !.csp = v, !.max_packet_length = m,
                                          !.rs = r, !.interleave = i, !.fecf = g]] :
        c \in {"run", "replay", "export", "probe"}, s \in {"udp", "tcp"},
        f \in {"packets", "tm"}, v \in {None, "v1"}, m \in {6, 7}, r \in {None, 2},
        i \in {None, 1}, g \in BOOLEAN}

\* Frames with every layout, uncoded; with each code, in a few.
Coded(l, r, i, g, o) ==
    With([Tm EXCEPT !.frame_length = l, !.rs = r, !.interleave = i, !.derandomize = TRUE,
                    !.fecf = g, !.ocf = o])
Layouts ==
    {With([Tm EXCEPT !.frame_length = l, !.derandomize = d, !.fecf = g, !.ocf = o,
                     !.insert_zone = z]) :
        l \in {0, 2, 3, 4}, d \in BOOLEAN, g \in BOOLEAN, o \in BOOLEAN, z \in {None, 1}}
    \union {Coded(l, r, i, FALSE, FALSE) :
        l \in {3, 5, 6, 10}, r \in {2, 3, 4}, i \in {None, 2, 3}}
    \union {Coded(3, 4, None, TRUE, FALSE), Coded(5, 2, None, TRUE, TRUE)}

Envelopes == {With([NoFrameFlags EXCEPT !.csp = v]) : v \in {"v1", "v2"}}

Clocks ==
    {[Typical EXCEPT !.definition = d, !.history = h,
        !.time = [NoClock EXCEPT !.parameter = p, !.format = f, !.coarse_bytes = b,
                                 !.day_bytes = b, !.submillisecond_bytes = u]] :
        d \in {Given, Blank}, h \in {None, 0}, p \in {None, Given, Blank},
        f \in {"cuc", "cds", "seconds"}, b \in {0, 2, 5, 7}, u \in {0, 1}}

Typings == Combinations \union Layouts \union Envelopes \union Clocks

SentPayloads == {<<>>, <<0>>, <<5, 3>>}
NoiseInTurn == <<6, 2, 7>>
StrayMessages == {<<>>, <<1>>, <<0, 1>>}

(***************************************************************************)
(* What the other commands are given.                                       *)
(***************************************************************************)
\* The days the three epochs are from 1970, as they are.
Epochs == [ccsds |-> -4383 * 48, unix |-> 0, gps |-> 3657 * 48]

Earliest == -1300000

Packet(octets, apid, count) ==
    [octets |-> octets, apid |-> apid, count |-> count, idle |-> FALSE, refused |-> FALSE,
     clock |-> "absent", made |-> 0, samples |-> <<"a">>]

\* The last instants of a February in a leap year and in a century without
\* one, of a leap century, of 1969 and of a December.
Days == {790 * 48 - 1, -25508 * 48 - 1, 11017 * 48 - 5, -1, 11322 * 48}

Export(reader, recording, cut, limit, far, received) ==
    [reader |-> reader, recording |-> recording, cut |-> cut, limit |-> limit,
     far |-> far, received |-> received]
Open == [room |-> None, how |-> "failed"]

Pass(sizes, counts) ==
    [n \in 1..Len(sizes) |-> Packet(sizes[n], IF sizes[n] = 9 THEN "A2" ELSE "A1", counts[n])]
Fill(recording, n) == [recording EXCEPT ![n].idle = TRUE]
Refusing(recording, n) == [recording EXCEPT ![n].refused = TRUE]
Two(recording, n) == [recording EXCEPT ![n].samples = <<"a", None, "b">>]

Passes ==
    {<<>>} \union {Pass(<<7, 8, 9>>, <<3, 0, 0>>), Pass(<<8, 7, 7, 9>>, <<1, 3, 2, 0>>),
                   Pass(<<7, 7, 8>>, <<1, 1, 2>>),
                   Two(Fill(Pass(<<7, 8, 7>>, <<0, 0, 2>>), 2), 3),
                   Refusing(Two(Pass(<<9, 7, 9>>, <<0, 0, 3>>), 1), 2)}
Whole == {Export(r, p, 0, l, Open, 0) : r \in {"pipeline", "library"}, p \in Passes,
                                        l \in {None, 0, 1, 2, 3}}
Short == {Export(r, p, c, l, Open, 0) : r \in {"pipeline", "library"}, p \in Passes \ {<<>>},
                                        c \in {1, 3, 6}, l \in {None, 2}}
Full == {Export(r, p, 0, None, [room |-> n, how |-> h], 0) :
            r \in {"pipeline", "library"}, p \in {Two(Pass(<<7, 8, 7>>, <<0, 1, 2>>), 1)},
            n \in 0..5, h \in {"closed", "failed"}}
Dated == {Export("pipeline", Pass(<<7>>, <<0>>), 0, None, Open, day) : day \in Days}

\* A packet made so many nanoseconds after the epoch of any clock.
Stamped ==
    {[Packet(7, "A1", 0) EXCEPT !.clock = c, !.made = Epochs[e] + s] :
        c \in {"absent", "bytes", "wider", "shorter", "unsigned", "half", "label"},
        e \in DOMAIN Epochs, s \in {0, 5, 47, 139, 383}}
\* And around the first and the last instant there are.
Outermost ==
    {[Packet(7, "A1", 0) EXCEPT !.clock = c, !.made = at + s] :
        c \in {"unsigned", "half"}, at \in {Earliest, MaxUtc}, s \in {-47, 47}}
Clocked == {Export("pipeline", <<p>>, 0, None, Open, 48 + 3) : p \in Stamped \union Outermost}

MCExports == [clocked \in BOOLEAN |-> IF clocked THEN Clocked ELSE Whole \union Short \union Full \union Dated]

ExportLines ==
    {[Typical EXCEPT !.command = "export",
        !.time = [NoClock EXCEPT !.parameter = Given, !.format = f, !.coarse_bytes = b,
                    !.fine_bytes = b - 2,
                    !.day_bytes = b, !.submillisecond_bytes = u, !.epoch = e]] :
        f \in {"cuc", "cds", "seconds"}, b \in {2, 4}, u \in {0, 2, 4}, e \in DOMAIN Epochs}
(***************************************************************************)
(* Probes: every short file, and longer ones with markers in step.          *)
(***************************************************************************)
Marker == <<1, 1, 0>>
Looked(recording, cut, contents, limit, sample) ==
    [recording |-> recording, cut |-> cut, contents |-> contents, limit |-> limit,
     sample |-> sample]
ShortFiles == {Looked(Pass(<<9>>, <<0>>), 2, c, l, 1) : c \in [1..7 -> {0, 1}], l \in {None, 0, 5}}
    \union {Looked(<<>>, 0, <<>>, None, 1)}

\* Markers at the given offsets of as many zeros.
Marked(size, offsets) ==
    [n \in 1..size |-> IF \E o \in offsets : n \in {o + 1, o + 2} THEN 1 ELSE 0]
InStep == {{4 + d * n : n \in 0..2} : d \in {3, 5, 9, 10, 11, 17, 18}}
    \union {{0, 10, 17, 24}, {2, 7, 12, 22, 32}, {3}}
LongFiles ==
    {Looked(Pass(<<8, 7, 9, 7, 9, 7, 7>>, counts), c, Marked(54 - c, o), l, 2) :
        counts \in {<<0, 1, 3, 3, 3, 1, 1>>, <<2, 3, 0, 0, 1, 2, 1>>},
        c \in {0, 5}, o \in InStep, l \in {None, 31, 46}}
MCProbes == ShortFiles \union LongFiles \union
    {[f EXCEPT !.recording = Fill(@, 2)] : f \in LongFiles}

ProbeLines == {[Typical EXCEPT !.command = "probe"]}

(***************************************************************************)
(* Panels: limits files, good and bad, and histories.                       *)
(***************************************************************************)
Watched == {[Typical EXCEPT !.command = "replay", !.limits = Given]}

InOrder == <<"p", "q">>

Of(kind) == [kind |-> kind]
Number(n) == [kind |-> "a number", number |-> n]
Items(items) == [kind |-> "an array", items |-> items]
Object(members) == [kind |-> "an object", members |-> members]
Low(n) == Object([warning_low |-> Number(n)])
Full4 == [warning_low |-> Number(1), warning_high |-> Of("null"), alarm_low |-> Number(0),
          alarm_high |-> Number(2)]
LimitFiles ==
    {Of("invalid"), Of("null"), Items(<<>>), Object([p |-> Low(1)]),
     Object([p |-> Low(1), q |-> Object(Full4)]),
     Object([parameters |-> Object([p |-> Object([alarm_high |-> Number(0)])])]),
     Object([parameters |-> Object([p |-> Low(1)]), q |-> Low(1)]),
     Object([parameters |-> Items(<<Number(1)>>)]),
     Object([p |-> Object([warning_lo |-> Number(1)])]),
     Object([p |-> Object([warning_low |-> Of("a string")])]),
     Object([p |-> Items(<<Number(1), Of("null"), Number(0), Of("null")>>)]),
     Object([p |-> Items(<<Number(1), Of("null"), Number(0)>>)]),
     Object([p |-> Of("a boolean"), q |-> Low(1)])}
Engineering ==
    {[kind |-> "Unsigned", number |-> 3], [kind |-> "Signed", number |-> -1],
     [kind |-> "Float", number |-> NaN], [kind |-> "Bool", true |-> FALSE],
     [kind |-> "Label"]}

Tables ==
    {[documents |-> LimitFiles, values |-> Engineering, samples |-> 1, inputs |-> 0],
     [documents |-> {Object([p |-> Low(1)])}, samples |-> 3, inputs |-> 2,
      values |-> {[kind |-> "Unsigned", number |-> 3], [kind |-> "Signed", number |-> -1]}]}

History(size, Value(_)) == [n \in 1..size |-> [t |-> n, v |-> Value(n)]]
Histories ==
    UNION {{History(size, LAMBDA n : v[n]) : v \in [1..size -> {0, 1, 4}]} : size \in 0..5}
    \union {History(size, LAMBDA n : IF n = at THEN 5 ELSE 0) : size \in {16, 20}, at \in 2..15}
    \union {History(16, LAMBDA n : (n * n) % 11), [n \in 1..9 |-> [t |-> n \div 3, v |-> n % 4]],
            History(12, LAMBDA n : 3 * n)}

Followed ==
    [run |-> {}, replay |-> Watched, probe |-> ProbeLines,
     export |-> ExportLines \union {[Typical EXCEPT !.command = "export"]}]
StationLines == Typings \union UNION {Followed[command] : command \in DOMAIN Followed}
=============================================================================
