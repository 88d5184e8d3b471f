------------------------------- MODULE Export -------------------------------
(***************************************************************************)
(* A recording turned into rows, twice: "xtce-gs export" (export and        *)
(* export_loop in xtce-gs-cli/src/run.rs), which reads it through the       *)
(* pipeline, and export_stream in xtce-gs-engine/src/record.rs, which finds *)
(* the packets itself.  Both take the recording in chunks of any size,      *)
(* write through a buffer to an output that may close or fail, stop at a    *)
(* limit and say what was left over.                                        *)
(*                                                                          *)
(* The export's source is always a file that is not repeated, and never     *)
(* framed here: nothing restarts, and no message is a datagram.  An octet   *)
(* is the packet it is of and its place there, of which the readers see     *)
(* only where they believe a header is.  A length above max_packet_length   *)
(* is left to Packets.                                                      *)
(***************************************************************************)
EXTENDS SpacecraftClock

CONSTANTS
    Exports,           \* what is exported by stations without a clock, and with one
    WriterRows,        \* rows the BufWriter holds
    ChunkSizes,        \* octets of one read, where there are as many
    SEQUENCE_MODULUS,
    Apids

ASSUME ExportAssumption ==
    /\ WriterRows \in Nat \ {0} /\ SEQUENCE_MODULUS \in Nat /\ SEQUENCE_MODULUS >= 2
    /\ \A clocked \in BOOLEAN : \A setup \in Exports[clocked] :
            /\ setup.reader \in {"pipeline", "library"}
            /\ \A n \in DOMAIN setup.recording :
                    setup.recording[n].octets > SPACE_PACKET_HEADER_BYTES
            /\ setup.cut < IF setup.recording = <<>> THEN 1
                           ELSE setup.recording[Len(setup.recording)].octets

VARIABLE export   \* what one export holds, None before it begins

HeaderRow == [header |-> TRUE]

(***************************************************************************)
(* The output: rows wait in the BufWriter and go out when it is full.       *)
(***************************************************************************)
Emptied(sink, far) ==
    LET left == IF far.room = None THEN Len(sink.held)
                ELSE far.room - Len(sink.file)
        written == IF left < Len(sink.held) THEN left ELSE Len(sink.held)
    IN  [sink EXCEPT !.file = @ \o SubSeq(sink.held, 1, written),
                     !.held = SubSeq(@, written + 1, Len(@)),
                     !.error = IF written < Len(sink.held) THEN far.how ELSE None]

WriteRow(sink, row, far) ==
    IF sink.error # None THEN sink
    ELSE LET ready == IF Len(sink.held) < WriterRows THEN sink ELSE Emptied(sink, far)
         IN  IF ready.error # None THEN ready ELSE [ready EXCEPT !.held = Append(@, row)]

\* write_batch: the first row that cannot be written ends it.
WriteRows(sink, rows, far) ==
    FoldLeft(LAMBDA written, row : WriteRow(written, row, far), sink, rows)

(***************************************************************************)
(* One packet: PacketDecoder::decode_owned and write_batch.                 *)
(***************************************************************************)
\* SequenceTracker::observe.
MissedBefore(counts, packet) ==
    LET previous == counts[packet.apid] IN
    IF previous \in {None, packet.count} THEN 0
    ELSE (packet.count + SEQUENCE_MODULUS - previous - 1) % SEQUENCE_MODULUS

\* What the definition makes of the clock's parameter in this packet.
ClockValue(packet, format) ==
    LET field == FieldAt(format, packet.made)
        Raw(kind, octets) == [raw |-> kind, octets |-> octets, number |-> be_unsigned(octets),
                              halves |-> 2 * (packet.made - EpochOf[format.epoch])]
    IN  CASE packet.clock = "absent" -> None
          [] packet.clock = "bytes" -> Raw("bytes", field)
          [] packet.clock = "wider" -> Raw("bytes", field \o <<1>>)
          [] packet.clock = "shorter" -> Raw("bytes", SubSeq(field, 1, Len(field) - 1))
          [] packet.clock = "unsigned" -> Raw("unsigned", field)
          [] packet.clock = "half" ->
                [Raw("float", <<>>) EXCEPT !.halves = 2 * (packet.made - EpochOf[format.epoch]) + 1]
          [] packet.clock = "label" -> [Raw("signed", <<>>) EXCEPT !.halves = None]

\* Batch::time.
TimeOf(packet, source, received) ==
    IF source = None THEN received
    ELSE unwrap_or(read_clock(source.format, ClockValue(packet, source.format)), received)

\* One row for each sample whose parameter has a name.
RowsOf(packet, source, received) ==
    LET named == SelectSeq(packet.samples, LAMBDA name : name # None)
    IN  [n \in DOMAIN named |->
            [time |-> Displayed(TimeOf(packet, source, received)),
             received |-> Displayed(received),
             apid |-> packet.apid, count |-> packet.count, name |-> named[n]]]

(***************************************************************************)
(* The two readers.                                                         *)
(***************************************************************************)
OctetsOf(recording, cut) ==
    LET whole == FlattenSeq([n \in DOMAIN recording |->
                    [nth \in 1..recording[n].octets |-> [packet |-> n, nth |-> nth]]])
    IN  SubSeq(whole, 1, Len(whole) - cut)

\* The total length the header at the front declares.
DeclaredLength(recording, octets) ==
    IF Len(octets) < SPACE_PACKET_HEADER_BYTES THEN SPACE_PACKET_HEADER_BYTES
    ELSE recording[Head(octets).packet].octets

\* PacketStream::push, an octet at a time: whole packets, fill dropped, and a tail.
Pushed(recording, tail, chunk) ==
    LET Take(state, octet) ==
            LET octets == Append(state.tail, octet)
                packet == recording[Head(octets).packet]
            IN  IF Len(octets) < SPACE_PACKET_HEADER_BYTES
                     \/ Len(octets) < DeclaredLength(recording, octets)
                  THEN [state EXCEPT !.tail = octets]
                  ELSE [packets |-> IF packet.idle THEN state.packets
                                    ELSE Append(state.packets, octets),
                        tail |-> <<>>]
    IN  FoldLeft(Take, [packets |-> <<>>, tail |-> tail], chunk)

AtLimit(e) == e.setup.limit # None /\ e.packets >= e.setup.limit

\* A setup is the reader, the recording and the octets cut off its end, the
\* limit or None, the output's room or None and how it ends, and the time of receipt.
BeginExport(source) ==
    /\ export = None
    /\ \E setup \in Exports[source # None] :
        export' = [setup |-> setup, step |-> "turn", read |-> 0,
                   tail |-> <<>>, assembled |-> <<>>,
                   counts |-> [apid \in Apids |-> None], missing |-> 0,
                   packets |-> 0, rows |-> 0, rejected |-> 0, left |-> 0,
                   sink |-> [held |-> <<HeaderRow>>, file |-> <<>>, error |-> None],
                   closed |-> FALSE, result |-> None]

\* What is left of the recording, and what one read of it returns.
Remaining(e) ==
    LET octets == OctetsOf(e.setup.recording, e.setup.cut)
    IN  SubSeq(octets, e.read + 1, Len(octets))
Reads(e) ==
    {SubSeq(Remaining(e), 1, size) : size \in {n \in ChunkSizes : n <= Len(Remaining(e))}}
    \union {Remaining(e)}

(* A packet is taken, decoded and written, or refused.  Only the command     *)
(* looks at the sequence counts, and tells an output that closed from one    *)
(* that failed; the library stops at either and leaves its buffer be.        *)
IsCommand(e) == e.setup.reader = "pipeline"

Taken(e, packet) ==
    [e EXCEPT !.packets = @ + 1,
              !.rejected = @ + (IF packet.refused THEN 1 ELSE 0),
              !.counts[packet.apid] = IF IsCommand(e) THEN packet.count ELSE @,
              !.missing = @ + (IF IsCommand(e) THEN MissedBefore(e.counts, packet) ELSE 0)]

RowsWritten(e, sink, rows) ==
    CASE sink.error = None -> [e EXCEPT !.sink = sink, !.rows = @ + rows]
      [] sink.error # None /\ IsCommand(e) ->
            [e EXCEPT !.sink = sink, !.step = "flush", !.closed = sink.error = "closed",
                      !.result = IF sink.error = "failed" THEN "failed" ELSE None]
      [] sink.error # None /\ ~IsCommand(e) ->
            [e EXCEPT !.sink = sink, !.step = "done", !.result = "failed"]

WrittenOut(e, rows) == RowsWritten(e, WriteRows(e.sink, rows, e.setup.far), Len(rows))

PacketTaken(e, octets, source) ==
    LET packet == e.setup.recording[Head(octets).packet]
    IN  IF packet.refused THEN Taken(e, packet)
        ELSE WrittenOut(Taken(e, packet), RowsOf(packet, source, e.setup.received))

TurnAtLimit ==
    /\ export.step = "turn" /\ AtLimit(export)
    /\ export' = [export EXCEPT !.step = "flush"]

(* export_loop: a chunk is pushed through the pipeline; at the end, what it  *)
(* still held is counted.                                                    *)
TurnOfPipeline ==
    /\ export.setup.reader = "pipeline" /\ export.step = "turn" /\ ~AtLimit(export)
    /\ \E chunk \in Reads(export) :
        LET pushed == Pushed(export.setup.recording, export.tail, chunk) IN
        export' = IF chunk = <<>>
                    THEN [export EXCEPT !.step = "flush", !.left = Len(export.tail), !.tail = <<>>]
                    ELSE [export EXCEPT !.step = "drain", !.read = @ + Len(chunk),
                                        !.tail = pushed.tail, !.assembled = pushed.packets]

(* A mistake: the limit is looked at once a chunk. *)
DrainPastLimit(source) ==
    /\ export.step = "drain"
    /\ export' = IF export.assembled = <<>> THEN [export EXCEPT !.step = "turn"]
                 ELSE [PacketTaken(export, Head(export.assembled), source)
                            EXCEPT !.assembled = Tail(@)]

Drain(source) ==
    /\ export.step = "drain"
    /\ export' = IF export.assembled = <<>> \/ AtLimit(export)
                   THEN [export EXCEPT !.step = "turn", !.assembled = <<>>]
                   ELSE [PacketTaken(export, Head(export.assembled), source)
                            EXCEPT !.assembled = Tail(@)]

(* export_stream: a turn takes a packet, or reads, or finds the end.         *)
TurnOfLibrary ==
    /\ export.setup.reader = "library" /\ export.step = "turn" /\ ~AtLimit(export)
    /\ LET needed == DeclaredLength(export.setup.recording, export.tail) IN
       \/ /\ Len(export.tail) >= needed
          /\ export' = [PacketTaken(export, export.tail, None)
                            EXCEPT !.tail = SubSeq(export.tail, needed + 1, Len(export.tail))]
       \/ /\ Len(export.tail) < needed
          /\ \E chunk \in Reads(export) :
                export' = IF chunk = <<>>
                            THEN [export EXCEPT !.step = "flush", !.left = Len(export.tail)]
                            ELSE [export EXCEPT !.read = @ + Len(chunk), !.tail = @ \o chunk]

(* The last of the rows go out whatever became of the loop; an output that   *)
(* closed is a clean end for the command and an error for the library.       *)
FlushRows ==
    /\ export.step = "flush"
    /\ LET sink == Emptied([export.sink EXCEPT !.error = None], export.setup.far)
           closed == export.closed \/ sink.error = "closed"
           failed == "failed" \in {export.result, sink.error}
                     \/ (closed /\ export.setup.reader = "library")
       IN  export' = [export EXCEPT !.step = "done", !.sink = sink, !.closed = closed,
                                    !.result = IF failed THEN "failed" ELSE "ok"]

ExportStep(source) ==
    \/ TurnAtLimit \/ TurnOfPipeline \/ Drain(source) \/ TurnOfLibrary \/ FlushRows

(***************************************************************************)
(* What an export promises.                                                 *)
(***************************************************************************)
\* The packets the whole of which the recording holds, fill left out by the pipeline.
Offered(e) ==
    LET whole == IF e.setup.cut = 0 THEN e.setup.recording ELSE Front(e.setup.recording)
    IN  IF e.setup.reader = "pipeline" THEN SelectSeq(whole, LAMBDA p : ~p.idle) ELSE whole
Promised(e) ==
    IF e.setup.limit = None \/ e.setup.limit >= Len(Offered(e)) THEN Offered(e)
    ELSE SubSeq(Offered(e), 1, e.setup.limit)

RowsPromised(packets) ==
    FlattenSeq([n \in DOMAIN packets |->
        LET samples == SelectSeq(packets[n].samples, LAMBDA name : name # None) IN
        IF packets[n].refused THEN <<>>
        ELSE [k \in DOMAIN samples |-> [of |-> packets[n], name |-> samples[k]]]])

\* The values of a clock its layout can be read from.
Legible(packet, format) ==
    CASE format.kind = "seconds" -> packet.clock \notin {"absent", "label"}
      [] format.kind = "cuc" -> packet.clock \in {"bytes", "wider", "unsigned"}
      [] format.kind = "cds" ->
            \/ packet.clock \in {"bytes", "wider"}
            \/ (packet.clock = "unsigned" /\ cds_width(format) <= MAX_TIME_BYTES)

\* A clock of seconds has no field to run past: it is read up to the last
\* instant there is, and no further from its epoch than that one is from 1970.
PastRange(format, made) ==
    /\ format.kind = "seconds"
    /\ \/ made \notin MinUtc..MaxUtc
       \/ made - EpochOf[format.epoch] \notin (1 - MaxUtc)..(MaxUtc - 1)

\* When a row says its packet was made: by the clock that is in it, or by ground
\* receipt.  A clock that has run past its field says another time.
IsTimeOf(time, packet, source, received) ==
    LET millis(t) == t \div NANOS_PER_MILLI
        format == source.format
    IN  IF source = None \/ ~Legible(packet, format) \/ PastRange(format, packet.made)
          THEN millis(time) = millis(received)
          ELSE Holds(format, packet.made) =>
                    \E reading \in time..(time + NANOS_PER_MILLI - 1) :
                        IsReading(format, packet.made, reading)

Renders(row, promised, source, received) ==
    /\ row.apid = promised.of.apid /\ row.count = promised.of.count
    /\ row.name = promised.name
    /\ IsDate(row.time) /\ IsDate(row.received)
    /\ ReadBack(row.received) \div NANOS_PER_MILLI = received \div NANOS_PER_MILLI
    /\ IsTimeOf(ReadBack(row.time), promised.of, source, received)

\* From the first packet of each process to its last, the missing and the
\* others that came make up the difference of the counts.
CountsAddUp(packets, missing) ==
    LET Of(apid) == SelectSeq(packets, LAMBDA p : p.apid = apid)
        Advanced(apid) ==
            LET own == Of(apid)
                moved == {n \in 2..Len(own) : own[n].count # own[n - 1].count}
            IN  IF own = <<>> THEN 0
                ELSE own[Len(own)].count - own[1].count - Cardinality(moved)
    IN  (FoldSet(LAMBDA apid, total : total + Advanced(apid), 0, Apids) - missing)
            % SEQUENCE_MODULUS = 0

Ordered(packets) ==
    \A n \in DOMAIN packets : \A m \in 1..n :
        packets[m].apid = packets[n].apid => packets[m].count <= packets[n].count
NeverCame(packets) ==
    LET Of(apid) == {packets[n].count : n \in {k \in DOMAIN packets : packets[k].apid = apid}}
        Absent(apid) ==
            IF Of(apid) = {} THEN 0
            ELSE Max(Of(apid)) - Min(Of(apid)) + 1 - Cardinality(Of(apid))
    IN  FoldSet(LAMBDA apid, total : total + Absent(apid), 0, Apids)

ExportIsFaithful(e, clock) ==
    LET source == IF e.setup.reader = "pipeline" THEN clock ELSE None
        promised == Promised(e)
        rows == RowsPromised(promised)
        file == e.sink.file
    IN  \* What reached the file is the beginning of what was promised, in order.
        /\ Len(file) <= Len(rows) + 1
        /\ \A n \in DOMAIN file :
                IF n = 1 THEN file[n] = HeaderRow
                ELSE Renders(file[n], rows[n - 1], source, e.setup.received)
        \* A reader of the output that goes away is no failure of the command.
        /\ e.setup.reader = "pipeline" /\ e.setup.far.how = "closed" => e.result # "failed"
        \* An output with room for it gets all of it.
        /\ e.step = "done" /\ e.sink.error = None =>
                /\ e.result = "ok" /\ ~e.closed
                /\ Len(file) = Len(rows) + 1 /\ e.rows = Len(rows)
                /\ e.packets = Len(promised)
                /\ e.rejected = Len(SelectSeq(promised, LAMBDA p : p.refused))
                /\ e.setup.reader = "pipeline" =>
                        /\ CountsAddUp(promised, e.missing)
                        /\ Ordered(promised) => e.missing = NeverCame(promised)
                \* What the end of the recording cut short is reported, once it is reached.
                /\ e.left = IF e.setup.cut = 0
                                \/ (e.setup.limit # None /\ Len(Offered(e)) >= e.setup.limit)
                             THEN 0
                            ELSE e.setup.recording[Len(e.setup.recording)].octets - e.setup.cut
=============================================================================
