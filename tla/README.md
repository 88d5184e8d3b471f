# A TLA+ model of xtce-gs

xtce-gs is a telemetry ground station: it reads bytes from a socket or a recording, cuts transfer
frames and space packets out of them, decodes the packets against an XTCE definition, and shows
the parameters in a window or counts them on a terminal. This directory holds TLA+ modules that
model its moving parts, the configurations TLC checks them with, and proofs for TLAPS. Paths below
are relative to `crates/` in the repository; `core`, `link`, `engine`, `cli` and `gui` stand for
`xtce-gs-core/src` and so on.

## 1. The system

### Components

| Component | Code | State it keeps | Operations |
|---|---|---|---|
| Sources | `link/source.rs` | socket or file, rate limiter, "a restart is due" | `connect`, `read_chunk`, `take_restart` |
| Frame synchroniser | `link/sync.rs` | bit buffer, cursor, lock state, bit offset, flywheel count, counters | `push`, `next_frame`, `take_counters`, `reset` |
| Derandomiser, Reed-Solomon, frame header, CSP | `link/derand.rs`, `rs.rs`, `frame.rs`, `csp.rs` | none between calls | pure functions of one block |
| Packet stages | `link/packets.rs` | per channel: the last frame count and a half-assembled packet; per stream: a buffer; counters; log lines | `push_frame`, `note_frame`, `push`, `take_counters`, `reset` |
| Pipeline | `link/pipeline.rs` | the stages in use, counters, a bounded queue of log lines | `push`, `flush_message`, `take_events` |
| Session | `engine/session.rs` | acquisition task, overflow ring, bounded channel, decode thread, outcome, running flag, stop watch | `start`, `shutdown`, `outcome`, `is_running` |
| Packet decoder | `engine/decode.rs` | per application process: last sequence count and current dropout; totals; log lines; containers warned about | `decode_into`, `reset_sequence`, `take_events` |
| Recorder | `engine/record.rs` | write buffer, time of the last flush | `write`, `flush`, `Drop` |
| Configuration, limits file | `cli/args.rs`, `engine/config.rs`, `link/pipeline.rs` | none after start-up | what is typed made into a configuration, parsing, validation |
| Spacecraft clock | `engine/sctime.rs`, `core/time.rs` | none after start-up | `read`, the calendar |
| CSV export | `cli/run.rs`, `engine/record.rs` | a writer's buffer, the decoder, counts | `export`, `export_loop`, `export_stream` |
| Parameter store | `core/store.rs`, `ring.rs` | latest values, rings of watched parameters, generation | `ingest`, `watch`, `unwatch`, `set_depth` |
| Event log | `core/event.rs` | bounded ring of lines with repeat counts, total | `push`, `clear`, `iter` |
| Values, limits, decimation, counters | `core/*.rs` | relaxed atomics in `stats.rs`, otherwise none | pure functions, `snapshot` |
| Window | `gui/app.rs`, `lib.rs` | generation drawn, frames still owed a copy, axis, repaint slot | `refresh`, `apply`, `wake` |
| Layout | `gui/layout.rs`, `app.rs` | plots, watch list, depth; the file next to the definition | `load`, `restore`, `capture`, `save` |
| Panels | `gui/panels/*`, `fmt.rs` | their copies of the store, the log and the counters, filters, sort order, a window of rates, thinned plots | copying, drawing, asking for actions |
| Command line | `cli/args.rs`, `run.rs` | the cursor into the event log; the tallies and marker scan of a probe | `headless`, `gui`, `export`, `probe` |

### How they interact

    source -> [Pipeline: synchroniser -> codes -> frame header -> packet assembler
                         | packet stream | CSP] -> overflow ring -> channel
           (acquisition task, one tokio task)                          |
    recorder <- raw chunk                                              v
                                        decode thread: tracker, decoder -> store -> window
                                                                     -> event log -> window, terminal

* The acquisition task owns the source, the pipeline and the recorder. It reads a chunk, records
  it, pushes it through the pipeline and offers the packets to the queue. Its counters are relaxed
  atomics, its lines go to the event log behind a mutex.
* The queue is a bounded `mpsc` channel with an overflow ring in front of it, in the task. A live
  link drops the oldest packet of a full ring; a file replay waits for room instead. A `Restart`
  marker travels in the queue in front of the first packet of a new byte stream, and is never dropped.
* The decode thread drains the channel into a batch, decodes it, files it under one write lock of
  the store, and wakes the window.
* `Session::shutdown` is a request: three separate writes, and nobody waits.
* A command line decides which of these exist: `run` and `replay` start a session and a window or a
  terminal, `export` and `probe` open a file and drive the pipeline in a loop of their own.
* The status bar copies the counters while the link and the decoder write them, one counter at a time.

### What is hard here

* Two threads and a caller that never wait for each other: every order of their steps is possible.
* A ring in front of a channel: whether an item may go straight to the channel depends on the ring,
  and items may be lost only in one place, and counted there.
* Packets cut across frames that may be lost, idle, bad or of another channel; a frame count of
  eight bits; restarts of the stream while a packet is half there.
* A marker search over a buffer that grows, is trimmed, and is shifted by bits in place.
* Sequence counts that wrap, and a log that must tell of each dropout without a line per packet.
* A window that copies the store and then the log between the steps of the threads that fill them, acts on
  rows copied earlier, and sleeps when nobody wakes it.
* A file that outlives the station, is edited by hand, and names parameters a definition may lack.
* An error-correcting decoder that must repair what it can, refuse the rest, and touch nothing it
  refuses; in front of it a block is cut, behind it derandomised and checked, in an order that has to be right.
* One configuration out of many flags, some of which exclude others, validated in more than one place.
* Clock readings of many layouts at the ends of their range; rows written through a buffer to an output that closes.
* Counters read while they move, a wall clock that is set back, rounding in the thinning of a plot.
* Endings: a source that ends, fails or never opens, a stop at any point, a decode thread that
  panics. Each must end the session with the right outcome, and a finished pass must be decoded.

### What makes each part correct

* Session: order is kept, markers are never lost, what is read is decoded or counted, sequence
  counts of two streams are never compared, an ending is recorded once and truthfully, a stop
  completes, a burst is delivered though nothing follows it.
* Packet stages: a packet whose bytes all arrived is handed out once, as sent; any other is counted
  lost; no byte is unaccounted for; what is held is bounded.
* Synchroniser: the frames are those an unbounded observer of the bit stream would cut.
* Decoder: the totals are what was lost; each dropout is told once and closed once.
* Store and window: a history is the newest of what was filed; a window at rest shows the store as it is;
  a row does what it says.
* Layout: a restart brings back what was saved; a plotted parameter has a ring; no name is lost to a
  definition that lacks it.
* Event log: a line is held, counted as a repeat, or counted as dropped; readers miss none.
* Reception: a damaged block becomes the frame that was sent or is refused, and is counted in one way;
  what leaves a CSP envelope is what was put in it.
* Configuration: what is started does what was typed, and can do it.
* Export: the rows are the packets of the recording, with the time the spacecraft says. Probe: what it
  finds is there, and what it advises works.
* Status bar, table, plots: recent, in force, ordered as asked, and no spike lost.
* Recorder: the file is what was written, in order, less what a failed write says it lost.

## 2. The modules

| Module | Models | Used by |
|---|---|---|
| `OverflowQueue` | the abstract bounded queue: what dispatch, ring and channel promise together | `Session` (INSTANCE) |
| `Session` | `engine/session.rs`: dispatch, `acquire`, `decode_loop`, the guard, `shutdown` | `MCSession*.cfg`, `SessionProofs` |
| `Packets` | `link/packets.rs`: both working sets of the packet stages | `Downlink`, `PacketsProofs` |
| `Downlink` | a spacecraft and a lossy link, and `pipeline.rs` driving `Packets` | `MCDownlink`, `PacketsProofs` |
| `FrameStream` | the abstract synchroniser: frames cut from a stream of bits | `Synchronizer` (INSTANCE) |
| `Synchronizer` | `link/sync.rs`: buffer, cursor, search, lock, flywheel | `MCSynchronizer`, `SynchronizerProofs` |
| `PacketDecoder` | `engine/decode.rs`: tracker, dropouts, log lines, warnings | `Telemetry`, `PacketDecoderProofs` |
| `Telemetry` | processes, a link that loses and repeats, restarts, a reader of the log | `Telemetry`, `PacketDecoderProofs` |
| `RingBuffer` | `core/ring.rs`: operators on its vector, head and capacity | `ParameterStore`, `EventLog` |
| `ParameterStore` | `core/store.rs`: latest samples, histories, generation | `Window` |
| `EventLog` | `core/event.rs`: the log with its repeats and total | `Window`, `Acquisition`, `EventLogProofs` |
| `Window` | `gui/app.rs`, `lib.rs`, the panels' copies, an operator, the two threads that fill store and log | `MCWindow`, `WindowProofs` |
| `Arrangement` | `gui/layout.rs` and its use in `app.rs`: the layout in memory, in the store and on disk | `MCArrangement`, `StationProofs` |
| `Source` | `link/source.rs`: what one turn of each kind of source's `read_chunk` does | `Acquisition` |
| `Recorder` | `engine/record.rs`: the write buffer, the blocking thread under the file, the drop | `Acquisition` |
| `LinkEvents` | `link/pipeline.rs`: the queue of collapsed lines, as operators on its record | `Acquisition` |
| `Acquisition` | `engine/session.rs` `open`, `acquire`, `handle_chunk` around the three, and `cli/run.rs` `headless` reading the log | `MCAcquisition`, `AcquisitionProofs` |
| `GaloisField` | `link/rs.rs`: the symbols, their tables and the two bases | `ReedSolomon`, `TransferFrame`, `Csp` |
| `ReedSolomon` | `link/rs.rs`, `derand.rs`: encoder, the whole decoder, the randomiser | `Reception` |
| `TransferFrame` | `link/frame.rs`: `TmFrame::parse`, the data field, the checksum | `Reception`, `Configuration` |
| `Csp` | `link/csp.rs`: `CspHeader::parse` for both versions | `Reception` |
| `Option` | what stands for `None` | `Configuration`, `StatusBar`, `Limits`, `Decimation` |
| `Configuration` | `cli/args.rs`, `PipelineConfig::validate`, `SessionConfig::validate` | `Reception`, `SpacecraftClock` |
| `Reception` | `link/pipeline.rs`: `FrameStage::run` and the message half of `push`, from a command line on | `Station` |
| `SpacecraftClock` | `engine/sctime.rs`, `core/time.rs`: every layout of a time, and instants as dates | `Export` |
| `Export` | `cli/run.rs` `export`, `export_loop`; `engine/record.rs` `export_stream` | `Probe` |
| `Probe` | `cli/run.rs`: `probe`, `ApidTally`, `MarkerScan`, `advise` | `Station` |
| `StatusBar` | `core/stats.rs`, `gui/panels/status.rs` | `Station` |
| `Limits` | `engine/config.rs` `LimitFile`, `core/limits.rs`, `value.rs` | `ValueTable` |
| `ValueTable` | `gui/panels/table.rs`: rows, filter, order, colours | `Station` |
| `Decimation` | `core/decimate.rs`: `lttb`, `min_max_lttb`, `rdp` | `Station`, `Decimation` |
| `Station` | `cli/main.rs`: what each command does once it is started, over all of the above | `MCStation`, `StationProofs` |
| `SessionProofs`, `SynchronizerProofs`, `PacketsProofs`, `PacketDecoderProofs`, `StationProofs`, `EventLogProofs`, `AcquisitionProofs`, `WindowProofs` | the proofs of section 4 | |

### Session

| Model | Code |
|---|---|
| `acq` | the place in `acquire`: `open`, the top of the loop, `flush`, the `select!`, `send`, `wait_and_send`, `drain`, and then the guard and the drop of the task |
| `outbox`, `hand`, `backlog`, `dropped` | packets of the chunk in hand; the item `wait_and_send` holds; `Dispatch::backlog`; its counter |
| `channel`, `dec`, `queued` | the mpsc channel; the place in `decode_loop`; the batch |
| `tracked` | which byte stream the decoder's sequence counts are of |
| `outcome`, `running`, `stop`, `caller` | the session's atomics and watch, and how far a `shutdown` has got |
| `era`, `made`, `seen` | the stream an item was read from, how many were read, what was handled (for the properties) |

An action is what a thread does between two points at which another could see a difference: one
`try_send`, one `try_recv`, one atomic store. The `biased` select is in the guards: stop, then room
for the ring, then a read. The refinement maps handled items, and everything in the batch, channel,
hand, ring and outbox in that order, to one bounded queue, which loses nothing while fewer than `Depth` items
wait, and then only packets, one at a time, counted, from its newest `Depth` items: where the ring is.

### Packets and Downlink

A byte is a record of what code can read off it: which packet it belongs to, at which place, what
length a header that ends at it declares, whether that packet is idle. Each action of `Packets` is
one branch of the code's decision: the data field in front of the first header pointer
(`NoPacketInFront`, `FeedGrows`, `FeedAbandoned`, `FeedCompletes`, `FeedDropped`) and the loop behind
it (`SplitDelivers`, `SplitKeepsTail`, `SplitDesynchronised`, `SplitDone`). `Downlink` adds the
spacecraft (packets laid end to end into frames), the loss of frames, frames without packets, a
change of stream (`FlushMessage`), and the stream and datagram framings. `owed` is what the station
must hand out and count after each push, worked out from what was sent and which frames arrived,
never from the station's own state.

### Synchronizer and FrameStream

The buffer is a sequence of bits, a byte `ByteBits` of them. `Acquire` and `SearchEnds` are the two
ends of the search, `CutMarked`, `CutUnmarked` and `CutBlind` hand out a frame, `LoseLock` gives lock up
after the flywheel. `FrameStream` knows nothing of cursors, trimming and shifting; the property
`CutsTheStream` says that the frames, the lock and the misses are the same.

### PacketDecoder and Telemetry

`Observe` is `SequenceTracker::observe`; `ContiguousAgain`, `FirstGap`, `GapFolded` and `GapSummed` are
the cases of `note` with the lines they log. What the XTCE definition makes of a packet is another
crate's business and is a free choice (refused, or a container with or without bits left over).
`Telemetry` keeps, apart from the decoder, what was lost, and what a reader of the log lines was told.

### RingBuffer, ParameterStore, EventLog and Window

`RingBuffer` keeps the ring as the code does, a vector and a head, because what can go wrong is in
them: a ring that has wrapped is resized, searched in two halves, read across its seam. A sample is
its time.

| Model | Code |
|---|---|
| `pc` | the place in a frame: `idle`, `store` (the read lock), `log` (the log's lock), `ui`, and between the two halves of `clear_events` |
| `repaint`, `slot`, `waking` | a frame has been asked for; `RepaintSlot`; the decode thread is between filing and waking |
| `pending`, `taken`, `passes` | an input event is waiting; is in this frame; `input_passes` |
| `screen`, `panel`, `controls`, `view` | the copies of tree, table and plots with `generation` and `view_drawn`; of the event panel; the filters; the axis |
| `kept` | what every history should hold (for `WindowIsCovered`) |

`DrawOnly`, `EditFilter`, `TogglePause`, `Drag`, `WatchRow` and the rest are the ways `App::ui` ends: at most
one action a frame, and one that needs the operator only in a frame that holds an input event.

### Arrangement

A name is a parameter and the form it is written in, and resolves when the definition declares the
parameter. `Launch` is `run_with` and `App::new`, the actions are those of `App::apply` on the layout, `Save`,
`Written`, `Failed` and `Rename` are the steps of `save_layout` between which the station can be killed.
`promised` is what the last save was of, forgotten when somebody touches the files.

### Source, Recorder, LinkEvents and Acquisition

A byte knows the stream it is of (a datagram, a connection, a peer, a lap of a file) and its place in it.

| Model | Code |
|---|---|
| `connected`, `restart`, `rewound` | the listener has a peer; `take_restart` has something to take; this read was at the start of the file already |
| `buf` | the buffer of `acquire`, which a read appends to |
| `tail`, `flight`, `file` | `Recorder::buffer`; what the blocking thread of `tokio::fs::File` was given; the file |
| `pc` | the await, or the step between two log lines, at which the task is: `pacing` is the sleep of a rate limiter inside a read, `opening` waits for the recording to be opened, `write` and `flushed` wait for the blocking thread, `behind` is between the sends of a chunk and the line that says packets were dropped for them |
| `message`, `decoding` | the bytes the pipeline was given since its last `flush_message`; the streams the decoder was given since its last reset |
| `events`, `log` | `Pipeline::events`; the session's event log |
| `terminal`, `cursor`, `printed` | the place in `headless`; its `EventCursor`; the last thing it printed, at first what the empty log shows |

Ends are at any await: a stop drops the read, and a runtime that goes drops the task with the recorder in it, a write
still in flight. `Session` has the queue behind the pipeline, so here a send succeeds or finds it closed. What the
stages say is a free choice of reasons, in the order the stages are folded in; a message with its count written on
reads like no other, as `absorb` compares messages. Left out: how long a rate limiter waits, empty datagrams and accepts that
fail for one peer (they are waited past and change nothing), the lines of the decode thread. Lines said with nothing between them
are pushed in one step. Whether the queue dropped packets for a chunk is a free choice but for a replay, whose queue waits; `reports` bounds
how often.

### Station

`Station` starts where the program does. `Invoke` (in `Reception`) chooses a command line; `Configuration` makes of it what
`args.rs` does and refuses what `PipelineConfig::validate`, `SessionConfig::validate` and the commands refuse; what is left runs.
Then one part is followed: a link (`Reception`), an export (`ExportRuns`), a probe (`ProbeRuns`), or one panel of the window
(`BarRuns`, `TableRuns`, `PlotRuns`). The parts share the configuration and nothing else, as in the program, where
they share only what `Acquisition`, `Session` and `Window` are about.

| Model | Code |
|---|---|
| `line`, `config` | the argument structs of `args.rs`; what a session, an export or a probe is given |
| `export` | `export_loop` or `export_stream`: what is read, undecoded, in the `BufWriter`, written, and the ending |
| `survey` | `probe`: the tallies, the scan with what it carries over a seam, the advice |
| `bar` | the counters of `LinkStats`, the clock, and `Status` with its `RateWindow`; a refresh copies one counter a step |
| `table` | the last samples, the limits in force, filter and order, and the rows of the last refresh |
| `plot` | a history and what one decimator drew of it |

### GaloisField, ReedSolomon, TransferFrame, Csp and Reception

The code's field has 256 symbols; here its width and polynomial are constants, and the tables, both bases, the generator,
the syndromes, Berlekamp-Massey, the root search, Forney's formula and the block of interleaved codewords are made as `rs.rs` makes them, in its order:
every lane is decoded before a symbol is changed. The reference they are checked against knows none of this: it
looks for a codeword within reach. A polynomial is a function, a loop a recursive function over its turns.

A frame or a message is symbols. What the fields of a header say is looked up by a symbol (`HeaderOf`, `FlagsOf`), so the
bit layout is abstracted and the checks, their order and the places of the optional fields are not. Checksums are kept as
registers over symbols, with the start value and inversion of the code. `Reception` has the spacecraft send as the station
is configured, strikes symbols on the way, and takes each block through codec, randomiser and parser with the counter each
way out of `FrameStage::run` moves.

### Configuration and Limits

An argument is typed or not. `Configuration` says what each command makes of its arguments: defaults, flags that
need another or exclude it, what is refused and by which function. A limits file is a JSON value of any shape;
`from_json` accepts or refuses it as serde and the code's checks do.

### SpacecraftClock, Export and Probe

Widths in octets, the layouts, the epochs and the calendar are the code's; an octet has fewer values and a second, a
millisecond and a microsecond hold fewer of what they are divided into. `Export` models both readers, that of the
command through the pipeline and that of the library, and its rows carry the time as a date, which the property reads back. `Probe` scans for markers with the tail the code
carries from chunk to chunk.

### StatusBar, ValueTable and Decimation

The bar is refreshed once in an instant, which is what its own interval does; its counters move between two copies of one
snapshot. The table's rows are those of its last refresh. `Decimation` computes with integers, areas doubled, but where a bucket
of `lttb` ends is a product of two floating-point numbers and is rounded twice, to `MantissaBits` bits.

## 3. The runs

| Run | Bounds | What it shows |
|---|---|---|
| `session` | channel and ring of 2, chunks of up to 2 packets, 5 items, 3 streams, 3 kinds of source, decoder may die, error limit 2; fair | order, counts of one stream, accounting, honest endings, refinement of `OverflowQueue`; a stop completes, a burst is delivered, a pass that ended is decoded |
| `session_ending`, `session_final` | as small as shows it | the findings F1 and F2 below |
| `downlink` | header 2, packets of 3 to 7 bytes with a maximum of 6, data field 4, frame count modulo 3, up to 2 frames lost in a row, two channels, reads of up to 5 bytes | packets handed out as sent and every other one counted, what is half assembled bounded, every byte accounted for; the state space is complete, no pass is cut short |
| `synchronizer` | bytes of 2 bits, frames of 2 bytes, flywheel 1, marker of 2 bytes or none, pushes of up to 2 bytes, all bit streams | refinement of `FrameStream`, bytes accounted for and the buffer bounded; complete |
| `telemetry` | counts modulo 4, summaries every 2 gaps, 2 healthy packets close a dropout, up to 2 lost in a row, 2 processes (symmetric), streams that begin at the count 0 or 3, 5 packets decoded | totals are what was lost, dropouts end, the log tells each once and keeps up; what the log is told includes one warning per container |
| `window` | a parameter with a number and one without, depths 1 and 2, a log of one line, two plots; behaviours of 4 packets and 1 input, 2 and 2, 1 and 3, or 3 log lines and 2 inputs; fair | a resting window shows the store and the layout as they are, paused plots are covered, the panel is the log, rows act, the timer catches up |
| `arrangement` | two parameters, one of which a definition may lack, two hand-written layouts, depths 0 and 2, two plots; complete, nothing else is bounded | a restart restores what was saved, plotted is watched, names are kept, the report counts parameters |
| `arrangement_leaf` | a layout that plots a leaf name | the finding F3 |
| `acquisition` | reads of up to 2 bytes, 3 streams, a recording buffer of 2, two failed reads end it, queues of 2 lines, a log of 2; in five setups: each source but a listener with 3 bytes to record and one tick, a listener with 3 bytes to record and no tick or 2 bytes, none to record and two ticks, a connection with 2 bytes and 3 reports, a connection with a byte, a report and two ticks | the recording is the stream, no two streams are joined, every report is accounted for, a terminal misses no line |
| `station` | some seven hundred command lines; a field of 8 symbols, codewords of 7 with parity 2 or 4, interleaved once or twice, up to 3 symbols changed, 2 blocks or messages a pass; recordings of a few packets in chunks of 1, 5 or 11 octets; 5 instants of a status bar; the other bounds below | repair and refusal of damaged blocks, every block counted once, configurations that work, messages without their envelopes, exports and probes of the recording, a status bar that is recent, a table and plots that are faithful |
| `decimation_spike` | 16 points thinned to 9 or 13, significands of 7 bits | the finding F4 |

Why these are enough. The rings need two places for the cases that matter: full of packets, full of
markers, a marker behind or in front of a packet, room after an eviction. Five items fill channel
and ring and leave one to evict; three streams put two markers in the queue. A packet of seven bytes
over data fields of four bytes spans three frames with its header split between two of them; the
maximum length lies between the two largest packets. The frame count wraps at three and two frames
can be lost in a row, which is every loss the count can show. A marker `1101` of two 2-bit bytes
begins and ends with the same bit and is looked for at odd bits too, a flywheel of one is one more than none, and pushes
of two bytes end anywhere in a frame of four. A count modulo four wraps within the five packets of a run.
A history of two wraps with the third packet and again with the fourth, and a depth that changes between one and two cuts it there; the
budgets of `window` give each kind of trouble (wrapping, rows gone stale, filters on an idle link, a log cleared as it
is written) the behaviours it needs, and their products are left out. In `acquisition` a read of two bytes fills the recording buffer and a read of one does not, so three bytes flush in the
middle and leave a tail; three streams are two restarts; three reports fill a queue of two and drop one, or drop one and
repeat it; a log of two lines forgets its oldest while the terminal is between two ticks.

In `station` the field is small and the code is not: parity 2 repairs one symbol and parity 4 two, and three changed
symbols are one more than any codeword of the run can repair, so that blocks are repaired, refused, and wrongly
repaired to another codeword, each of which `BoundedDistance` tells apart. Two interleaved codewords share the
changed symbols in every way. The noise of the first, second and third change differs, as equal noise at two places would be a special case of the code.
Chunks of 1, 5 and 11 octets cut a packet header, a packet and a marker of three symbols at each of their seams; a file of rows two deep flushes in
the middle. Days have 3 seconds, seconds 2 milliseconds and so on, but days, months and years are the calendar's; packets are made just
inside and just outside the first and the last instant, and at times their fields have no room for. The status bar is followed over one chunk, with
a rate window of three instants, a clock set back once by two, and a refresh that may take an instant. In the
field of 3 bits the randomiser's sequence is a codeword itself, as it is in the code.

Bounds in the guards: `MaxItems`, `MaxEra`, `ChunkPackets` (`Session`), `MaxBurst`, `MaxRead`, `PacketIds`
(`Downlink`), `MaxPush` (`Synchronizer`), `MaxBurst`, `MaxPackets`, `MaxUnread` (`Telemetry`), `Budgets`, `MaxPlots` (`Window`), `MaxPlots` (`Arrangement`), `MaxRead`, `MaxStreams` (`Source`), `Setups` (`Acquisition`),
`CommandLines`, `MaxStrikes`, `MaxArrivals`, `Noise` (`Reception`), `Exports`, `ChunkSizes` (`Export`), `Probes` (`Probe`), `MaxTime`, `MaxChunks`, `SetBack` (`StatusBar`), `TableSetups` (`ValueTable`),
`Series`, `Budgets`, `Ratios`, `Tolerances` (`Decimation`), `FollowedLines` (`Station`). The
bounds on losses are not only for TLC: a loss of a whole turn of a counter cannot be told from none,
in the code or in anything that reads the same bits. For the same reason `PayloadIsSent` leaves out messages whose
damage makes the checksum right again or removes the flag that says there is one.

`FollowedLines` are the command lines of which more is followed than what `Reception` does: one line of each command
for each configuration its part reads (a clock or none, limits or none). All of some seven hundred lines are configured and refused or
started; two that configure the same are not both followed.

Deadlock is checked where the system goes on for ever (downlink, synchroniser, telemetry, window, arrangement). A session, a recording, an export,
a pass and a plot end, so the configurations of `Session`, `acquisition`, `station` and `decimation_spike` switch the check
off; what a session must reach instead are the liveness properties of `session`.

Fairness (`session`): weak fairness of the acquisition task, of the decode thread, and of a
`shutdown` that was begun. The first is the tokio scheduler's and the second the operating system's;
both only promise that something that stays possible happens. The source has no fairness: it may be
silent for ever, may never connect, and nobody has to call `shutdown`.

Fairness (`window`): weak fairness of opening the window, of the steps of a frame once it is asked for, of the
one-second timer, and of the wake-up the decode thread has begun. eframe's event loop gives the first
three; nobody has to type, file or log anything. A frame the window system hides is drawn
no more often than it is asked to be.

Each property has a mutant: a change of one definition, kept beside it, of the kind a slip in the code
would make, under which TLC finds the property violated.

## 4. What is proved

TLAPS checks these for every value of the constants that satisfies the stated assumptions.

* `SessionProofs`: `TypeCorrect`; `OutcomeIsHonest`, from `OutcomeInv`;
  `NothingUnaccounted`, from `AccountInv`. Two paths of the code report a wrong ending (a stop while connecting reads
  as a failure, a stop while waiting for room as a dead decoder). `EndingIsHonest` is not inductive
  without the facts that `shutdown` claims the outcome before it raises the watch, and that the
  loop is left at the first ending; `OutcomeInv` adds both. `AccountInv` adds which hands are empty
  in which place: an item is in exactly one of seven places.
* `SessionProofs`, second part: `DeliveredInOrder`, from `OrderInv`: what was handled, the batch, the channel, the hand, the ring and
  the chunk are six places, each ascending and each older than the next, and a replay has no ring. A step moves one
  item or a whole place to the next place that is not empty, or takes one away; the lemmas about `Moved` and `Joined` are of
  sequences only. `StreamsStayApart`, from `MarksInv`: in front of every waiting packet of a stream that the decoder has not met waits
  the marker of that stream, and so it is for the packet still to come. This is what makes it enough that markers are never evicted.
* `SessionProofs`, third part: `SessionIsOneQueue`, that `Session` implements `OverflowQueue`. The mapping folds the six places into one
  queue; each action is a step of it or leaves it alone. `RingInv` is needed for the one step that gives something up:
  a ring over its depth holds only markers, so a packet that is evicted is among the newest `Depth` items.
* `SynchronizerProofs`: `BytesAreAccounted` and `SynchronizerCutsTheStream`, both from `SyncInv`: the account of the bytes, and
  with it that a search has a marker to look for, that without a marker none is missed, and that nothing is counted before a
  push. The refinement maps the buffer behind the cursor to the unread bits of `FrameStream`; the lemmas say that
  trimming the buffer and shifting it to another bit offset leave those bits what they are, and that a marker is found at a
  place of the buffer exactly when the stream has it there. Each action is then `Cut`, `Lose`, `Lock`, `PassOver`, `Arrive`, `Restart` or a stutter.
* `PacketsProofs`: `PacketsTypeCorrect`, `PartialIsBounded`, `NoByteUncounted`, together, from
  `PacketsInv`: the type invariant, where the work of a push stands (`WorkInv`), and the two
  properties. Each needs the others: a byte that moves from the rest of a data field into a partial packet
  is counted only if the pointer is inside the field, and a partial packet stays bounded because
  the loop hands out what is whole before it keeps a tail. It holds for any frames and any bytes, not only for
  those `Downlink` sends.
* `PacketsProofs`, second part: `PacketsAreAsSent`, from `AsSentInv`. `PacketsAsSent` speaks of the end of a push; the invariant says how
  far a push has come. What goes out in a push is packets laid end to end (`Laid`): each byte of it is of the packet over its place
  (`ByteIs`), and what the station has not taken apart is a stretch of these bytes from the start of one packet on (`AtCut`), so the length it reads
  there is that packet's, and what it cuts off is that packet (`StretchReads`). A piece held from an earlier frame and the bytes that follow it are again one
  stretch (`Joined`, `FrontIs`). The packets before the cut are handed out, counted as fill or skipped, as `owed` has it (`Tally`).
  Between pushes a channel holds the beginning of the packet the spacecraft is in the middle of, or nothing (`Holds`), and its last count is as far behind the
  next as frames were lost (`LastIs`), which fewer than a modulus of them cannot hide (`JumpIs`). `DownlinkIsPackets`: `Downlink` implements
  `PacketsSpec`, step by step, so that the theorems of the first part hold of it.
* `PacketDecoderProofs`: `DecoderTypeCorrect`, `DropoutsAreEnded` for any packets at all, and
  `MissingIsLost` for the link of `Telemetry`, from `CountsFollow`: the next count is the last one
  received plus one plus the packets lost since, modulo the modulus. The arithmetic is in lemmas of its own
  (`MissedIsSkipped`, `SkipOne`). `LogIsKeptUp`, what a reader of the log knows, from `ReaderInv` and `WarningsInv`. A reader
  who is less than an interval of gaps behind may fall behind by one more at the next gap, so the property
  is not inductive; what is, is that a reader is behind on a dropout by no more than its gaps modulo the interval, and
  that a container is in `warned` exactly when its warning was called for. What the open dropouts owe is a sum
  over the processes, of which a step changes one term (`MissingMoves`).
* `StationProofs`, the arrangement: `ArrangementTyped`, from `ShapeInv`; `OrphansKept`, from `SavedInv` (what is being written is of what
  was in memory, and the orphans in memory are those of the file it was read from); `PlottedStayWatched`, from `PlotInv`; `RestartsRestore`,
  from `PromiseInv`. The last two have the hypothesis `SheetsByName`, that hand-written files plot by qualified names: without it
  they are false (F3), and the run `arrangement_leaf` has the counterexample. `ReportsAreHonest`, from `ReportInv`, needs also
  `SheetsInOneForm`, that such a file does not name one parameter in two forms: then no file does, as a save rewrites in full what is watched.
  In memory a parameter may have two forms until the next save; what the definition lacks may not, since the save keeps all of that.
* `StationProofs`, the status bar: `BarIsRecentAlways`, from `BarInv`. Whatever the clock does, samples in the window are apart, a counter never falls
  from one to the next, and the window is short: pruning keeps an end of it (`PrunedIsEnd`). While the clock is not set back, a sample counts the first so many
  of the chunks that came, all of those came by then and no other came before (`Timely`); so what two samples differ by came between them (`BetweenSamples`).
  A copy that is under way counts what had come when it began and may count more, which is why the lemma has a tick at each end.
* `StationProofs`, the command line: `ConfigurationWorksAlways`, from `Configured`, that a station that runs does so on what its command line starts. The rest is
  about one command line: what is not refused is valid (`StartedIsValid`), each flag for frames acts on them (`FlagsAreHonoured`), and the code's block is the
  synchroniser's (`CodeFits`). `FramesAccountedAlways`, from `Accounted`: counting a block, for any verdict, moves one total and one of its parts
  (`CountedIsBalanced`), and what is on the way is a finite block, so that what its repair cost is a number.
* `EventLogProofs`: lemmas only. A ring that is pushed to or resized holds the newest of what it was pushed (`Ring`), wherever its seam
  lies; a log keeps its entries a ring, with a total of all that was pushed (`IsLog`), and its entries are the last runs of one line in what it
  was pushed, each with the length of its run (`Follows`, from where each entry ends, `Marks`); and what sums and folds over sequences
  give for one more element. The two modules below rest on them.
* `AcquisitionProofs`: `RecordingsAreFaithful`, from `RecInv`: `RecorderInv` (file, flight and tail together are the file
  as it was found and the bytes handled, until a write fails; a write is in flight at three places only) and `StreamInv` (what the
  pipeline and the decoder were given since their last reset is of one stream, and a restart that nobody has taken stands
  between that and the next byte). `ReportsAreCounted`, from `EventsInv` and
  `Balance`: the lines said, those queued, the run that is still being folded and the counts of what did not fit add up, for each reason, to the reports
  made. `LinesAreCounted` alone is not inductive: a run that is closed later must be counted before, and a drain
  must find the queue in the order in which lines and repeats were folded. `PrintsMissNone`, from `PrinterInv`: the log follows what was said,
  the cursor is where the last print stood, and a terminal that is over has a task behind it that says nothing more. That the end of an entry,
  which the code computes from the total and the counts of the entries behind it, is its mark, and that the marks are the ends of the
  runs the log still holds, is the argument; a run that grew after it was shown has a later mark and is new.
* `WindowProofs`: `PanelHoldsTheLog`, `QuietWindowIsCurrent`, `HistoryIsDrawn` and `RowsDoWhatTheySay`, all from `WindowInv`, which
  has six parts that need each other. `StoreInv`: each history is a ring of the newest of what was filed since it was watched,
  its times ascend and none exceeds the generation. `LogInv` and `PanelInv`: the panel's count is never ahead of the log's, and
  equal counts mean equal lines, except between the two halves of `clear_events`. `FrameInv`: the slot is filled before the first
  frame, and while an input has a pass to come, a frame is running or asked for. `ScreenInv`: a generation that was not copied yet
  has a wake-up, a repaint or a copy coming, and with no pass left and no newer generation the screen is made of the store; hence a window at
  rest is current. It also keeps that a row says watched when its parameter is, in the frame that can act on it. `RangeIsCovered` says that
  the binary search over two halves of a ring finds the points of a range with one to either side, for ascending times.

Assumptions are the named `ASSUME` of each module: positive depths and lengths, a modulus of at least
two, `MaxBurst < SequenceModulus - 1` in `Telemetry` and `MaxBurst < Modulus` in `Downlink` (what a count can tell), packets longer than their header and made of `Bytes`,
arguments of the types the parser gives, `None` no instant, no command line and no code, markers of whole bytes, a session's own lines that read like no line of the link (they
are literals of different functions), and finite sets of processes, of parameters, of reasons
and of budgets. TLC evaluates them in every run.

Only model-checked: `RepairIsExact`, `BoundedDistance`, `PayloadIsSent`, `ExportIsTheRecording`, `ProbeFinds`, `ScreenIsFaithful`, and all
liveness. Liveness under fairness and `ENABLED` are out of the prover's reach, and so are `RECURSIVE` operators, of which no module
here has one. The library's induction theorems cannot be instantiated here, as they take an operator; where a
proof needs induction over a sequence (sums, folds of pushes into a log, packets laid end to end) it argues by the least counterexample, whose existence
the theorem that the order of the numbers is well-founded gives without one (`LeastNumber`, `FewestOf`), and by the equations of a fold stated as a function. That
works for a handful of folds of one line. The first three of these properties are the algebra of a code: that a decoder of nested loops over a field made from tables finds the
nearest codeword, and that a checksum tells two messages apart. The last three compare what a loop over a whole recording, or a sort, makes with what a
definition of one line says of the same data: calendar, scan, rows of the table and decimators are such folds inside one another. They stay with TLC.

## 5. Where the code and what is said of it differ

* **F1** `engine/session.rs:793`. The arm of the select that reserves a slot leaves the loop when the
  decode thread has died, with no outcome and no line on the log; `Session::outcome` still says
  `Running`, "while it has not [stopped]". The two other places that meet a dead decoder record it.
* **F2** `cli/run.rs:130`. Of a replay that reached its end, "the pass is over, and its counters are the result"; they are
  printed once the acquisition task has ended, and the detached decode thread may still hold packets.
* **F3** `gui/app.rs:409`. Unwatching a parameter takes it out of the plots, "a plot cannot draw a parameter whose ring has been
  freed". It is taken out by its qualified name only; a layout edited by hand, which `layout.rs:363` calls "the expected case", may
  name it by its leaf name, which resolves. Its ring is freed, its series stays, and the next start watches it again.
* **F4** `core/decimate.rs:81`. Of each bucket `lttb` keeps the point that contributes most to the shape, so that a "single-sample
  spike" is not lost. A bucket ends at a product of two rounded numbers, which can fall below the last point but one; that point
  is then in no bucket. It happens with 63 points thinned to 9, and with 1002 thinned to 1000.

Each of these four has a run that states the sentence quoted (`session_ending`, `session_final`, `arrangement_leaf`, `decimation_spike`),
and in which TLC finds it violated. The following were met on the way and have no run:

* `link/pipeline.rs:748`. `PacketAssembler::reset` is "called when the synchroniser loses lock" (`packets.rs:527`), and is not: it is called
  for a new stream only. A packet half assembled stays until the next frame of its channel.
* `engine/session.rs:604`. A dispatcher over "at most `capacity` items of overflow" (line 506): a ring full of markers takes one more marker.
* `link/source.rs:559`. A read from a peer that "timed out" is said to be "a disconnect and is waited through"; `per_connection` does not
  name `TimedOut`, so the read is an error, and `READ_ERROR_LIMIT` peers that time out in a row end a listening session.
* `cli/run.rs:404`. The count an export prints as "partial packets abandoned" is called the one a probe prints as "packets lost"; a
  probe does not flush its pipeline at the end, so a packet cut off there is in the first and not in the second.
* `cli/run.rs`, `ApidTally`. A repeated packet counts as a gap of a whole turn less one in a probe, and as nothing in the decoder.
* `engine/decode.rs:313`. A packet that arrives late counts as nearly a whole turn lost, once, as the sequence count alone cannot tell.
* `engine/record.rs:482`. `export_stream` is "what `xtce-gs export` runs"; `run.rs:306` says that it does not call it, and why.
* `engine/sctime.rs:12`. Of a time field that cannot be read "the operator is told once"; the decoder falls back to ground receipt (`decode.rs:587`) and no line is logged.
* `gui/panels/status.rs`. A wall clock set back keeps the lamp on live for as long as it was set back by. The packet that counts
  is the last one decoded: what waits in the queue does not.
* `gui/layout.rs:391`. `named` counts "how many distinct parameters this layout names", "counted the same way" as `restore`; it counts distinct
  names. A layout edited by hand that names one parameter in full and by its leaf name is reported as one parameter short, "kept in
  the layout in case it comes back". `ReportsAreHonest` has the hypothesis that no sheet does.
* `core/stats.rs`. A snapshot is not atomic: for one refresh a ratio of two of its counters may exceed one.
* `core/decimate.rs`. `lttb` asked for fewer than three points gives two; `min_max_lttb` can give an end twice; over points of one instant `lttb` can lose a spike.
* `cli/run.rs`, `advise`. It can suggest a frame length that leaves no room for a header.
* `engine/config.rs`. An array of exactly four numbers is accepted for the limits of a parameter, as serde reads a struct.

## 6. Not modelled

* XTCE decoding (an external crate): whether a packet is refused, and which samples it holds, are inputs.
* The argument parser, URL parsing, and reading the definition and the limits file from disk: what an argument was given as is an input.
* The bits of headers: which frame header, CSP header or time field a symbol or octet stands for is a constant.
  A frame length of zero, which `PipelineConfig::validate` refuses, is excluded from `Synchronizer`.
* Drawing, formatting, themes, screenshots (`capture.rs`), panel sizes, how values are quoted, and the wording of log lines (which line, about
  which process, with which numbers, is modelled). This is why the window, the panels and the values are listed as partly modelled.
* History is in order of time, as `visible_range` assumes; `plots.rs:188` says what a clock that steps back
  would do to it. Values that are no number are left out of `Decimation`; `Limits` has them.
* In `Arrangement` one station has a layout at a time, and hand-written layouts name a parameter in one way
  only: `Layout::named` counts names and `Layout::restore` parameters, so two names for one would not add up in the report.
* Atomics are sequentially consistent here. The session's flags are relaxed, and `headless` reads
  `is_running` and then `outcome`: on hardware that reorders the two, an ending could be read as
  `Running`. `EndingIsHonest` says what the order of the writes gives, not what a relaxed read sees.
* Counters that saturate at 32 or 64 bits are taken not to.
* The parts of `Station` are followed one at a time: a table and a status bar of one window share nothing but the store and
  the counters, which `Window` and `Session` are about.

## 7. What is left

What section 6 leaves out is out of reach or has no property of its own. The six safety properties that section 4 lists as only
model-checked would need a theory of the code and of folds that the provers here do not have.
