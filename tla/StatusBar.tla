------------------------------ MODULE StatusBar ------------------------------
(***************************************************************************)
(* The status bar over a link: the counters of xtce-gs-core/src/stats.rs as *)
(* the link and the decoder write them, and Status and RateWindow in        *)
(* xtce-gs-gui/src/panels/status.rs, which copy them while they are being   *)
(* written and say how fast bytes come and whether any packet does.  Time   *)
(* is the wall clock's, which may be set back.                              *)
(***************************************************************************)
EXTENDS Option, Integers, Sequences, FiniteSets

CONSTANTS
    LIVE_WINDOW, QUIET_WINDOW, RATE_WINDOW, RATE_SAMPLE, RATE_SAMPLES,
    MaxTime,        \* instants followed
    MaxChunks,      \* chunks that arrive
    SetBack         \* how far the clock is set back, once at most

ASSUME StatusBarAssumption ==
    /\ RATE_SAMPLE \in Nat \ {0} /\ RATE_WINDOW \in Nat /\ RATE_SAMPLES \in Nat \ {0}
    /\ LIVE_WINDOW \in Nat /\ QUIET_WINDOW \in Nat /\ LIVE_WINDOW <= QUIET_WINDOW
    /\ MaxTime \in Nat /\ MaxChunks \in Nat /\ SetBack \subseteq Nat \ {0}
    /\ None \notin Int

VARIABLE bar   \* the clock, the link, its counters and the bar; None with no window

(* A refresh is under way from the copy of the first counter to the clock's  *)
(* reading; the clock moves by one tick at most meanwhile.                   *)
NewStatus == [snapshot |-> [bytes |-> 0, packets |-> 0, last |-> None], taken |-> 0,
              running |-> FALSE, rates |-> <<>>, opened |-> None]
OpenBar ==
    /\ bar = None
    /\ bar' = [now |-> 0, set_back |-> FALSE, running |-> TRUE, chunks |-> <<>>, decoded |-> 0,
               stats |-> [bytes |-> 0, packets |-> 0, last |-> None],
               drawing |-> None, drawn |-> 0, status |-> NewStatus]

(***************************************************************************)
(* The rest of the station.  A chunk is when it came and whether a packet   *)
(* came of it; the decoder reaches it later and stores when that was.       *)
(***************************************************************************)
Tick ==
    /\ bar.now < MaxTime
    /\ bar.drawing # None => bar.now = bar.drawing.begun
    /\ bar' = [bar EXCEPT !.now = @ + 1]

ClockSetBack ==
    /\ ~bar.set_back
    /\ \E by \in SetBack :
        bar' = [bar EXCEPT !.now = @ - by, !.set_back = TRUE]

ChunkArrives ==
    /\ bar.running /\ Len(bar.chunks) < MaxChunks
    /\ \E packet \in BOOLEAN :
        bar' = [bar EXCEPT !.chunks = Append(@, [at |-> bar.now, packet |-> packet]),
                           !.stats.bytes = @ + 1,
                           !.stats.packets = @ + (IF packet THEN 1 ELSE 0)]

Decode ==
    /\ bar.decoded < Len(bar.chunks)
    /\ LET chunk == bar.chunks[bar.decoded + 1] IN
       bar' = [bar EXCEPT !.decoded = @ + 1,
                          !.stats.last = IF chunk.packet THEN chunk.at ELSE @]

SourceEnds ==
    /\ bar.running
    /\ bar' = [bar EXCEPT !.running = FALSE]

(***************************************************************************)
(* Status::refresh: LinkStats::snapshot, one counter after another, then the*)
(* clock, then the rates.  One refresh to an instant is followed.           *)
(***************************************************************************)
CopyBytes ==
    /\ bar.drawing = None
    /\ bar.status.opened # None => bar.status.taken # bar.now
    /\ bar' = [bar EXCEPT !.drawing = [running |-> bar.running, bytes |-> bar.stats.bytes,
                                       begun |-> bar.now, packets |-> None, last |-> None,
                                       decoded |-> 0]]

CopyPackets ==
    /\ bar.drawing # None /\ bar.drawing.packets = None
    /\ bar' = [bar EXCEPT !.drawing.packets = bar.stats.packets,
                          !.drawing.last = bar.stats.last,
                          !.drawing.decoded = bar.decoded]

Newest(rates) == rates[Len(rates)]

\* The window of the rates is pruned of what is too old, from the oldest on, but
\* never of the newest.
StaysIn(rates, n, now) == n = Len(rates) \/ now - rates[n].at <= RATE_WINDOW
FirstKept(rates, now) ==
    CHOOSE n \in DOMAIN rates :
        StaysIn(rates, n, now) /\ \A m \in 1..(n - 1) : ~StaysIn(rates, m, now)
Pruned(rates, now) == SubSeq(rates, FirstKept(rates, now), Len(rates))

PushedUnder(rates, tick) ==
    Pruned(Append(IF Len(rates) = RATE_SAMPLES THEN Tail(rates) ELSE rates, tick), tick.at)

RatePush(rates, tick) ==
    IF rates # <<>> /\ tick.at < Newest(rates).at THEN <<tick>>
    ELSE IF rates # <<>> /\ tick.at - Newest(rates).at < RATE_SAMPLE THEN rates
    ELSE PushedUnder(rates, tick)

FinishRefresh ==
    /\ bar.drawing # None /\ bar.drawing.packets # None
    /\ LET copied == bar.drawing
           tick == [at |-> bar.now, bytes |-> copied.bytes, packets |-> copied.packets]
       IN  bar' = [bar EXCEPT
              !.drawing = None, !.drawn = copied.decoded,
              !.status = [snapshot |-> [bytes |-> copied.bytes, packets |-> copied.packets,
                                        last |-> copied.last],
                          taken |-> bar.now, running |-> copied.running,
                          rates |-> RatePush(@.rates, tick),
                          opened |-> IF @.opened = None THEN bar.now ELSE @.opened]]

BarStep ==
    \/ Tick \/ ClockSetBack \/ ChunkArrives \/ Decode \/ SourceEnds
    \/ CopyBytes \/ CopyPackets \/ FinishRefresh

(***************************************************************************)
(* What is drawn of it.                                                     *)
(***************************************************************************)
\* What came between the two ends of the window, and over how long.
RatesOver(status) ==
    IF Len(status.rates) < 2 THEN [bytes |-> 0, packets |-> 0, interval |-> 0]
    ELSE LET oldest == Head(status.rates)
             newest == Newest(status.rates)
         IN  [bytes |-> newest.bytes - oldest.bytes, packets |-> newest.packets - oldest.packets,
              interval |-> newest.at - oldest.at]

silence_seconds(status) ==
    IF status.opened = None THEN None
    ELSE status.taken - (IF status.snapshot.last = None THEN status.opened
                         ELSE status.snapshot.last)

(* A mistake: a link that never delivered a packet is as live as one that    *)
(* has just been opened.                                                     *)
LiveSinceOpened(status) ==
    LET silence == silence_seconds(status) IN
    IF status.opened = None \/ ~status.running \/ silence > QUIET_WINDOW THEN "Stopped"
    ELSE IF silence <= LIVE_WINDOW THEN "Live"
    ELSE "Quiet"

liveness(status) ==
    LET silence == silence_seconds(status) IN
    IF status.opened = None \/ ~status.running THEN "Stopped"
    ELSE IF silence > QUIET_WINDOW THEN "Stopped"
    ELSE IF status.snapshot.last # None /\ silence <= LIVE_WINDOW THEN "Live"
    ELSE "Quiet"

(***************************************************************************)
(* What the bar promises.                                                   *)
(***************************************************************************)
CameWithin(first, last, what) ==
    Cardinality({n \in DOMAIN bar.chunks :
        /\ bar.chunks[n].at \in first..last
        /\ what = "packets" => bar.chunks[n].packet})

\* The window is short, and of samples apart, whatever the clock does.
WindowIsShort(rates) ==
    /\ Len(rates) <= RATE_SAMPLES
    /\ \A n \in 2..Len(rates) : rates[n].at - rates[n - 1].at >= RATE_SAMPLE
    /\ rates # <<>> => Newest(rates).at - Head(rates).at <= RATE_WINDOW

\* What a rate counts is what came between its ends, of which each is as
\* inexact as a refresh is long; nothing is counted twice or from before.
RateIsWhatCame(status) ==
    LET rate == RatesOver(status) IN
    Len(status.rates) >= 2 =>
        LET since == Head(status.rates).at
            until == Newest(status.rates).at
        IN  \A what \in {"bytes", "packets"} :
                /\ rate[what] >= CameWithin(since + 1, until - 2, what)
                /\ rate[what] <= CameWithin(since - 1, until, what)

\* The last of the rate is at most a sample old, and so is what is drawn of a
\* link that stopped.
RateIsRecent(status) ==
    /\ status.rates # <<>> /\ status.taken - Newest(status.rates).at < RATE_SAMPLE
    /\ RatesOver(status).bytes > 0 =>
        CameWithin(status.taken - RATE_WINDOW - RATE_SAMPLE, status.taken, "bytes") > 0

DecodedPackets == {n \in 1..bar.drawn : bar.chunks[n].packet}

LampIsTrue(status) ==
    /\ liveness(status) = "Live" =>
        /\ status.running
        /\ CameWithin(status.taken - LIVE_WINDOW, status.taken, "packets") > 0
    /\ liveness(status) = "Stopped" /\ status.running =>
        /\ DecodedPackets = {} => status.taken - status.opened > QUIET_WINDOW
        /\ \A n \in DecodedPackets : status.taken - bar.chunks[n].at > QUIET_WINDOW
    /\ status.snapshot.last = None => liveness(status) # "Live"

BarIsTrue ==
    /\ WindowIsShort(bar.status.rates)
    /\ RatesOver(bar.status).bytes >= 0 /\ RatesOver(bar.status).packets >= 0
    /\ ~bar.set_back /\ bar.status.opened # None =>
        /\ RateIsWhatCame(bar.status)
        /\ RateIsRecent(bar.status)
        /\ LampIsTrue(bar.status)
=============================================================================
