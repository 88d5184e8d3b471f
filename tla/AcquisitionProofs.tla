------------------------- MODULE AcquisitionProofs -------------------------
(***************************************************************************)
(* Proofs about the acquisition task, for every source, buffer and bound:   *)
(* what is recorded is what arrived, what is said of a session counts every *)
(* report the pipeline made, and what is printed of it is what is new.      *)
(*                                                                          *)
(* RecInv is inductive.  The recording needs to know where the bytes that   *)
(* the file does not hold yet are, and that only the task's own word tells  *)
(* whether it records at all; the streams need to know what the pipeline    *)
(* has in hand where; the log needs that what was said is what was pushed.  *)
(* PrinterInv, beside it, needs of the log where each entry ends in that.   *)
(***************************************************************************)
EXTENDS Acquisition, EventLogProofs

Byte == [stream : Nat, at : Nat]
Lines == [what : Reasons \union Worded \union SessionWords \union {Further}, more : Nat]

TypeInv ==
    /\ spec \in Specs /\ connected \in BOOLEAN /\ restart \in BOOLEAN
    /\ rewound \in BOOLEAN /\ stream \in 0..MaxStreams /\ offset \in Nat
    /\ buf \in Seq(Byte) /\ handled \in Seq(Byte) /\ message \in Seq(Byte)
    /\ \A b \in Range(buf) : b.stream \in 0..MaxStreams
    /\ tail \in Seq(Byte) /\ flight \in Seq(Byte) /\ file \in Seq(Byte)
    /\ recorder \in BOOLEAN /\ failed \in BOOLEAN
    /\ pc \in Phases /\ failures \in 0..ReadErrorLimit
    /\ running \in BOOLEAN /\ stop \in BOOLEAN
    /\ decoding \subseteq 0..MaxStreams
    /\ setup \in [spec : Specs, record : BOOLEAN, bytes : Nat, reports : Nat,
                  ticks : Nat]
    /\ terminal \in {"loop", "check", "over", "interrupted", "finished", "left"}
    /\ failures < ReadErrorLimit \/ pc \in {"close", "flushed", "dropping", "done"}

LogInv ==
    /\ said \in Seq(Lines) /\ IsLog(log, Range(said)) /\ log.total = Len(said)
    /\ log.entries.capacity = LogCapacity

Opening == pc \in {"open", "opening"}
Opened == Session("recording") \in Range(said)
Recorded == file \o flight \o tail
Stream == Existing \o handled

RecorderInv ==
    /\ Opening => /\ ~recorder /\ ~failed /\ ~Opened /\ handled = <<>>
                  /\ flight = <<>> /\ file = Existing
    /\ recorder => Opened /\ (failed => pc \in {"write", "flushed", "dropping"})
    /\ ~recorder => tail = <<>>
    /\ Opened /\ pc # "done" /\ ~recorder => failed
    /\ failed => tail = <<>>
    /\ pc \in {"write", "flushed", "done"} => tail = <<>>
    /\ flight # <<>> => pc \in {"write", "flushed", "done"}
    /\ pc = "done" => ~recorder
    /\ ~running => pc = "done"
    /\ Len(tail) < RecordBuffer

Faithful ==
    IF Opened /\ ~failed THEN Recorded = Stream ELSE IsPrefix(Recorded, Stream)

StreamsOf(bytes) == {b.stream : b \in Range(bytes)}

Reading == pc \notin {"gone", "close", "flushed", "dropping", "done"}

StreamInv ==
    /\ restart => spec.scheme \in {"listen", "file"}
    /\ pc \in {"open", "opening", "read", "ended"} => buf = <<>>
    /\ pc = "push" => ~restart
    /\ \E s \in Nat : StreamsOf(message) \subseteq {s}
    /\ IsDatagram => /\ Reading /\ pc # "report" => message = <<>>
                     /\ \E s \in Nat : StreamsOf(buf) \subseteq {s}
    /\ ~IsDatagram => /\ \E s \in Nat : decoding \subseteq {s}
                      /\ StreamsOf(buf) \subseteq {stream}
                      /\ \A d \in decoding : d <= stream
                      /\ Reading =>
                            IF restart THEN stream \notin decoding
                                       ELSE /\ decoding \subseteq {stream}
                                            /\ StreamsOf(message) \subseteq {stream}
EventsInv(e) ==
    /\ IsEvents(e)
    /\ e = [queued |-> e.queued, last |-> e.last, repeats |-> e.repeats,
            dropped |-> e.dropped]
    /\ e.repeats > 0 => e.queued # <<>> /\ Held(e).more = 0
    /\ e.last # Nothing => e.queued # <<>> /\ Held(e) = Line(e.last, 0)

RecInv ==
    /\ TypeInv /\ LogInv /\ cursor \in Nat /\ EventsInv(events)
    /\ RecorderInv /\ Faithful /\ StreamInv
-----------------------------------------------------------------------------
(***************************************************************************)
(* The lines a pipeline holds.                                              *)
(***************************************************************************)
Queued == [what : Reasons \union Worded, more : Nat]

(* What pushing the line what does to those held, run and all: the last     *)
(* counts one more, the line is behind them, or it is counted as dropped.   *)
Counts(e, f, what) ==
    LET was == CloseRun(e).queued
        is == CloseRun(f).queued
    IN  \/ /\ was # <<>> /\ was[Len(was)].what = what /\ f.dropped = e.dropped
           /\ is = [was EXCEPT ![Len(was)] = Line(what, was[Len(was)].more + 1)]
        \/ is = Append(was, Line(what, 0)) /\ f.dropped = e.dropped
        \/ is = was /\ f.dropped = e.dropped + 1

LEMMA LastReplaced ==
    ASSUME NEW S, NEW s \in Seq(S), s # <<>>, NEW x \in S
    PROVE  /\ [s EXCEPT ![Len(s)] = x] \in Seq(S)
           /\ Len([s EXCEPT ![Len(s)] = x]) = Len(s)
           /\ [s EXCEPT ![Len(s)] = x][Len(s)] = x
           /\ [s EXCEPT ![Len(s)] = x] # <<>>
           /\ Len(s) \in 1..Len(s) /\ s[Len(s)] \in S
<1>1. Len(s) \in Nat /\ Len(s) # 0
    BY EmptySeq, LenProperties
<1>2. Len(s) \in 1..Len(s)
    BY <1>1
<1> DEFINE t == [s EXCEPT ![Len(s)] = x]
<1>3. t \in Seq(S) /\ Len(t) = Len(s) /\ t[Len(s)] = x
    BY <1>2, ExceptSeq
<1> HIDE DEF t
<1>4. t # <<>>
    BY <1>1, <1>3, EmptySeq
<1> QED BY <1>2, <1>3, <1>4, ElementOfSeq DEF t

LEMMA RunClosed ==
    ASSUME NEW e, EventsInv(e)
    PROVE  /\ CloseRun(e) = [queued |-> CloseRun(e).queued, last |-> e.last,
                             repeats |-> 0, dropped |-> e.dropped]
           /\ e.repeats = 0 => CloseRun(e).queued = e.queued
           /\ e.repeats > 0 =>
                CloseRun(e).queued = [e.queued EXCEPT ![Len(e.queued)]
                                          = Line(Held(e).what, e.repeats)]
           /\ CloseRun(e).queued \in Seq(Queued)
           /\ Len(CloseRun(e).queued) = Len(e.queued)
<1> DEFINE q == e.queued
           n == Len(e.queued)
           r == e.repeats
<1>1. /\ q \in Seq(Queued) /\ r \in Nat
      /\ e = [queued |-> q, last |-> e.last, repeats |-> r, dropped |-> e.dropped]
    BY DEF EventsInv, IsEvents, Queued
<1>2. CASE r = 0
    <2>1. CloseRun(e) = [e EXCEPT !.repeats = 0]
        BY <1>2 DEF CloseRun
    <2>2. [e EXCEPT !.repeats = 0] = [queued |-> q, last |-> e.last, repeats |-> 0,
                                      dropped |-> e.dropped]
        BY <1>1
    <2> QED BY <1>1, <1>2, <2>1, <2>2
<1>3. CASE r # 0
    <2>1. r > 0 /\ q # <<>> /\ q[n].more = 0
        BY <1>1, <1>3 DEF EventsInv, Held
    <2>2. n \in 1..n /\ q[n] \in Queued /\ Len(q) = n
        BY <1>1, <2>1, LastReplaced
    <2>3. CloseRun(e) = [e EXCEPT !.repeats = 0, !.queued[n].more = r]
        BY <1>3, <2>1 DEF CloseRun
    <2> DEFINE x == [q[n] EXCEPT !.more = r]
               t == [q EXCEPT ![n] = x]
    <2>4. x = Line(q[n].what, r) /\ x \in Queued
        BY <1>1, <2>2 DEF Queued, Line
    <2>5. [e EXCEPT !.repeats = 0, !.queued[n].more = r]
            = [[e EXCEPT !.repeats = 0] EXCEPT !.queued = t]
        BY <1>1
    <2> HIDE DEF x, t
    <2>6. [[e EXCEPT !.repeats = 0] EXCEPT !.queued = t]
            = [queued |-> t, last |-> e.last, repeats |-> 0, dropped |-> e.dropped]
        <3> DEFINE z == [e EXCEPT !.repeats = 0]
        <3>1. z = [queued |-> q, last |-> e.last, repeats |-> 0, dropped |-> e.dropped]
            BY <1>1
        <3> HIDE DEF z
        <3>2. [z EXCEPT !.queued = t]
                = [queued |-> t, last |-> e.last, repeats |-> 0, dropped |-> e.dropped]
            BY <3>1
        <3> QED BY <3>2 DEF z
    <2>7. t \in Seq(Queued) /\ Len(t) = n
        BY <1>1, <2>1, <2>4, LastReplaced DEF t
    <2>8. t = [q EXCEPT ![n] = Line(q[n].what, r)]
        BY <2>4 DEF t
    <2>9. CloseRun(e).queued = t
        BY <2>3, <2>5, <2>6
    <2> HIDE DEF q, n, r
    <2> QED BY <1>3, <2>3, <2>5, <2>6, <2>7, <2>8, <2>9 DEF Held, q, n, r
<1> QED BY <1>2, <1>3

LEMMA LineHeld ==
    ASSUME NEW e, EventsInv(e), NEW what \in Reasons \union Worded,
           NEW last, last = Nothing \/ (last \in Reasons /\ last = what)
    PROVE  /\ EventsInv(Hold(e, what, last))
           /\ Counts(e, Hold(e, what, last), what)
<1> DEFINE closed == CloseRun(e)
           q == closed.queued
           line == Line(what, 0)
           more == Append(q, line)
           f == Hold(e, what, last)
<1>1. /\ closed = [queued |-> q, last |-> e.last, repeats |-> 0, dropped |-> e.dropped]
      /\ q \in Seq(Queued) /\ Len(q) = Len(e.queued)
    BY RunClosed
<1>2. /\ e.dropped \in Nat /\ Len(q) \in Nat /\ Len(q) <= EventCapacity
      /\ EventCapacity \in Nat
    BY <1>1, LenProperties, LinkEventsAssumption DEF EventsInv, IsEvents
<1>3. line \in Queued
    BY DEF Line, Queued
<1>4. more \in Seq(Queued) /\ Len(more) = Len(q) + 1 /\ more[Len(q) + 1] = line
    BY <1>1, <1>3, AppendProperties
<1>5. more # <<>>
    <2> HIDE DEF more
    <2> QED BY <1>2, <1>4, EmptySeq
<1> HIDE DEF q, more, line
<1>6. CASE Len(q) >= EventCapacity
    <2>1. f = [closed EXCEPT !.last = Nothing, !.dropped = @ + 1]
        BY <1>6 DEF Hold, q
    <2>2. f = [queued |-> q, last |-> Nothing, repeats |-> 0, dropped |-> e.dropped + 1]
        <3> HIDE DEF closed
        <3> QED BY <1>1, <2>1
    <2> HIDE DEF f
    <2>3. f.queued = q /\ f.last = Nothing /\ f.repeats = 0 /\ f.dropped = e.dropped + 1
        BY <2>2
    <2>4. IsEvents(f)
        BY <1>1, <1>2, <2>3 DEF IsEvents, Queued
    <2>5. EventsInv(f)
        BY <2>2, <2>3, <2>4 DEF EventsInv
    <2>6. CloseRun(f).queued = q
        BY <2>3, <2>5, RunClosed
    <2> QED BY <2>3, <2>5, <2>6 DEF Counts, f, q
<1>7. CASE ~(Len(q) >= EventCapacity)
    <2>1. f = [closed EXCEPT !.last = last, !.queued = Append(@, Line(what, 0))]
        BY <1>7 DEF Hold, q
    <2>2. f = [queued |-> more, last |-> last, repeats |-> 0, dropped |-> e.dropped]
        <3>1. closed.queued = q
            BY DEF q
        <3> HIDE DEF closed
        <3> QED BY <1>1, <2>1, <3>1 DEF more, line
    <2> HIDE DEF f
    <2>3. f.queued = more /\ f.last = last /\ f.repeats = 0 /\ f.dropped = e.dropped
        BY <2>2
    <2>4. Len(more) <= EventCapacity
        BY <1>2, <1>4, <1>7
    <2>5. IsEvents(f)
        BY <1>2, <1>4, <2>3, <2>4 DEF IsEvents, Queued
    <2>6. Held(f) = line
        BY <1>4, <2>3 DEF Held
    <2>7. EventsInv(f)
        BY <1>5, <2>2, <2>3, <2>5, <2>6 DEF EventsInv, line
    <2>8. CloseRun(f).queued = more
        BY <2>3, <2>7, RunClosed
    <2> QED BY <2>3, <2>7, <2>8 DEF Counts, f, more, line, q
<1> QED BY <1>6, <1>7

LEMMA LineRepeated ==
    ASSUME NEW e, EventsInv(e), e.queued # <<>>, Held(e).more = 0
    PROVE  /\ EventsInv(Repeat(e))
           /\ Counts(e, Repeat(e), Held(e).what)
<1> DEFINE q == e.queued
           n == Len(q)
           r == e.repeats
           f == Repeat(e)
           what == Held(e).what
<1>1. /\ q \in Seq(Queued) /\ r \in Nat /\ n \in Nat
      /\ e = [queued |-> q, last |-> e.last, repeats |-> r, dropped |-> e.dropped]
      /\ e.dropped \in Nat
    BY LenProperties DEF EventsInv, IsEvents, Queued
<1>2. f = [queued |-> q, last |-> e.last, repeats |-> r + 1, dropped |-> e.dropped]
    BY <1>1 DEF Repeat
<1>3. n \in 1..n /\ q[n] \in Queued /\ q[n] = Held(e)
    BY <1>1, LastReplaced DEF Held
<1> HIDE DEF f
<1>4. /\ f.queued = q /\ f.last = e.last /\ f.repeats = r + 1 /\ f.dropped = e.dropped
      /\ Held(f) = Held(e)
    BY <1>2 DEF Held
<1>5. EventsInv(f)
    <2>1. IsEvents(f)
        BY <1>1, <1>4 DEF EventsInv, IsEvents
    <2> QED BY <1>2, <1>4, <2>1 DEF EventsInv
<1> DEFINE was == CloseRun(e).queued
           is == CloseRun(f).queued
<1>6. is = [q EXCEPT ![n] = Line(what, r + 1)]
    BY <1>1, <1>4, <1>5, RunClosed
<1>7. was # <<>> /\ Len(was) = n /\ was[n] = Line(what, r)
      /\ is = [was EXCEPT ![n] = Line(what, r + 1)]
    <2>1. CASE r = 0
        <3>1. was = q
            BY <2>1, RunClosed
        <3>2. q[n] = Line(what, 0)
            BY <1>3 DEF Line, Queued
        <3> QED BY <1>6, <2>1, <3>1, <3>2
    <2>2. CASE r # 0
        <3> DEFINE x == Line(what, r)
                   y == Line(what, r + 1)
        <3>1. was = [q EXCEPT ![n] = x]
            BY <1>1, <2>2, RunClosed
        <3>2. x \in Queued
            BY <1>1, <1>3 DEF Line, Queued
        <3> HIDE DEF x, y
        <3>3. was # <<>> /\ Len(was) = n /\ was[n] = x
            BY <1>1, <3>1, <3>2, LastReplaced
        <3>4. [was EXCEPT ![n] = y] = [q EXCEPT ![n] = y]
            BY <3>1
        <3> QED BY <1>6, <3>3, <3>4 DEF x, y
    <2> QED BY <2>1, <2>2
<1>8. was[n].what = what /\ was[n].more = r
    BY <1>7 DEF Line
<1> HIDE DEF was, is, n, what
<1> QED BY <1>4, <1>5, <1>7, <1>8 DEF Counts, f, was, is, n, what

LEMMA ReasonPushed ==
    ASSUME NEW e, EventsInv(e), NEW reason \in Reasons
    PROVE  EventsInv(PushReason(e, reason)) /\ Counts(e, PushReason(e, reason), reason)
<1>1. reason # Nothing
    BY LinkEventsAssumption
<1>2. CASE e.last = reason
    <2>1. e.queued # <<>> /\ Held(e) = Line(reason, 0)
        BY <1>1, <1>2 DEF EventsInv
    <2>2. Held(e).more = 0 /\ Held(e).what = reason
        BY <2>1 DEF Line
    <2>3. PushReason(e, reason) = Repeat(e)
        BY <1>2 DEF PushReason
    <2> QED BY <2>1, <2>2, <2>3, LineRepeated
<1>3. CASE e.last # reason
    <2>1. PushReason(e, reason) = Hold(e, reason, reason)
        BY <1>3 DEF PushReason
    <2> DEFINE last == reason
    <2>2. last = Nothing \/ (last \in Reasons /\ last = reason)
        OBVIOUS
    <2>3. EventsInv(Hold(e, reason, last)) /\ Counts(e, Hold(e, reason, last), reason)
        BY <2>2, LineHeld
    <2> QED BY <2>1, <2>3
<1> QED BY <1>2, <1>3

LEMMA LineAbsorbed ==
    ASSUME NEW e, EventsInv(e), NEW what \in Worded
    PROVE  EventsInv(AbsorbLine(e, what)) /\ Counts(e, AbsorbLine(e, what), what)
<1>1. CASE e.queued # <<>> /\ Held(e) = Line(what, 0)
    <2>1. Held(e).more = 0 /\ Held(e).what = what
        BY <1>1 DEF Line
    <2>2. AbsorbLine(e, what) = Repeat(e)
        BY <1>1 DEF AbsorbLine
    <2> QED BY <1>1, <2>1, <2>2, LineRepeated
<1>2. CASE ~(e.queued # <<>> /\ Held(e) = Line(what, 0))
    <2>1. AbsorbLine(e, what) = Hold(e, what, Nothing)
        BY <1>2 DEF AbsorbLine
    <2>2. EventsInv(Hold(e, what, Nothing)) /\ Counts(e, Hold(e, what, Nothing), what)
        BY LineHeld
    <2> QED BY <2>1, <2>2
<1> QED BY <1>1, <1>2

LEMMA NothingHeld == EventsInv(NoEvents) /\ CloseRun(NoEvents).queued = <<>>
<1>1. /\ NoEvents.queued = <<>> /\ NoEvents.last = Nothing /\ NoEvents.repeats = 0
      /\ NoEvents.dropped = 0
      /\ NoEvents = [queued |-> <<>>, last |-> Nothing, repeats |-> 0, dropped |-> 0]
    BY DEF NoEvents
<1>2. <<>> \in Seq(Queued) /\ Len(<<>>) = 0
    BY EmptySeq
<1>3. IsEvents(NoEvents)
    BY <1>1, <1>2, LinkEventsAssumption DEF IsEvents, Queued
<1>4. EventsInv(NoEvents)
    BY <1>1, <1>3 DEF EventsInv
<1> QED BY <1>1, <1>4, RunClosed

(* One reason of a fold, when it was counted. *)
Folds(e, f, what, counted) ==
    IF what \in counted THEN Counts(e, f, what) ELSE f = e

LEMMA SyncFolded ==
    ASSUME NEW e, EventsInv(e), NEW counted \in SUBSET Reasons
    PROVE  \E a, b, c, d :
             /\ EventsInv(a) /\ EventsInv(b) /\ EventsInv(c) /\ EventsInv(d)
             /\ Folds(e, a, "locked", counted) /\ Folds(a, b, "lost", counted)
             /\ Folds(b, c, "slipped", counted) /\ Folds(c, d, "discarded", counted)
             /\ FoldSync(e, counted) = d
<1> DEFINE Count(held, reason) ==
               IF reason \in counted THEN PushReason(held, reason) ELSE held
           a == Count(e, "locked")
           b == Count(a, "lost")
           c == Count(b, "slipped")
           d == Count(c, "discarded")
<1>1. \A held, reason : EventsInv(held) =>
        EventsInv(Count(held, reason)) /\ Folds(held, Count(held, reason), reason, counted)
    <2> TAKE held, reason
    <2> HAVE EventsInv(held)
    <2>1. CASE reason \in counted
        <3>1. reason \in Reasons
            BY <2>1
        <3> QED BY <2>1, <3>1, ReasonPushed DEF Folds
    <2>2. CASE reason \notin counted
        BY <2>2 DEF Folds
    <2> QED BY <2>1, <2>2
<1>2. FoldSync(e, counted) = d
    BY DEF FoldSync
<1> HIDE DEF Count
<1>3. EventsInv(a) /\ Folds(e, a, "locked", counted)
    BY <1>1
<1>4. EventsInv(b) /\ Folds(a, b, "lost", counted)
    BY <1>1, <1>3
<1>5. EventsInv(c) /\ Folds(b, c, "slipped", counted)
    BY <1>1, <1>4
<1>6. EventsInv(d) /\ Folds(c, d, "discarded", counted)
    BY <1>1, <1>5
<1> HIDE DEF a, b, c, d
<1> QED BY <1>2, <1>3, <1>4, <1>5, <1>6

LEMMA OneLineFolded ==
    ASSUME NEW e, NEW lines \in SeqOf(Worded, 1)
    PROVE  \/ /\ lines = <<>> /\ Range(lines) = {}
              /\ FoldLeft(AbsorbLine, e, lines) = e
           \/ \E what \in Worded :
                /\ lines = <<what>> /\ Range(lines) = {what}
                /\ FoldLeft(AbsorbLine, e, lines) = AbsorbLine(e, what)
<1> DEFINE D == DOMAIN lines
           Eq(g) == g = [s \in SUBSET D |-> IF s = {} THEN e
                            ELSE AbsorbLine(g[s \ {Max(s)}], lines[Max(s)])]
           f == [s \in SUBSET D |-> IF s = {} THEN e ELSE AbsorbLine(e, lines[1])]
           h == CHOOSE g : Eq(g)
<1>1. FoldLeft(AbsorbLine, e, lines) = h[D]
    BY DEF FoldLeft, MapThenFoldSet
<1>2. D = {} \/ D = {1}
    <2>1. PICK m \in 0..1 : lines \in [1..m -> Worded]
        BY DEF SeqOf
    <2>2. m = 0 \/ m = 1
        BY <2>1
    <2>3. 1..0 = {} /\ 1..1 = {1}
        OBVIOUS
    <2> QED BY <2>1, <2>2, <2>3
<1>3. Max({1}) = 1
    BY DEF Max
<1>4. \A s \in SUBSET D : s # {} => s = {1} /\ s \ {Max(s)} = {}
    BY <1>2, <1>3
<1>5. \A s \in SUBSET D : f[s] = IF s = {} THEN e
                            ELSE AbsorbLine(f[s \ {Max(s)}], lines[Max(s)])
    BY <1>3, <1>4
<1>6. f = [s \in SUBSET D |-> f[s]]
    OBVIOUS
<1>7. Eq(f)
    <2> HIDE DEF f
    <2> QED BY <1>5, <1>6
<1>8. Eq(h)
    <2> HIDE DEF Eq, f
    <2> QED BY <1>7
<1> HIDE DEF h
<1>9. h[{}] = e
    BY <1>8
<1>10. CASE D = {}
    <2>1. lines = <<>>
        <3>1. PICK m \in 0..1 : lines \in [1..m -> Worded]
            BY DEF SeqOf
        <3>2. lines \in Seq(Worded) /\ Len(lines) = 0
            BY <1>10, <3>1
        <3> QED BY <3>2, EmptySeq
    <2>2. Range(lines) = {}
        BY <1>10 DEF Range
    <2> QED BY <1>1, <1>9, <1>10, <2>1, <2>2
<1>11. CASE D = {1}
    <2>1. PICK m \in 0..1 : lines \in [1..m -> Worded]
        BY DEF SeqOf
    <2>2. lines[1] \in Worded
        BY <1>11, <2>1
    <2>3. lines = <<lines[1]>>
        BY <1>11, <2>1
    <2>4. Range(lines) = {lines[1]}
        BY <1>11 DEF Range
    <2>5. h[D] = AbsorbLine(h[D \ {Max(D)}], lines[Max(D)])
        BY <1>8, <1>11
    <2>6. h[D] = AbsorbLine(e, lines[1])
        BY <1>3, <1>9, <1>11, <2>5
    <2> QED BY <1>1, <2>2, <2>3, <2>4, <2>6
<1> QED BY <1>2, <1>10, <1>11

LEMMA PacketsFolded ==
    ASSUME NEW e, EventsInv(e), NEW lost \in BOOLEAN, NEW lines \in SeqOf(Worded, 1)
    PROVE  \E a, b :
             /\ EventsInv(a) /\ EventsInv(b)
             /\ IF lost THEN Counts(e, a, PacketLoss) ELSE a = e
             /\ \/ Range(lines) = {} /\ b = a
                \/ \E what \in Worded : Range(lines) = {what} /\ Counts(a, b, what)
             /\ FoldPackets(e, lost, lines) = b
<1> DEFINE a == IF lost THEN PushReason(e, PacketLoss) ELSE e
           b == FoldLeft(AbsorbLine, a, lines)
<1>1. EventsInv(a) /\ IF lost THEN Counts(e, a, PacketLoss) ELSE a = e
    <2>1. CASE lost
        <3>1. a = PushReason(e, PacketLoss) /\ PacketLoss \in Reasons
            BY <2>1, LinkEventsAssumption
        <3> QED BY <2>1, <3>1, ReasonPushed
    <2>2. CASE ~lost
        BY <2>2
    <2> QED BY <2>1, <2>2
<1>2. FoldPackets(e, lost, lines) = b
    BY DEF FoldPackets
<1> HIDE DEF a
<1>3. \/ Range(lines) = {} /\ b = a
      \/ \E what \in Worded : Range(lines) = {what} /\ b = AbsorbLine(a, what)
    BY OneLineFolded
<1> HIDE DEF b
<1>4. CASE Range(lines) = {} /\ b = a
    BY <1>1, <1>2, <1>4
<1>5. CASE \E what \in Worded : Range(lines) = {what} /\ b = AbsorbLine(a, what)
    <2>1. PICK what \in Worded : Range(lines) = {what} /\ b = AbsorbLine(a, what)
        BY <1>5
    <2>2. EventsInv(b) /\ Counts(a, b, what)
        BY <1>1, <2>1, LineAbsorbed
    <2> QED BY <1>1, <1>2, <2>1, <2>2
<1> QED BY <1>3, <1>4, <1>5

LEMMA DrainedLines ==
    ASSUME NEW e, EventsInv(e)
    PROVE  /\ Drained(e) \in Seq(Lines)
           /\ CloseRun(e).queued \in Seq(Lines)
           /\ e.dropped = 0 => Drained(e) = CloseRun(e).queued
           /\ e.dropped > 0 => /\ Drained(e) = Append(CloseRun(e).queued, Line(Further, e.dropped))
                               /\ Line(Further, e.dropped) \in Lines
           /\ e.dropped \in Nat
<1> DEFINE q == CloseRun(e).queued
           last == Line(Further, e.dropped)
<1>1. q \in Seq(Queued) /\ e.dropped \in Nat
    BY RunClosed DEF EventsInv, IsEvents
<1>2. Queued \subseteq Lines /\ last \in Lines
    BY <1>1 DEF Queued, Lines, Line
<1>3. q \in Seq(Lines)
    BY <1>1, <1>2, SeqMonotonic
<1>4. Drained(e) = q \o (IF e.dropped > 0 THEN <<last>> ELSE <<>>)
    BY DEF Drained
<1> HIDE DEF q, last
<1>5. CASE e.dropped = 0
    <2>1. Drained(e) = q \o <<>>
        BY <1>4, <1>5
    <2>2. Drained(e) = q
        BY <2>1, <1>3, ConcatEmptySeq
    <2> QED BY <1>1, <1>3, <1>5, <2>2 DEF q
<1>6. CASE e.dropped > 0
    <2>1. Drained(e) = q \o <<last>>
        BY <1>4, <1>6
    <2>2. Append(q, last) = q \o <<last>> /\ Append(q, last) \in Seq(Lines)
        BY <1>2, <1>3, AppendIsConcat, AppendProperties
    <2> QED BY <1>1, <1>2, <1>3, <1>6, <2>1, <2>2 DEF q, last
<1> QED BY <1>1, <1>5, <1>6

-----------------------------------------------------------------------------
(***************************************************************************)
(* What is said, and the log.                                               *)
(***************************************************************************)
LEMMA RangeOfAppend ==
    ASSUME NEW S, NEW s \in Seq(S), NEW x \in S
    PROVE  /\ Append(s, x) \in Seq(S)
           /\ Range(Append(s, x)) = Range(s) \union {x}
<1> DEFINE t == <<x>>
<1>1. t \in Seq(S) /\ Range(t) = {x}
    BY DEF Range
<1>2. Append(s, x) = s \o t /\ Append(s, x) \in Seq(S)
    BY AppendIsConcat, AppendProperties
<1> HIDE DEF t
<1>3. Range(s \o t) = Range(s) \union Range(t)
    BY <1>1, RangeConcatenation
<1> QED BY <1>1, <1>2, <1>3

LEMMA SeqOfItsRange ==
    ASSUME NEW S, NEW s \in Seq(S), NEW R, Range(s) \subseteq R
    PROVE  s \in Seq(R)
<1>1. Len(s) \in Nat /\ DOMAIN s = 1..Len(s) /\ s = [i \in 1..Len(s) |-> s[i]]
    BY LenProperties
<1>2. \A i \in 1..Len(s) : s[i] \in R
    BY <1>1 DEF Range
<1>3. s \in [1..Len(s) -> R]
    BY <1>1, <1>2
<1>4. s \in UNION {[1..n -> R] : n \in Nat}
    BY <1>1, <1>3
<1> QED BY <1>4, SeqDef

LEMMA SessionLines == \A what \in SessionWords : Session(what) \in Lines
BY DEF Session, Line, Lines

LEMMA SayKeeps ==
    ASSUME LogInv, NEW lines \in Seq(Lines), Say(lines)
    PROVE  /\ LogInv' /\ said' = said \o lines
           /\ Range(said') = Range(said) \union Range(lines)
<1>1. /\ said \in Seq(Lines) /\ IsLog(log, Range(said)) /\ log.total = Len(said)
      /\ log.entries.capacity = LogCapacity
    BY DEF LogInv
<1>2. said' = said \o lines /\ log' = FoldLeft(PushLine, log, lines)
    BY DEF Say
<1>3. said' \in Seq(Lines) /\ Len(said') = Len(said) + Len(lines)
    BY <1>1, <1>2, ConcatProperties
<1>4. Range(said') = Range(said) \union Range(lines)
    BY <1>1, <1>2, RangeConcatenation
<1> DEFINE S == Range(said')
<1>5. IsLog(log, S)
    BY <1>1, <1>4, LogOfMore
<1>6. lines \in Seq(S)
    <2>1. Range(lines) \subseteq S
        BY <1>4
    <2> HIDE DEF S
    <2> QED BY <2>1, SeqOfItsRange
<1>7. IsLog(log', S) /\ log'.total = log.total + Len(lines)
      /\ log'.entries.capacity = log.entries.capacity
    <2> HIDE DEF S
    <2> QED BY <1>2, <1>5, <1>6, LinesPushed
<1>8. LogInv'
    BY <1>1, <1>3, <1>7 DEF LogInv
<1> QED BY <1>2, <1>4, <1>8

-----------------------------------------------------------------------------
(***************************************************************************)
(* Types.                                                                   *)
(***************************************************************************)
LEMMA PartWritten ==
    ASSUME NEW S, NEW f \in Seq(S), NEW s \in Seq(S), NEW n \in 0..Len(s)
    PROVE  f \o SubSeq(s, 1, n) \in Seq(S)
<1>1. n \in Nat /\ Len(s) \in Nat /\ DOMAIN s = 1..Len(s)
    BY LenProperties
<1>2. \A i \in 1..n : s[i] \in S
    BY <1>1, ElementOfSeq
<1>3. SubSeq(s, 1, n) \in Seq(S)
    BY <1>1, <1>2, SubSeqProperties
<1> QED BY <1>3, ConcatProperties

LEMMA ReadTyped ==
    ASSUME TypeInv, NEW n \in Nat, Read(n)
    PROVE  /\ buf' \in Seq(Byte) /\ Len(buf') = n
           /\ \A b \in Range(buf') : b.stream \in 0..MaxStreams /\ b.stream = stream
<1>1. stream \in Nat /\ offset \in Nat /\ stream \in 0..MaxStreams
    BY SourceAssumption DEF TypeInv
<1>2. \A i \in 1..n : [stream |-> stream, at |-> offset + i] \in Byte
    BY <1>1 DEF Byte
<1>3. buf' \in [1..n -> Byte]
    BY <1>2 DEF Read
<1>4. buf' \in Seq(Byte) /\ Len(buf') = n /\ DOMAIN buf' = 1..n
    BY <1>3, SeqDef DEF Read
<1>5. \A i \in 1..n : buf'[i].stream = stream
    BY DEF Read
<1>6. \A b \in Range(buf') : b.stream = stream
    BY <1>4, <1>5 DEF Range
<1> QED BY <1>1, <1>4, <1>6

LEMMA SourceTyped ==
    ASSUME TypeInv,
           Bytes \/ Accept \/ PeerLeaves \/ Rewind \/ Ends \/ TakeRestart \/ ClearBuffer
             \/ (\E kind \in ErrorKinds : Fails(kind))
    PROVE  /\ spec' \in Specs /\ connected' \in BOOLEAN /\ restart' \in BOOLEAN
           /\ rewound' \in BOOLEAN /\ stream' \in 0..MaxStreams /\ offset' \in Nat
           /\ buf' \in Seq(Byte) /\ \A b \in Range(buf') : b.stream \in 0..MaxStreams
<1> USE SourceAssumption DEF TypeInv
<1>1. CASE Bytes
    <2>1. PICK n \in 1..MaxRead : Datagram(n) \/ SocketBytes(n) \/ FileBytes(n)
        BY <1>1 DEF Bytes
    <2>2. n \in Nat /\ Read(n)
        BY <2>1 DEF Datagram, SocketBytes, FileBytes
    <2>3. buf' \in Seq(Byte) /\ \A b \in Range(buf') : b.stream \in 0..MaxStreams
        BY <2>2, ReadTyped
    <2>4. CASE Datagram(n)
        BY <2>3, <2>4 DEF Datagram
    <2>5. CASE SocketBytes(n)
        BY <2>2, <2>3, <2>5 DEF SocketBytes
    <2>6. CASE FileBytes(n)
        <3>1. /\ offset' = offset + n /\ rewound' = FALSE
              /\ spec' = spec /\ connected' = connected /\ restart' = restart
              /\ stream' = stream
            BY <2>6 DEF FileBytes
        <3>2. offset' \in Nat
            BY <2>2, <3>1
        <3> QED BY <2>3, <3>1, <3>2
    <2> QED BY <2>1, <2>4, <2>5, <2>6
<1>2. CASE Accept
    BY <1>2 DEF Accept
<1>3. CASE PeerLeaves
    BY <1>3 DEF PeerLeaves
<1>4. CASE Rewind
    BY <1>4 DEF Rewind
<1>5. CASE Ends
    BY <1>5 DEF Ends, sourceVars
<1>6. CASE TakeRestart
    BY <1>6 DEF TakeRestart
<1>7. CASE ClearBuffer
    BY <1>7, EmptySeq DEF ClearBuffer, Range
<1>8. CASE \E kind \in ErrorKinds : Fails(kind)
    BY <1>8 DEF Fails
<1> QED BY <1>1, <1>2, <1>3, <1>4, <1>5, <1>6, <1>7, <1>8

LEMMA RecorderTyped ==
    ASSUME TypeInv,
           \/ \E opens \in BOOLEAN : OpenRecorder(opens)
           \/ Keep(buf) \/ Flush(buf) \/ Flush(<<>>) \/ Lands \/ CloseRecorder
           \/ DropRecorder
    PROVE  /\ tail' \in Seq(Byte) /\ flight' \in Seq(Byte) /\ file' \in Seq(Byte)
           /\ recorder' \in BOOLEAN /\ failed' \in BOOLEAN
<1> USE DEF TypeInv
<1>1. CASE \E opens \in BOOLEAN : OpenRecorder(opens)
    BY <1>1 DEF OpenRecorder
<1>2. CASE Keep(buf)
    BY <1>2, ConcatProperties DEF Keep, Buffered
<1>3. CASE Flush(buf)
    BY <1>3, ConcatProperties, EmptySeq DEF Flush, Buffered
<1>4. CASE Flush(<<>>)
    BY <1>4, ConcatProperties, EmptySeq DEF Flush, Buffered
<1>5. CASE Lands
    <2>1. PICK n \in 0..Len(flight) : /\ file' = file \o SubSeq(flight, 1, n)
                                      /\ failed' = (failed \/ n < Len(flight))
        BY <1>5 DEF Lands
    <2>2. file' \in Seq(Byte)
        BY <2>1, PartWritten
    <2> QED BY <1>5, <2>1, <2>2, EmptySeq DEF Lands
<1>6. CASE CloseRecorder
    BY <1>6 DEF CloseRecorder
<1>7. CASE DropRecorder
    <2>1. PICK n \in 0..Len(tail) : /\ file' = file \o SubSeq(tail, 1, n)
                                    /\ failed' = (failed \/ n < Len(tail))
        BY <1>7 DEF DropRecorder
    <2>2. file' \in Seq(Byte)
        BY <2>1, PartWritten
    <2> QED BY <1>7, <2>1, <2>2, EmptySeq DEF DropRecorder
<1> QED BY <1>1, <1>2, <1>3, <1>4, <1>5, <1>6, <1>7

LEMMA SetupSpends ==
    ASSUME TypeInv
    PROVE  /\ \A n \in Nat : n <= setup.bytes =>
                  /\ setup.bytes - n \in Nat
                  /\ [setup EXCEPT !.bytes = @ - n] \in [spec : Specs, record :
                         BOOLEAN, bytes : Nat,
                             reports : Nat, ticks : Nat]
           /\ setup.reports > 0 =>
                 [setup EXCEPT !.reports = @ - 1] \in [spec : Specs, record : BOOLEAN, bytes : Nat,
                             reports : Nat, ticks : Nat]
           /\ setup.ticks > 0 =>
                 [setup EXCEPT !.ticks = @ - 1] \in [spec : Specs, record : BOOLEAN, bytes : Nat,
                             reports : Nat, ticks : Nat]
<1> DEFINE r == setup
<1>1. r \in [spec : Specs, record : BOOLEAN, bytes : Nat, reports : Nat, ticks : Nat]
    BY DEF TypeInv
<1> HIDE DEF r
<1>2. /\ r.spec \in Specs /\ r.record \in BOOLEAN /\ r.bytes \in Nat /\ r.reports \in Nat
      /\ r.ticks \in Nat
      /\ r = [spec |-> r.spec, record |-> r.record, bytes |-> r.bytes,
              reports |-> r.reports, ticks |-> r.ticks]
    BY <1>1
<1>3. ASSUME NEW n \in Nat, n <= r.bytes
      PROVE  /\ r.bytes - n \in Nat
             /\ [r EXCEPT !.bytes = @ - n]
                  \in [spec : Specs, record : BOOLEAN, bytes : Nat, reports : Nat, ticks : Nat]
    <2>1. r.bytes - n \in Nat
        BY <1>2, <1>3
    <2> DEFINE m == r.bytes - n
    <2>2. [r EXCEPT !.bytes = m] = [spec |-> r.spec, record |-> r.record, bytes |-> m,
              reports |-> r.reports, ticks |-> r.ticks] /\ m \in Nat
        <3>1. m \in Nat
            BY <2>1
        <3> HIDE DEF m
        <3> QED BY <1>2, <3>1
    <2> HIDE DEF m
    <2>3. [r EXCEPT !.bytes = m] \in [spec : Specs, record : BOOLEAN, bytes : Nat,
                                     reports : Nat, ticks : Nat]
        BY <1>2, <2>2
    <2> QED BY <2>1, <2>3 DEF m
<1>4. ASSUME r.reports > 0
      PROVE  [r EXCEPT !.reports = @ - 1]
                \in [spec : Specs, record : BOOLEAN, bytes : Nat, reports : Nat, ticks : Nat]
    BY <1>1, <1>2, <1>4
<1>5. ASSUME r.ticks > 0
      PROVE  [r EXCEPT !.ticks = @ - 1]
                \in [spec : Specs, record : BOOLEAN, bytes : Nat, reports : Nat, ticks : Nat]
    BY <1>1, <1>2, <1>5
<1> QED BY <1>3, <1>4, <1>5 DEF r

LEMMA TypeInvInit == Init => TypeInv
<1> SUFFICES ASSUME Init
             PROVE  TypeInv
    OBVIOUS
<1>1. /\ SourceInit /\ RecorderInit /\ pc = "open" /\ failures = 0 /\ running = TRUE
      /\ stop = FALSE /\ message = <<>> /\ decoding = {} /\ handled = <<>>
      /\ terminal = "loop" /\ setup \in Setups
    BY DEF Init
<1>2. setup \in [spec : Specs, record : BOOLEAN, bytes : Nat, reports : Nat, ticks : Nat]
    BY <1>1, AcquisitionAssumption
<1>3. /\ spec \in Specs /\ connected \in BOOLEAN /\ restart \in BOOLEAN
      /\ rewound \in BOOLEAN /\ stream \in 0..MaxStreams /\ offset \in Nat
      /\ buf = <<>>
    <2>1. spec \in Specs /\ connected = FALSE /\ restart = FALSE /\ rewound = FALSE
        BY <1>1 DEF SourceInit
    <2>2. offset = 0 /\ buf = <<>>
        BY <1>1 DEF SourceInit
    <2>4. stream = IF spec.scheme = "listen" THEN 0 ELSE 1
        BY <1>1 DEF SourceInit
    <2>5. stream = 0 \/ stream = 1
        BY <2>4
    <2>3. MaxStreams \in Nat \ {0}
        BY SourceAssumption
    <2>6. stream \in 0..MaxStreams
        BY <2>3, <2>5
    <2>7. connected \in BOOLEAN /\ restart \in BOOLEAN /\ rewound \in BOOLEAN
        BY <2>1
    <2> QED BY <2>1, <2>2, <2>6, <2>7
<1>4. /\ tail = <<>> /\ flight = <<>> /\ file \in Seq(Byte)
      /\ recorder \in BOOLEAN /\ failed \in BOOLEAN
    BY <1>1, AcquisitionAssumption DEF RecorderInit, Byte
<1>5. <<>> \in Seq(Byte) /\ Range(buf) = {}
    BY <1>3, EmptySeq DEF Range
<1>6. pc \in Phases /\ failures < ReadErrorLimit /\ failures \in 0..ReadErrorLimit
    BY <1>1, AcquisitionAssumption DEF Phases
<1> QED BY <1>1, <1>2, <1>3, <1>4, <1>5, <1>6 DEF TypeInv

LEMMA TypeInvStep == TypeInv /\ [Next]_vars => TypeInv'
<1> SUFFICES ASSUME TypeInv, [Next]_vars
             PROVE  TypeInv'
    OBVIOUS
<1> DEFINE SourceOK ==
              /\ spec' \in Specs /\ connected' \in BOOLEAN /\ restart' \in BOOLEAN
              /\ rewound' \in BOOLEAN /\ stream' \in 0..MaxStreams /\ offset' \in Nat
              /\ buf' \in Seq(Byte) /\ \A b \in Range(buf') : b.stream \in 0..MaxStreams
           RecorderOK ==
              /\ tail' \in Seq(Byte) /\ flight' \in Seq(Byte) /\ file' \in Seq(Byte)
              /\ recorder' \in BOOLEAN /\ failed' \in BOOLEAN
           LinkOK == message' \in Seq(Byte) /\ decoding' \subseteq 0..MaxStreams
           TaskOK ==
              /\ pc' \in Phases /\ failures' \in 0..ReadErrorLimit
              /\ running' \in BOOLEAN /\ stop' \in BOOLEAN
              /\ failures' < ReadErrorLimit \/ pc' \in {"close", "flushed", "dropping", "done"}
           RestOK ==
              /\ handled' \in Seq(Byte)
              /\ setup' \in [spec : Specs, record : BOOLEAN, bytes : Nat, reports : Nat,
                             ticks : Nat]
              /\ terminal' \in {"loop", "check", "over", "interrupted", "finished", "left"}
<1>1. UNCHANGED sourceVars => SourceOK
    BY DEF TypeInv, sourceVars
<1>2. UNCHANGED recorderVars => RecorderOK
    BY DEF TypeInv, recorderVars
<1>3. UNCHANGED linkVars => LinkOK
    BY DEF TypeInv, linkVars
<1>4. UNCHANGED taskVars => TaskOK
    BY DEF TypeInv, taskVars
<1>5. UNCHANGED <<terminal, setup, handled>> => RestOK
    BY DEF TypeInv
<1>6. SourceOK /\ RecorderOK /\ LinkOK /\ TaskOK /\ RestOK => TypeInv'
    BY DEF TypeInv
<1>a. /\ ReadErrorLimit \in Nat \ {0}
      /\ failures \in Nat /\ pc \in Phases /\ running \in BOOLEAN /\ stop \in BOOLEAN
      /\ failures \in 0..ReadErrorLimit
      /\ failures < ReadErrorLimit \/ pc \in {"close", "flushed", "dropping", "done"}
    BY AcquisitionAssumption DEF TypeInv
<1> HIDE DEF SourceOK, RecorderOK, LinkOK, RestOK
<1>7. CASE \E opens \in BOOLEAN : OpenRecording(opens)
    <2>1. PICK opens \in BOOLEAN : OpenRecording(opens)
        BY <1>7
    <2>2. RecorderOK
        BY <2>1, RecorderTyped DEF OpenRecording, RecorderOK
    <2>3. TaskOK
        BY <1>a, <2>1 DEF OpenRecording, Phases
    <2> QED BY <1>1, <1>3, <1>5, <1>6, <2>1, <2>2, <2>3 DEF OpenRecording, printVars
<1>8. CASE Open \/ NotOpened
    <2>1. TaskOK
        BY <1>a, <1>8 DEF Open, NotOpened, Phases
    <2> QED BY <1>1, <1>2, <1>3, <1>5, <1>6, <1>8, <2>1 DEF Open, NotOpened, printVars
<1>9. CASE ReadBytes
    <2>1. SourceOK
        BY <1>9, SourceTyped DEF ReadBytes, SourceOK
    <2>2. TaskOK
        BY <1>a, <1>9 DEF ReadBytes, Phases
    <2>3. RestOK
        <3>1. /\ setup' = [setup EXCEPT !.bytes = @ - Len(buf')]
              /\ Len(buf') <= setup.bytes /\ handled' = handled /\ terminal' = terminal
            BY <1>9 DEF ReadBytes, printVars
        <3>2. buf' \in Seq(Byte)
            BY <2>1 DEF SourceOK
        <3>3. Len(buf') \in Nat
            BY <3>2, LenProperties
        <3> DEFINE n == Len(buf')
        <3> HIDE DEF n
        <3>4. n \in Nat /\ n <= setup.bytes /\ setup' = [setup EXCEPT !.bytes = @ - n]
            BY <3>1, <3>3 DEF n
        <3>5. setup.bytes - n \in Nat
            BY <3>4, SetupSpends
        <3> QED BY <3>1, <3>4, <3>5, SetupSpends DEF TypeInv, RestOK
    <2> QED BY <1>2, <1>3, <1>6, <1>9, <2>1, <2>2, <2>3 DEF ReadBytes
<1>10. CASE Due
    <2>1. TaskOK
        BY <1>a, <1>10 DEF Due, Phases
    <2> QED BY <1>1, <1>2, <1>3, <1>5, <1>6, <1>10, <2>1 DEF Due, printVars
<1>11. CASE ReadOn
    <2>1. SourceOK
        BY <1>11, SourceTyped DEF ReadOn, SourceOK
    <2> QED BY <1>2, <1>3, <1>4, <1>5, <1>6, <1>11, <2>1 DEF ReadOn, printVars
<1>12. CASE Stopped
    <2>1. TaskOK
        BY <1>a, <1>12 DEF Stopped, Phases
    <2> QED BY <1>1, <1>2, <1>3, <1>5, <1>6, <1>12, <2>1 DEF Stopped, printVars
<1>13. CASE SourceEnds
    <2>1. SourceOK
        BY <1>13, SourceTyped DEF SourceEnds, SourceOK
    <2>2. TaskOK
        BY <1>a, <1>13 DEF SourceEnds, Phases
    <2>3. LinkOK
        BY <1>13, EmptySeq DEF SourceEnds, LinkOK, TypeInv
    <2> QED BY <1>2, <1>5, <1>6, <1>13, <2>1, <2>2, <2>3 DEF SourceEnds, printVars
<1>14. CASE SayEnded
    <2>1. TaskOK
        BY <1>a, <1>14 DEF SayEnded, Phases
    <2>2. LinkOK
        BY <1>14 DEF SayEnded, LinkOK, TypeInv
    <2> QED BY <1>1, <1>2, <1>5, <1>6, <1>14, <2>1, <2>2 DEF SayEnded, printVars
<1>15. CASE \E kind \in ErrorKinds : ReadFails(kind)
    <2>1. PICK kind \in ErrorKinds : ReadFails(kind)
        BY <1>15
    <2>2. SourceOK
        BY <2>1, SourceTyped DEF ReadFails, SourceOK
    <2>3. TaskOK
        <3>1. /\ pc = "read" /\ failures' = failures + 1
              /\ running' = running /\ stop' = stop
              /\ \/ failures' < ReadErrorLimit /\ pc' = pc
                 \/ pc' = "close"
            BY <2>1 DEF ReadFails
        <3> QED BY <1>a, <3>1 DEF Phases
    <2> QED BY <1>2, <1>3, <1>5, <1>6, <2>1, <2>2, <2>3 DEF ReadFails, printVars
<1>16. CASE Record
    <2>1. RecorderOK
        BY <1>2, <1>16, RecorderTyped DEF Record, RecorderOK
    <2>2. TaskOK
        BY <1>a, <1>16 DEF Record, Phases
    <2>3. RestOK
        BY <1>16, ConcatProperties DEF Record, TypeInv, RestOK, printVars
    <2> QED BY <1>1, <1>3, <1>6, <1>16, <2>1, <2>2, <2>3 DEF Record
<1>17. CASE Written
    <2>1. RecorderOK
        BY <1>2, <1>17, RecorderTyped DEF Written, RecorderOK
    <2>2. TaskOK
        BY <1>a, <1>17 DEF Written, Phases
    <2> QED BY <1>1, <1>3, <1>5, <1>6, <1>17, <2>1, <2>2 DEF Written, printVars
<1>18. CASE FeedPipeline
    <2>1. TaskOK
        BY <1>a, <1>18 DEF FeedPipeline, Phases
    <2>2. LinkOK
        <3>1. message' = message \o buf /\ decoding' = decoding \union {b.stream : b \in Range(buf)}
            BY <1>18 DEF FeedPipeline
        <3>2. message' \in Seq(Byte)
            BY <3>1, ConcatProperties DEF TypeInv
        <3>3. decoding' \subseteq 0..MaxStreams
            BY <3>1 DEF TypeInv
        <3> QED BY <3>2, <3>3 DEF LinkOK
    <2> QED BY <1>1, <1>2, <1>5, <1>6, <1>18, <2>1, <2>2 DEF FeedPipeline, printVars
<1>19. CASE \E sent \in BOOLEAN : Restarted(sent)
    <2>1. PICK sent \in BOOLEAN : Restarted(sent)
        BY <1>19
    <2>2. SourceOK
        BY <2>1, SourceTyped DEF Restarted, SourceOK
    <2>3. TaskOK
        BY <1>a, <2>1 DEF Restarted, Phases
    <2>4. LinkOK
        BY <2>1, EmptySeq DEF Restarted, LinkOK, TypeInv
    <2> QED BY <1>2, <1>5, <1>6, <2>1, <2>2, <2>3, <2>4 DEF Restarted, printVars
<1>20. CASE \E sent \in BOOLEAN : Sent(sent)
    <2>1. PICK sent \in BOOLEAN : Sent(sent)
        BY <1>20
    <2>2. SourceOK
        BY <1>1, <2>1, SourceTyped DEF Sent, SourceOK
    <2>3. TaskOK
        BY <1>a, <2>1 DEF Sent, Phases
    <2>4. LinkOK
        BY <2>1, EmptySeq DEF Sent, LinkOK, TypeInv
    <2>5. RestOK
        <3>1. /\ \/ setup' = setup
                 \/ setup.reports > 0 /\ setup' = [setup EXCEPT !.reports = @ - 1]
              /\ handled' = handled /\ terminal' = terminal
            BY <2>1 DEF Sent, printVars
        <3> QED BY <3>1, SetupSpends DEF TypeInv, RestOK
    <2> QED BY <1>2, <1>6, <2>1, <2>2, <2>3, <2>4, <2>5 DEF Sent
<1>21. CASE ReportFrame \/ ReportSync \/ ReportPackets
    <2>1. PICK held, whats : Report(held, whats)
        BY <1>21 DEF ReportFrame, ReportSync, ReportPackets
    <2>2. LinkOK
        BY <2>1 DEF Report, LinkOK, TypeInv
    <2>3. RestOK
        <3>1. /\ setup.reports > 0 /\ setup' = [setup EXCEPT !.reports = @ - 1]
              /\ handled' = handled /\ terminal' = terminal
            BY <2>1 DEF Report, printVars
        <3> QED BY <3>1, SetupSpends DEF TypeInv, RestOK
    <2> QED BY <1>1, <1>2, <1>4, <1>6, <2>1, <2>2, <2>3 DEF Report
<1>22. CASE QueueClosed
    <2>1. TaskOK
        BY <1>a, <1>22 DEF QueueClosed, Phases
    <2> QED BY <1>1, <1>2, <1>3, <1>5, <1>6, <1>22, <2>1 DEF QueueClosed, printVars
<1>23. CASE DecoderGone
    <2>1. TaskOK
        BY <1>a, <1>23 DEF DecoderGone, Phases
    <2> QED BY <1>1, <1>2, <1>3, <1>5, <1>6, <1>23, <2>1 DEF DecoderGone, printVars
<1>24. CASE Close
    <2>1. RecorderOK
        BY <1>2, <1>24, RecorderTyped DEF Close, RecorderOK
    <2>2. TaskOK
        BY <1>a, <1>24 DEF Close, Phases
    <2> QED BY <1>1, <1>3, <1>5, <1>6, <1>24, <2>1, <2>2 DEF Close, printVars
<1>25. CASE Flushed
    <2>1. TaskOK
        BY <1>a, <1>25 DEF Flushed, Phases
    <2> QED BY <1>1, <1>2, <1>3, <1>5, <1>6, <1>25, <2>1 DEF Flushed, printVars
<1>26. CASE Dropped
    <2>1. RecorderOK
        BY <1>26, RecorderTyped DEF Dropped, RecorderOK
    <2>2. TaskOK
        BY <1>a, <1>26 DEF Dropped, Phases
    <2> QED BY <1>1, <1>3, <1>5, <1>6, <1>26, <2>1, <2>2 DEF Dropped, printVars
<1>27. CASE FileWritten
    <2>1. RecorderOK
        BY <1>27, RecorderTyped DEF FileWritten, RecorderOK
    <2> QED BY <1>1, <1>3, <1>4, <1>5, <1>6, <1>27, <2>1 DEF FileWritten, printVars
<1>28. CASE Tick \/ Check \/ Interrupt \/ Leave
    <2>1. RestOK
        <3>1. CASE Tick \/ Interrupt
            <4>1. /\ setup.ticks > 0 /\ setup' = [setup EXCEPT !.ticks = @ - 1]
                  /\ handled' = handled /\ terminal' \in {"check", "interrupted"}
                BY <3>1 DEF Tick, Interrupt
            <4> QED BY <4>1, SetupSpends DEF TypeInv, RestOK
        <3>2. CASE Check
            BY <3>2 DEF Check, RestOK, TypeInv
        <3>3. CASE Leave
            BY <3>3 DEF Leave, RestOK, TypeInv
        <3> QED BY <1>28, <3>1, <3>2, <3>3
    <2> QED BY <1>1, <1>2, <1>3, <1>4, <1>6, <1>28, <2>1
         DEF Tick, Check, Interrupt, Leave
<1>29. CASE Shutdown
    <2>1. TaskOK
        BY <1>a, <1>29 DEF Shutdown
    <2>2. RestOK
        BY <1>29 DEF Shutdown, RestOK, TypeInv, printVars
    <2> QED BY <1>1, <1>2, <1>3, <1>6, <1>29, <2>1, <2>2 DEF Shutdown
<1>30. CASE UNCHANGED vars
    BY <1>1, <1>2, <1>3, <1>4, <1>5, <1>6, <1>30 DEF vars, printVars
<1>31. CASE Behind
    <2>1. SourceOK
        BY <1>31, SourceTyped DEF Behind, SourceOK
    <2>2. TaskOK
        BY <1>a, <1>31 DEF Behind, Phases
    <2> QED BY <1>2, <1>3, <1>5, <1>6, <1>31, <2>1, <2>2 DEF Behind, printVars
<1> QED
    BY <1>7, <1>8, <1>9, <1>10, <1>11, <1>12, <1>13, <1>14, <1>15, <1>16, <1>17, <1>18,
       <1>19, <1>20, <1>21, <1>22, <1>23, <1>24, <1>25, <1>26, <1>27, <1>28, <1>29, <1>30, <1>31
    DEF Next


-----------------------------------------------------------------------------
(***************************************************************************)
(* The log: what a step says is pushed, and the task says that it records   *)
(* only when it opens.                                                      *)
(***************************************************************************)
LEMMA OneSaid ==
    ASSUME NEW what \in SessionWords
    PROVE  /\ <<Session(what)>> \in Seq(Lines)
           /\ Range(<<Session(what)>>) = {Session(what)}
<1> DEFINE line == Session(what)
<1>1. line \in Lines
    BY SessionLines
<1> HIDE DEF line
<1>2. <<line>> \in Seq(Lines) /\ Range(<<line>>) = {line}
    BY <1>1 DEF Range
<1> QED BY <1>2 DEF line

LEMMA TwoSaid ==
    ASSUME NEW a \in SessionWords, NEW b \in SessionWords
    PROVE  /\ <<Session(a), Session(b)>> \in Seq(Lines)
           /\ Range(<<Session(a), Session(b)>>) = {Session(a), Session(b)}
<1> DEFINE x == Session(a)
           y == Session(b)
<1>1. x \in Lines /\ y \in Lines
    BY SessionLines
<1> HIDE DEF x, y
<1>2. <<x, y>> \in Seq(Lines) /\ Range(<<x, y>>) = {x, y}
    BY <1>1 DEF Range
<1> QED BY <1>2 DEF x, y

LEMMA WordsDiffer ==
    ASSUME NEW what \in SessionWords
    PROVE  (Session(what) = Session("recording")) => what = "recording"
BY DEF Session, Line

LEMMA DrainSaysNoRecording ==
    ASSUME NEW e, EventsInv(e)
    PROVE  Session("recording") \notin Range(Drained(e))
<1> DEFINE r == Session("recording")
           q == CloseRun(e).queued
           last == Line(Further, e.dropped)
<1>1. "recording" \notin Reasons \union Worded \union {Further}
    BY AcquisitionAssumption DEF SessionWords, Quiet
<1>2. r \notin Queued /\ r # last
    BY <1>1 DEF Session, Line, Queued
<1>3. q \in Seq(Queued) /\ q \in Seq(Lines)
    BY RunClosed, DrainedLines
<1>4. r \notin Range(q)
    BY <1>2, <1>3, RangeOfSeq
<1>5. Drained(e) = q \/ (Drained(e) = Append(q, last) /\ last \in Lines)
    <2>1. e.dropped \in Nat
        BY DrainedLines
    <2>2. CASE e.dropped = 0
        BY <2>2, DrainedLines
    <2>3. CASE e.dropped > 0
        BY <2>3, DrainedLines
    <2> QED BY <2>1, <2>2, <2>3
<1> HIDE DEF r, q, last
<1>6. CASE Drained(e) = q
    BY <1>4, <1>6 DEF r
<1>7. CASE Drained(e) = Append(q, last) /\ last \in Lines
    <2>1. Range(Append(q, last)) = Range(q) \union {last}
        BY <1>3, <1>7, RangeOfAppend
    <2> QED BY <1>2, <1>4, <1>7, <2>1 DEF r
<1> QED BY <1>5, <1>6, <1>7

(* What a step says, if it says anything. *)
Says(lines) ==
    /\ lines \in Seq(Lines) /\ Say(lines)
    /\ pc = "opening" \/ Session("recording") \notin Range(lines)

LEMMA SaysOne ==
    ASSUME NEW what \in SessionWords, what # "recording", Say(<<Session(what)>>)
    PROVE  \E lines : Says(lines)
<1>1. Session(what) # Session("recording")
    BY WordsDiffer
<1> DEFINE lines == <<Session(what)>>
<1>2. lines \in Seq(Lines) /\ Session("recording") \notin Range(lines)
    BY <1>1, OneSaid
<1> HIDE DEF lines
<1>3. Say(lines)
    BY DEF lines
<1> QED BY <1>2, <1>3 DEF Says

LEMMA OpenedSays ==
    ASSUME NEW opens \in BOOLEAN, OpenRecording(opens)
    PROVE  \/ UNCHANGED logVars /\ ~opens
           \/ \E lines : /\ lines \in Seq(Lines) /\ Say(lines)
                         /\ (Session("recording") \in Range(lines)) <=> opens
<1> DEFINE r == Session("recording")
<1>1. Session("no recording") # r
    BY DEF Session, Line
<1>2. CASE opens
    <2>1. Say(<<r>>)
        BY <1>2 DEF OpenRecording
    <2>2. <<r>> \in Seq(Lines) /\ r \in Range(<<r>>)
        BY OneSaid DEF SessionWords, Quiet
    <2> QED BY <1>2, <2>1, <2>2
<1>3. CASE ~opens /\ setup.record
    <2> DEFINE lines == <<Session("no recording")>>
    <2>1. Say(lines)
        BY <1>3 DEF OpenRecording
    <2>2. lines \in Seq(Lines) /\ r \notin Range(lines)
        BY <1>1, OneSaid DEF SessionWords
    <2> HIDE DEF lines
    <2> QED BY <1>3, <2>1, <2>2
<1>4. CASE ~opens /\ ~setup.record
    BY <1>4 DEF OpenRecording
<1> QED BY <1>2, <1>3, <1>4

LEMMA WhatIsSaid ==
    ASSUME EventsInv(events), [Next]_vars
    PROVE  UNCHANGED logVars \/ \E lines : Says(lines)
<1>1. CASE \E opens \in BOOLEAN : OpenRecording(opens)
    <2>1. PICK opens \in BOOLEAN : OpenRecording(opens)
        BY <1>1
    <2>2. pc = "opening"
        BY <2>1 DEF OpenRecording
    <2> QED BY <2>1, <2>2, OpenedSays DEF Says
<1>2. CASE NotOpened
    <2>1. CASE stop
        BY <1>2, <2>1 DEF NotOpened
    <2>2. CASE ~stop
        <3>1. Say(<<Session("not opened")>>)
            BY <1>2, <2>2 DEF NotOpened
        <3> QED BY <3>1, SaysOne DEF SessionWords
    <2> QED BY <2>1, <2>2
<1>3. CASE ReadBytes \/ Due \/ ReadOn \/ Stopped \/ SourceEnds \/ Record \/ FeedPipeline
             \/ ReportFrame \/ ReportSync \/ ReportPackets \/ QueueClosed \/ Close
             \/ Dropped \/ FileWritten \/ Tick \/ Check \/ Interrupt \/ Shutdown \/ Leave
             \/ UNCHANGED vars
    BY <1>3 DEF ReadBytes, Due, ReadOn, Stopped, SourceEnds, Record, FeedPipeline,
                ReportFrame, ReportSync, ReportPackets, Report, QueueClosed, Close,
                Dropped, FileWritten, Tick, Check, Interrupt, Shutdown, Leave, vars
<1>4. CASE SayEnded
    <2> DEFINE d == Drained(events)
               last == Session("the source ended")
               lines == Append(d, last)
    <2>1. d \in Seq(Lines) /\ Session("recording") \notin Range(d)
        BY DrainedLines, DrainSaysNoRecording
    <2>2. last \in Lines /\ last # Session("recording")
        BY SessionLines, WordsDiffer DEF SessionWords, Quiet
    <2>3. Say(lines)
        BY <1>4 DEF SayEnded
    <2> HIDE DEF d, last
    <2>4. lines \in Seq(Lines) /\ Range(lines) = Range(d) \union {last}
        BY <2>1, <2>2, RangeOfAppend
    <2> HIDE DEF lines
    <2> QED BY <2>1, <2>2, <2>3, <2>4 DEF Says
<1>5. CASE \E kind \in ErrorKinds : ReadFails(kind)
    <2>1. PICK kind \in ErrorKinds : ReadFails(kind)
        BY <1>5
    <2>4. Say(<<Session("read failed")>>)
             \/ Say(<<Session("read failed"), Session("the source is gone")>>)
        BY <2>1 DEF ReadFails
    <2>2. CASE Say(<<Session("read failed")>>)
        BY <2>2, SaysOne DEF SessionWords
    <2>3. CASE Say(<<Session("read failed"), Session("the source is gone")>>)
        <3> DEFINE lines == <<Session("read failed"), Session("the source is gone")>>
        <3>3. "read failed" \in SessionWords /\ "the source is gone" \in SessionWords
            BY DEF SessionWords
        <3>4. /\ lines \in Seq(Lines)
              /\ Range(lines) = {Session("read failed"), Session("the source is gone")}
            BY <3>3, TwoSaid
        <3>5. /\ Session("read failed") # Session("recording")
              /\ Session("the source is gone") # Session("recording")
            BY DEF Session, Line
        <3>1. lines \in Seq(Lines) /\ Session("recording") \notin Range(lines)
            BY <3>4, <3>5
        <3> HIDE DEF lines
        <3>2. Say(lines)
            BY <2>3 DEF lines
        <3> QED BY <3>1, <3>2 DEF Says
    <2> QED BY <2>2, <2>3, <2>4
<1>6. CASE Written
    <2>1. UNCHANGED logVars \/ Say(<<Session("recording stopped")>>)
        BY <1>6 DEF Written
    <2> QED BY <2>1, SaysOne DEF SessionWords
<1>7. CASE \E sent \in BOOLEAN : Restarted(sent)
    <2>1. Say(<<Session("the stream restarted")>>)
        BY <1>7 DEF Restarted
    <2> QED BY <2>1, SaysOne DEF SessionWords, Quiet
<1>8. CASE \E sent \in BOOLEAN : Sent(sent)
    <2>1. Say(Drained(events))
        BY <1>8 DEF Sent
    <2> QED BY <2>1, DrainedLines, DrainSaysNoRecording DEF Says
<1>9. CASE DecoderGone
    <2>1. CASE stop
        <3>1. Say(<<Session("closed")>>)
            BY <1>9, <2>1 DEF DecoderGone
        <3> QED BY <3>1, SaysOne DEF SessionWords
    <2>2. CASE ~stop
        <3>1. Say(<<Session("the decode thread is gone")>>)
            BY <1>9, <2>2 DEF DecoderGone
        <3> QED BY <3>1, SaysOne DEF SessionWords
    <2> QED BY <2>1, <2>2
<1>10. CASE Flushed
    <2>1. UNCHANGED logVars \/ Say(<<Session("recording failed")>>)
        BY <1>10 DEF Flushed
    <2> QED BY <2>1, SaysOne DEF SessionWords
<1>11. CASE Open
    <2>1. Say(<<Session("reading")>>)
        BY <1>11 DEF Open
    <2> QED BY <2>1, SaysOne DEF SessionWords, Quiet
<1>12. CASE Behind
    <2>1. Say(<<Session("the decoder is behind")>>)
        BY <1>12 DEF Behind
    <2> QED BY <2>1, SaysOne DEF SessionWords
<1> QED BY <1>1, <1>2, <1>3, <1>4, <1>5, <1>6, <1>7, <1>8, <1>9, <1>10, <1>11, <1>12 DEF Next

LEMMA LogInvStep == LogInv /\ EventsInv(events) /\ [Next]_vars => LogInv'
<1> SUFFICES ASSUME LogInv, EventsInv(events), [Next]_vars
             PROVE  LogInv'
    OBVIOUS
<1>1. CASE UNCHANGED logVars
    BY <1>1 DEF LogInv, logVars
<1>2. CASE \E lines : Says(lines)
    <2>1. PICK lines : Says(lines)
        BY <1>2
    <2>2. lines \in Seq(Lines) /\ Say(lines)
        BY <2>1 DEF Says
    <2> QED BY <2>2, SayKeeps
<1> QED BY <1>1, <1>2, WhatIsSaid

(* Only where it is opened does the session say it records. *)
LEMMA OpenedIsKept ==
    ASSUME LogInv, EventsInv(events), [Next]_vars, pc # "opening"
    PROVE  Opened' <=> Opened
<1>1. CASE UNCHANGED logVars
    BY <1>1 DEF Opened, logVars
<1>2. CASE \E lines : Says(lines)
    <2>1. PICK lines : Says(lines)
        BY <1>2
    <2>2. lines \in Seq(Lines) /\ Say(lines) /\ Session("recording") \notin Range(lines)
        BY <2>1 DEF Says
    <2>3. Range(said') = Range(said) \union Range(lines)
        BY <2>2, SayKeeps
    <2> QED BY <2>2, <2>3 DEF Opened
<1> QED BY <1>1, <1>2, WhatIsSaid


-----------------------------------------------------------------------------
(***************************************************************************)
(* The lines a pipeline holds, and the terminal's place in the log.         *)
(***************************************************************************)
LEMMA FrameReported ==
    ASSUME EventsInv(events), ReportFrame
    PROVE  \E reason \in Reasons :
             /\ Report(PushReason(events, reason), {reason})
             /\ EventsInv(events') /\ Counts(events, events', reason)
<1>1. PICK reason \in Reasons \intersect FrameReasons :
          pc = "report" /\ Report(PushReason(events, reason), {reason})
    BY DEF ReportFrame
<1>2. events' = PushReason(events, reason)
    BY <1>1 DEF Report
<1>3. EventsInv(PushReason(events, reason)) /\ Counts(events, PushReason(events, reason), reason)
    BY <1>1, ReasonPushed
<1> QED BY <1>1, <1>2, <1>3

LEMMA EventsInvStep == EventsInv(events) /\ [Next]_vars => EventsInv(events)'
<1> SUFFICES ASSUME EventsInv(events), [Next]_vars
             PROVE  EventsInv(events')
    OBVIOUS
<1>1. CASE ReportFrame
    BY <1>1, FrameReported
<1>2. CASE ReportSync
    <2>1. PICK counted \in SUBSET Reasons : events' = FoldSync(events, counted)
        BY <1>2 DEF ReportSync, Report
    <2> QED BY <2>1, SyncFolded
<1>3. CASE ReportPackets
    <2>1. PICK lost \in BOOLEAN, lines \in SeqOf(Worded, 1) :
              events' = FoldPackets(events, lost, lines)
        BY <1>3 DEF ReportPackets, Report
    <2> QED BY <2>1, PacketsFolded
<1>4. CASE SayEnded \/ \E sent \in BOOLEAN : Sent(sent)
    <2>1. events' = NoEvents
        BY <1>4 DEF SayEnded, Sent
    <2> QED BY <2>1, NothingHeld
<1>5. CASE UNCHANGED events
    BY <1>5
<1>6. CASE \E sent \in BOOLEAN : Restarted(sent)
    BY <1>5, <1>6 DEF Restarted
<1>7. CASE Open \/ (\E opens \in BOOLEAN : OpenRecording(opens)) \/ NotOpened \/ ReadBytes \/ Due
             \/ ReadOn \/ Behind \/ Stopped \/ SourceEnds \/ (\E kind \in ErrorKinds :
                    ReadFails(kind))
             \/ Record \/ Written \/ FeedPipeline \/ QueueClosed \/ DecoderGone \/ Close
             \/ Flushed \/ Dropped \/ FileWritten \/ Tick \/ Check \/ Interrupt \/ Shutdown
             \/ Leave \/ UNCHANGED vars
    BY <1>5, <1>7 DEF Open, OpenRecording, Behind, NotOpened, ReadBytes, Due, ReadOn, Stopped,
           SourceEnds, ReadFails,
         Record, Written, FeedPipeline, QueueClosed, DecoderGone, Close, Flushed, Dropped,
         FileWritten, Tick, Check, Interrupt, Shutdown, Leave, vars, linkVars
<1> QED BY <1>1, <1>2, <1>3, <1>4, <1>6, <1>7 DEF Next

LEMMA PrintedUpTo ==
    ASSUME LogInv, cursor \in Nat
    PROVE  UnprintedEvents.cursor \in Nat
<1> DEFINE entries == Contents(log.entries)
           n == Len(entries)
           times == [j \in DOMAIN entries |-> entries[j].times]
           fresh == {i \in DOMAIN entries : EndOf(entries, i) > cursor}
<1>1. IsLog(log, Range(said)) /\ log.total \in Nat
    BY DEF LogInv, IsLog
<1>2. entries \in Seq(Entry(Range(said)))
    BY <1>1, ContentsAt DEF IsLog
<1>3. UnprintedEvents.cursor = IF fresh = {} THEN cursor ELSE EndOf(entries, Max(fresh))
    BY DEF UnprintedEvents
<1>4. \A i : PushesOf(entries, i) = SumFunctionOnSet(times, 1..i)
    BY DEF PushesOf
<1>5. \A i : EndOf(entries, i) = (log.total - PushesOf(entries, n)) + PushesOf(entries, i)
    BY DEF EndOf
<1> HIDE DEF entries
<1>6. n \in Nat /\ DOMAIN entries = 1..n /\ \A j \in 1..n : entries[j].times \in Int
    <2> DEFINE E == Entry(Range(said))
    <2>1. \A x \in E : x.times \in Int
        BY DEF Entry
    <2> HIDE DEF E
    <2>2. n \in Nat /\ DOMAIN entries = 1..n /\ \A j \in 1..n : entries[j] \in E
        BY <1>2, LenProperties, ElementOfSeq DEF E
    <2> QED BY <2>1, <2>2
<1>7. \A j \in 1..n : times[j] \in Int
    BY <1>6
<1> HIDE DEF times, n
<1>8. ASSUME NEW i \in 0..n
      PROVE  SumFunctionOnSet(times, 1..i) \in Int
    <2>1. IsFiniteSet(1..i) /\ \A j \in 1..i : times[j] \in Int
        BY <1>6, <1>7, FS_Interval
    <2> QED BY <2>1, SumIsInt
<1>9. \A i \in 0..n : PushesOf(entries, i) \in Int
    BY <1>4, <1>8
<1>10. \A i \in 1..n : EndOf(entries, i) \in Int
    BY <1>1, <1>5, <1>6, <1>9
<1>11. fresh \in SUBSET (1..n) /\ \A i \in fresh : EndOf(entries, i) > cursor
    BY <1>6
<1> HIDE DEF fresh
<1>12. CASE fresh # {}
    <2>1. Max(fresh) \in fresh
        BY <1>6, <1>11, <1>12, MaxIsIn
    <2> DEFINE m == Max(fresh)
    <2> HIDE DEF m
    <2>2. EndOf(entries, m) \in Int /\ EndOf(entries, m) > cursor
        BY <1>10, <1>11, <2>1 DEF m
    <2> QED BY <1>3, <1>12, <2>2 DEF m
<1> QED BY <1>3, <1>12

LEMMA CursorStep == LogInv /\ cursor \in Nat /\ [Next]_vars => cursor' \in Nat
<1> SUFFICES ASSUME LogInv, cursor \in Nat, [Next]_vars
             PROVE  cursor' \in Nat
    OBVIOUS
<1>1. CASE Tick \/ Leave
    <2>1. cursor' = UnprintedEvents.cursor
        BY <1>1 DEF Tick, Leave, PrintEvents
    <2> QED BY <2>1, PrintedUpTo
<1>2. CASE UNCHANGED cursor
    BY <1>2
<1>3. CASE Open \/ (\E opens \in BOOLEAN : OpenRecording(opens)) \/ NotOpened \/ ReadBytes \/ Due
             \/ ReadOn \/ Behind
             \/ Stopped \/ SourceEnds \/ SayEnded \/ (\E kind \in ErrorKinds : ReadFails(kind))
             \/ Record \/ Written \/ FeedPipeline \/ QueueClosed \/ DecoderGone \/ Close
             \/ (\E sent \in BOOLEAN : Restarted(sent) \/ Sent(sent))
             \/ Flushed \/ Dropped \/ FileWritten \/ Check \/ Interrupt \/ Shutdown
             \/ UNCHANGED vars
    BY <1>2, <1>3 DEF Open, OpenRecording, Behind, NotOpened, ReadBytes, Due, ReadOn, Stopped,
           SourceEnds, SayEnded,
         ReadFails, Record, Written, FeedPipeline, QueueClosed, DecoderGone, Close, Restarted,
         Sent, Flushed, Dropped, FileWritten, Check, Interrupt, Shutdown, vars, printVars
<1>4. CASE ReportFrame \/ ReportSync \/ ReportPackets
    BY <1>2, <1>4 DEF ReportFrame, ReportSync, ReportPackets, Report, printVars
<1> QED BY <1>1, <1>3, <1>4 DEF Next

-----------------------------------------------------------------------------
(***************************************************************************)
(* What is recorded is what arrived.                                        *)
(***************************************************************************)
LEMMA PrefixAt ==
    ASSUME NEW S, NEW s \in Seq(S), NEW t \in Seq(S)
    PROVE  IsPrefix(s, t) <=> /\ Len(s) <= Len(t)
                              /\ \A i \in 1..Len(s) : s[i] = t[i]
<1> DEFINE m == Len(s)
           n == Len(t)
<1>1. m \in Nat /\ n \in Nat /\ SubSeq(s, 1, m) = s
    BY LenProperties, SubSeqFull
<1>2. IsPrefix(s, t) <=> m <= n /\ s = SubSeq(t, 1, m)
    BY <1>1 DEF IsPrefix
<1> HIDE DEF m, n
<1>3. ASSUME m <= n
      PROVE  /\ SubSeq(t, 1, m) \in Seq(S) /\ Len(SubSeq(t, 1, m)) = m
             /\ \A i \in 1..m : SubSeq(t, 1, m)[i] = t[i]
    <2>1. \A i \in 1..m : t[i] \in S
        BY <1>1, <1>3, ElementOfSeq DEF n
    <2> DEFINE p == SubSeq(t, 1, m)
    <2>2. /\ p \in Seq(S) /\ Len(p) = IF 1 <= m THEN m - 1 + 1 ELSE 0
          /\ \A i \in 1..m - 1 + 1 : p[i] = t[1 + i - 1]
        BY <1>1, <2>1, SubSeqProperties
    <2> HIDE DEF p
    <2>3. m - 1 + 1 = m /\ \A i \in 1..m : 1 + i - 1 = i
        BY <1>1
    <2>4. \A i \in 1..m : p[i] = t[i]
        BY <2>2, <2>3
    <2>5. Len(p) = m
        BY <1>1, <2>2
    <2> QED BY <2>2, <2>4, <2>5 DEF p
<1>4. ASSUME m <= n
      PROVE  s = SubSeq(t, 1, m) <=> \A i \in 1..m : s[i] = t[i]
    <2> DEFINE p == SubSeq(t, 1, m)
    <2>1. p \in Seq(S) /\ Len(p) = m /\ \A i \in 1..m : p[i] = t[i]
        BY <1>3, <1>4
    <2> HIDE DEF p
    <2>2. (\A i \in 1..m : s[i] = p[i]) => s = p
        BY <2>1, SeqEqual DEF m
    <2> QED BY <2>1, <2>2 DEF p
<1> QED BY <1>2, <1>4 DEF m, n

LEMMA PrefixOfMore ==
    ASSUME NEW S, NEW s \in Seq(S), NEW t \in Seq(S), NEW u \in Seq(S), IsPrefix(s, t)
    PROVE  IsPrefix(s, t \o u)
<1>1. Len(s) \in Nat /\ Len(t) \in Nat /\ Len(u) \in Nat
    BY LenProperties
<1>2. Len(s) <= Len(t) /\ \A i \in 1..Len(s) : s[i] = t[i]
    BY PrefixAt
<1> DEFINE w == t \o u
<1>3. /\ w \in Seq(S) /\ Len(w) = Len(t) + Len(u)
      /\ \A i \in 1..Len(t) + Len(u) : w[i] = IF i <= Len(t) THEN t[i] ELSE u[i - Len(t)]
    BY ConcatProperties
<1> HIDE DEF w
<1>4. Len(s) <= Len(w) /\ \A i \in 1..Len(s) : s[i] = w[i]
    BY <1>1, <1>2, <1>3
<1>5. IsPrefix(s, w)
    BY <1>3, <1>4, PrefixAt
<1> QED BY <1>5 DEF w

LEMMA PrefixOfItself ==
    ASSUME NEW S, NEW s \in Seq(S)
    PROVE  IsPrefix(s, s)
<1>1. Len(s) <= Len(s) /\ \A i \in 1..Len(s) : s[i] = s[i]
    BY LenProperties
<1> QED BY <1>1, PrefixAt

(* What is written in part is a beginning of what was to be written. *)
LEMMA PrefixWritten ==
    ASSUME NEW S, NEW f \in Seq(S), NEW g \in Seq(S), NEW n \in 0..Len(g), NEW t \in Seq(S),
           IsPrefix(f \o g, t)
    PROVE  IsPrefix(f \o SubSeq(g, 1, n), t)
<1> DEFINE a == Len(f)
           b == Len(g)
           w == f \o g
           p == SubSeq(g, 1, n)
           v == f \o p
<1>1. a \in Nat /\ b \in Nat /\ n \in Nat /\ n <= b /\ Len(t) \in Nat
    BY LenProperties
<1>2. \A i \in 1..n : g[i] \in S
    BY <1>1, ElementOfSeq
<1>3. w \in Seq(S) /\ Len(w) = a + b
      /\ \A i \in 1..a + b : w[i] = IF i <= a THEN f[i] ELSE g[i - a]
    BY ConcatProperties
<1>4. /\ p \in Seq(S) /\ Len(p) = IF 1 <= n THEN n - 1 + 1 ELSE 0
      /\ \A i \in 1..n - 1 + 1 : p[i] = g[1 + i - 1]
    BY <1>1, <1>2, SubSeqProperties
<1> HIDE DEF p, w
<1>5. Len(p) = n
    BY <1>1, <1>4
<1>6. \A i \in 1..n : p[i] = g[i]
    <2>1. n - 1 + 1 = n /\ \A i \in 1..n : 1 + i - 1 = i
        BY <1>1
    <2> QED BY <1>4, <2>1
<1>7. v \in Seq(S) /\ Len(v) = a + n
      /\ \A i \in 1..a + n : v[i] = IF i <= a THEN f[i] ELSE p[i - a]
    BY <1>4, <1>5, ConcatProperties
<1>8. Len(w) <= Len(t) /\ \A i \in 1..Len(w) : w[i] = t[i]
    BY <1>3, PrefixAt DEF w
<1> HIDE DEF v, a, b
<1>9. ASSUME NEW i \in 1..a + n
      PROVE  v[i] = t[i]
    <2>1. i \in 1..a + b
        BY <1>1, <1>9
    <2>2. w[i] = t[i]
        BY <1>3, <1>8, <2>1
    <2>3. CASE i <= a
        BY <1>3, <1>7, <2>1, <2>2, <2>3
    <2>4. CASE ~(i <= a)
        <3>1. i - a \in 1..n
            BY <1>1, <1>9, <2>4
        <3> QED BY <1>3, <1>6, <1>7, <2>1, <2>2, <2>4, <3>1
    <2> QED BY <2>3, <2>4
<1>10. Len(v) <= Len(t)
    BY <1>1, <1>3, <1>7, <1>8
<1>11. IsPrefix(v, t)
    BY <1>7, <1>9, <1>10, PrefixAt
<1> QED BY <1>11 DEF v, p


(* The steps that neither open, record, write nor close. *)
Busy == {"open", "opening", "write", "flushed", "dropping", "done"}
Apart ==
    /\ UNCHANGED <<recorderVars, handled, running>>
    /\ pc' = pc \/ (pc \notin Busy /\ pc' \notin Busy)

LEMMA StepsApart ==
    ASSUME [Next]_vars
    PROVE  Apart \/ Open \/ (\E opens \in BOOLEAN : OpenRecording(opens)) \/ NotOpened \/ Record
             \/ Written \/ Close \/ Flushed \/ Dropped \/ FileWritten
<1>1. CASE ReadBytes \/ Due \/ ReadOn \/ Stopped \/ SourceEnds \/ SayEnded
             \/ (\E kind \in ErrorKinds : ReadFails(kind))
    BY <1>1 DEF Apart, Busy, ReadBytes, Due, ReadOn, Stopped, SourceEnds, SayEnded, ReadFails,
                taskVars
<1>2. CASE FeedPipeline \/ (\E sent \in BOOLEAN : Restarted(sent) \/ Sent(sent))
             \/ Behind \/ QueueClosed \/ DecoderGone
    BY <1>2 DEF Apart, Busy, FeedPipeline, Restarted, Sent, Behind, QueueClosed, DecoderGone
<1>3. CASE ReportFrame \/ ReportSync \/ ReportPackets
    BY <1>3 DEF Apart, ReportFrame, ReportSync, ReportPackets, Report, taskVars
<1>4. CASE Tick \/ Check \/ Interrupt \/ Leave
    BY <1>4 DEF Apart, Tick, Check, Interrupt, Leave, taskVars
<1>5. CASE Shutdown
    BY <1>5 DEF Apart, Shutdown
<1>6. CASE UNCHANGED vars
    BY <1>6 DEF Apart, vars, taskVars
<1> QED BY <1>1, <1>2, <1>3, <1>4, <1>5, <1>6 DEF Next

LEMMA OpeningSays ==
    ASSUME LogInv, RecorderInv, NEW opens \in BOOLEAN, OpenRecording(opens)
    PROVE  Opened' <=> opens
<1>1. ~Opened
    BY DEF OpenRecording, Opening, RecorderInv
<1>2. CASE UNCHANGED logVars /\ ~opens
    BY <1>1, <1>2 DEF Opened, logVars
<1>3. CASE \E lines : /\ lines \in Seq(Lines) /\ Say(lines)
                      /\ (Session("recording") \in Range(lines)) <=> opens
    <2>1. PICK lines : /\ lines \in Seq(Lines) /\ Say(lines)
                       /\ (Session("recording") \in Range(lines)) <=> opens
        BY <1>3
    <2>2. Range(said') = Range(said) \union Range(lines)
        BY <2>1, SayKeeps
    <2> QED BY <1>1, <2>1, <2>2 DEF Opened
<1> QED BY <1>2, <1>3, OpenedSays

LEMMA RecorderInvInit == Init => RecorderInv
<1> SUFFICES ASSUME Init
             PROVE  RecorderInv
    OBVIOUS
<1>1. /\ pc = "open" /\ said = <<>> /\ handled = <<>> /\ running = TRUE
      /\ recorder = FALSE /\ tail = <<>> /\ flight = <<>> /\ file = Existing /\ failed = FALSE
    BY DEF Init, RecorderInit
<1>2. Len(tail) < RecordBuffer
    BY <1>1, RecorderAssumption, EmptySeq
<1>3. ~Opened
    BY <1>1 DEF Opened, Range
<1> QED BY <1>1, <1>2, <1>3 DEF RecorderInv

LEMMA RecorderInvStep ==
    TypeInv /\ LogInv /\ EventsInv(events) /\ RecorderInv /\ [Next]_vars => RecorderInv'
<1> SUFFICES ASSUME TypeInv, LogInv, EventsInv(events), RecorderInv, [Next]_vars
             PROVE  RecorderInv'
    OBVIOUS
<1>1. RecordBuffer \in Nat \ {0} /\ Len(<<>>) = 0
    BY RecorderAssumption, EmptySeq
<1>2. /\ Opening => /\ ~recorder /\ ~failed /\ ~Opened /\ handled = <<>>
                    /\ flight = <<>> /\ file = Existing
      /\ recorder => Opened /\ (failed => pc \in {"write", "flushed", "dropping"})
      /\ ~recorder => tail = <<>>
      /\ Opened /\ pc # "done" /\ ~recorder => failed
      /\ failed => tail = <<>>
      /\ pc \in {"write", "flushed", "done"} => tail = <<>>
      /\ flight # <<>> => pc \in {"write", "flushed", "done"}
      /\ pc = "done" => ~recorder
      /\ ~running => pc = "done"
      /\ Len(tail) < RecordBuffer
    BY DEF RecorderInv
<1>3. pc # "opening" => (Opened' <=> Opened)
    BY OpenedIsKept
<1>4. CASE Apart /\ (pc = "opening" => UNCHANGED logVars)
    <2>1. Opened' <=> Opened
        BY <1>3, <1>4 DEF Opened, logVars
    <2>2. Opening' <=> Opening
        BY <1>4 DEF Apart, Busy, Opening
    <2> QED BY <1>2, <1>4, <2>1, <2>2 DEF Apart, Busy, recorderVars, RecorderInv
<1>5. CASE \E opens \in BOOLEAN : OpenRecording(opens)
    <2>1. PICK opens \in BOOLEAN : OpenRecording(opens)
        BY <1>5
    <2>2. Opened' <=> opens
        BY <2>1, OpeningSays
    <2>3. /\ pc = "opening" /\ pc' = "read" /\ recorder' = opens /\ running' = running
          /\ UNCHANGED <<tail, flight, file, failed, handled>>
        BY <2>1 DEF OpenRecording, OpenRecorder
    <2> QED BY <1>1, <1>2, <2>2, <2>3 DEF RecorderInv, Opening
<1>6. CASE Open \/ NotOpened
    <2>1. /\ pc = "open" /\ pc' \in {"opening", "dropping"} /\ running' = running
          /\ UNCHANGED <<recorder, tail, flight, file, failed, handled>>
        BY <1>6 DEF Open, NotOpened, recorderVars
    <2> QED BY <1>2, <1>3, <2>1 DEF RecorderInv, Opening
<1>7. CASE Record
    <2>1. pc = "record" /\ pc' \in {"restart", "write"} /\ running' = running
        BY <1>7 DEF Record
    <2>2. CASE ~recorder /\ pc' = "restart" /\ UNCHANGED recorderVars
        BY <1>2, <1>3, <2>1, <2>2 DEF RecorderInv, Opening, recorderVars
    <2>3. CASE recorder /\ Keep(buf) /\ pc' = "restart"
        <3>1. /\ Len(tail') < RecordBuffer
              /\ UNCHANGED <<recorder, flight, file, failed>>
            BY <2>3 DEF Keep
        <3> QED BY <1>2, <1>3, <2>1, <2>3, <3>1 DEF RecorderInv, Opening
    <2>4. CASE recorder /\ Flush(buf) /\ pc' = "write"
        <3>1. tail' = <<>> /\ UNCHANGED <<recorder, file, failed>>
            BY <2>4 DEF Flush
        <3> QED BY <1>1, <1>2, <1>3, <2>1, <2>4, <3>1 DEF RecorderInv, Opening
    <2> QED BY <1>7, <2>2, <2>3, <2>4 DEF Record
<1>8. CASE Written
    <2>1. pc = "write" /\ pc' = "restart" /\ running' = running /\ flight = <<>>
        BY <1>8 DEF Written, Landed
    <2>2. /\ recorder' = IF failed THEN FALSE ELSE recorder
          /\ UNCHANGED <<tail, flight, file, failed>>
        BY <1>8 DEF Written, CloseRecorder, recorderVars
    <2> QED BY <1>1, <1>2, <1>3, <2>1, <2>2 DEF RecorderInv, Opening
<1>9. CASE Close
    <2>1. pc = "close" /\ running' = running
        BY <1>9 DEF Close
    <2>2. CASE recorder
        <3>1. pc' = "flushed" /\ tail' = <<>> /\ UNCHANGED <<recorder, file, failed>>
            BY <1>9, <2>2 DEF Close, Flush
        <3> QED BY <1>1, <1>2, <1>3, <2>1, <2>2, <3>1 DEF RecorderInv, Opening
    <2>3. CASE ~recorder
        <3>1. pc' = "dropping" /\ UNCHANGED <<recorder, tail, flight, file, failed>>
            BY <1>9, <2>3 DEF Close, recorderVars
        <3> QED BY <1>1, <1>2, <1>3, <2>1, <2>3, <3>1 DEF RecorderInv, Opening
    <2> QED BY <2>2, <2>3
<1>10. CASE Flushed
    <2>1. /\ pc = "flushed" /\ pc' = "dropping" /\ running' = running /\ flight = <<>>
          /\ UNCHANGED <<recorder, tail, flight, file, failed>>
        BY <1>10 DEF Flushed, Landed, recorderVars
    <2> QED BY <1>1, <1>2, <1>3, <2>1 DEF RecorderInv, Opening
<1>11. CASE Dropped
    <2>1. /\ pc' = "done" /\ recorder' = FALSE /\ tail' = <<>>
        BY <1>11 DEF Dropped, DropRecorder
    <2> QED BY <1>1, <2>1 DEF RecorderInv, Opening
<1>12. CASE FileWritten
    <2>1. /\ flight # <<>> /\ flight' = <<>> /\ UNCHANGED <<recorder, tail, pc, running, said>>
        BY <1>12 DEF FileWritten, Lands, taskVars, logVars
    <2>2. pc \in {"write", "flushed", "done"} /\ tail = <<>>
        BY <1>2, <2>1
    <2>3. failed => failed'
        BY <1>12 DEF FileWritten, Lands
    <2> QED BY <1>1, <1>2, <1>3, <2>1, <2>2, <2>3 DEF RecorderInv, Opening
<1>13. CASE Apart /\ ~(pc = "opening" => UNCHANGED logVars)
    <2>1. pc = "opening" /\ pc' = "opening"
        BY <1>13 DEF Apart, Busy
    <2>2. ~Open /\ ~(\E opens \in BOOLEAN : OpenRecording(opens)) /\ ~NotOpened
        BY <2>1 DEF Open, OpenRecording, NotOpened
    <2>3. UNCHANGED logVars
        <3>1. CASE Tick \/ Check \/ Interrupt \/ Shutdown \/ Leave \/ FileWritten
                     \/ UNCHANGED vars
            BY <3>1 DEF Tick, Check, Interrupt, Shutdown, Leave, FileWritten, vars
        <3>2. CASE ReportFrame \/ ReportSync \/ ReportPackets
            BY <3>2 DEF ReportFrame, ReportSync, ReportPackets, Report
        <3>3. CASE Dropped
            BY <3>3 DEF Dropped
        <3>4. CASE ReadBytes \/ Due \/ ReadOn \/ Stopped \/ SourceEnds \/ SayEnded
                     \/ (\E kind \in ErrorKinds : ReadFails(kind)) \/ Record \/ Written
                     \/ FeedPipeline \/ (\E sent \in BOOLEAN : Restarted(sent) \/ Sent(sent))
                     \/ Behind \/ QueueClosed \/ DecoderGone \/ Close \/ Flushed
            BY <2>1, <3>4 DEF ReadBytes, Due, ReadOn, Stopped, SourceEnds, SayEnded, ReadFails,
                 Record, Written, FeedPipeline, Restarted, Sent, Behind, QueueClosed,
                 DecoderGone, Close, Flushed
        <3> QED BY <2>2, <3>1, <3>2, <3>3, <3>4 DEF Next
    <2> QED BY <1>13, <2>3
<1> QED BY <1>4, <1>5, <1>6, <1>7, <1>8, <1>9, <1>10, <1>11, <1>12, <1>13, StepsApart

LEMMA WriteKeeps ==
    ASSUME TypeInv, RecorderInv, Lands \/ DropRecorder
    PROVE  \/ Recorded' = Recorded /\ failed' = failed
           \/ /\ failed'
              /\ \A t \in Seq(Byte) : IsPrefix(Recorded, t) => IsPrefix(Recorded', t)
<1>1. file \in Seq(Byte) /\ flight \in Seq(Byte) /\ tail \in Seq(Byte)
      /\ failed \in BOOLEAN
    BY DEF TypeInv
<1>2. ASSUME NEW g \in Seq(Byte), NEW n \in 0..Len(g), Recorded = file \o g,
             Recorded' = file \o SubSeq(g, 1, n), failed' = (failed \/ n < Len(g))
      PROVE  \/ Recorded' = Recorded /\ failed' = failed
             \/ /\ failed'
                /\ \A t \in Seq(Byte) : IsPrefix(Recorded, t) => IsPrefix(Recorded', t)
    <2>1. Len(g) \in Nat
        BY LenProperties
    <2>2. CASE n = Len(g)
        <3>1. SubSeq(g, 1, n) = g
            BY <2>2, SubSeqFull
        <3>2. failed' = failed
            BY <1>1, <1>2, <2>1, <2>2
        <3> QED BY <1>2, <3>1, <3>2
    <2>3. CASE n # Len(g)
        <3>3. n < Len(g)
            BY <2>1, <2>3
        <3>1. failed'
            BY <1>2, <3>3
        <3>2. \A t \in Seq(Byte) : IsPrefix(file \o g, t)
                                     => IsPrefix(file \o SubSeq(g, 1, n), t)
            BY <1>1, <1>2, PrefixWritten
        <3> QED BY <1>2, <3>1, <3>2
    <2> QED BY <2>2, <2>3
<1>3. CASE Lands
    <2>1. flight # <<>> /\ flight' = <<>> /\ tail' = tail
        BY <1>3 DEF Lands
    <2>2. tail = <<>>
        BY <2>1 DEF RecorderInv
    <2>3. PICK n \in 0..Len(flight) : /\ file' = file \o SubSeq(flight, 1, n)
                                      /\ failed' = (failed \/ n < Len(flight))
        BY <1>3 DEF Lands
    <2>4. file' \in Seq(Byte)
        BY <1>1, <2>3, PartWritten
    <2>5. Recorded = file \o flight
        BY <1>1, <2>2, ConcatProperties, ConcatEmptySeq DEF Recorded
    <2>6. Recorded' = file'
        BY <2>1, <2>2, <2>4, ConcatEmptySeq DEF Recorded
    <2> QED BY <1>1, <1>2, <2>3, <2>5, <2>6
<1>4. CASE DropRecorder
    <2>1. tail' = <<>> /\ flight' = flight
        BY <1>4 DEF DropRecorder
    <2>2. PICK n \in 0..Len(tail) : /\ file' = file \o SubSeq(tail, 1, n)
                                    /\ failed' = (failed \/ n < Len(tail))
        BY <1>4 DEF DropRecorder
    <2>3. file' \in Seq(Byte)
        BY <1>1, <2>2, PartWritten
    <2>4. CASE tail = <<>>
        <3>1. n = 0
            BY <2>2, <2>4, EmptySeq
        <3>2. SubSeq(tail, 1, n) = <<>>
            BY <3>1, SubSeqEmpty
        <3>3. file' = file
            BY <1>1, <2>2, <3>2, ConcatEmptySeq
        <3>4. failed' = failed
            BY <1>1, <2>2, <2>4, <3>1, EmptySeq
        <3> QED BY <2>1, <2>4, <3>3, <3>4 DEF Recorded
    <2>5. CASE tail # <<>>
        <3>1. flight = <<>>
            BY <2>5 DEF RecorderInv
        <3>2. Recorded = file \o tail
            BY <1>1, <3>1, ConcatEmptySeq DEF Recorded
        <3>3. Recorded' = file'
            BY <2>1, <2>3, <3>1, ConcatEmptySeq DEF Recorded
        <3> QED BY <1>1, <1>2, <2>2, <3>2, <3>3
    <2> QED BY <2>4, <2>5
<1> QED BY <1>3, <1>4

LEMMA BytesJoin ==
    \A a, b, c \in Seq(Byte) : (a \o b) \o c = a \o (b \o c)
BY ConcatAssociative

LEMMA FaithfulInit == Init => Faithful
<1> SUFFICES ASSUME Init
             PROVE  Faithful
    OBVIOUS
<1>1. /\ pc = "open" /\ handled = <<>> /\ tail = <<>> /\ flight = <<>> /\ file = Existing
    BY DEF Init, RecorderInit
<1>2. Existing \in Seq(Byte)
    BY AcquisitionAssumption DEF Byte
<1>3. Recorded = Existing /\ Stream = Existing
    BY <1>1, <1>2, ConcatEmptySeq DEF Recorded, Stream
<1> QED BY <1>2, <1>3, PrefixOfItself DEF Faithful

LEMMA FaithfulStep ==
    TypeInv /\ LogInv /\ EventsInv(events) /\ RecorderInv /\ Faithful /\ [Next]_vars => Faithful'
<1> SUFFICES ASSUME TypeInv, LogInv, EventsInv(events), RecorderInv, Faithful, [Next]_vars
             PROVE  Faithful'
    OBVIOUS
<1>1. /\ file \in Seq(Byte) /\ flight \in Seq(Byte) /\ tail \in Seq(Byte)
      /\ buf \in Seq(Byte) /\ handled \in Seq(Byte) /\ Existing \in Seq(Byte)
      /\ failed \in BOOLEAN
    BY AcquisitionAssumption DEF TypeInv, Byte
<1>2. Stream \in Seq(Byte) /\ Recorded \in Seq(Byte)
    BY <1>1, ConcatProperties DEF Stream, Recorded
<1>3. pc # "opening" => (Opened' <=> Opened)
    BY OpenedIsKept
<1>4. IsPrefix(Recorded, Stream)
    BY <1>2, PrefixOfItself DEF Faithful
<1>5. Opening => Recorded = Stream
    <2>1. Opening => /\ file = Existing /\ flight = <<>> /\ tail = <<>> /\ handled = <<>>
        BY DEF RecorderInv
    <2> QED BY <1>1, <2>1, ConcatEmptySeq DEF Recorded, Stream
<1>6. ASSUME Recorded' = Recorded, Stream' = Stream, failed' = failed,
             Opening \/ (Opened' <=> Opened)
      PROVE  Faithful'
    BY <1>4, <1>5, <1>6 DEF Faithful
<1>7. CASE Apart
    <2>1. Recorded' = Recorded /\ Stream' = Stream /\ failed' = failed
        BY <1>7 DEF Apart, recorderVars, Recorded, Stream
    <2>2. Opening \/ pc # "opening"
        BY DEF Opening
    <2> QED BY <1>3, <1>6, <2>1, <2>2
<1>8. CASE Open \/ (\E opens \in BOOLEAN : OpenRecording(opens)) \/ NotOpened
    <2>1. Opening /\ UNCHANGED <<tail, flight, file, failed, handled>>
        BY <1>8 DEF Open, OpenRecording, NotOpened, OpenRecorder, recorderVars, Opening
    <2> QED BY <1>6, <2>1 DEF Recorded, Stream
<1>9. CASE Record
    <2>1. pc = "record" /\ handled' = handled \o buf
        BY <1>9 DEF Record
    <2>2. Stream' = Stream \o buf
        <3>1. (Existing \o handled) \o buf = Existing \o (handled \o buf)
            BY <1>1, BytesJoin
        <3> QED BY <2>1, <3>1 DEF Stream
    <2>3. Opened' <=> Opened
        BY <1>3, <2>1
    <2>4. CASE ~recorder /\ UNCHANGED recorderVars
        <3>1. Recorded' = Recorded /\ failed' = failed
            BY <2>4 DEF Recorded, recorderVars
        <3>2. ~(Opened /\ ~failed)
            BY <2>1, <2>4 DEF RecorderInv
        <3>3. IsPrefix(Recorded, Stream \o buf)
            BY <1>1, <1>2, <1>4, PrefixOfMore
        <3> QED BY <2>2, <2>3, <3>1, <3>2, <3>3 DEF Faithful
    <2>5. CASE recorder /\ (Keep(buf) \/ Flush(buf))
        <3>1. Opened /\ ~failed
            BY <2>1, <2>5 DEF RecorderInv
        <3>2. failed' = failed
            BY <2>5 DEF Keep, Flush
        <3>3. Recorded' = Recorded \o buf
            <4> DEFINE f == file \o flight
            <4>1. f \in Seq(Byte)
                BY <1>1, ConcatProperties
            <4>2. CASE Keep(buf)
                <5>1. Recorded' = f \o (tail \o buf)
                    BY <4>2 DEF Keep, Buffered, Recorded
                <5>2. Recorded = f \o tail
                    BY DEF Recorded
                <5> HIDE DEF f
                <5>3. (f \o tail) \o buf = f \o (tail \o buf)
                    BY <1>1, <4>1, BytesJoin
                <5> QED BY <5>1, <5>2, <5>3
            <4>3. CASE Flush(buf)
                <5>1. /\ flight = <<>> /\ flight' = tail \o buf /\ tail' = <<>> /\ file' = file
                    BY <4>3 DEF Flush, Buffered
                <5>2. Recorded = file \o tail
                    BY <1>1, <5>1, ConcatEmptySeq DEF Recorded
                <5>3. tail \o buf \in Seq(Byte) /\ file \o (tail \o buf) \in Seq(Byte)
                    BY <1>1, ConcatProperties
                <5>4. Recorded' = file \o (tail \o buf)
                    BY <5>1, <5>3, ConcatEmptySeq DEF Recorded
                <5> HIDE DEF f
                <5>6. file \in Seq(Byte) /\ tail \in Seq(Byte) /\ buf \in Seq(Byte)
                    BY <1>1
                <5>5. (file \o tail) \o buf = file \o (tail \o buf)
                    BY <5>6, BytesJoin
                <5> QED BY <5>2, <5>4, <5>5
            <4> QED BY <2>5, <4>2, <4>3
        <3>4. Recorded = Stream
            BY <3>1 DEF Faithful
        <3> QED BY <2>2, <2>3, <3>1, <3>2, <3>3, <3>4 DEF Faithful
    <2> QED BY <1>9, <2>4, <2>5 DEF Record
<1>10. CASE Written \/ Flushed
    <2>1. /\ pc # "opening" /\ UNCHANGED <<tail, flight, file, failed, handled>>
        BY <1>10 DEF Written, Flushed, CloseRecorder, recorderVars
    <2> QED BY <1>3, <1>6, <2>1 DEF Recorded, Stream
<1>11. CASE Close
    <2>1. pc = "close" /\ handled' = handled
        BY <1>11 DEF Close
    <2>2. CASE recorder
        <3>1. /\ flight = <<>> /\ flight' = tail \o <<>> /\ tail' = <<>> /\ file' = file
              /\ failed' = failed
            BY <1>11, <2>2 DEF Close, Flush, Buffered
        <3>2. flight' = tail
            BY <1>1, <3>1, ConcatEmptySeq
        <3>3. Recorded = file \o tail
            BY <1>1, <3>1, ConcatEmptySeq DEF Recorded
        <3>4. file \o tail \in Seq(Byte)
            BY <1>1, ConcatProperties
        <3>5. Recorded' = file \o tail
            BY <3>1, <3>2, <3>4, ConcatEmptySeq DEF Recorded
        <3> QED BY <1>3, <1>6, <2>1, <3>1, <3>3, <3>5 DEF Stream
    <2>3. CASE ~recorder
        BY <1>3, <1>6, <1>11, <2>1, <2>3 DEF Close, recorderVars, Recorded, Stream
    <2> QED BY <2>2, <2>3
<1>12. CASE Dropped \/ FileWritten
    <2>1. /\ Lands \/ DropRecorder
          /\ handled' = handled
        BY <1>12 DEF Dropped, FileWritten, taskVars
    <2>2. Stream' = Stream
        BY <2>1 DEF Stream
    <2>3. CASE Recorded' = Recorded /\ failed' = failed
        BY <1>3, <1>6, <2>1, <2>2, <2>3 DEF Opening
    <2>4. CASE /\ failed'
               /\ \A t \in Seq(Byte) : IsPrefix(Recorded, t) => IsPrefix(Recorded', t)
        BY <1>2, <1>4, <2>2, <2>4 DEF Faithful
    <2> QED BY <2>1, <2>3, <2>4, WriteKeeps
<1> QED BY <1>7, <1>8, <1>9, <1>10, <1>11, <1>12, StepsApart


-----------------------------------------------------------------------------
(***************************************************************************)
(* What the pipeline joins, and what the decoder compares.                  *)
(***************************************************************************)
LEMMA NoStreams == StreamsOf(<<>>) = {}
BY DEF StreamsOf, Range

LEMMA StreamsJoined ==
    ASSUME NEW s \in Seq(Byte), NEW t \in Seq(Byte)
    PROVE  StreamsOf(s \o t) = StreamsOf(s) \union StreamsOf(t)
<1>1. Range(s \o t) = Range(s) \union Range(t)
    BY RangeConcatenation
<1> QED BY <1>1 DEF StreamsOf

LEMMA StreamsRead ==
    ASSUME TypeInv, NEW n \in Nat, Read(n)
    PROVE  StreamsOf(buf') \subseteq {stream}
BY ReadTyped DEF StreamsOf

(* The steps that leave the streams alone. *)
SameStreams ==
    /\ UNCHANGED <<spec, restart, stream, buf, message, decoding>>
    /\ Reading' => Reading /\ (pc = "report" => pc' = "report")
    /\ pc' = "report" => pc = "report"
    /\ pc' \in {"open", "opening", "read", "ended"}
          => pc \in {"open", "opening", "read", "ended"}
    /\ pc' = "push" => pc = "push"

LEMMA SameStreamsKeep ==
    ASSUME StreamInv, SameStreams
    PROVE  StreamInv'
<1>1. UNCHANGED <<IsDatagram, StreamsOf(buf), StreamsOf(message)>>
    BY DEF SameStreams, IsDatagram, StreamsOf
<1>2. Reading' => Reading /\ (pc = "report" <=> pc' = "report")
    BY DEF SameStreams
<1> QED BY <1>1, <1>2 DEF SameStreams, StreamInv

LEMMA StreamSteps ==
    ASSUME [Next]_vars
    PROVE  SameStreams \/ ReadBytes \/ ReadOn \/ SourceEnds \/ FeedPipeline
             \/ Behind \/ \E sent \in BOOLEAN : Restarted(sent) \/ Sent(sent)
<1>1. CASE Open \/ (\E opens \in BOOLEAN : OpenRecording(opens)) \/ NotOpened
    BY <1>1 DEF SameStreams, Reading, Open, OpenRecording, NotOpened, sourceVars, linkVars
<1>2. CASE Due \/ Stopped \/ SayEnded \/ QueueClosed \/ DecoderGone
    BY <1>2 DEF SameStreams, Reading, Due, Stopped, SayEnded, QueueClosed, DecoderGone,
                sourceVars, linkVars
<1>3. CASE \E kind \in ErrorKinds : ReadFails(kind)
    BY <1>3 DEF SameStreams, Reading, ReadFails, Fails, linkVars
<1>4. CASE Record
    BY <1>4 DEF SameStreams, Reading, Record, sourceVars, linkVars
<1>5. CASE Written \/ Close \/ Flushed
    BY <1>5 DEF SameStreams, Reading, Written, Close, Flushed, sourceVars, linkVars
<1>6. CASE Dropped \/ FileWritten
    BY <1>6 DEF SameStreams, Reading, Dropped, FileWritten, taskVars, sourceVars, linkVars
<1>7. CASE ReportFrame \/ ReportSync \/ ReportPackets
    BY <1>7 DEF SameStreams, Reading, ReportFrame, ReportSync, ReportPackets, Report, taskVars,
                sourceVars
<1>8. CASE Tick \/ Check \/ Interrupt \/ Leave
    BY <1>8 DEF SameStreams, Reading, Tick, Check, Interrupt, Leave, taskVars, sourceVars,
                linkVars
<1>9. CASE Shutdown
    BY <1>9 DEF SameStreams, Reading, Shutdown, sourceVars, linkVars
<1>10. CASE UNCHANGED vars
    BY <1>10 DEF SameStreams, Reading, vars, taskVars, sourceVars, linkVars
<1> QED BY <1>1, <1>2, <1>3, <1>4, <1>5, <1>6, <1>7, <1>8, <1>9, <1>10 DEF Next

LEMMA StreamInvInit == Init => StreamInv
<1> SUFFICES ASSUME Init
             PROVE  StreamInv
    OBVIOUS
<1>1. restart = FALSE /\ buf = <<>> /\ message = <<>> /\ decoding = {} /\ pc = "open"
    BY DEF Init, SourceInit
<1>2. StreamsOf(buf) = {} /\ StreamsOf(message) = {}
    BY <1>1, NoStreams
<1> QED BY <1>1, <1>2 DEF StreamInv

LEMMA StreamInvStep == TypeInv /\ StreamInv /\ [Next]_vars => StreamInv'
<1> SUFFICES ASSUME TypeInv, StreamInv, [Next]_vars
             PROVE  StreamInv'
    OBVIOUS
<1>1. /\ stream \in Nat /\ buf \in Seq(Byte) /\ message \in Seq(Byte)
      /\ decoding \subseteq Nat
    BY SourceAssumption DEF TypeInv
<1>2. StreamsOf(<<>>) = {}
    BY NoStreams
<1>3. CASE SameStreams
    BY <1>3, SameStreamsKeep
<1>4. CASE ReadBytes
    <2>1. /\ pc = "read" /\ pc' \in {"pacing", "record"} /\ message' = message
          /\ decoding' = decoding
        BY <1>4 DEF ReadBytes, linkVars
    <2>2. PICK n \in 1..MaxRead : Datagram(n) \/ SocketBytes(n) \/ FileBytes(n)
        BY <1>4 DEF ReadBytes, Bytes
    <2>3. n \in Nat /\ Read(n) /\ spec' = spec /\ restart' = restart
          /\ (~IsDatagram => stream' = stream)
        BY <2>2 DEF Datagram, SocketBytes, FileBytes
    <2>4. StreamsOf(buf') \subseteq {stream}
        BY <2>3, StreamsRead
    <2>5. IsDatagram' = IsDatagram /\ StreamsOf(message)' = StreamsOf(message)
        BY <2>1, <2>3 DEF IsDatagram, StreamsOf
    <2>6. StreamsOf(buf)' = StreamsOf(buf')
        BY DEF StreamsOf
    <2>7. Reading /\ pc # "report"
        BY <2>1 DEF Reading
    <2> QED BY <1>1, <2>1, <2>3, <2>4, <2>5, <2>6, <2>7 DEF StreamInv
<1>5. CASE ReadOn
    <2>1. /\ pc = "read" /\ pc' = pc /\ message' = message /\ decoding' = decoding
          /\ buf' = buf /\ spec' = spec /\ buf = <<>>
        BY <1>5 DEF ReadOn, Accept, PeerLeaves, Rewind, taskVars, linkVars, StreamInv
    <2>2. IsDatagram' = IsDatagram /\ StreamsOf(message)' = StreamsOf(message)
          /\ StreamsOf(buf)' = {} /\ Reading
        BY <1>2, <2>1 DEF IsDatagram, StreamsOf, Reading
    <2>3. CASE PeerLeaves
        <3>1. restart' = restart /\ stream' = stream
            BY <2>3 DEF PeerLeaves
        <3> QED BY <2>1, <2>2, <3>1 DEF StreamInv
    <2>4. CASE Accept \/ Rewind
        <3>1. /\ restart' /\ stream' = stream + 1 /\ spec.scheme \in {"listen", "file"}
            BY <2>4 DEF Accept, Rewind, AtEnd
        <3>2. ~IsDatagram
            BY <3>1 DEF IsDatagram
        <3>3. \A d \in decoding : d <= stream
            BY <3>2 DEF StreamInv
        <3>4. \A d \in decoding : d <= stream'
            BY <1>1, <3>1, <3>3
        <3>5. stream' \notin decoding
            BY <1>1, <3>1, <3>3
        <3> QED BY <2>1, <2>2, <3>1, <3>2, <3>4, <3>5 DEF StreamInv
    <2> QED BY <1>5, <2>3, <2>4 DEF ReadOn
<1>6. CASE SourceEnds
    <2>1. /\ pc = "read" /\ pc' = "ended" /\ message' = <<>> /\ decoding' = decoding
          /\ UNCHANGED sourceVars
        BY <1>6 DEF SourceEnds, Ends
    <2>2. IsDatagram' = IsDatagram /\ StreamsOf(message)' = {} /\ Reading
          /\ StreamsOf(buf)' = StreamsOf(buf)
        BY <1>2, <2>1 DEF IsDatagram, StreamsOf, Reading, sourceVars
    <2> QED BY <2>1, <2>2 DEF StreamInv, sourceVars
<1>7. CASE FeedPipeline
    <2>1. /\ pc \in {"restart", "push"} /\ ~restart /\ pc' = "report"
          /\ message' = message \o buf
          /\ decoding' = decoding \union {b.stream : b \in Range(buf)}
          /\ UNCHANGED sourceVars
        BY <1>7 DEF FeedPipeline, StreamInv
    <2>2. StreamsOf(message') = StreamsOf(message) \union StreamsOf(buf)
        BY <1>1, <2>1, StreamsJoined
    <2>3. /\ StreamsOf(message)' = StreamsOf(message') /\ StreamsOf(buf)' = StreamsOf(buf)
          /\ IsDatagram' = IsDatagram
          /\ decoding' = decoding \union StreamsOf(buf)
        BY <2>1 DEF StreamsOf, sourceVars, IsDatagram
    <2>4. Reading /\ pc # "report" /\ stream' = stream /\ restart' = restart /\ buf' = buf
          /\ spec' = spec
        BY <2>1 DEF Reading, sourceVars
    <2>5. CASE IsDatagram
        <3>1. message = <<>>
            BY <2>4, <2>5 DEF StreamInv
        <3>2. StreamsOf(message') = StreamsOf(buf)
            BY <1>2, <2>2, <3>1
        <3> QED BY <2>1, <2>3, <2>4, <2>5, <3>2 DEF StreamInv
    <2>6. CASE ~IsDatagram
        <3>1. /\ StreamsOf(message) \subseteq {stream} /\ StreamsOf(buf) \subseteq {stream}
              /\ decoding \subseteq {stream}
            BY <2>1, <2>4, <2>6 DEF StreamInv
        <3>2. StreamsOf(message') \subseteq {stream} /\ decoding' \subseteq {stream}
            BY <2>2, <2>3, <3>1
        <3>3. \A d \in decoding' : d <= stream
            BY <1>1, <3>2
        <3> QED BY <1>1, <2>1, <2>3, <2>4, <2>6, <3>1, <3>2, <3>3 DEF StreamInv
    <2> QED BY <2>5, <2>6
<1>8. CASE \E sent \in BOOLEAN : Restarted(sent)
    <2>1. PICK sent \in BOOLEAN : Restarted(sent)
        BY <1>8
    <2>2. /\ pc = "restart" /\ restart /\ ~restart' /\ message' = <<>>
          /\ decoding' = IF sent THEN {} ELSE decoding
          /\ pc' = IF sent THEN "push" ELSE "gone"
          /\ UNCHANGED <<spec, stream, buf>>
        BY <2>1 DEF Restarted, TakeRestart
    <2>3. /\ StreamsOf(message)' = {} /\ StreamsOf(buf)' = StreamsOf(buf)
          /\ IsDatagram' = IsDatagram
        BY <1>2, <2>2 DEF StreamsOf, IsDatagram
    <2>4. CASE sent
        <3>1. decoding' = {} /\ pc' = "push"
            BY <2>2, <2>4
        <3> QED BY <1>1, <2>2, <2>3, <3>1 DEF StreamInv
    <2>5. CASE ~sent
        <3>1. decoding' = decoding /\ pc' = "gone" /\ ~Reading'
            BY <2>2, <2>5 DEF Reading
        <3> QED BY <2>2, <2>3, <3>1 DEF StreamInv
    <2> QED BY <2>4, <2>5
<1>9. CASE \E sent \in BOOLEAN : Sent(sent)
    <2>1. PICK sent \in BOOLEAN : Sent(sent)
        BY <1>9
    <2>2. /\ pc = "report" /\ message' = (IF IsDatagram THEN <<>> ELSE message)
          /\ decoding' = decoding /\ UNCHANGED <<spec, restart, stream>>
          /\ (pc' = "read" /\ buf' = <<>>) \/ (pc' \in {"gone", "behind"} /\ buf' = buf)
        BY <2>1 DEF Sent, ClearBuffer, sourceVars
    <2>3. IsDatagram' = IsDatagram /\ Reading
        BY <2>2 DEF IsDatagram, Reading
    <2>4. /\ StreamsOf(message)' = {} \/ StreamsOf(message)' = StreamsOf(message)
          /\ StreamsOf(buf)' = {} \/ StreamsOf(buf)' = StreamsOf(buf)
        BY <1>2, <2>2 DEF StreamsOf
    <2>5. pc' = "gone" => ~Reading'
        BY DEF Reading
    <2> QED BY <2>2, <2>3, <2>4, <2>5 DEF StreamInv
<1>10. CASE Behind
    <2>1. /\ pc = "behind" /\ pc' = "read" /\ buf' = <<>>
          /\ UNCHANGED <<spec, restart, stream, message, decoding>>
        BY <1>10 DEF Behind, ClearBuffer, linkVars
    <2>2. /\ IsDatagram' = IsDatagram /\ Reading
          /\ StreamsOf(message)' = StreamsOf(message) /\ StreamsOf(buf)' = {}
        BY <1>2, <2>1 DEF IsDatagram, Reading, StreamsOf
    <2> QED BY <2>1, <2>2 DEF StreamInv
<1> QED BY <1>3, <1>4, <1>5, <1>6, <1>7, <1>8, <1>9, <1>10, StreamSteps


-----------------------------------------------------------------------------
LEMMA LogInvInit == Init => LogInv
<1> SUFFICES ASSUME Init
             PROVE  LogInv
    OBVIOUS
<1>1. log = EmptyLog(LogCapacity) /\ said = <<>>
    BY DEF Init
<1>2. LogCapacity \in Nat \ {0}
    BY AcquisitionAssumption
<1>3. IsLog(log, Range(said)) /\ log.entries.capacity = LogCapacity /\ log.total = 0
    BY <1>1, <1>2, EmptyIsLog
<1>4. said \in Seq(Lines) /\ Len(said) = 0
    BY <1>1, EmptySeq
<1> QED BY <1>3, <1>4 DEF LogInv

LEMMA RecInvInit == Init => RecInv
<1> SUFFICES ASSUME Init
             PROVE  RecInv
    OBVIOUS
<1>1. cursor \in Nat /\ EventsInv(events)
    BY NothingHeld DEF Init
<1> QED BY <1>1, TypeInvInit, LogInvInit, RecorderInvInit, FaithfulInit, StreamInvInit
        DEF RecInv

LEMMA RecInvStep == RecInv /\ [Next]_vars => RecInv'
BY TypeInvStep, LogInvStep, CursorStep, EventsInvStep, RecorderInvStep, FaithfulStep,
   StreamInvStep DEF RecInv

LEMMA AtMostOne ==
    ASSUME NEW S, NEW s, S \subseteq {s}
    PROVE  Cardinality(S) <= 1
<1>1. IsFiniteSet({s}) /\ Cardinality({s}) = 1
    BY FS_Singleton
<1>2. IsFiniteSet(S) /\ Cardinality(S) <= Cardinality({s})
    BY <1>1, FS_Subset
<1> QED BY <1>1, <1>2

LEMMA RecInvRecords == RecInv => RecordingIsTheStream
<1> SUFFICES ASSUME RecInv
             PROVE  RecordingIsTheStream
    OBVIOUS
<1>1. TypeInv /\ LogInv /\ cursor \in Nat /\ EventsInv(events) /\ RecorderInv /\ Faithful
      /\ StreamInv
    BY DEF RecInv
<1>2. AcquisitionTypeOK
    <2>1. IsRing(log.entries, [line : Range(said), times : Nat])
        BY <1>1, LogIsRing DEF LogInv
    <2>2. IsEvents(events)
        BY <1>1 DEF EventsInv
    <2>3. \A s \in {buf, handled, message, tail, flight} :
              s \in Seq([stream : Nat, at : Nat])
        BY <1>1 DEF TypeInv, Byte
    <2> QED BY <1>1, <2>1, <2>2, <2>3 DEF TypeInv, AcquisitionTypeOK
<1>3. IF Opened /\ ~failed THEN Recorded = Stream ELSE IsPrefix(Recorded, Stream)
    BY <1>1 DEF Faithful
<1>4. Len(tail) < RecordBuffer /\ (~running => tail = <<>>)
    BY <1>1 DEF RecorderInv
<1>5. Cardinality(StreamsOf(message)) <= 1
    <2>1. PICK s \in Nat : StreamsOf(message) \subseteq {s}
        BY <1>1 DEF StreamInv
    <2> QED BY <2>1, AtMostOne
<1>6. ~IsDatagram => Cardinality(decoding) <= 1
    <2> SUFFICES ASSUME ~IsDatagram
                 PROVE  Cardinality(decoding) <= 1
        OBVIOUS
    <2>1. PICK s \in Nat : decoding \subseteq {s}
        BY <1>1 DEF StreamInv
    <2> QED BY <2>1, AtMostOne
<1>7. pc = "restart" /\ restart => StreamsOf(buf) \cap decoding = {}
    <2> SUFFICES ASSUME pc = "restart", restart
                 PROVE  StreamsOf(buf) \cap decoding = {}
        OBVIOUS
    <2>1. ~IsDatagram /\ Reading
        BY <1>1 DEF StreamInv, IsDatagram, Reading
    <2>2. StreamsOf(buf) \subseteq {stream} /\ stream \notin decoding
        BY <1>1, <2>1 DEF StreamInv
    <2> QED BY <2>2
<1> QED BY <1>2, <1>3, <1>4, <1>5, <1>6, <1>7
        DEF RecordingIsTheStream, Opened, Recorded, Stream, StreamsOf

LEMMA RecInvAlways == AcquisitionSpec => []RecInv
<1>1. Init => RecInv
    BY RecInvInit
<1>2. RecInv /\ [Next]_vars => RecInv'
    BY RecInvStep
<1> QED BY <1>1, <1>2, PTL DEF AcquisitionSpec

(* For every source, buffer, limit and length of a behaviour, whatever a    *)
(* disk, a peer, a signal or the runtime does in the middle of it: a        *)
(* recording is every byte that was handled, in order, behind what the file *)
(* held; after a failed write it is a beginning of that; nothing is left in *)
(* the buffer of a session that is no longer running; and neither the       *)
(* pipeline nor the decoder ever joins two datagrams, peers or laps         *)
(* (record.rs:168-226, session.rs:788-902).                                 *)
THEOREM RecordingsAreFaithful == AcquisitionSpec => []RecordingIsTheStream
<1>1. RecInv => RecordingIsTheStream
    BY RecInvRecords
<1> QED BY <1>1, RecInvAlways, PTL


-----------------------------------------------------------------------------
(***************************************************************************)
(* Every report is accounted for.                                           *)
(***************************************************************************)
Words == Reasons \union Worded

CountWt(w) == [l \in Lines |-> IF l.what = w THEN l.more + 1 ELSE 0]
DropWt == [l \in Lines |-> IF l.what = Further THEN l.more ELSE 0]

LEMMA WordsAreFew ==
    /\ IsFiniteSet(Words) /\ Further \notin Words
    /\ SessionWords \intersect Words = {} /\ Further \notin SessionWords
<1>1. IsFiniteSet(Words)
    BY LinkEventsAssumption, FS_Union DEF Words
<1> QED BY <1>1, LinkEventsAssumption, AcquisitionAssumption DEF Words

LEMMA CountsAreTotals ==
    ASSUME NEW s \in Seq(Lines), NEW w
    PROVE  /\ CountWt(w) \in [Lines -> Int] /\ DropWt \in [Lines -> Int]
           /\ CountOf(s, w) = Total(s, CountWt(w)) /\ CountOf(s, w) \in Int
           /\ DroppedIn(s) = Total(s, DropWt) /\ DroppedIn(s) \in Int
<1>1. \A l \in Lines : l.more \in Nat
    BY DEF Lines
<1>2. CountWt(w) \in [Lines -> Int]
    BY <1>1 DEF CountWt
<1>3. DropWt \in [Lines -> Int]
    BY <1>1 DEF DropWt
<1>4. \A i \in DOMAIN s : s[i] \in Lines
    BY LenProperties, ElementOfSeq
<1>5. Weights(s, CountWt(w))
        = [i \in DOMAIN s |-> IF s[i].what = w THEN s[i].more + 1 ELSE 0]
    BY <1>4 DEF Weights, CountWt
<1>6. Weights(s, DropWt) = [i \in DOMAIN s |-> IF s[i].what = Further THEN s[i].more ELSE 0]
    BY <1>4 DEF Weights, DropWt
<1>7. CountOf(s, w) = Total(s, CountWt(w))
    BY <1>5 DEF CountOf, SumFunction, Total
<1>8. DroppedIn(s) = Total(s, DropWt)
    BY <1>6 DEF DroppedIn, SumFunction, Total
<1>9. Total(s, CountWt(w)) \in Int /\ Total(s, DropWt) \in Int
    BY <1>2, <1>3, WeightsAt
<1> QED BY <1>2, <1>3, <1>7, <1>8, <1>9

LEMMA CountsJoined ==
    ASSUME NEW s \in Seq(Lines), NEW t \in Seq(Lines), NEW w
    PROVE  /\ CountOf(s \o t, w) = CountOf(s, w) + CountOf(t, w)
           /\ DroppedIn(s \o t) = DroppedIn(s) + DroppedIn(t)
           /\ s \o t \in Seq(Lines)
<1> DEFINE u == s \o t
<1>1. u \in Seq(Lines)
    BY ConcatProperties
<1>2. CountWt(w) \in [Lines -> Int] /\ DropWt \in [Lines -> Int]
    BY CountsAreTotals
<1>3. Total(u, CountWt(w)) = Total(s, CountWt(w)) + Total(t, CountWt(w))
    BY <1>2, TotalOfConcat
<1>4. Total(u, DropWt) = Total(s, DropWt) + Total(t, DropWt)
    BY <1>2, TotalOfConcat
<1> HIDE DEF u
<1>5. CountOf(u, w) = CountOf(s, w) + CountOf(t, w)
    BY <1>1, <1>3, CountsAreTotals
<1>6. DroppedIn(u) = DroppedIn(s) + DroppedIn(t)
    BY <1>1, <1>4, CountsAreTotals
<1> QED BY <1>1, <1>5, <1>6 DEF u

LEMMA CountsAppended ==
    ASSUME NEW s \in Seq(Lines), NEW x \in Lines, NEW w
    PROVE  /\ CountOf(Append(s, x), w)
                = CountOf(s, w) + (IF x.what = w THEN x.more + 1 ELSE 0)
           /\ DroppedIn(Append(s, x))
                = DroppedIn(s) + (IF x.what = Further THEN x.more ELSE 0)
<1> DEFINE u == Append(s, x)
<1>1. u \in Seq(Lines)
    BY AppendProperties
<1>2. CountWt(w) \in [Lines -> Int] /\ DropWt \in [Lines -> Int]
    BY CountsAreTotals
<1>3. Total(u, CountWt(w)) = Total(s, CountWt(w)) + CountWt(w)[x]
    BY <1>2, TotalOfAppend
<1>4. Total(u, DropWt) = Total(s, DropWt) + DropWt[x]
    BY <1>2, TotalOfAppend
<1>5. /\ CountWt(w)[x] = IF x.what = w THEN x.more + 1 ELSE 0
      /\ DropWt[x] = IF x.what = Further THEN x.more ELSE 0
    BY DEF CountWt, DropWt
<1> HIDE DEF u
<1>6. CountOf(u, w) = CountOf(s, w) + CountWt(w)[x]
    BY <1>1, <1>3, CountsAreTotals
<1>7. DroppedIn(u) = DroppedIn(s) + DropWt[x]
    BY <1>1, <1>4, CountsAreTotals
<1> QED BY <1>5, <1>6, <1>7 DEF u

LEMMA CountsOfNone ==
    ASSUME NEW w
    PROVE  CountOf(<<>>, w) = 0 /\ DroppedIn(<<>>) = 0
<1>1. <<>> \in Seq(Lines)
    BY EmptySeq
<1>2. CountOf(<<>>, w) = Total(<<>>, CountWt(w)) /\ DroppedIn(<<>>) = Total(<<>>, DropWt)
    BY <1>1, CountsAreTotals
<1> QED BY <1>2, TotalOfNone

(* What the task says of itself is no report. *)
OfSession(lines) ==
    lines \in Seq(Lines) /\ \A l \in Range(lines) : l.what \in SessionWords

LEMMA SessionCountsNone ==
    ASSUME NEW lines, OfSession(lines), NEW w \in Words
    PROVE  CountOf(lines, w) = 0 /\ DroppedIn(lines) = 0
<1>1. lines \in Seq(Lines) /\ \A i \in 1..Len(lines) : lines[i] \in Lines
                                                       /\ lines[i].what \in SessionWords
    <2>1. lines \in Seq(Lines) /\ DOMAIN lines = 1..Len(lines)
        BY LenProperties DEF OfSession
    <2>2. \A i \in 1..Len(lines) : lines[i] \in Range(lines)
        BY <2>1 DEF Range
    <2> QED BY <2>1, <2>2, ElementOfSeq DEF OfSession
<1>2. CountWt(w) \in [Lines -> Int] /\ DropWt \in [Lines -> Int]
    BY <1>1, CountsAreTotals
<1>3. \A i \in 1..Len(lines) : CountWt(w)[lines[i]] = 0
    BY <1>1, WordsAreFew DEF CountWt
<1>4. \A i \in 1..Len(lines) : DropWt[lines[i]] = 0
    BY <1>1, WordsAreFew DEF DropWt
<1>5. Total(lines, CountWt(w)) = 0
    BY <1>1, <1>2, <1>3, TotalOfZeros
<1>6. Total(lines, DropWt) = 0
    BY <1>1, <1>2, <1>4, TotalOfZeros
<1> QED BY <1>1, <1>5, <1>6, CountsAreTotals


(* A report is one more in the line it is put on, or one more not shown. *)
LEMMA CountsEffect ==
    ASSUME NEW e, EventsInv(e), NEW f, EventsInv(f), NEW what \in Words, Counts(e, f, what)
    PROVE  LET was == CloseRun(e).queued
               is == CloseRun(f).queued
           IN  /\ DroppedIn(is) = DroppedIn(was)
               /\ \/ /\ f.dropped = e.dropped
                     /\ \A w \in Words : CountOf(is, w) = CountOf(was, w)
                                                            + (IF w = what THEN 1 ELSE 0)
                  \/ /\ f.dropped = e.dropped + 1
                     /\ \A w \in Words : CountOf(is, w) = CountOf(was, w)
<1> DEFINE was == CloseRun(e).queued
           is == CloseRun(f).queued
           last == was[Len(was)]
           more == Line(what, last.more + 1)
           one == Line(what, 0)
<1>1. was \in Seq(Lines) /\ is \in Seq(Lines) /\ was \in Seq(Queued)
    BY DrainedLines, RunClosed
<1>2. what # Further
    BY WordsAreFew
<1>3. \/ /\ was # <<>> /\ last.what = what /\ f.dropped = e.dropped
         /\ is = [was EXCEPT ![Len(was)] = more]
      \/ is = Append(was, one) /\ f.dropped = e.dropped
      \/ is = was /\ f.dropped = e.dropped + 1
    BY DEF Counts
<1>4. CASE is = was /\ f.dropped = e.dropped + 1
    BY <1>4
<1>5. CASE is = Append(was, one) /\ f.dropped = e.dropped
    <2>1. one \in Lines /\ one.what = what /\ one.more = 0
        BY DEF one, Line, Lines, Words
    <2> HIDE DEF was, is, one
    <2>2. /\ DroppedIn(is) = DroppedIn(was) + 0
          /\ \A w \in Words : CountOf(is, w) = CountOf(was, w) + (IF what = w THEN 0 + 1 ELSE 0)
        BY <1>1, <1>2, <1>5, <2>1, CountsAppended
    <2>3. DroppedIn(was) \in Int
        BY <1>1, CountsAreTotals
    <2>4. DroppedIn(is) = DroppedIn(was)
        BY <2>2, <2>3
    <2>5. \A w \in Words : CountOf(is, w) = CountOf(was, w) + (IF w = what THEN 1 ELSE 0)
        BY <2>2
    <2> QED BY <1>5, <2>4, <2>5 DEF was, is
<1>6. CASE /\ was # <<>> /\ last.what = what /\ f.dropped = e.dropped
           /\ is = [was EXCEPT ![Len(was)] = more]
    <2>1. Len(was) \in 1..Len(was)
        <3>1. Len(was) \in Nat /\ Len(was) # 0
            BY <1>1, <1>6, EmptySeq, LenProperties
        <3> QED BY <3>1
    <2>2. last \in Queued /\ last \in Lines
        BY <1>1, <2>1, ElementOfSeq
    <2>3. last.more \in Nat
        BY <2>2 DEF Queued
    <2>4. more \in Lines /\ more.what = what /\ more.more = last.more + 1
        BY <2>3 DEF Line, Lines, Words
    <2> HIDE DEF was, is, last, more
    <2>5. ASSUME NEW w \in Words
          PROVE  /\ CountOf(is, w) = CountOf(was, w) + (IF w = what THEN 1 ELSE 0)
                 /\ DroppedIn(is) = DroppedIn(was)
        <3>1. CountWt(w) \in [Lines -> Int] /\ DropWt \in [Lines -> Int]
            BY <1>1, CountsAreTotals
        <3>2. Total([was EXCEPT ![Len(was)] = more], CountWt(w))
                = Total(was, CountWt(w)) + (CountWt(w)[more] - CountWt(w)[was[Len(was)]])
            BY <1>1, <1>6, <2>4, <3>1, TotalOfReplaced
        <3>3. Total([was EXCEPT ![Len(was)] = more], DropWt)
                = Total(was, DropWt) + (DropWt[more] - DropWt[was[Len(was)]])
            BY <1>1, <1>6, <2>4, <3>1, TotalOfReplaced
        <3>4. was[Len(was)] = last
            BY DEF last
        <3>5. DropWt[more] = 0 /\ DropWt[last] = 0
            BY <1>2, <1>6, <2>2, <2>4 DEF DropWt
        <3>6. CountWt(w)[more] - CountWt(w)[last] = IF w = what THEN 1 ELSE 0
            <4>1. CountWt(w)[more] = IF what = w THEN (last.more + 1) + 1 ELSE 0
                BY <2>4 DEF CountWt
            <4>2. CountWt(w)[last] = IF what = w THEN last.more + 1 ELSE 0
                BY <1>6, <2>2 DEF CountWt
            <4> QED BY <2>3, <4>1, <4>2
        <3>7. CountOf(is, w) = Total(is, CountWt(w)) /\ CountOf(was, w) = Total(was, CountWt(w))
              /\ DroppedIn(is) = Total(is, DropWt) /\ DroppedIn(was) = Total(was, DropWt)
              /\ DroppedIn(was) \in Int
            BY <1>1, CountsAreTotals
        <3>8. CountOf(is, w) = CountOf(was, w) + (IF w = what THEN 1 ELSE 0)
            BY <1>6, <3>2, <3>4, <3>6, <3>7
        <3>9. DroppedIn(is) = DroppedIn(was) + (0 - 0)
            BY <1>6, <3>3, <3>4, <3>5, <3>7
        <3>10. DroppedIn(is) = DroppedIn(was)
            BY <3>7, <3>9
        <3> QED BY <3>8, <3>10
    <2>6. DroppedIn(is) = DroppedIn(was)
        BY <2>5
    <2>7. \A w \in Words : CountOf(is, w) = CountOf(was, w) + (IF w = what THEN 1 ELSE 0)
        BY <2>5
    <2> QED BY <1>6, <2>6, <2>7 DEF was, is
<1> QED BY <1>3, <1>4, <1>5, <1>6

(* What was said and is held, e, of what was reported, r. *)
Accounted(s, e) ==
    [w \in Words |-> CountOf(s, w) + CountOf(CloseRun(e).queued, w)]
Unshown(s, e) == (DroppedIn(s) + DroppedIn(CloseRun(e).queued)) + e.dropped

Balance(s, e, r) ==
    /\ r \in [Words -> Nat]
    /\ \A w \in Words : Accounted(s, e)[w] <= r[w]
    /\ SumFunctionOnSet(Accounted(s, e), Words) + Unshown(s, e) = SumFunctionOnSet(r, Words)

LEMMA AccountTyped ==
    ASSUME NEW s \in Seq(Lines), NEW e, EventsInv(e)
    PROVE  /\ Accounted(s, e) \in [Words -> Int] /\ Unshown(s, e) \in Int
           /\ SumFunctionOnSet(Accounted(s, e), Words) \in Int
           /\ CloseRun(e).queued \in Seq(Lines) /\ e.dropped \in Nat
<1> DEFINE q == CloseRun(e).queued
<1>1. q \in Seq(Lines) /\ e.dropped \in Nat
    BY DrainedLines
<1> HIDE DEF q
<1>2. \A w \in Words : CountOf(s, w) \in Int /\ CountOf(q, w) \in Int
    BY <1>1, CountsAreTotals
<1>3. Accounted(s, e) = [w \in Words |-> CountOf(s, w) + CountOf(q, w)]
      /\ Unshown(s, e) = (DroppedIn(s) + DroppedIn(q)) + e.dropped
    BY DEF Accounted, Unshown, q
<1>4. Accounted(s, e) \in [Words -> Int]
    BY <1>2, <1>3
<1>5. Unshown(s, e) \in Int
    <2>1. CountOf(s, Further) \in Int /\ DroppedIn(s) \in Int
        BY CountsAreTotals
    <2>2. CountOf(q, Further) \in Int /\ DroppedIn(q) \in Int
        BY <1>1, CountsAreTotals
    <2> QED BY <1>1, <1>3, <2>1, <2>2
<1>6. SumFunctionOnSet(Accounted(s, e), Words) \in Int
    BY <1>4, WordsAreFew, SumIsInt
<1> QED BY <1>1, <1>4, <1>5, <1>6 DEF q

LEMMA RaisedByOne ==
    ASSUME NEW r \in [Words -> Int], NEW what \in Words
    PROVE  /\ SumFunctionOnSet(r, Words) \in Int
           /\ SumFunctionOnSet(Raised(r, {what}), Words) = SumFunctionOnSet(r, Words) + 1
<1>1. IsFiniteSet(Words) /\ {what} \in SUBSET Words /\ Cardinality({what}) = 1
    BY WordsAreFew, FS_Singleton
<1> DEFINE B == {what}
<1> HIDE DEF B
<1>2. /\ SumFunctionOnSet(r, Words) \in Int
      /\ SumFunctionOnSet(Raised(r, B), Words) = SumFunctionOnSet(r, Words) + Cardinality(B)
    BY <1>1, SumRaised DEF B
<1> QED BY <1>1, <1>2 DEF B

LEMMA OneCounted ==
    ASSUME NEW s \in Seq(Lines), NEW e, EventsInv(e), NEW f, EventsInv(f),
           NEW what \in Words, Counts(e, f, what), NEW r, Balance(s, e, r)
    PROVE  Balance(s, f, Raised(r, {what}))
<1> DEFINE was == CloseRun(e).queued
           is == CloseRun(f).queued
           a == Accounted(s, e)
           b == Accounted(s, f)
           up == Raised(r, {what})
<1>1. /\ DroppedIn(is) = DroppedIn(was)
      /\ \/ /\ f.dropped = e.dropped
            /\ \A w \in Words : CountOf(is, w) = CountOf(was, w) + (IF w = what THEN 1 ELSE 0)
         \/ /\ f.dropped = e.dropped + 1
            /\ \A w \in Words : CountOf(is, w) = CountOf(was, w)
    BY CountsEffect
<1>2. /\ a = [w \in Words |-> CountOf(s, w) + CountOf(was, w)]
      /\ b = [w \in Words |-> CountOf(s, w) + CountOf(is, w)]
      /\ Unshown(s, e) = (DroppedIn(s) + DroppedIn(was)) + e.dropped
      /\ Unshown(s, f) = (DroppedIn(s) + DroppedIn(is)) + f.dropped
    BY DEF Accounted, Unshown
<1>3. /\ r \in [Words -> Nat] /\ \A w \in Words : a[w] <= r[w]
      /\ SumFunctionOnSet(a, Words) + Unshown(s, e) = SumFunctionOnSet(r, Words)
    BY DEF Balance
<1>4. /\ a \in [Words -> Int] /\ b \in [Words -> Int] /\ SumFunctionOnSet(a, Words) \in Int
      /\ Unshown(s, e) \in Int /\ was \in Seq(Lines) /\ is \in Seq(Lines)
      /\ e.dropped \in Nat
    BY AccountTyped
<1>5. /\ \A w \in Words : CountOf(s, w) \in Int /\ CountOf(was, w) \in Int
      /\ DroppedIn(s) \in Int /\ DroppedIn(was) \in Int
    BY <1>4, CountsAreTotals
<1> HIDE DEF was, is, a, b
<1>6. /\ up \in [Words -> Nat]
      /\ \A w \in Words : up[w] = IF w = what THEN r[w] + 1 ELSE r[w]
    BY <1>3 DEF Raised
<1>7. r \in [Words -> Int]
    BY <1>3
<1>8. /\ SumFunctionOnSet(up, Words) = SumFunctionOnSet(r, Words) + 1
      /\ SumFunctionOnSet(r, Words) \in Int
    BY <1>7, RaisedByOne
<1> HIDE DEF up
<1>9. CASE /\ f.dropped = e.dropped
           /\ \A w \in Words : CountOf(is, w) = CountOf(was, w) + (IF w = what THEN 1 ELSE 0)
    <2>1. \A w \in Words : b[w] = IF w = what THEN a[w] + 1 ELSE a[w]
        BY <1>2, <1>5, <1>9
    <2>2. b = Raised(a, {what})
        BY <1>4, <2>1 DEF Raised
    <2>3. SumFunctionOnSet(b, Words) = SumFunctionOnSet(a, Words) + 1
        BY <1>4, <2>2, RaisedByOne
    <2>4. Unshown(s, f) = Unshown(s, e)
        BY <1>1, <1>2, <1>9
    <2>5. ASSUME NEW w \in Words
          PROVE  b[w] <= up[w]
        <3>1. a[w] \in Int /\ r[w] \in Nat /\ a[w] <= r[w]
            BY <1>3, <1>4
        <3>2. \/ b[w] = a[w] + 1 /\ up[w] = r[w] + 1
              \/ b[w] = a[w] /\ up[w] = r[w]
            BY <1>6, <2>1
        <3> QED BY <3>1, <3>2
    <2>6. SumFunctionOnSet(b, Words) + Unshown(s, f) = SumFunctionOnSet(up, Words)
        BY <1>3, <1>4, <1>8, <2>3, <2>4
    <2> QED BY <1>6, <2>5, <2>6 DEF Balance, b, up
<1>10. CASE /\ f.dropped = e.dropped + 1
            /\ \A w \in Words : CountOf(is, w) = CountOf(was, w)
    <2>1. b = a
        BY <1>2, <1>10
    <2>2. Unshown(s, f) = Unshown(s, e) + 1
        BY <1>1, <1>2, <1>4, <1>5, <1>10
    <2>3. ASSUME NEW w \in Words
          PROVE  b[w] <= up[w]
        <3>1. a[w] \in Int /\ r[w] \in Nat /\ a[w] <= r[w] /\ b[w] = a[w]
            BY <1>3, <1>4, <2>1
        <3>2. up[w] = r[w] + 1 \/ up[w] = r[w]
            BY <1>6
        <3> QED BY <3>1, <3>2
    <2>4. SumFunctionOnSet(b, Words) + Unshown(s, f) = SumFunctionOnSet(up, Words)
        BY <1>3, <1>4, <1>8, <2>1, <2>2
    <2> QED BY <1>6, <2>3, <2>4 DEF Balance, b, up
<1> QED BY <1>1, <1>9, <1>10

LEMMA RaisedTwice ==
    ASSUME NEW r \in [Words -> Nat], NEW A, NEW B, A \intersect B = {}
    PROVE  Raised(Raised(r, A), B) = Raised(r, A \union B)
BY DEF Raised

LEMMA FoldCounted ==
    ASSUME NEW s \in Seq(Lines), NEW e, EventsInv(e), NEW f, EventsInv(f), NEW what,
           NEW counted \in SUBSET Words, Folds(e, f, what, counted), NEW r, Balance(s, e, r)
    PROVE  Balance(s, f, Raised(r, {what} \intersect counted))
<1>1. CASE what \in counted
    <2>1. {what} \intersect counted = {what} /\ Counts(e, f, what) /\ what \in Words
        BY <1>1 DEF Folds
    <2> QED BY <2>1, OneCounted
<1>2. CASE what \notin counted
    <2>1. {what} \intersect counted = {} /\ f = e
        BY <1>2 DEF Folds
    <2>2. r \in [Words -> Nat]
        BY DEF Balance
    <2>3. Raised(r, {}) = r
        BY <2>2 DEF Raised
    <2> QED BY <2>1, <2>3
<1> QED BY <1>1, <1>2

LEMMA SyncCounted ==
    ASSUME NEW s \in Seq(Lines), NEW e, EventsInv(e), NEW r, Balance(s, e, r),
           NEW counted \in SUBSET (Reasons \intersect SyncReasons)
    PROVE  Balance(s, FoldSync(e, counted), Raised(r, counted))
<1>1. counted \in SUBSET Words /\ counted \in SUBSET Reasons
    BY DEF Words
<1>2. PICK a, b, c, d :
        /\ EventsInv(a) /\ EventsInv(b) /\ EventsInv(c) /\ EventsInv(d)
        /\ Folds(e, a, "locked", counted) /\ Folds(a, b, "lost", counted)
        /\ Folds(b, c, "slipped", counted) /\ Folds(c, d, "discarded", counted)
        /\ FoldSync(e, counted) = d
    BY <1>1, SyncFolded
<1> DEFINE A == {"locked"} \intersect counted
           B == {"lost"} \intersect counted
           C == {"slipped"} \intersect counted
           D == {"discarded"} \intersect counted
<1>3. /\ A \intersect B = {} /\ (A \union B) \intersect C = {}
      /\ ((A \union B) \union C) \intersect D = {}
      /\ ((A \union B) \union C) \union D = counted
    BY DEF SyncReasons
<1>4. r \in [Words -> Nat]
    BY DEF Balance
<1>5. Balance(s, a, Raised(r, A))
    BY <1>1, <1>2, FoldCounted
<1>6. Balance(s, b, Raised(Raised(r, A), B))
    BY <1>1, <1>2, <1>5, FoldCounted
<1>7. Balance(s, c, Raised(Raised(Raised(r, A), B), C))
    BY <1>1, <1>2, <1>6, FoldCounted
<1>8. Balance(s, d, Raised(Raised(Raised(Raised(r, A), B), C), D))
    BY <1>1, <1>2, <1>7, FoldCounted
<1> HIDE DEF A, B, C, D
<1>9. Raised(Raised(r, A), B) = Raised(r, A \union B)
    BY <1>3, <1>4, RaisedTwice
<1>10. Raised(Raised(r, A \union B), C) = Raised(r, (A \union B) \union C)
    BY <1>3, <1>4, RaisedTwice
<1>11. Raised(Raised(r, (A \union B) \union C), D) = Raised(r, counted)
    BY <1>3, <1>4, RaisedTwice
<1> QED BY <1>2, <1>8, <1>9, <1>10, <1>11

LEMMA PacketsCounted ==
    ASSUME NEW s \in Seq(Lines), NEW e, EventsInv(e), NEW r, Balance(s, e, r),
           NEW lost \in BOOLEAN, NEW lines \in SeqOf(Worded, 1)
    PROVE  Balance(s, FoldPackets(e, lost, lines),
                   Raised(r, (IF lost THEN {PacketLoss} ELSE {}) \union Range(lines)))
<1>1. PICK a, b :
        /\ EventsInv(a) /\ EventsInv(b)
        /\ IF lost THEN Counts(e, a, PacketLoss) ELSE a = e
        /\ \/ Range(lines) = {} /\ b = a
           \/ \E what \in Worded : Range(lines) = {what} /\ Counts(a, b, what)
        /\ FoldPackets(e, lost, lines) = b
    BY PacketsFolded
<1> DEFINE A == IF lost THEN {PacketLoss} ELSE {}
           B == Range(lines)
<1>2. r \in [Words -> Nat]
    BY DEF Balance
<1>3. PacketLoss \in Words /\ Worded \subseteq Words /\ PacketLoss \notin Worded
    BY LinkEventsAssumption DEF Words
<1>4. \A t : t \in [Words -> Nat] => Raised(t, {}) = t
    BY DEF Raised
<1>5. Balance(s, a, Raised(r, A))
    <2>1. CASE lost
        BY <1>1, <1>3, <2>1, OneCounted
    <2>2. CASE ~lost
        BY <1>1, <1>2, <1>4, <2>2
    <2> QED BY <2>1, <2>2
<1>6. Raised(r, A) \in [Words -> Nat]
    BY <1>2 DEF Raised
<1>7. Balance(s, b, Raised(Raised(r, A), B)) /\ A \intersect B = {}
    <2>1. CASE B = {} /\ b = a
        BY <1>4, <1>5, <1>6, <2>1
    <2>2. CASE \E what \in Worded : B = {what} /\ Counts(a, b, what)
        <3>1. PICK what \in Worded : B = {what} /\ Counts(a, b, what)
            BY <2>2
        <3>2. what \in Words /\ A \intersect {what} = {}
            BY <1>3, <3>1
        <3> HIDE DEF A, B
        <3>3. Balance(s, b, Raised(Raised(r, A), {what}))
            BY <1>1, <1>5, <3>1, <3>2, OneCounted
        <3> QED BY <3>1, <3>2, <3>3
    <2> QED BY <1>1, <2>1, <2>2
<1> HIDE DEF A, B
<1>8. Raised(Raised(r, A), B) = Raised(r, A \union B)
    BY <1>2, <1>7, RaisedTwice
<1> QED BY <1>1, <1>7, <1>8 DEF A, B


LEMMA SameBalance ==
    ASSUME NEW s \in Seq(Lines), NEW e, NEW t \in Seq(Lines), NEW f, NEW r, Balance(s, e, r),
           \A w \in Words : Accounted(t, f)[w] = Accounted(s, e)[w],
           Unshown(t, f) = Unshown(s, e)
    PROVE  Balance(t, f, r)
<1>1. Accounted(t, f) = Accounted(s, e)
    BY DEF Accounted
<1> QED BY <1>1 DEF Balance

LEMMA SessionBalance ==
    ASSUME NEW s \in Seq(Lines), NEW e, EventsInv(e), NEW r, Balance(s, e, r),
           NEW lines, OfSession(lines)
    PROVE  Balance(s \o lines, e, r)
<1> DEFINE t == s \o lines
           q == CloseRun(e).queued
<1>1. lines \in Seq(Lines)
    BY DEF OfSession
<1>2. t \in Seq(Lines)
    BY <1>1, ConcatProperties
<1>3. ASSUME NEW w \in Words
      PROVE  CountOf(t, w) = CountOf(s, w) /\ DroppedIn(t) = DroppedIn(s)
    <2>1. /\ CountOf(t, w) = CountOf(s, w) + CountOf(lines, w)
          /\ DroppedIn(t) = DroppedIn(s) + DroppedIn(lines)
        BY <1>1, CountsJoined
    <2>2. CountOf(lines, w) = 0 /\ DroppedIn(lines) = 0
        BY SessionCountsNone
    <2>3. CountOf(s, w) \in Int /\ DroppedIn(s) \in Int
        BY CountsAreTotals
    <2> HIDE DEF t
    <2> QED BY <2>1, <2>2, <2>3
<1> HIDE DEF t
<1>4. PacketLoss \in Words
    BY LinkEventsAssumption DEF Words
<1>5. DroppedIn(t) = DroppedIn(s)
    BY <1>3, <1>4
<1>6. \A w \in Words : Accounted(t, e)[w] = Accounted(s, e)[w]
    BY <1>3 DEF Accounted
<1>7. Unshown(t, e) = Unshown(s, e)
    BY <1>5 DEF Unshown
<1>8. Balance(t, e, r)
    BY <1>2, <1>6, <1>7, SameBalance
<1> QED BY <1>8 DEF t

LEMMA DrainCounts ==
    ASSUME NEW e, EventsInv(e), NEW w \in Words
    PROVE  /\ CountOf(Drained(e), w) = CountOf(CloseRun(e).queued, w)
           /\ DroppedIn(Drained(e)) = DroppedIn(CloseRun(e).queued) + e.dropped
<1> DEFINE q == CloseRun(e).queued
           last == Line(Further, e.dropped)
<1>1. /\ q \in Seq(Lines) /\ e.dropped \in Nat
      /\ e.dropped = 0 => Drained(e) = q
      /\ e.dropped > 0 => Drained(e) = Append(q, last) /\ last \in Lines
    BY DrainedLines
<1>2. last.what = Further /\ last.more = e.dropped /\ w # Further
    BY WordsAreFew DEF Line
<1> HIDE DEF q, last
<1>3. CountOf(q, w) \in Int /\ DroppedIn(q) \in Int
    BY <1>1, CountsAreTotals
<1>4. CASE e.dropped = 0
    BY <1>1, <1>3, <1>4 DEF q
<1>5. CASE e.dropped > 0
    <2>1. /\ CountOf(Append(q, last), w)
               = CountOf(q, w) + (IF last.what = w THEN last.more + 1 ELSE 0)
          /\ DroppedIn(Append(q, last))
               = DroppedIn(q) + (IF last.what = Further THEN last.more ELSE 0)
        BY <1>1, <1>5, CountsAppended
    <2>2. CountOf(Drained(e), w) = CountOf(q, w) + 0
          /\ DroppedIn(Drained(e)) = DroppedIn(q) + e.dropped
        BY <1>1, <1>2, <1>5, <2>1
    <2>3. CountOf(Drained(e), w) = CountOf(q, w)
        BY <1>3, <2>2
    <2> QED BY <2>2, <2>3 DEF q
<1> QED BY <1>1, <1>4, <1>5

(* A drain puts what is held behind what was said. *)
LEMMA DrainBalance ==
    ASSUME NEW s \in Seq(Lines), NEW e, EventsInv(e), NEW r, Balance(s, e, r)
    PROVE  /\ s \o Drained(e) \in Seq(Lines)
           /\ Balance(s \o Drained(e), NoEvents, r)
<1> DEFINE d == Drained(e)
           q == CloseRun(e).queued
           t == s \o d
           none == CloseRun(NoEvents).queued
<1>1. d \in Seq(Lines) /\ q \in Seq(Lines) /\ e.dropped \in Nat
    BY DrainedLines
<1>2. t \in Seq(Lines)
    BY <1>1, ConcatProperties
<1>3. none = <<>> /\ NoEvents.dropped = 0
    BY NothingHeld DEF NoEvents
<1>4. ASSUME NEW w \in Words
      PROVE  /\ CountOf(t, w) = CountOf(s, w) + CountOf(q, w)
             /\ CountOf(s, w) \in Int /\ CountOf(q, w) \in Int
             /\ DroppedIn(t) = DroppedIn(s) + (DroppedIn(q) + e.dropped)
             /\ DroppedIn(s) \in Int /\ DroppedIn(q) \in Int
    <2>1. /\ CountOf(t, w) = CountOf(s, w) + CountOf(d, w)
          /\ DroppedIn(t) = DroppedIn(s) + DroppedIn(d)
        BY <1>1, CountsJoined
    <2>2. CountOf(d, w) = CountOf(q, w) /\ DroppedIn(d) = DroppedIn(q) + e.dropped
        BY DrainCounts
    <2>3. CountOf(s, w) \in Int /\ DroppedIn(s) \in Int
        BY CountsAreTotals
    <2>4. CountOf(q, w) \in Int /\ DroppedIn(q) \in Int
        BY <1>1, CountsAreTotals
    <2> HIDE DEF t, d, q
    <2> QED BY <2>1, <2>2, <2>3, <2>4
<1> HIDE DEF t, d, q, none
<1>5. \A w : CountOf(none, w) = 0 /\ DroppedIn(none) = 0
    BY <1>3, CountsOfNone
<1>6. \A w \in Words : Accounted(t, NoEvents)[w] = Accounted(s, e)[w]
    <2> SUFFICES ASSUME NEW w \in Words
                 PROVE  Accounted(t, NoEvents)[w] = Accounted(s, e)[w]
        OBVIOUS
    <2>1. Accounted(t, NoEvents)[w] = CountOf(t, w) + CountOf(none, w)
          /\ Accounted(s, e)[w] = CountOf(s, w) + CountOf(q, w)
        BY DEF Accounted, none, q
    <2> QED BY <1>4, <1>5, <2>1
<1>7. Unshown(t, NoEvents) = Unshown(s, e)
    <2>1. PacketLoss \in Words
        BY LinkEventsAssumption DEF Words
    <2>2. DroppedIn(t) = DroppedIn(s) + (DroppedIn(q) + e.dropped)
          /\ DroppedIn(s) \in Int /\ DroppedIn(q) \in Int
        BY <1>4, <2>1
    <2>3. DroppedIn(none) = 0
        BY <1>5
    <2>4. Unshown(t, NoEvents) = (DroppedIn(t) + DroppedIn(none)) + NoEvents.dropped
          /\ Unshown(s, e) = (DroppedIn(s) + DroppedIn(q)) + e.dropped
        BY DEF Unshown, none, q
    <2> QED BY <1>1, <1>3, <2>2, <2>3, <2>4
<1>8. Balance(t, NoEvents, r)
    BY <1>2, <1>6, <1>7, SameBalance
<1> QED BY <1>2, <1>8 DEF t, d

LEMMA OfSessionSaid ==
    /\ OfSession(<<>>)
    /\ \A a \in SessionWords : OfSession(<<Session(a)>>)
    /\ \A a, b \in SessionWords : OfSession(<<Session(a), Session(b)>>)
<1>1. \A a \in SessionWords : Session(a).what = a
    BY DEF Session, Line
<1>2. OfSession(<<>>)
    BY EmptySeq DEF OfSession, Range
<1>3. ASSUME NEW a \in SessionWords
      PROVE  OfSession(<<Session(a)>>)
    BY <1>1, OneSaid DEF OfSession
<1>4. ASSUME NEW a \in SessionWords, NEW b \in SessionWords
      PROVE  OfSession(<<Session(a), Session(b)>>)
    BY <1>1, TwoSaid DEF OfSession
<1> QED BY <1>2, <1>3, <1>4

LEMMA LinesJoin ==
    \A a, b, c \in Seq(Lines) : (a \o b) \o c = a \o (b \o c)
BY ConcatAssociative

(* A step says something of the session, drains, or holds a report. *)
Quietly == UNCHANGED <<events, reported>> /\ \E lines : OfSession(lines) /\ said' = said \o lines
Drains ==
    /\ events' = NoEvents /\ UNCHANGED reported
    /\ \E lines : OfSession(lines) /\ said' = said \o (Drained(events) \o lines)

LEMMA SaidOrReported ==
    ASSUME LogInv, EventsInv(events), [Next]_vars
    PROVE  Quietly \/ Drains \/ (UNCHANGED said /\ (ReportFrame \/ ReportSync \/ ReportPackets))
<1>1. said \in Seq(Lines)
    BY DEF LogInv
<1>2. UNCHANGED <<events, reported, said>> => Quietly
    <2>1. said \o <<>> = said
        BY <1>1, ConcatEmptySeq
    <2> QED BY <2>1, OfSessionSaid DEF Quietly
<1>3. ASSUME UNCHANGED <<events, reported>>, NEW lines, OfSession(lines), Say(lines)
      PROVE  Quietly
    BY <1>3 DEF Quietly, Say
<1>4. CASE \E opens \in BOOLEAN : OpenRecording(opens)
    <2>1. /\ UNCHANGED <<events, reported>>
          /\ \/ UNCHANGED said
             \/ Say(<<Session("recording")>>)
             \/ Say(<<Session("no recording")>>)
        BY <1>4 DEF OpenRecording, linkVars, logVars
    <2>2. /\ OfSession(<<Session("recording")>>)
          /\ OfSession(<<Session("no recording")>>)
        BY OfSessionSaid DEF SessionWords, Quiet
    <2> QED BY <1>2, <1>3, <2>1, <2>2
<1>5. CASE NotOpened
    <2>1. UNCHANGED <<events, reported>> /\ (UNCHANGED said \/ Say(<<Session("not opened")>>))
        BY <1>5 DEF NotOpened, linkVars, logVars
    <2>2. OfSession(<<Session("not opened")>>)
        BY OfSessionSaid DEF SessionWords
    <2> QED BY <1>2, <1>3, <2>1, <2>2
<1>6. CASE ReadBytes \/ Due \/ ReadOn \/ Stopped \/ Record \/ FeedPipeline \/ QueueClosed
             \/ Close \/ Dropped \/ FileWritten \/ Tick \/ Check \/ Interrupt \/ Shutdown
             \/ Leave \/ UNCHANGED vars
    <2>1. UNCHANGED <<events, reported, said>>
        BY <1>6 DEF ReadBytes, Due, ReadOn, Stopped, Record, FeedPipeline, QueueClosed, Close,
             Dropped, FileWritten, Tick, Check, Interrupt, Shutdown, Leave, vars, linkVars,
             logVars
    <2> QED BY <1>2, <2>1
<1>7. CASE SourceEnds
    <2>1. UNCHANGED <<events, reported, said>>
        BY <1>7 DEF SourceEnds, logVars
    <2> QED BY <1>2, <2>1
<1>8. CASE SayEnded
    <2> DEFINE d == Drained(events)
               last == Session("the source ended")
               lines == <<last>>
    <2>1. said' = said \o Append(d, last) /\ events' = NoEvents /\ UNCHANGED reported
        BY <1>8 DEF SayEnded, Say
    <2>2. d \in Seq(Lines)
        BY DrainedLines
    <2>3. OfSession(lines) /\ last \in Lines
        BY OfSessionSaid, SessionLines DEF SessionWords, Quiet
    <2> HIDE DEF d, last
    <2>4. Append(d, last) = d \o lines
        BY <2>2, <2>3, AppendIsConcat
    <2> HIDE DEF lines
    <2> QED BY <2>1, <2>3, <2>4 DEF Drains, d
<1>9. CASE \E kind \in ErrorKinds : ReadFails(kind)
    <2>1. PICK kind \in ErrorKinds : ReadFails(kind)
        BY <1>9
    <2>2. /\ UNCHANGED <<events, reported>>
          /\ \/ Say(<<Session("read failed")>>)
             \/ Say(<<Session("read failed"), Session("the source is gone")>>)
        BY <2>1 DEF ReadFails, linkVars
    <2>3. /\ OfSession(<<Session("read failed")>>)
          /\ OfSession(<<Session("read failed"), Session("the source is gone")>>)
        BY OfSessionSaid DEF SessionWords
    <2> QED BY <1>3, <2>2, <2>3
<1>10. CASE Written \/ Flushed
    <2>1. /\ UNCHANGED <<events, reported>>
          /\ \/ UNCHANGED said
             \/ Say(<<Session("recording stopped")>>)
             \/ Say(<<Session("recording failed")>>)
        BY <1>10 DEF Written, Flushed, linkVars, logVars
    <2>2. /\ OfSession(<<Session("recording stopped")>>)
          /\ OfSession(<<Session("recording failed")>>)
        BY OfSessionSaid DEF SessionWords
    <2> QED BY <1>2, <1>3, <2>1, <2>2
<1>11. CASE \E sent \in BOOLEAN : Restarted(sent)
    <2>1. UNCHANGED <<events, reported>> /\ Say(<<Session("the stream restarted")>>)
        BY <1>11 DEF Restarted
    <2>2. OfSession(<<Session("the stream restarted")>>)
        BY OfSessionSaid DEF SessionWords, Quiet
    <2> QED BY <1>3, <2>1, <2>2
<1>12. CASE \E sent \in BOOLEAN : Sent(sent)
    <2>1. said' = said \o Drained(events) /\ events' = NoEvents /\ UNCHANGED reported
        BY <1>12 DEF Sent, Say
    <2>2. Drained(events) \o <<>> = Drained(events)
        BY DrainedLines, ConcatEmptySeq
    <2> QED BY <2>1, <2>2, OfSessionSaid DEF Drains
<1>13. CASE DecoderGone
    <2>1. /\ UNCHANGED <<events, reported>>
          /\ Say(<<Session("closed")>>) \/ Say(<<Session("the decode thread is gone")>>)
        BY <1>13 DEF DecoderGone, linkVars
    <2>2. /\ OfSession(<<Session("closed")>>)
          /\ OfSession(<<Session("the decode thread is gone")>>)
        BY OfSessionSaid DEF SessionWords
    <2> QED BY <1>3, <2>1, <2>2
<1>14. CASE ReportFrame \/ ReportSync \/ ReportPackets
    <2>1. UNCHANGED said
        BY <1>14 DEF ReportFrame, ReportSync, ReportPackets, Report, logVars
    <2> QED BY <1>14, <2>1
<1>15. CASE Open \/ Behind
    <2>1. /\ UNCHANGED <<events, reported>>
          /\ Say(<<Session("reading")>>) \/ Say(<<Session("the decoder is behind")>>)
        BY <1>15 DEF Open, Behind, linkVars
    <2>2. /\ OfSession(<<Session("reading")>>)
          /\ OfSession(<<Session("the decoder is behind")>>)
        BY OfSessionSaid DEF SessionWords, Quiet
    <2> QED BY <1>3, <2>1, <2>2
<1> QED BY <1>4, <1>5, <1>6, <1>7, <1>8, <1>9, <1>10, <1>11, <1>12, <1>13, <1>14, <1>15 DEF Next

LEMMA BalanceInit == Init => Balance(said, events, reported)
<1> SUFFICES ASSUME Init
             PROVE  Balance(said, events, reported)
    OBVIOUS
<1>1. said = <<>> /\ events = NoEvents /\ reported = [w \in Words |-> 0]
    BY DEF Init, Words
<1>2. CloseRun(events).queued = <<>> /\ events.dropped = 0
    BY <1>1, NothingHeld DEF NoEvents
<1>3. \A w : CountOf(<<>>, w) = 0 /\ DroppedIn(<<>>) = 0
    BY CountsOfNone
<1>4. Accounted(said, events) = reported /\ Unshown(said, events) = 0
    <2>1. \A w \in Words : CountOf(said, w) + CountOf(CloseRun(events).queued, w) = 0
        BY <1>1, <1>2, <1>3
    <2>2. (DroppedIn(said) + DroppedIn(CloseRun(events).queued)) + events.dropped = 0
        BY <1>1, <1>2, <1>3
    <2> QED BY <1>1, <2>1, <2>2 DEF Accounted, Unshown
<1>5. reported \in [Words -> Nat] /\ \A w \in Words : reported[w] <= reported[w]
    BY <1>1
<1>6. SumFunctionOnSet(reported, Words) \in Int
    BY <1>5, WordsAreFew, SumIsInt
<1> QED BY <1>4, <1>5, <1>6 DEF Balance

LEMMA BalanceStep ==
    LogInv /\ EventsInv(events) /\ Balance(said, events, reported) /\ [Next]_vars
        => Balance(said', events', reported')
<1> SUFFICES ASSUME LogInv, EventsInv(events), Balance(said, events, reported), [Next]_vars
             PROVE  Balance(said', events', reported')
    OBVIOUS
<1>1. said \in Seq(Lines) /\ reported \in [Words -> Nat]
    BY DEF LogInv, Balance
<1>2. CASE Quietly
    <2>1. PICK lines : OfSession(lines) /\ said' = said \o lines
        BY <1>2 DEF Quietly
    <2>2. Balance(said \o lines, events, reported)
        BY <1>1, <2>1, SessionBalance
    <2> QED BY <1>2, <2>1, <2>2 DEF Quietly
<1>3. CASE Drains
    <2>1. PICK lines : OfSession(lines) /\ said' = said \o (Drained(events) \o lines)
        BY <1>3 DEF Drains
    <2> DEFINE d == Drained(events)
               t == said \o d
    <2>2. t \in Seq(Lines) /\ Balance(t, NoEvents, reported)
        BY <1>1, DrainBalance
    <2>3. EventsInv(NoEvents)
        BY NothingHeld
    <2>4. d \in Seq(Lines) /\ lines \in Seq(Lines)
        BY <2>1, DrainedLines DEF OfSession
    <2> HIDE DEF d
    <2>5. said \o (d \o lines) = t \o lines
        BY <1>1, <2>4, LinesJoin
    <2> HIDE DEF t
    <2>6. Balance(t \o lines, NoEvents, reported)
        BY <2>1, <2>2, <2>3, SessionBalance
    <2> QED BY <1>3, <2>1, <2>5, <2>6 DEF Drains, d
<1>4. ASSUME UNCHANGED said, NEW held, NEW whats, Report(held, whats),
             Balance(said, held, Raised(reported, whats))
      PROVE  Balance(said', events', reported')
    <2>1. events' = held /\ reported' = Raised(reported, whats)
        BY <1>4 DEF Report, Raised
    <2> QED BY <1>4, <2>1
<1>5. CASE UNCHANGED said /\ ReportFrame
    <2>1. PICK reason \in Reasons : /\ Report(PushReason(events, reason), {reason})
                                    /\ EventsInv(events') /\ Counts(events, events', reason)
        BY <1>5, FrameReported
    <2>2. events' = PushReason(events, reason) /\ reason \in Words
        BY <2>1 DEF Report, Words
    <2>3. Balance(said, events', Raised(reported, {reason}))
        BY <1>1, <2>1, <2>2, OneCounted
    <2> QED BY <1>4, <1>5, <2>1, <2>2, <2>3
<1>6. CASE UNCHANGED said /\ ReportSync
    <2>1. PICK counted \in SUBSET (Reasons \intersect SyncReasons) :
              Report(FoldSync(events, counted), counted)
        BY <1>6 DEF ReportSync
    <2>2. Balance(said, FoldSync(events, counted), Raised(reported, counted))
        BY <1>1, SyncCounted
    <2> QED BY <1>4, <1>6, <2>1, <2>2
<1>7. CASE UNCHANGED said /\ ReportPackets
    <2>1. PICK lost \in BOOLEAN, lines \in SeqOf(Worded, 1) :
              Report(FoldPackets(events, lost, lines),
                     (IF lost THEN {PacketLoss} ELSE {}) \union Range(lines))
        BY <1>7 DEF ReportPackets
    <2>2. Balance(said, FoldPackets(events, lost, lines),
                  Raised(reported, (IF lost THEN {PacketLoss} ELSE {}) \union Range(lines)))
        BY <1>1, PacketsCounted
    <2> QED BY <1>4, <1>7, <2>1, <2>2
<1> QED BY <1>2, <1>3, <1>5, <1>6, <1>7, SaidOrReported

LEMMA BalanceCounts ==
    ASSUME LogInv, EventsInv(events), Balance(said, events, reported)
    PROVE  LinesAreCounted
<1> DEFINE q == CloseRun(events).queued
           told == said \o q
           counts == [w \in DOMAIN reported |-> CountOf(told, w)]
<1>1. said \in Seq(Lines) /\ q \in Seq(Lines) /\ events.dropped \in Nat
    BY DrainedLines DEF LogInv
<1>2. DOMAIN reported = Words /\ reported \in [Words -> Nat]
    BY DEF Balance
<1>3. \A w : /\ CountOf(told, w) = CountOf(said, w) + CountOf(q, w)
             /\ DroppedIn(told) = DroppedIn(said) + DroppedIn(q)
    BY <1>1, CountsJoined
<1>4. DroppedIn(told) = DroppedIn(said) + DroppedIn(q)
    BY <1>3
<1> HIDE DEF told, q
<1>5. Accounted(said, events) = counts
    BY <1>2, <1>3 DEF Accounted, q
<1>6. \A w \in DOMAIN reported : CountOf(told, w) <= reported[w]
    <2>1. \A w \in Words : Accounted(said, events)[w] <= reported[w]
        BY DEF Balance
    <2> QED BY <1>2, <1>5, <2>1
<1>7. SumFunction(counts) = SumFunctionOnSet(Accounted(said, events), Words)
      /\ SumFunction(reported) = SumFunctionOnSet(reported, Words)
    BY <1>2, <1>5 DEF SumFunction
<1>8. Unshown(said, events) = DroppedIn(told) + events.dropped
    BY <1>4 DEF Unshown, q
<1>9. SumFunctionOnSet(Accounted(said, events), Words) + Unshown(said, events)
        = SumFunctionOnSet(reported, Words)
    BY DEF Balance
<1>10. SumFunction(counts) \in Int /\ Unshown(said, events) \in Int /\ DroppedIn(told) \in Int
    <2>1. told \in Seq(Lines)
        BY <1>1, ConcatProperties DEF told
    <2>2. CountOf(told, Further) \in Int /\ DroppedIn(told) \in Int
        BY <2>1, CountsAreTotals
    <2>3. SumFunctionOnSet(Accounted(said, events), Words) \in Int
          /\ Unshown(said, events) \in Int
        BY <1>1, AccountTyped
    <2> QED BY <1>7, <2>2, <2>3
<1>11. (SumFunction(counts) + DroppedIn(told)) + events.dropped = SumFunction(reported)
    BY <1>1, <1>7, <1>8, <1>9, <1>10
<1> QED BY <1>6, <1>11 DEF LinesAreCounted, told, q, counts

(* However many reports, whatever their order, whatever the queue holds and *)
(* wherever in between it is drained: the lines told and held, their        *)
(* repeats and the count of what is not shown add up to the reports made,   *)
(* and no line stands for more than were made of it                         *)
(* (pipeline.rs:386-475).                                                   *)
THEOREM ReportsAreCounted == AcquisitionSpec => []LinesAreCounted
<1> DEFINE Inv == RecInv /\ Balance(said, events, reported)
<1>1. Init => Inv
    BY RecInvInit, BalanceInit
<1>2. Inv /\ [Next]_vars => Inv'
    BY RecInvStep, BalanceStep DEF RecInv
<1>3. Inv => LinesAreCounted
    BY BalanceCounts DEF RecInv
<1> QED BY <1>1, <1>2, <1>3, PTL DEF AcquisitionSpec


-----------------------------------------------------------------------------
(***************************************************************************)
(* A print shows what is new.                                               *)
(***************************************************************************)

(* The parts of PrinterMissesNone: the last lines of the runs of what was   *)
(* said, those the log still holds, and those of them a print from there    *)
(* has to show.                                                             *)
RunEnds(past) == {i \in DOMAIN past : i = Len(past) \/ past[i + 1] # past[i]}
HeldIn(past) == {i \in RunEnds(past) : Cardinality({j \in RunEnds(past) : j >= i}) <= LogCapacity}
FreshIn(past, from) == {i \in HeldIn(past) : i > from}
Nth(S, k) == CHOOSE i \in S : Cardinality({j \in S : j <= i}) = k
ShownAt(past, i) ==
    [line |-> past[i], times |-> i - (Max({0} \union {j \in RunEnds(past) : j < i}) + 1) + 1]
ShownIn(past, from) ==
    [k \in 1..Cardinality(FreshIn(past, from)) |-> ShownAt(past, Nth(FreshIn(past, from), k))]

(* What the marks of a log give, in parts.                                  *)
Marked(b, E, s) ==
    /\ b \in [0..Len(E) -> Nat] /\ b[Len(E)] = Len(s) /\ Len(E) \in Nat /\ Len(s) \in Nat
    /\ \A i, j \in 0..Len(E) : i < j => b[i] < b[j]
Images(b, l, h) == {b[i] : i \in l..h}

LEMMA MarksAscend ==
    ASSUME NEW S, NEW E \in Seq(S), NEW s, NEW c, NEW b, Marks(b, E, s, c)
    PROVE  Marked(b, E, s)
<1>1. Len(E) \in Nat
    BY LenProperties
<1>2. b \in [0..Len(E) -> Nat] /\ b[Len(E)] = Len(s)
    BY DEF Marks
<1>3. \A i \in 1..Len(E) : b[i - 1] < b[i]
    BY DEF Marks
<1>4. \A i, j \in 0..Len(E) : i < j => b[i] < b[j]
    BY <1>1, <1>2, <1>3, Ascends
<1>5. Len(s) \in Nat
    BY <1>1, <1>2
<1> QED BY <1>1, <1>2, <1>4, <1>5 DEF Marked

LEMMA ImagesCounted ==
    ASSUME NEW n \in Nat, NEW b \in [0..n -> Nat],
           \A i, j \in 0..n : i < j => b[i] < b[j],
           NEW l \in 0..n, NEW h \in Nat, h <= n, l <= h + 1
    PROVE  IsFiniteSet(Images(b, l, h)) /\ Cardinality(Images(b, l, h)) = h - l + 1
<1> DEFINE D == l..h
           f == [i \in D |-> b[i]]
           T == Images(b, l, h)
<1>1. D \subseteq 0..n /\ l \in Int /\ h \in Int
    OBVIOUS
<1>2. IsFiniteSet(D) /\ Cardinality(D) = h - l + 1
    <2>1. IsFiniteSet(D) /\ Cardinality(D) = IF l > h THEN 0 ELSE h - l + 1
        BY <1>1, FS_Interval
    <2>2. l > h => h - l + 1 = 0
        BY <1>1
    <2> QED BY <2>1, <2>2
<1>3. f \in Surjection(D, T)
    BY DEF Surjection, Images
<1>4. f \in Injection(D, T)
    <2>1. ASSUME NEW i \in D, NEW j \in D, i # j
          PROVE  b[i] # b[j]
        <3>1. i \in 0..n /\ j \in 0..n /\ (i < j \/ j < i)
            BY <1>1, <2>1
        <3>2. b[i] < b[j] \/ b[j] < b[i]
            BY <3>1
        <3>3. b[i] \in Nat /\ b[j] \in Nat
            BY <3>1
        <3> QED BY <3>2, <3>3
    <2>2. \A i, j \in D : f[i] = f[j] => i = j
        BY <2>1
    <2>3. f \in [D -> T]
        BY DEF Images
    <2> HIDE DEF f, D, T
    <2> QED BY <2>2, <2>3 DEF Injection, IsInjective
<1> HIDE DEF f, D, T
<1>5. IsFiniteSet(T) /\ (Cardinality(T) = Cardinality(D) <=> f \in Injection(D, T))
    BY <1>2, <1>3, FS_Surjection
<1> QED BY <1>2, <1>4, <1>5 DEF T

(* The marks are where the runs end.                                        *)
LEMMA MarksAreEnds ==
    ASSUME NEW S, NEW E \in Seq(S), NEW s, NEW b, DOMAIN s = 1..Len(s),
           Marks(b, E, s, LogCapacity)
    PROVE  /\ \A i \in 1..Len(E) : b[i] \in RunEnds(s)
           /\ b[0] > 0 => b[0] \in RunEnds(s) /\ Len(E) = LogCapacity
           /\ \A p \in RunEnds(s) : p > b[0] => \E i \in 1..Len(E) : p = b[i]
<1> DEFINE n == Len(E)
           m == Len(s)
<1>1. /\ b \in [0..n -> Nat] /\ b[n] = m /\ n \in Nat /\ m \in Nat
      /\ \A i, j \in 0..n : i < j => b[i] < b[j]
    BY MarksAscend DEF Marked
<1>2. \A i \in 1..n : \A p \in b[i - 1] + 1..b[i] : s[p] = E[i].line
    BY DEF Marks
<1>3. \A i \in 0..n - 1 : b[i] > 0 => s[b[i]] # s[b[i] + 1]
    BY DEF Marks
<1>4. b[0] > 0 => n = LogCapacity
    BY DEF Marks
<1>5. \A p : p \in RunEnds(s) <=> p \in 1..m /\ (p = m \/ s[p + 1] # s[p])
    BY DEF RunEnds
<1> HIDE DEF n, m
<1>6. ASSUME NEW i \in 0..n, b[i] > 0
      PROVE  b[i] \in RunEnds(s)
    <2>1. b[i] \in Nat /\ (i # n => b[i] < b[n] /\ i \in 0..n - 1)
        BY <1>1
    <2>2. b[i] \in 1..m
        BY <1>1, <1>6, <2>1
    <2>3. i = n => b[i] = m
        BY <1>1
    <2> QED BY <1>3, <1>5, <1>6, <2>1, <2>2, <2>3
<1>7. \A i \in 1..n : i \in 0..n /\ b[i] > 0
    <2>1. \A i \in 1..n : i \in 0..n /\ 0 \in 0..n /\ 0 < i
        BY <1>1
    <2>2. \A i \in 1..n : b[0] < b[i] /\ b[0] \in Nat /\ b[i] \in Nat
        BY <1>1, <2>1
    <2> QED BY <2>1, <2>2
<1>8. 0 \in 0..n
    BY <1>1
<1>9. ASSUME NEW p \in RunEnds(s), p > b[0]
      PROVE  \E i \in 1..n : p = b[i]
    <2> DEFINE T == {i \in 0..n : p <= b[i]}
    <2>1. p \in 1..m /\ n \in 0..n
        BY <1>1, <1>5
    <2>a. p <= b[n]
        BY <1>1, <2>1
    <2>2. T # {} /\ T \subseteq Nat
        <3>1. n \in T
            BY <2>1, <2>a
        <3>2. 0..n \subseteq Nat
            BY <1>1
        <3> QED BY <3>1, <3>2
    <2>3. PICK i \in T : \A k \in T : i <= k
        <3> HIDE DEF T
        <3> QED BY <2>2, LeastNumber
    <2>4. i \in 0..n /\ p <= b[i] /\ b[i] \in Nat
        BY <1>1, <2>3
    <2>5. i # 0
        BY <1>1, <1>8, <1>9, <2>1, <2>4
    <2>6. i \in 1..n /\ i - 1 \in 0..n
        BY <1>1, <2>4, <2>5
    <2>7. b[i - 1] < p
        <3>1. i - 1 \notin T
            <4> HIDE DEF T
            <4> QED BY <1>1, <2>3, <2>4
        <3>2. b[i - 1] \in Nat
            BY <1>1, <2>6
        <3> QED BY <2>1, <2>6, <3>1, <3>2
    <2> SUFFICES ASSUME p # b[i]
                 PROVE  FALSE
        BY <2>6
    <2>8. b[i - 1] \in Nat /\ p \in b[i - 1] + 1..b[i] /\ p + 1 \in b[i - 1] + 1..b[i]
        BY <1>1, <2>1, <2>4, <2>6, <2>7
    <2>9. s[p] = s[p + 1]
        BY <1>2, <2>6, <2>8
    <2>10. p # m
        <3>1. b[i] <= m
            <4>1. i # n => b[i] < b[n]
                BY <1>1, <2>1, <2>4
            <4> QED BY <1>1, <2>4, <4>1
        <3> QED BY <1>1, <2>1, <2>4, <3>1
    <2> QED BY <1>5, <2>9, <2>10
<1> QED BY <1>4, <1>6, <1>7, <1>8, <1>9 DEF n

LEMMA HeldAreMarks ==
    ASSUME NEW S, NEW E \in Seq(S), NEW s, NEW b, DOMAIN s = 1..Len(s),
           Marks(b, E, s, LogCapacity), Len(E) <= LogCapacity
    PROVE  HeldIn(s) = Images(b, 1, Len(E))
<1> DEFINE n == Len(E)
           Later(p) == {j \in RunEnds(s) : j >= p}
<1>1. /\ b \in [0..n -> Nat] /\ b[n] = Len(s) /\ n \in Nat /\ Len(s) \in Nat
      /\ \A i, j \in 0..n : i < j => b[i] < b[j]
    BY MarksAscend DEF Marked
<1>2. /\ \A i \in 1..n : b[i] \in RunEnds(s)
      /\ b[0] > 0 => b[0] \in RunEnds(s) /\ n = LogCapacity
      /\ \A p \in RunEnds(s) : p > b[0] => \E i \in 1..n : p = b[i]
    BY MarksAreEnds
<1>3. RunEnds(s) \subseteq 1..Len(s)
    BY DEF RunEnds
<1>4. IsFiniteSet(RunEnds(s))
    <2>1. IsFiniteSet(1..Len(s))
        <3>1. 1 \in Int /\ Len(s) \in Int
            BY <1>1
        <3> QED BY <3>1, FS_Interval
    <2>2. RunEnds(s) \in SUBSET (1..Len(s))
        BY <1>3
    <2> QED BY <2>1, <2>2, FS_Subset
<1>5. \A p : p \in HeldIn(s) <=> p \in RunEnds(s) /\ Cardinality(Later(p)) <= LogCapacity
    BY DEF HeldIn
<1>6. LogCapacity \in Nat /\ n <= LogCapacity
    BY AcquisitionAssumption
<1> DEFINE I == Images(b, 1, n)
<1>7. /\ \A p : p \in I <=> \E i \in 1..n : p = b[i]
    BY DEF Images
<1>8. IsFiniteSet(I) /\ Cardinality(I) = n
    <2>1. CASE n = 0
        <3>1. I = {}
            BY <1>7, <2>1
        <3> HIDE DEF I
        <3> QED BY <2>1, <3>1, FS_EmptySet
    <2>2. CASE n # 0
        <3>1. 1 \in 0..n /\ n <= n /\ 1 <= n + 1 /\ n - 1 + 1 = n
            BY <1>1, <2>2
        <3> HIDE DEF n
        <3>2. IsFiniteSet(I) /\ Cardinality(I) = n - 1 + 1
            BY <1>1, <3>1, ImagesCounted
        <3> QED BY <3>1, <3>2
    <2> QED BY <2>1, <2>2
<1> HIDE DEF n, I
<1>9. \A i \in 1..n : b[0] < b[i] /\ b[0] \in Nat /\ b[i] \in Nat
    <2>1. \A i \in 1..n : i \in 0..n /\ 0 \in 0..n /\ 0 < i
        BY <1>1
    <2> QED BY <1>1, <2>1
<1>10. ASSUME NEW i \in 1..n
       PROVE  b[i] \in HeldIn(s)
    <2>1. Later(b[i]) \subseteq I
        <3>1. \A p \in Later(b[i]) : p \in RunEnds(s) /\ p > b[0]
            BY <1>3, <1>9
        <3> HIDE DEF Later
        <3> QED BY <1>2, <1>7, <3>1
    <2> DEFINE L == Later(b[i])
    <2> HIDE DEF L
    <2>2. Cardinality(L) <= Cardinality(I) /\ Cardinality(L) \in Nat
        <3>1. L \in SUBSET I
            BY <2>1 DEF L
        <3> QED BY <1>8, <3>1, FS_Subset, FS_CardinalityType
    <2>3. Cardinality(L) <= LogCapacity
        BY <1>1, <1>6, <1>8, <2>2
    <2> QED BY <1>2, <1>5, <2>3 DEF L
<1>11. ASSUME NEW p \in HeldIn(s)
       PROVE  p \in I
    <2>1. p \in RunEnds(s) /\ Cardinality(Later(p)) <= LogCapacity
        BY <1>5
    <2>2. p \in 1..Len(s) /\ 0 \in 0..n /\ b[0] \in Nat
        BY <1>1, <1>3, <2>1
    <2>3. p > b[0] => p \in I
        BY <1>2, <1>7, <2>1
    <2> SUFFICES ASSUME ~(p > b[0])
                 PROVE  FALSE
        BY <2>3
    <2>4. b[0] > 0 /\ p <= b[0] /\ n = LogCapacity
        BY <1>2, <2>2
    <2>5. p \notin I
        BY <1>7, <1>9, <2>2, <2>4
    <2> DEFINE L == Later(p)
    <2>6. I \union {p} \subseteq L
        <3>1. \A i \in 1..n : b[i] \in RunEnds(s) /\ b[i] >= p
            BY <1>2, <1>9, <2>2, <2>4
        <3>2. p \in L
            BY <2>1, <2>2
        <3> QED BY <1>7, <3>1, <3>2
    <2>7. IsFiniteSet(L)
        <3>1. L \in SUBSET RunEnds(s)
            OBVIOUS
        <3> HIDE DEF L
        <3> QED BY <1>4, <3>1, FS_Subset
    <2> HIDE DEF L
    <2>8. Cardinality(I \union {p}) = n + 1
        BY <1>8, <2>5, FS_AddElement
    <2>9. Cardinality(I \union {p}) <= Cardinality(L) /\ Cardinality(L) \in Nat
        BY <2>6, <2>7, FS_Subset, FS_CardinalityType
    <2>10. Cardinality(L) <= LogCapacity
        BY <2>1 DEF L
    <2> QED BY <1>1, <1>6, <2>4, <2>8, <2>9, <2>10
<1>12. HeldIn(s) = I
    <2>1. \A p \in I : p \in HeldIn(s)
        BY <1>7, <1>10
    <2> QED BY <1>11, <2>1
<1> QED BY <1>12 DEF I, n

(* What is new from a place on: the entries behind some k.                  *)
LEMMA NewFrom ==
    ASSUME NEW n \in Nat, NEW b \in [0..n -> Nat],
           \A i, j \in 0..n : i < j => b[i] < b[j], NEW from \in Nat
    PROVE  \E k \in 0..n : \A i \in 1..n : b[i] > from <=> i > k
<1> DEFINE T == {i \in 1..n : b[i] > from}
<1>1. T \subseteq Nat
    OBVIOUS
<1>2. CASE T = {}
    <2>1. \A i \in 1..n : ~(b[i] > from) /\ ~(i > n) /\ n \in 0..n
        BY <1>2
    <2>2. n \in 0..n
        OBVIOUS
    <2> QED BY <2>1, <2>2
<1>3. CASE T # {}
    <2>1. PICK k \in T : \A i \in T : k <= i
        <3> HIDE DEF T
        <3> QED BY <1>1, <1>3, LeastNumber
    <2>2. k \in 1..n /\ b[k] > from /\ k - 1 \in 0..n
        BY <2>1
    <2>3. ASSUME NEW i \in 1..n
          PROVE  b[i] > from <=> i > k - 1
        <3>0. i \in 0..n /\ k \in 0..n /\ b[i] \in Nat /\ b[k] \in Nat /\ k \in Nat /\ i \in Nat
            BY <2>2
        <3>1. CASE i > k - 1
            <4>1. i = k \/ k < i
                BY <3>0, <3>1
            <4>2. k < i => b[k] < b[i]
                BY <3>0
            <4> QED BY <2>2, <3>0, <3>1, <4>1, <4>2
        <3>2. CASE ~(i > k - 1)
            <4>1. ~(k <= i)
                BY <3>0, <3>2
            <4>2. i \notin T
                <5> HIDE DEF T
                <5> QED BY <2>1, <4>1
            <4> QED BY <3>2, <4>2
        <3> QED BY <3>1, <3>2
    <2> QED BY <2>2, <2>3
<1> QED BY <1>2, <1>3

(* The k-th of an ascending row of numbers.                                 *)
LEMMA NthIs ==
    ASSUME NEW n \in Nat, NEW b \in [0..n -> Nat],
           \A i, j \in 0..n : i < j => b[i] < b[j],
           NEW k \in 0..n, NEW j \in 1..n - k
    PROVE  Nth(Images(b, k + 1, n), j) = b[k + j]
<1> DEFINE F == Images(b, k + 1, n)
           Upto(q) == {p \in F : p <= q}
<1>1. \A q : q \in F <=> \E i \in k + 1..n : q = b[i]
    BY DEF Images
<1>2. ASSUME NEW i \in k + 1..n
      PROVE  Cardinality(Upto(b[i])) = i - k
    <2>1. /\ i \in 0..n /\ k + 1 \in 0..n /\ i \in Nat /\ i <= n /\ k + 1 <= i + 1
          /\ i - (k + 1) + 1 = i - k
        OBVIOUS
    <2>2. ASSUME NEW h \in k + 1..n
          PROVE  b[h] <= b[i] <=> h <= i
        <3>1. h \in 0..n /\ h \in Nat /\ b[h] \in Nat /\ b[i] \in Nat
            BY <2>1
        <3>2. (h < i => b[h] < b[i]) /\ (i < h => b[i] < b[h]) /\ (h = i => b[h] = b[i])
            BY <2>1, <3>1
        <3> QED BY <2>1, <3>1, <3>2
    <2>3. Upto(b[i]) = Images(b, k + 1, i)
        <3>1. \A q : q \in Upto(b[i]) <=> \E h \in k + 1..n : q = b[h] /\ h <= i
            <4> HIDE DEF F
            <4> QED BY <1>1, <2>2
        <3>2. \A q : q \in Images(b, k + 1, i) <=> \E h \in k + 1..i : q = b[h]
            BY DEF Images
        <3>3. \A h : h \in k + 1..i <=> h \in k + 1..n /\ h <= i
            BY <2>1
        <3> HIDE DEF Upto
        <3> QED BY <3>1, <3>2, <3>3
    <2>4. Cardinality(Images(b, k + 1, i)) = i - (k + 1) + 1
        BY <2>1, ImagesCounted
    <2> QED BY <2>1, <2>3, <2>4
<1>3. k + j \in k + 1..n /\ (k + j) - k = j
    OBVIOUS
<1> HIDE DEF F
<1>4. b[k + j] \in F /\ Cardinality(Upto(b[k + j])) = j
    BY <1>1, <1>2, <1>3
<1>5. ASSUME NEW q \in F, Cardinality(Upto(q)) = j
      PROVE  q = b[k + j]
    <2>1. PICK i \in k + 1..n : q = b[i]
        BY <1>1
    <2>2. i - k = j
        BY <1>2, <1>5, <2>1
    <2>3. i = k + j
        BY <2>2
    <2> QED BY <2>1, <2>3
<1>6. Nth(F, j) = CHOOSE q \in F : Cardinality(Upto(q)) = j
    BY DEF Nth
<1> HIDE DEF Upto
<1>7. Nth(F, j) = b[k + j]
    BY <1>4, <1>5, <1>6
<1> QED BY <1>7 DEF F

LEMMA GreatestIs ==
    ASSUME NEW T \in SUBSET Int, NEW x \in T, \A y \in T : y <= x
    PROVE  Max(T) = x
<1>1. \A y \in T : x >= y
    OBVIOUS
<1>2. \A z \in T : (\A y \in T : z >= y) => z = x
    OBVIOUS
<1> QED BY <1>1, <1>2 DEF Max

(* What is printed for the end of a run is the entry the log has of it. *)
LEMMA ShownAtMark ==
    ASSUME NEW S, NEW E \in Seq(Entry(S)), NEW s, NEW b, DOMAIN s = 1..Len(s),
           Marks(b, E, s, LogCapacity), NEW i \in 1..Len(E)
    PROVE  ShownAt(s, b[i]) = E[i]
<1> DEFINE n == Len(E)
           T == {0} \union {j \in RunEnds(s) : j < b[i]}
<1>1. /\ b \in [0..n -> Nat] /\ n \in Nat /\ Len(s) \in Nat
      /\ \A h, j \in 0..n : h < j => b[h] < b[j]
    BY MarksAscend DEF Marked
<1>2. /\ \A h \in 1..n : b[h] \in RunEnds(s)
      /\ b[0] > 0 => b[0] \in RunEnds(s)
      /\ \A p \in RunEnds(s) : p > b[0] => \E h \in 1..n : p = b[h]
    BY MarksAreEnds
<1>3. /\ b[i - 1] < b[i] /\ E[i].times = b[i] - b[i - 1]
      /\ \A p \in b[i - 1] + 1..b[i] : s[p] = E[i].line
    BY DEF Marks
<1>4. E[i] \in Entry(S)
    BY ElementOfSeq
<1>5. RunEnds(s) \subseteq 1..Len(s)
    BY DEF RunEnds
<1> HIDE DEF n
<1>6. i - 1 \in 0..n /\ i \in 0..n /\ 0 \in 0..n
    BY <1>1 DEF n
<1>7. b[i - 1] \in Nat /\ b[i] \in Nat /\ b[0] \in Nat
    BY <1>1, <1>6
<1>8. b[i - 1] \in T
    <2>1. b[i - 1] = 0 \/ b[i - 1] \in RunEnds(s)
        <3>1. CASE i = 1
            <4>1. i - 1 = 0
                BY <3>1
            <4>2. b[0] = 0 \/ b[0] > 0
                BY <1>7
            <4> QED BY <1>2, <4>1, <4>2
        <3>2. CASE i # 1
            <4>1. i - 1 \in 1..n
                BY <1>1, <3>2 DEF n
            <4> QED BY <1>2, <4>1
        <3> QED BY <3>1, <3>2
    <2> QED BY <1>3, <2>1
<1>9. ASSUME NEW y \in T
      PROVE  y <= b[i - 1]
    <2>1. CASE y = 0
        BY <1>7, <2>1
    <2>2. CASE y # 0
        <3>1. y \in RunEnds(s) /\ y < b[i] /\ y \in Nat
            BY <1>5, <2>2
        <3>2. CASE y > b[0]
            <4>1. PICK h \in 1..n : y = b[h]
                BY <1>2, <3>1, <3>2
            <4>2. h \in 0..n /\ h \in Int /\ i \in Int
                BY <1>1 DEF n
            <4>3. ~(i < h) /\ i # h
                <5>1. i < h => b[i] < b[h]
                    BY <1>1, <1>6, <4>2
                <5> QED BY <1>7, <3>1, <4>1, <5>1
            <4>4. h = i - 1 \/ h < i - 1
                BY <4>2, <4>3
            <4>5. h < i - 1 => b[h] < b[i - 1]
                BY <1>1, <1>6, <4>2
            <4> QED BY <1>7, <3>1, <4>1, <4>4, <4>5
        <3>3. CASE ~(y > b[0])
            <4>1. i - 1 = 0 \/ 0 < i - 1
                BY <1>6
            <4>2. 0 < i - 1 => b[0] < b[i - 1]
                BY <1>1, <1>6
            <4> QED BY <1>7, <3>1, <3>3, <4>1, <4>2
        <3> QED BY <3>2, <3>3
    <2> QED BY <2>1, <2>2
<1>10. T \in SUBSET Int
    BY <1>5
<1>11. ShownAt(s, b[i]) = [line |-> s[b[i]], times |-> b[i] - (Max(T) + 1) + 1]
    BY DEF ShownAt
<1> HIDE DEF T
<1>12. Max(T) = b[i - 1]
    BY <1>8, <1>9, <1>10, GreatestIs
<1>13. b[i] - (b[i - 1] + 1) + 1 = E[i].times /\ b[i] \in b[i - 1] + 1..b[i]
    BY <1>3, <1>7
<1>14. s[b[i]] = E[i].line
    BY <1>3, <1>13
<1>15. E[i] = [line |-> E[i].line, times |-> E[i].times]
    BY <1>4 DEF Entry
<1> QED BY <1>11, <1>12, <1>13, <1>14, <1>15

(* A print is the newest entries, those that reach past where it is from. *)
LEMMA ShownAreEntries ==
    ASSUME NEW S, NEW E \in Seq(Entry(S)), NEW s, NEW b, DOMAIN s = 1..Len(s),
           Marks(b, E, s, LogCapacity), Len(E) <= LogCapacity,
           NEW from \in Nat, NEW k \in 0..Len(E),
           \A i \in 1..Len(E) : b[i] > from <=> i > k
    PROVE  ShownIn(s, from) = SubSeq(E, k + 1, Len(E))
<1> DEFINE n == Len(E)
           F == FreshIn(s, from)
           I == Images(b, k + 1, n)
<1>1. /\ b \in [0..n -> Nat] /\ n \in Nat
      /\ \A h, j \in 0..n : h < j => b[h] < b[j]
    BY MarksAscend DEF Marked
<1>2. HeldIn(s) = Images(b, 1, n)
    BY HeldAreMarks
<1> HIDE DEF n
<1>3. F = I
    <2>1. \A i : i \in k + 1..n <=> i \in 1..n /\ i > k
        BY DEF n
    <2>2. \A p : p \in F <=> \E i \in 1..n : p = b[i] /\ b[i] > from
        BY <1>2 DEF FreshIn, Images
    <2>3. \A p : p \in I <=> \E i \in k + 1..n : p = b[i]
        BY DEF Images
    <2> HIDE DEF F, I
    <2>4. \A i \in 1..n : b[i] > from <=> i > k
        BY DEF n
    <2> QED BY <2>1, <2>2, <2>3, <2>4
<1>4. Cardinality(I) = n - k
    <2>0. k \in 0..n
        BY DEF n
    <2>1. CASE k = n
        <3>1. k + 1..n = {}
            BY <1>1, <2>1
        <3>2. I = {}
            BY <3>1 DEF Images
        <3>3. n - k = 0
            BY <1>1, <2>1
        <3> HIDE DEF I
        <3> QED BY <3>2, <3>3, FS_EmptySet
    <2>2. CASE k # n
        <3>1. k + 1 \in 0..n /\ n <= n /\ k + 1 <= n + 1 /\ n - (k + 1) + 1 = n - k
            BY <1>1, <2>0, <2>2
        <3>2. Cardinality(I) = n - (k + 1) + 1
            BY <1>1, <3>1, ImagesCounted
        <3> QED BY <3>1, <3>2
    <2> QED BY <2>1, <2>2
<1>5. ASSUME NEW j \in 1..n - k
      PROVE  ShownAt(s, Nth(I, j)) = E[k + j]
    <2>1. Nth(I, j) = b[k + j]
        <3>1. k \in 0..n
            BY DEF n
        <3> QED BY <1>1, <3>1, NthIs
    <2>2. k + j \in 1..Len(E)
        BY <1>1 DEF n
    <2>3. ShownAt(s, b[k + j]) = E[k + j]
        BY <2>2, ShownAtMark
    <2> QED BY <2>1, <2>3
<1>6. ShownIn(s, from) = [j \in 1..Cardinality(F) |-> ShownAt(s, Nth(F, j))]
    BY DEF ShownIn
<1> HIDE DEF F, I
<1>7. ShownIn(s, from) = [j \in 1..n - k |-> E[k + j]]
    BY <1>3, <1>4, <1>5, <1>6
<1>8. SubSeq(E, k + 1, n) = [j \in 1..n - k |-> E[k + j]]
    <2> DEFINE r == SubSeq(E, k + 1, n)
               T == Entry(S)
    <2>1. k + 1 \in Int /\ n \in Int /\ k + 1..n \subseteq 1..n /\ k \in 0..n
        BY <1>1 DEF n
    <2>2. \A i \in k + 1..n : E[i] \in T
        BY <2>1, ElementOfSeq DEF n
    <2>3. /\ r \in Seq(T) /\ Len(r) = IF k + 1 <= n THEN n - (k + 1) + 1 ELSE 0
          /\ \A j \in 1..n - (k + 1) + 1 : r[j] = E[k + 1 + j - 1]
        BY <2>1, <2>2, SubSeqProperties
    <2> HIDE DEF r, T
    <2>4. Len(r) = n - k /\ \A j \in 1..n - k : r[j] = E[k + j]
        <3>1. n - (k + 1) + 1 = n - k /\ (~(k + 1 <= n) => n - k = 0)
            BY <1>1, <2>1
        <3>2. \A j \in 1..n - k : k + 1 + j - 1 = k + j
            BY <2>1
        <3> QED BY <2>3, <3>1, <3>2
    <2>5. DOMAIN r = 1..n - k /\ r = [j \in DOMAIN r |-> r[j]]
        BY <2>3, <2>4, LenProperties
    <2> QED BY <2>4, <2>5 DEF r
<1> QED BY <1>7, <1>8 DEF n

(* The entries up to i stand for the lines between the first mark and i's. *)
LEMMA PushesAreMarks ==
    ASSUME NEW S, NEW E \in Seq(Entry(S)), NEW s, NEW c, NEW b, Marks(b, E, s, c),
           NEW i \in 0..Len(E)
    PROVE  PushesOf(E, i) = b[i] - b[0]
<1> DEFINE n == Len(E)
           v == [j \in DOMAIN E |-> E[j].times]
           Good(j) == SumFunctionOnSet(v, 1..j) = b[j] - b[0]
           T == {j \in 0..n : ~Good(j)}
<1>1. b \in [0..n -> Nat] /\ n \in Nat
    BY MarksAscend DEF Marked
<1>2. \A j \in 1..n : j \in DOMAIN E /\ v[j] = b[j] - b[j - 1]
    BY LenProperties DEF Marks
<1>3. \A j \in 0..n : b[j] \in Nat
    BY <1>1
<1>4. PushesOf(E, i) = SumFunctionOnSet(v, 1..i)
    BY DEF PushesOf
<1>5. i \in 0..n
    OBVIOUS
<1> HIDE DEF n, v, Good
<1>6. \A j \in 1..n : v[j] \in Int
    <2>1. \A j \in 1..n : j \in 0..n /\ j - 1 \in 0..n
        BY <1>1
    <2> QED BY <1>2, <1>3, <2>1
<1>7. T = {}
    <2> SUFFICES ASSUME T # {}
                 PROVE  FALSE
        OBVIOUS
    <2>1. T \subseteq Nat
        BY <1>1
    <2>2. PICK j \in T : \A m \in T : j <= m
        <3> HIDE DEF T
        <3> QED BY <2>1, LeastNumber
    <2>3. j \in 0..n /\ ~Good(j)
        BY <2>2
    <2>4. j # 0
        <3>1. 1..0 = {} /\ b[0] - b[0] = 0
            BY <1>1, <1>3
        <3>2. SumFunctionOnSet(v, {}) = 0
            BY SumOfNone
        <3>3. Good(0)
            BY <3>1, <3>2 DEF Good
        <3> QED BY <2>3, <3>3
    <2>5. j \in 1..n /\ j - 1 \in 0..n /\ 0 \in 0..n
        BY <1>1, <2>3, <2>4
    <2>6. Good(j - 1)
        <3>1. j - 1 \notin T
            <4> HIDE DEF T
            <4> QED BY <1>1, <2>2, <2>3
        <3> QED BY <2>5, <3>1
    <2> DEFINE U == 1..j - 1
    <2>7. IsFiniteSet(U)
        <3>1. 1 \in Int /\ j - 1 \in Int
            BY <1>1, <2>5
        <3> QED BY <3>1, FS_Interval
    <2>8. j \notin U /\ 1..j = U \union {j} /\ U \union {j} \subseteq 1..n
        BY <1>1, <2>5
    <2> HIDE DEF U, T
    <2>9. SumFunctionOnSet(v, U \union {j}) = v[j] + SumFunctionOnSet(v, U)
        <3>1. \A y \in U \union {j} : v[y] \in Int
            BY <1>6, <2>8
        <3> QED BY <2>7, <2>8, <3>1, SumOneMore
    <2>10. SumFunctionOnSet(v, U) = b[j - 1] - b[0] /\ v[j] = b[j] - b[j - 1]
        BY <1>2, <2>5, <2>6 DEF Good, U
    <2>11. b[j] \in Nat /\ b[j - 1] \in Nat /\ b[0] \in Nat
        BY <1>3, <2>3, <2>5
    <2>12. (b[j] - b[j - 1]) + (b[j - 1] - b[0]) = b[j] - b[0]
        BY <2>11
    <2>13. Good(j)
        BY <2>8, <2>9, <2>10, <2>12 DEF Good
    <2> QED BY <2>3, <2>13
<1>8. Good(i)
    BY <1>5, <1>7
<1> QED BY <1>4, <1>8 DEF Good

(* A print of the log, from where its entries give what was said. *)
LEMMA PrintShows ==
    ASSUME LogInv, Follows(log, said), cursor \in Nat, cursor <= Len(said)
    PROVE  /\ UnprintedEvents.lines = SelectSeq(ShownIn(said, cursor), Shows)
           /\ UnprintedEvents.cursor = Len(said)
<1> DEFINE S == Range(said)
           E == Contents(log.entries)
           n == Len(E)
           m == Len(said)
           fresh == {i \in DOMAIN E : EndOf(E, i) > cursor}
<1>1. IsLog(log, S) /\ log.total = m /\ log.entries.capacity = LogCapacity
    BY DEF LogInv
<1>2. E \in Seq(Entry(S)) /\ n <= LogCapacity
    <2>1. Ring(log.entries, Entry(S))
        BY <1>1 DEF IsLog
    <2>2. E \in Seq(Entry(S)) /\ Len(E) = Len(log.entries.items)
        BY <2>1, ContentsAt
    <2> QED BY <1>1, <2>1, <2>2 DEF Ring
<1>3. PICK b : Marks(b, E, said, LogCapacity)
    BY <1>1 DEF Follows
<1>4. DOMAIN said = 1..m
    BY LenProperties DEF LogInv
<1>5. UnprintedEvents = [lines |-> SelectSeq(SubSeq(E, n - Cardinality(fresh) + 1, n), Shows),
                         cursor |-> IF fresh = {} THEN cursor ELSE EndOf(E, Max(fresh))]
    BY DEF UnprintedEvents
<1>6. \A i : EndOf(E, i) = (m - PushesOf(E, n)) + PushesOf(E, i)
    BY <1>1 DEF EndOf
<1>7. DOMAIN E = 1..n
    BY <1>2, LenProperties
<1> HIDE DEF E, S
<1>8. /\ b \in [0..n -> Nat] /\ b[n] = m /\ n \in Nat /\ m \in Nat
      /\ \A i, j \in 0..n : i < j => b[i] < b[j]
    BY <1>2, <1>3, MarksAscend DEF Marked
<1>9. \A i \in 0..n : PushesOf(E, i) = b[i] - b[0]
    BY <1>2, <1>3, PushesAreMarks
<1> HIDE DEF n, m
<1>10. ASSUME NEW i \in 0..n
       PROVE  EndOf(E, i) = b[i]
    <2>1. n \in 0..n /\ 0 \in 0..n
        BY <1>8
    <2>2. b[n] \in Nat /\ b[i] \in Nat /\ b[0] \in Nat
        BY <1>8, <2>1
    <2>3. PushesOf(E, n) = b[n] - b[0] /\ PushesOf(E, i) = b[i] - b[0]
        BY <1>9, <2>1
    <2>4. (m - (b[n] - b[0])) + (b[i] - b[0]) = b[i]
        BY <1>8, <2>2
    <2> QED BY <1>6, <2>3, <2>4
<1>11. PICK k \in 0..n : \A i \in 1..n : b[i] > cursor <=> i > k
    BY <1>8, NewFrom
<1>12. fresh = k + 1..n
    <2>1. \A i \in 1..n : i \in 0..n
        BY <1>8
    <2>2. \A i : i \in fresh <=> i \in 1..n /\ i > k
        BY <1>7, <1>10, <1>11, <2>1
    <2>3. \A i : i \in k + 1..n <=> i \in 1..n /\ i > k
        BY <1>8
    <2> HIDE DEF fresh
    <2> QED BY <2>2, <2>3
<1> HIDE DEF fresh
<1>13. n - Cardinality(fresh) + 1 = k + 1
    <2>1. k + 1 \in Int /\ n \in Int
        BY <1>8
    <2>2. Cardinality(fresh) = IF k + 1 > n THEN 0 ELSE n - (k + 1) + 1
        BY <1>12, <2>1, FS_Interval
    <2>3. (k + 1 > n => n - 0 + 1 = k + 1) /\ n - (n - (k + 1) + 1) + 1 = k + 1
        BY <1>8
    <2> QED BY <2>2, <2>3
<1>14. ShownIn(said, cursor) = SubSeq(E, k + 1, n)
    BY <1>2, <1>3, <1>4, <1>11, ShownAreEntries DEF n, m
<1>15. UnprintedEvents.lines = SelectSeq(ShownIn(said, cursor), Shows)
    BY <1>5, <1>13, <1>14
<1>16. UnprintedEvents.cursor = m
    <2>1. UnprintedEvents.cursor = IF fresh = {} THEN cursor ELSE EndOf(E, Max(fresh))
        BY <1>5
    <2>2. CASE k = n
        <3>1. fresh = {}
            BY <1>8, <1>12, <2>2
        <3>2. CASE n = 0
            <4>1. b[0] > 0 => n = LogCapacity
                BY <1>3 DEF Marks, n
            <4>2. LogCapacity # 0
                BY AcquisitionAssumption
            <4>3. b[0] = m /\ ~(b[0] > 0)
                BY <1>8, <3>2, <4>1, <4>2
            <4>4. m = cursor
                BY <1>8, <4>3 DEF m
            <4> QED BY <2>1, <3>1, <4>4
        <3>3. CASE n # 0
            <4>1. n \in 1..n /\ ~(n > k)
                BY <1>8, <2>2, <3>3
            <4>2. ~(m > cursor)
                BY <1>8, <1>11, <4>1
            <4>3. m = cursor
                BY <1>8, <4>2 DEF m
            <4> QED BY <2>1, <3>1, <4>3
        <3> QED BY <3>2, <3>3
    <2>3. CASE k # n
        <3>1. n \in fresh /\ fresh \in SUBSET Int /\ \A y \in fresh : y <= n
            BY <1>8, <1>12, <2>3
        <3>2. Max(fresh) = n
            BY <3>1, GreatestIs
        <3>3. EndOf(E, n) = m
            <4>1. n \in 0..n
                BY <1>8
            <4> QED BY <1>8, <1>10, <4>1
        <3> QED BY <2>1, <3>1, <3>2, <3>3
    <2> QED BY <2>2, <2>3
<1> QED BY <1>15, <1>16 DEF m

-----------------------------------------------------------------------------
(* The invariant of the printer: the log follows what was said, the cursor  *)
(* is where the last print stood, and a terminal that is over or finished   *)
(* has a task behind it that says nothing any more.                         *)
PickedFrom(past, from) == SelectSeq(ShownIn(past, from), Shows)

IsPrint(print, all) ==
    /\ print.upto \in Nat /\ print.upto <= Len(all)
    /\ print.lines = PickedFrom(SubSeq(all, 1, print.upto), print.from)

PrinterInv ==
    /\ Follows(log, said)
    /\ IsPrint(printed, said) /\ cursor = printed.upto
    /\ terminal \in {"over", "finished"} => ~running
    /\ terminal = "finished" => cursor = Len(said)

LEMMA SaidFollows ==
    ASSUME LogInv, Follows(log, said), NEW lines \in Seq(Lines), Say(lines)
    PROVE  Follows(log', said')
<1>1. /\ said \in Seq(Lines) /\ IsLog(log, Range(said))
      /\ Range(said') = Range(said) \union Range(lines)
    BY SayKeeps DEF LogInv
<1> DEFINE S == Range(said')
<1>2. IsLog(log, S)
    BY <1>1, LogOfMore
<1>3. lines \in Seq(S) /\ said \in Seq(S)
    <2>1. Range(lines) \subseteq S /\ Range(said) \subseteq S
        BY <1>1
    <2> HIDE DEF S
    <2> QED BY <1>1, <2>1, SeqOfItsRange
<1> HIDE DEF S
<1>4. Follows(FoldLeft(PushLine, log, lines), said \o lines)
    BY <1>2, <1>3, LinesFollow
<1> QED BY <1>4 DEF Say

(* A print stays the print it was, whatever is said after it. *)
LEMMA PrintKept ==
    ASSUME NEW S, NEW all \in Seq(S), NEW lines \in Seq(S), NEW print, IsPrint(print, all)
    PROVE  IsPrint(print, all \o lines)
<1>1. Len(all) \in Nat /\ Len(lines) \in Nat /\ Len(all \o lines) = Len(all) + Len(lines)
    BY LenProperties, ConcatProperties
<1>2. /\ print.upto \in Nat /\ print.upto <= Len(all)
      /\ print.lines = PickedFrom(SubSeq(all, 1, print.upto), print.from)
    BY DEF IsPrint
<1>3. print.upto <= Len(all \o lines)
    BY <1>1, <1>2
<1>4. SubSeq(all \o lines, 1, print.upto) = SubSeq(all, 1, print.upto)
    <2>1. CASE print.upto = 0
        <3>1. SubSeq(all \o lines, 1, 0) = <<>>
            BY SubSeqEmpty
        <3>2. SubSeq(all, 1, 0) = <<>>
            BY SubSeqEmpty
        <3> QED BY <2>1, <3>1, <3>2
    <2>2. CASE print.upto # 0
        <3>1. 1 \in 1..Len(all) /\ print.upto \in 1..Len(all)
            BY <1>1, <1>2, <2>2
        <3> QED BY <3>1, SubSeqOfConcat1
    <2> QED BY <2>1, <2>2
<1> QED BY <1>2, <1>3, <1>4 DEF IsPrint

(* Printing makes one. *)
LEMMA PrintMade ==
    ASSUME LogInv, Follows(log, said), cursor \in Nat, cursor <= Len(said),
           NEW print,
           print = [lines |-> UnprintedEvents.lines, from |-> cursor, upto |-> Len(said)]
    PROVE  IsPrint(print, said) /\ UnprintedEvents.cursor = print.upto
<1>1. /\ UnprintedEvents.lines = SelectSeq(ShownIn(said, cursor), Shows)
      /\ UnprintedEvents.cursor = Len(said)
    BY PrintShows
<1>2. SubSeq(said, 1, Len(said)) = said /\ Len(said) \in Nat
    BY SubSeqFull, LenProperties DEF LogInv
<1>3. print.lines = UnprintedEvents.lines /\ print.from = cursor /\ print.upto = Len(said)
    OBVIOUS
<1>4. PickedFrom(said, cursor) = SelectSeq(ShownIn(said, cursor), Shows)
    BY DEF PickedFrom
<1>5. print.lines = PickedFrom(SubSeq(said, 1, print.upto), print.from)
    BY <1>1, <1>2, <1>3, <1>4
<1> QED BY <1>1, <1>2, <1>3, <1>5 DEF IsPrint

(* Nothing is said of a task that is done, and only a print moves the      *)
(* cursor.                                                                  *)
LEMMA DoneSaysNothing ==
    ASSUME pc = "done", [Next]_vars
    PROVE  UNCHANGED logVars
BY DEF Next, Open, OpenRecording, Behind, NotOpened, ReadBytes, Due, ReadOn, Stopped, SourceEnds,
       SayEnded, ReadFails,
       Record, Written, FeedPipeline, Restarted, Sent, ReportFrame, ReportSync, ReportPackets,
       Report, QueueClosed, DecoderGone, Close, Flushed, Dropped, FileWritten, Tick, Check,
       Interrupt, Shutdown, Leave, vars, logVars

LEMMA RunningSteps ==
    ASSUME [Next]_vars, ~running
    PROVE  ~running'
BY DEF Next, Open, OpenRecording, Behind, NotOpened, ReadBytes, Due, ReadOn, Stopped, SourceEnds,
       SayEnded, ReadFails,
       Record, Written, FeedPipeline, Restarted, Sent, ReportFrame, ReportSync, ReportPackets,
       Report, QueueClosed, DecoderGone, Close, Flushed, Dropped, FileWritten, Tick, Check,
       Interrupt, Shutdown, Leave, vars, taskVars

TerminalSteps ==
    \/ (Tick \/ Leave) /\ UNCHANGED logVars
    \/ UNCHANGED <<cursor, printed>> /\ (UNCHANGED terminal \/ Check \/ Interrupt)

LEMMA TerminalStep ==
    ASSUME [Next]_vars
    PROVE  TerminalSteps
<1>1. CASE Tick \/ Leave
    BY <1>1 DEF Tick, Leave, TerminalSteps
<1>2. CASE Check \/ Interrupt
    BY <1>2 DEF Check, Interrupt, TerminalSteps
<1>3. CASE UNCHANGED printVars
    BY <1>3 DEF printVars, TerminalSteps
<1>4. CASE Open \/ (\E opens \in BOOLEAN : OpenRecording(opens)) \/ NotOpened \/ ReadBytes \/ Due
             \/ ReadOn \/ Behind
             \/ Stopped \/ SourceEnds \/ SayEnded \/ (\E kind \in ErrorKinds : ReadFails(kind))
             \/ Record \/ Written \/ FeedPipeline
             \/ (\E sent \in BOOLEAN : Restarted(sent) \/ Sent(sent))
             \/ ReportFrame \/ ReportSync \/ ReportPackets \/ QueueClosed \/ DecoderGone
             \/ Close \/ Flushed \/ Dropped \/ FileWritten \/ Shutdown \/ UNCHANGED vars
    BY <1>3, <1>4 DEF Open, OpenRecording, Behind, NotOpened, ReadBytes, Due, ReadOn, Stopped,
           SourceEnds, SayEnded,
         ReadFails, Record, Written, FeedPipeline, Restarted, Sent, ReportFrame, ReportSync,
         ReportPackets, Report, QueueClosed, DecoderGone, Close, Flushed, Dropped,
         FileWritten, Shutdown, vars
<1> QED BY <1>1, <1>2, <1>4 DEF Next

LEMMA PrinterInvInit == Init => PrinterInv
<1> SUFFICES ASSUME Init
             PROVE  PrinterInv
    OBVIOUS
<1>1. /\ log = EmptyLog(LogCapacity) /\ said = <<>> /\ cursor = 0 /\ terminal = "loop"
      /\ printed = [lines |-> UnprintedEvents.lines, from |-> 0, upto |-> 0]
    BY DEF Init
<1>2. LogInv /\ Follows(log, said)
    BY <1>1, LogInvInit, NothingFollowed, AcquisitionAssumption
<1>3. Len(said) = 0 /\ cursor \in Nat /\ cursor <= Len(said)
    BY <1>1
<1>4. printed = [lines |-> UnprintedEvents.lines, from |-> cursor, upto |-> Len(said)]
    BY <1>1, <1>3
<1>5. IsPrint(printed, said)
    BY <1>2, <1>3, <1>4, PrintMade
<1>6. cursor = printed.upto
    BY <1>1
<1> QED BY <1>1, <1>2, <1>5, <1>6 DEF PrinterInv

LEMMA PrinterInvStep ==
    ASSUME LogInv, EventsInv(events), RecorderInv, PrinterInv, [Next]_vars
    PROVE  PrinterInv'
<1>1. /\ said \in Seq(Lines) /\ Follows(log, said) /\ IsPrint(printed, said)
      /\ cursor = printed.upto /\ cursor \in Nat /\ cursor <= Len(said)
    BY DEF LogInv, PrinterInv, IsPrint
<1>2. Follows(log', said')
    <2>1. CASE UNCHANGED logVars
        BY <1>1, <2>1 DEF logVars
    <2>2. CASE \E lines : Says(lines)
        <3>1. PICK lines : lines \in Seq(Lines) /\ Say(lines)
            BY <2>2 DEF Says
        <3> QED BY <1>1, <3>1, SaidFollows
    <2> QED BY <2>1, <2>2, WhatIsSaid
<1>3. IsPrint(printed, said')
    <2>1. CASE UNCHANGED logVars
        BY <1>1, <2>1 DEF logVars
    <2>2. CASE \E lines : Says(lines)
        <3>1. PICK lines : lines \in Seq(Lines) /\ said' = said \o lines
            BY <2>2 DEF Says, Say
        <3> QED BY <1>1, <3>1, PrintKept
    <2> QED BY <2>1, <2>2, WhatIsSaid
<1>4. CASE (Tick \/ Leave) /\ UNCHANGED logVars
    <2>1. cursor' = UnprintedEvents.cursor /\ said' = said
          /\ printed' = [lines |-> UnprintedEvents.lines, from |-> printed.upto,
                         upto |-> Len(said)]
        BY <1>4 DEF Tick, Leave, PrintEvents, logVars
    <2>2. printed' = [lines |-> UnprintedEvents.lines, from |-> cursor, upto |-> Len(said)]
        BY <1>1, <2>1
    <2>3. IsPrint(printed', said) /\ UnprintedEvents.cursor = printed'.upto
        BY <1>1, <2>2, PrintMade
    <2>4. printed'.upto = Len(said)
        BY <2>1
    <2>5. running' = running /\ (terminal' \in {"over", "finished"} => terminal = "over")
        BY <1>4 DEF Tick, Leave, taskVars
    <2>6. terminal' \in {"over", "finished"} => ~running'
        BY <2>5 DEF PrinterInv
    <2>7. IsPrint(printed', said') /\ cursor' = printed'.upto /\ cursor' = Len(said')
        BY <2>1, <2>3, <2>4
    <2> QED BY <1>2, <2>6, <2>7 DEF PrinterInv
<1>5. CASE UNCHANGED <<cursor, printed>> /\ (UNCHANGED terminal \/ Check \/ Interrupt)
    <2>1. IsPrint(printed', said') /\ cursor' = printed'.upto
        BY <1>1, <1>3, <1>5
    <2>2. terminal' \in {"over", "finished"} => ~running
        <3>1. CASE UNCHANGED terminal
            BY <3>1 DEF PrinterInv
        <3>2. CASE Check
            BY <3>2 DEF Check
        <3>3. CASE Interrupt
            BY <3>3 DEF Interrupt
        <3> QED BY <1>5, <3>1, <3>2, <3>3
    <2>3. terminal' \in {"over", "finished"} => ~running'
        BY <2>2, RunningSteps
    <2>4. ASSUME terminal' = "finished"
          PROVE  cursor' = Len(said')
        <3>1. terminal = "finished"
            BY <1>5, <2>4 DEF Check, Interrupt
        <3>2. ~running
            BY <3>1 DEF PrinterInv
        <3>3. pc = "done"
            BY <3>2 DEF RecorderInv
        <3>4. said' = said
            BY <3>3, DoneSaysNothing DEF logVars
        <3>5. cursor = Len(said)
            BY <3>1 DEF PrinterInv
        <3> QED BY <1>5, <3>4, <3>5
    <2> QED BY <1>2, <2>1, <2>3, <2>4 DEF PrinterInv
<1> QED BY <1>4, <1>5, TerminalStep DEF TerminalSteps

(* However long a session and whatever it says, repeats and more than the   *)
(* log holds included, wherever a print comes in between: it shows, once    *)
(* and with its count, each line said since the last print that the log     *)
(* still holds, a line that went on being said since it was shown included; *)
(* and a terminal that leaves because the session had ended has read all of *)
(* it (run.rs:217-248).                                                     *)
THEOREM PrintsMissNone == AcquisitionSpec => []PrinterMissesNone
<1>1. Init => PrinterInv
    BY PrinterInvInit
<1>2. RecInv /\ PrinterInv /\ [Next]_vars => PrinterInv'
    BY PrinterInvStep DEF RecInv
<1>3. PrinterInv => PrinterMissesNone
    <2> SUFFICES ASSUME PrinterInv
                 PROVE  PrinterMissesNone
        OBVIOUS
    <2>1. printed.lines = PickedFrom(SubSeq(said, 1, printed.upto), printed.from)
        BY DEF PrinterInv, IsPrint
    <2>2. cursor = printed.upto /\ (terminal = "finished" => cursor = Len(said))
        BY DEF PrinterInv
    <2> QED BY <2>1, <2>2
            DEF PrinterMissesNone, PickedFrom, ShownIn, ShownAt, FreshIn, HeldIn, RunEnds, Nth
<1> QED BY <1>1, <1>2, <1>3, RecInvAlways, PTL DEF AcquisitionSpec
=============================================================================
