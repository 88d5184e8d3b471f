------------------------------ MODULE EventLog ------------------------------
(***************************************************************************)
(* The event log of xtce-gs-core/src/event.rs: a ring of lines, each with   *)
(* how often it was pushed back to back, and how many were ever pushed.     *)
(* A line stands for its severity, source and message; when it was said     *)
(* last is left out.                                                        *)
(***************************************************************************)
EXTENDS RingBuffer

EmptyLog(capacity) == [entries |-> EmptyRing(capacity), total |-> 0]

Repeats(log, line) ==
    /\ log.entries.items # <<>>
    /\ Newest(log.entries).line = line

(* A mistake: a repeat is folded before it is counted. *)
PushUncounted(log, line) ==
    IF Repeats(log, line)
      THEN [log EXCEPT !.entries = SetNewest(@,
                          [Newest(@) EXCEPT !.times = @ + 1])]
      ELSE [entries |-> Push(log.entries, [line |-> line, times |-> 1]),
            total |-> log.total + 1]

PushLine(log, line) ==
    [entries |-> IF Repeats(log, line)
                   THEN SetNewest(log.entries,
                          [Newest(log.entries) EXCEPT !.times = @ + 1])
                   ELSE Push(log.entries, [line |-> line, times |-> 1]),
     total |-> log.total + 1]

ClearLog(log) == [log EXCEPT !.entries = Cleared(@)]
=============================================================================
