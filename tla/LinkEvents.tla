----------------------------- MODULE LinkEvents -----------------------------
(***************************************************************************)
(* The lines a pipeline holds for the operator between two drains: Events   *)
(* in xtce-gs-link/src/pipeline.rs.  A stage of the pipeline pushes a       *)
(* reason, which repeats when it is the last one pushed; a packet stage     *)
(* hands over lines it has already worded, which repeat when they read like *)
(* the last line held.  A line is what it says and how many more it stands  *)
(* for; a message that has its count written on reads like no other.        *)
(***************************************************************************)
EXTENDS Naturals, Sequences, SequencesExt

CONSTANTS
    Reasons,        \* what a stage pushes: severity, source and Reason
    Worded,         \* what a packet stage hands over
    EventCapacity   \* EVENT_QUEUE_CAPACITY

SyncReasons == {"locked", "lost", "slipped", "discarded"}
FrameReasons == {"repaired", "unrepaired", "bad length", "checksum", "header", "service"}
PacketLoss == "packet loss"
Further == "further events not shown"
Nothing == "nothing"

\* What is said of the events themselves is none of them.
ASSUME LinkEventsAssumption ==
    /\ Reasons \intersect Worded = {} /\ PacketLoss \in Reasons
    /\ {Further, Nothing} \intersect (Reasons \union Worded) = {}
    /\ IsFiniteSet(Reasons) /\ IsFiniteSet(Worded)
    /\ EventCapacity \in Nat \ {0}

Line(what, more) == [what |-> what, more |-> more]

NoEvents == [queued |-> <<>>, last |-> Nothing, repeats |-> 0, dropped |-> 0]

IsEvents(e) ==
    /\ e.queued \in Seq([what : Reasons \union Worded, more : Nat])
    /\ Len(e.queued) <= EventCapacity
    /\ e.last \in Reasons \union {Nothing}
    /\ e.repeats \in Nat /\ e.dropped \in Nat

Held(e) == e.queued[Len(e.queued)]

(* A finished run's count goes onto the line it repeated. *)
CloseRun(e) ==
    IF e.repeats = 0 \/ e.queued = <<>>
      THEN [e EXCEPT !.repeats = 0]
      ELSE [e EXCEPT !.repeats = 0, !.queued[Len(e.queued)].more = e.repeats]

Repeat(e) == [e EXCEPT !.repeats = @ + 1]

(* A mistake: the line is dropped and still taken for the last one. *)
HoldForgetful(e, what, last) ==
    LET closed == CloseRun(e)
    IN  IF Len(closed.queued) >= EventCapacity
          THEN [closed EXCEPT !.last = last, !.dropped = @ + 1]
          ELSE [closed EXCEPT !.last = last, !.queued = Append(@, Line(what, 0))]

(* A line that repeats nothing is held, or counted when the queue is full:  *)
(* then what comes next repeats nothing either.                             *)
Hold(e, what, last) ==
    LET closed == CloseRun(e)
    IN  IF Len(closed.queued) >= EventCapacity
          THEN [closed EXCEPT !.last = Nothing, !.dropped = @ + 1]
          ELSE [closed EXCEPT !.last = last, !.queued = Append(@, Line(what, 0))]

PushReason(e, reason) ==
    IF e.last = reason THEN Repeat(e) ELSE Hold(e, reason, reason)

AbsorbLine(e, what) ==
    IF e.queued # <<>> /\ Held(e) = Line(what, 0)
      THEN Repeat(e)
      ELSE Hold(e, what, Nothing)

(* What the synchroniser counted since the last fold, in this order. *)
FoldSync(e, counted) ==
    LET Count(held, reason) ==
          IF reason \in counted THEN PushReason(held, reason) ELSE held
    IN  Count(Count(Count(Count(e, "locked"), "lost"), "slipped"), "discarded")

(* What a packet stage counted, and then the lines it has worded. *)
FoldPackets(e, lost, lines) ==
    FoldLeft(AbsorbLine, IF lost THEN PushReason(e, PacketLoss) ELSE e, lines)

(* What a drain hands on.  It leaves NoEvents behind. *)
Drained(e) ==
    CloseRun(e).queued
      \o (IF e.dropped > 0 THEN <<Line(Further, e.dropped)>> ELSE <<>>)
=============================================================================
