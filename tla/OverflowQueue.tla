--------------------------- MODULE OverflowQueue ---------------------------
(***************************************************************************)
(* What the path from the acquisition task to the decode thread promises, *)
(* with the channel, the overflow ring and the batch the decoder drained   *)
(* folded into one queue:                                                   *)
(*                                                                          *)
(*  - items leave in the order they were offered;                           *)
(*  - while both ends are there, only a queue with at least Capacity items  *)
(*    waiting loses anything, it loses one packet at a time, it counts it,  *)
(*    and it never loses a marker;                                          *)
(*  - an end of the acquisition side keeps a prefix of what was waiting,    *)
(*    and the death of the decode side keeps nothing.                       *)
(*                                                                          *)
(* Session implements it: see Session!Refined.                              *)
(***************************************************************************)
EXTENDS Integers, Sequences, SequencesExt

CONSTANTS
    Items,       \* everything that can be offered: records with "id" and "mark"
    Capacity     \* the depth below which nothing is lost

VARIABLES
    queue,       \* accepted, not yet handled
    handled,     \* what the decode side has handled, in order
    lossy,       \* TRUE on a live link, FALSE on a replay; never changes
    lost,        \* how many packets were lost for want of room
    open,        \* the acquisition side can still offer
    live         \* the decode side can still take

qvars == <<lossy, queue, handled, lost, open, live>>

QInit ==
    /\ lossy \in BOOLEAN
    /\ queue = <<>>
    /\ handled = <<>>
    /\ lost = 0
    /\ open = TRUE
    /\ live = TRUE

Newer(i) == \A k \in 1..Len(handled \o queue) : (handled \o queue)[k].id < i.id

\* The positions an overflowing queue may lose a packet from: its newest
\* Capacity items, which is where the overflow ring is.
Tailmost == {k \in 1..Len(queue) : k > Len(queue) - Capacity}

Offer(i) ==
    /\ open /\ live
    /\ Newer(i)
    /\ queue' = Append(queue, i)
    /\ UNCHANGED <<lossy, handled, lost, open, live>>

\* A full queue gives up a packet that is waiting...
Evict(i) ==
    /\ open /\ live /\ lossy
    /\ Newer(i)
    /\ Len(queue) >= Capacity
    /\ \E k \in Tailmost :
          /\ ~queue[k].mark
          /\ queue' = Append(RemoveAt(queue, k), i)
    /\ lost' = lost + 1
    /\ UNCHANGED <<lossy, handled, open, live>>

\* ... and refuses the new one only when there is none to give up.
Refuse ==
    /\ open /\ live /\ lossy
    /\ Len(queue) >= Capacity
    /\ \A k \in Tailmost : queue[k].mark
    /\ lost' = lost + 1
    /\ UNCHANGED <<lossy, queue, handled, open, live>>

Take ==
    /\ live
    /\ queue # <<>>
    /\ handled' = Append(handled, Head(queue))
    /\ queue' = Tail(queue)
    /\ UNCHANGED <<lossy, lost, open, live>>

\* Acquisition stops: what it had not yet passed on is gone.
Close ==
    /\ open
    /\ open' = FALSE
    /\ \E n \in 0..Len(queue) : queue' = SubSeq(queue, 1, n)
    /\ UNCHANGED <<lossy, handled, lost, live>>

Die ==
    /\ live
    /\ live' = FALSE
    /\ queue' = <<>>
    /\ UNCHANGED <<lossy, handled, lost, open>>

QNext ==
    \/ \E i \in Items : Offer(i) \/ Evict(i)
    \/ Refuse
    \/ Take
    \/ Close
    \/ Die

QSpec == QInit /\ [][QNext]_qvars
=============================================================================
