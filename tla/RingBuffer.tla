----------------------------- MODULE RingBuffer -----------------------------
(***************************************************************************)
(* The fixed-capacity ring of xtce-gs-core/src/ring.rs as operators on a    *)
(* record of its three fields: items is the vector, head the index of the   *)
(* oldest element once the vector is full.  Indices count from zero as they *)
(* do in the code; Contents is what iterating the ring yields.              *)
(***************************************************************************)
EXTENDS Naturals, Sequences

Least(a, b) == IF a < b THEN a ELSE b

EmptyRing(capacity) == [items |-> <<>>, head |-> 0, capacity |-> capacity]

IsRing(ring, Item) ==
    /\ ring.items \in Seq(Item)
    /\ Len(ring.items) <= ring.capacity
    /\ ring.head < ring.capacity \/ ring.head = 0

Push(ring, item) ==
    CASE ring.capacity = 0 -> ring
      [] Len(ring.items) < ring.capacity ->
            [ring EXCEPT !.items = Append(@, item)]
      [] OTHER ->
            [ring EXCEPT !.items[ring.head + 1] = item,
                         !.head = (ring.head + 1) % ring.capacity]

(* Where the element index places after the oldest lies. *)
Physical(ring, index) ==
    IF Len(ring.items) < ring.capacity
      THEN index
      ELSE (ring.head + index) % ring.capacity

At(ring, index) == ring.items[Physical(ring, index) + 1]

(* as_slices: the older half of the contents, and the newer. *)
Wraps(ring) == Len(ring.items) = ring.capacity /\ ring.head # 0
OldHalf(ring) ==
    IF Wraps(ring)
      THEN SubSeq(ring.items, ring.head + 1, Len(ring.items))
      ELSE ring.items
NewHalf(ring) ==
    IF Wraps(ring) THEN SubSeq(ring.items, 1, ring.head) ELSE <<>>

Contents(ring) == OldHalf(ring) \o NewHalf(ring)

(* last and last_mut of a ring that holds something. *)
Newest(ring) == At(ring, Len(ring.items) - 1)
SetNewest(ring, item) ==
    [ring EXCEPT !.items[Physical(ring, Len(ring.items) - 1) + 1] = item]

Cleared(ring) == [ring EXCEPT !.items = <<>>, !.head = 0]

(* Growing keeps everything, shrinking the newest that still fit. *)
Resize(ring, capacity) ==
    LET length == Len(ring.items)
        fit == Least(length, capacity)
    IN  IF capacity = ring.capacity
          THEN ring
          ELSE [items |-> [i \in 1 .. fit |->
                             At(ring, length - fit + i - 1)],
                head |-> 0,
                capacity |-> capacity]
=============================================================================
