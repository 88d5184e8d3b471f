--------------------------- MODULE ParameterStore ---------------------------
(***************************************************************************)
(* What the decode thread files and the window reads                        *)
(* (xtce-gs-core/src/store.rs): the latest sample of every parameter, a     *)
(* ring of history for the watched ones, and a generation that says whether *)
(* anything was filed.  A sample is its time; Never is no sample.  The      *)
(* history is a function whose domain is the set of watched parameters.     *)
(***************************************************************************)
EXTENDS RingBuffer, Functions

CONSTANTS
    Params,   \* the parameters the definition declares
    Numeric   \* those whose samples have a number, so a place in history

ASSUME ParameterAssumption == Numeric \subseteq Params

Never == 0

NewStore(depth) ==
    [latest |-> [p \in Params |-> Never],
     updates |-> [p \in Params |-> 0],
     history |-> <<>>,
     depth |-> depth,
     generation |-> 0]

Watched(store) == DOMAIN store.history
Seen(store) == {p \in Params : store.latest[p] # Never}

(* Parameters watched one after another; the ring one already has is kept.  *)
Watch(store, params) ==
    [store EXCEPT !.history =
        [q \in DOMAIN @ \union params |->
            IF q \in DOMAIN @ THEN @[q] ELSE EmptyRing(store.depth)]]

Unwatch(store, p) ==
    [store EXCEPT !.history = Restrict(@, DOMAIN @ \ {p})]

SetDepth(store, depth) ==
    [store EXCEPT !.depth = depth,
                  !.history = [q \in DOMAIN @ |-> Resize(@[q], depth)]]

(* One packet's samples, all of the packet's time. *)
Ingest(store, carried, time) ==
    [store EXCEPT
        !.latest = [p \in Params |-> IF p \in carried THEN time ELSE @[p]],
        !.updates = [p \in Params |-> IF p \in carried THEN @[p] + 1 ELSE @[p]],
        !.history = [p \in DOMAIN @ |-> IF p \in carried \intersect Numeric
                                          THEN Push(@[p], time)
                                          ELSE @[p]],
        !.generation = @ + 1]
=============================================================================
