--------------------------- MODULE MCAcquisition ---------------------------
(* Acquisition for TLC: each source with bytes to record, and each with      *)
(* something to report.                                                      *)
EXTENDS Acquisition

Socket(s) == [scheme |-> s, length |-> 0, repeat |-> FALSE, rate |-> 0]
Replay(n, r) == [scheme |-> "file", length |-> n, repeat |-> r,
                 rate |-> IF r THEN 1 ELSE 0]
MCSpecs ==
    {Socket(s) : s \in {"udp", "tcp", "listen"}}
      \union {Replay(n, r) : n \in {0, 2}, r \in BOOLEAN}
MCSetups ==
    [spec : MCSpecs \ {Socket("listen")}, record : {TRUE}, bytes : {3},
     reports : {0}, ticks : {1}]
      \union [spec : {Socket("listen")}, record : {TRUE}, bytes : {3},
               reports : {0}, ticks : {0}]
      \union [spec : {Socket("tcp")}, record : {FALSE}, bytes : {2},
               reports : {3}, ticks : {0}]
      \union [spec : {Socket("listen")}, record : {FALSE}, bytes : {2},
               reports : {0}, ticks : {2}]
      \union [spec : {Socket("tcp")}, record : {FALSE}, bytes : {1},
               reports : {1}, ticks : {2}]
MCExisting == <<[stream |-> 0, at |-> 1]>>
=============================================================================
