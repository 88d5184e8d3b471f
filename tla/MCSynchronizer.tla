--------------------------- MODULE MCSynchronizer ---------------------------
(* Synchronizer for TLC: bytes of two bits, and two markers. *)
EXTENDS Synchronizer

\* A marker that no shift of itself begins, and none.
MCMarkers == {<<1, 1, 0, 1>>, <<>>}
=============================================================================
