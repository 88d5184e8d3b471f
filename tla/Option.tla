------------------------------- MODULE Option -------------------------------
(* What stands for an Option that holds nothing. *)
CONSTANT None

unwrap_or(option, other) == IF option = None THEN other ELSE option
=============================================================================
