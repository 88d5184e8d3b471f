------------------------------ MODULE MCWindow ------------------------------
(* Window for TLC: a parameter with a number and one with a label. *)
EXTENDS Window

CONSTANTS Volts, Mode
MCContainers == {{Volts, Mode}}
MCTexts == {Params, {Volts}}
MCPlots == <<{Volts}>>
MCBudgets ==
    {[packets |-> 4, lines |-> 0, inputs |-> 1],
     [packets |-> 2, lines |-> 0, inputs |-> 2],
     [packets |-> 1, lines |-> 0, inputs |-> 3],
     [packets |-> 0, lines |-> 3, inputs |-> 2]}
MCWindows == {<<2, 2>>}
=============================================================================
