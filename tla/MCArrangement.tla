---------------------------- MODULE MCArrangement ----------------------------
(* Arrangement for TLC: two parameters, one of which a definition may lack. *)
EXTENDS Arrangement

CONSTANTS Volts, Mode
MCDefinitions == {{Volts}, {Volts, Mode}}
(* Watched by its leaf name; plotted and not watched; a depth of none. *)
MCSheets ==
    {[watched |-> {<<Volts, "leaf">>}, plots |-> <<{Qualified(Mode)}>>, depth |-> 2],
     [watched |-> {}, plots |-> <<{Qualified(Volts), Qualified(Mode)}>>, depth |-> 0]}
(* Plotted by its leaf name. *)
MCLeafSheets ==
    {[watched |-> {}, plots |-> <<{<<Volts, "leaf">>}>>, depth |-> 2]}
=============================================================================
