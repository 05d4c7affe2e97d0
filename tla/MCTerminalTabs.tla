--------------------------- MODULE MCTerminalTabs ---------------------------
(* The tabs over sessions of one connection: reconnecting needs no more,    *)
(* and the other connections can be deleted.                                *)
EXTENDS TerminalTabs

CONSTANT c1

AllOfC1 == [s \in Sessions |-> c1]
=============================================================================
