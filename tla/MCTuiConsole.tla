---------------------------- MODULE MCTuiConsole ----------------------------
(* Two lines kept of four logged; lines that take one, two and three rows in *)
(* a narrow terminal, and one in a wide one of a single row.                 *)
EXTENDS TuiConsole

MCLengths == <<3, 0, 2, 5>>
MCSizes == {[width |-> 2, area |-> 2], [width |-> 5, area |-> 1]}
==============================================================================
