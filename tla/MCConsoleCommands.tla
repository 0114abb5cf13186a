------------------------- MODULE MCConsoleCommands -------------------------
(* Two fields, so that one can be left out; three values, one of which is    *)
(* rounded to another; a message whose reply has another struct.  Three      *)
(* commands: read, write, and a second write before the reply to the first.  *)
EXTENDS ConsoleCommands

CONSTANTS low, high, fine

MCRounded == [v \in Values |-> IF v = fine THEN high ELSE v]
==============================================================================
