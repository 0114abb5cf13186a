----------------------------- MODULE SerialLine -----------------------------
(***************************************************************************)
(* What SerialPort and main_common promise the rest of a program: frames   *)
(* handed over while the port is up leave in that order, each at most once *)
(* and never mixed with one another; when the port goes down, what has not *)
(* left is lost, and the frame under way may be cut short.                 *)
(***************************************************************************)
EXTENDS Naturals, Sequences

CONSTANT Frames   \* what may be sent

VARIABLES
  up,       \* frames are accepted and may leave
  waiting,  \* accepted, not left yet
  line      \* what left: the frame, and whether whole

lineVars == <<up, waiting, line>>

Whole(f) == [frame |-> f, whole |-> TRUE]
Torn(f) == [frame |-> f, whole |-> FALSE]

Init == up = FALSE /\ waiting = <<>> /\ line = <<>>

GoUp ==
  /\ ~up
  /\ line = <<>>
  /\ up' = TRUE
  /\ UNCHANGED <<waiting, line>>

Accept ==
  /\ up
  /\ \E f \in Frames : waiting' = Append(waiting, f)
  /\ UNCHANGED <<up, line>>

Leave ==
  /\ up
  /\ waiting # <<>>
  /\ line' = Append(line, Whole(Head(waiting)))
  /\ waiting' = Tail(waiting)
  /\ UNCHANGED up

GoDown ==
  /\ up
  /\ up' = FALSE
  /\ waiting' = <<>>
  /\ \/ line' = line
     \/ waiting # <<>> /\ line' = Append(line, Torn(Head(waiting)))

Next == GoUp \/ Accept \/ Leave \/ GoDown

Spec == Init /\ [][Next]_lineVars
==============================================================================
