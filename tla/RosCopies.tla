----------------------------- MODULE RosCopies -----------------------------
(***************************************************************************)
(* What a handler of a ROS converter copies between a UBData* struct and a *)
(* ROS message: which member into which field, and how many values of it   *)
(* the loop, memcpy or assign takes.  A field nothing is copied to stays 0.*)
(***************************************************************************)
EXTENDS Naturals

\* For a number of values: as many as the element itself says it has.
Counted == 0

Copy(to, from, n) == [to |-> to, from |-> from, n |-> n]
Own(names)        == {Copy(m, m, 1) : m \in names}
Loop(n, names)    == {Copy(m, m, n) : m \in names}
Assign(names)     == {Copy(m, m, Counted) : m \in names}

\* A message on a topic; of a struct with elements, item is copied for each.
Message(topic, head, item) == [topic |-> topic, head |-> head, item |-> item]

\* What the subscriber of a topic sends to the device.
Command(id, struct, head, item) ==
  [id |-> id, struct |-> struct, head |-> head, item |-> item]
Ask(id) == Command(id, "Empty", {}, {})
==============================================================================
