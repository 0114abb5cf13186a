------------------------------- MODULE MCLink -------------------------------
(* Four-valued bytes; frames of at most nine bytes: no message, one or two   *)
(* empty ones, or one with a byte of payload.  That byte may be the SOF, and *)
(* so may the header of the frames the receiver refuses.                     *)
EXTENDS Link

MCBuiltIn == [id \in {1, 3} |-> 3]
MCExtension == [id \in {} |-> 0]
MCHeaders == {<<1>>, <<2>>}
MCAccepted == {<<1>>}
MCMessages == {[id |-> 1, raw |-> <<>>], [id |-> 2, raw |-> <<>>],
               [id |-> 3, raw |-> <<2>>]}
MCNoise == {<<>>, <<3, 1>>}
==============================================================================
