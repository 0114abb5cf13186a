--------------------------- MODULE MCFrameParser ---------------------------
(* Four-valued bytes, message payloads of at most one byte; payloads of up   *)
(* to five bytes: a header, a message (its size byte with and without the    *)
(* reserved bit), and a second message, whole, torn or missing.              *)
EXTENDS FrameParser

MCPayloads ==
  {p \in UNION {[0 .. n - 1 -> Byte] : n \in {0, 1, 2, 4, 5}} :
     /\ DOMAIN p = {} \/ p[0] = 0
     /\ 1 \in DOMAIN p => p[1] # 0
     /\ 2 \in DOMAIN p => p[2] # 2}

\* 1 has no struct; 3 is known to the extension alone, 0 to nobody; 2 to both.
MCBuiltIn == [id \in {1, 2} |-> IF id = 1 THEN 0 ELSE 3]
MCExtension == [id \in {2, 3} |-> 1]
==============================================================================
