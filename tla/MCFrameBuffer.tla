---------------------------- MODULE MCFrameBuffer ----------------------------
(* A three-valued byte, frames of at most six bytes, all wires of WireLen.   *)
EXTENDS FrameBuffer
==============================================================================
