--------------------------- MODULE MCFrameBuilder ---------------------------
(* Four-valued bytes, message payloads of at most one byte, frames of at     *)
(* most nine bytes in ten bytes of memory: two messages fit, or one and not  *)
(* quite a second; the format's limit binds before the memory does.          *)
EXTENDS FrameBuilder

MCHeader == <<2>>
\* Empty, in range, one byte too long for the size field.
MCRaws == {<<>>, <<3>>, <<0, 1>>}
==============================================================================
