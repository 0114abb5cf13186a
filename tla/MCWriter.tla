------------------------------ MODULE MCWriter ------------------------------
(* All four messages of the example.                                         *)
EXTENDS Writer
==============================================================================
