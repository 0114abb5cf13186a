--------------------------- MODULE MCRosConverter ---------------------------
(* Three commands: one under way, one queued, one posted.                    *)
EXTENDS RosConverter
==============================================================================
