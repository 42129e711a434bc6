--------------------------- MODULE MCCommandWait ---------------------------
(* Instances of CommandWait for TLC.                                        *)
EXTENDS MCCommandQueue, CommandWait
=============================================================================
