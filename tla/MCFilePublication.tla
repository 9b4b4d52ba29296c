------------------------- MODULE MCFilePublication -------------------------
(* Instances of FilePublication for TLC.                                   *)
EXTENDS FilePublication

CONSTANTS u, v, w
=============================================================================
