--------------------------- MODULE MCKrakenModes ---------------------------
(* Instances of KrakenModes for TLC.                                       *)
EXTENDS KrakenModes

(* Cells of the axis of probes, one beyond either limit.                   *)
SomePlaces == {-1, 1, 3, 5, 7}
=============================================================================
