--------------------------- MODULE MCReceiverSweep ---------------------------
(* Instances of ReceiverSweep for TLC.                                     *)
EXTENDS ReceiverSweep

(* One receiver; even tables around, at and beside the source; uneven ones;*)
(* all receivers behind the source.                                        *)
SomeRanges == {<<2>>, <<0, 2, 4>>, <<-2, 0, 2>>, <<1, 2, 3, 4>>, <<-1, 2, 3>>, <<-3, -1>>}

SomePositions == -4 .. 5
=============================================================================
