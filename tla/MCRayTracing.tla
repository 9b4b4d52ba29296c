---------------------------- MODULE MCRayTracing ----------------------------
(* Instances of RayTracing for TLC.                                        *)
EXTENDS RayTracing

LOCAL Water(top, bottom, depths, ranges, lossy, shift) ==
  [top |-> top, bottom |-> bottom, depths |-> depths, ranges |-> ranges,
   lossy |-> lossy, shift |-> shift]

(* Level water with a knot, and shallow; a lossy bottom that shifts beams  *)
(* under range-dependent water; a bottom that rises and falls; a trough in *)
(* the surface over a bottom that rises.                                   *)
SomeWaters ==
  {Water(<<>>, <<>>, <<0, 4, 9>>, <<>>, {}, FALSE),
   Water(<<>>, <<>>, <<2, 4>>, <<>>, {"bottom"}, FALSE),
   Water(<<>>, <<>>, <<0, 12>>, <<-20, 5, 14>>, {"bottom"}, TRUE),
   Water(<<>>, << <<-6, 12>>, <<0, 12>>, <<5, 7>>, <<8, 10>> >>, <<0, 5, 12>>, <<>>, {"bottom"}, TRUE),
   Water(<< <<-9, 0>>, <<-6, 3>>, <<-3, 0>> >>, << <<-4, 12>>, <<5, 12>>, <<8, 9>> >>,
         <<0, 12>>, <<>>, {"top"}, FALSE)}

SomeShifts == {-1, 0, 2}
=============================================================================
