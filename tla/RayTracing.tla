----------------------------- MODULE RayTracing -----------------------------
(****************************************************************************)
(* One ray: trace_ray of bellhop/src/solver/mod.rs with the steps of       *)
(* integrator.rs, the curves of boundary.rs, the reflections of            *)
(* reflection.rs and the segment search of ssp.rs.                         *)
(*                                                                         *)
(* The water has one sound speed, so that rays are straight between        *)
(* boundaries, on a lattice: coordinates are integers, a ray heads in one  *)
(* of eight directions, a boundary rises or falls at 45 degrees or is      *)
(* level.  Every quantity that steers a ray is then exact but for the      *)
(* Rounding of a landing point.  Lengths along a ray count lattice steps.  *)
(****************************************************************************)
EXTENDS Integers, Sequences, FiniteSets

CONSTANTS
  Waters,     \* the cases: [top, bottom, depths, ranges, lossy, shift]
  Sources,    \* source depths
  BaseStep,   \* base_step_m
  MinStep,    \* 1.0e-4 * base_step_m
  Rounding,   \* of a floating-point position
  Shifts,     \* displacements of a beam at a reflection
  MaxRange, MaxDepth,
  MaxSteps,   \* max_steps_per_ray
  Wide        \* EXTENDED_RANGE_M

Sides == {"top", "bottom"}
Slopes == {-1, 0, 1}
Headings == (Slopes \X Slopes) \ {<<0, 0>>}

(* Points of a boundary shape: <<range, depth>>, at increasing ranges; none *)
(* for a flat boundary.                                                    *)
Shapes == {points \in Seq(Int \X Int) :
             \A i \in 1 .. Len(points) - 1 :
               LET rise == points[i + 1][2] - points[i][2]
                   run == points[i + 1][1] - points[i][1]
               IN run > 0 /\ rise \in {-run, 0, run}}

(* Knots of the sound speed profile and of its range-dependent field.      *)
Knots == {k \in Seq(Int) : Len(k) >= 2 /\ \A i, j \in DOMAIN k : i < j => k[i] < k[j]}

ASSUME RayAssumption ==
  /\ Waters \subseteq [top : Shapes, bottom : Shapes, depths : Knots,
                       ranges : Knots \cup {<<>>}, lossy : SUBSET Sides, shift : BOOLEAN]
  /\ Sources \subseteq Int /\ Shifts \subseteq Int /\ 0 \in Shifts
  /\ Rounding \in Nat /\ MinStep \in Nat /\ Rounding < MinStep
  /\ BaseStep \in Nat /\ MinStep < BaseStep
  /\ MaxRange \in Nat \ {0} /\ MaxDepth \in Nat \ {0} /\ MaxRange < Wide /\ Wide \in Nat
  /\ MaxSteps \in Nat /\ MaxSteps >= 2
  /\ \A w \in Waters :
       /\ \A i \in DOMAIN w.top : w.top[i][2] >= w.depths[1] /\ w.top[i][1] \in -Wide + 1 .. Wide - 1
       /\ \A i \in DOMAIN w.bottom :
            /\ w.bottom[i][2] <= w.depths[Len(w.depths)]
            /\ w.bottom[i][1] \in -Wide + 1 .. Wide - 1

VARIABLES
  water,
  pc,            \* "step", "reflect", "test", "done"
  at, heading,   \* position and direction of the last state
  loud,          \* its amplitude is at least 0.005
  count,         \* states.len()
  bounces,       \* top_bounces, bottom_bounces
  segment,       \* top_segment, bottom_segment
  layer, column, \* SegmentState
  beginning,     \* beginning_top_distance, beginning_bottom_distance
  termination

vars == <<water, pc, at, heading, loud, count, bounces, segment, layer, column, beginning, termination>>

Terminations == {"StepLimit", "SourceOutsideBoundaries", "ExitedTraceBox", "LostEnergy",
                 "EscapedBoundary", "Error"}

Magnitude(n) == IF n < 0 THEN -n ELSE n
Least(S) == CHOOSE n \in S : \A m \in S : n <= m

-----------------------------------------------------------------------------
(* Boundary curves.                                                        *)

(* A curve is extended level to both sides; a flat one is all extension.   *)
Extended(points, depth) ==
  IF points = <<>> THEN << <<-Wide, depth>>, <<Wide, depth>> >>
  ELSE << <<-Wide, points[1][2]>> >> \o points \o << <<Wide, points[Len(points)][2]>> >>

Nodes(side) ==
  Extended(water[side], IF side = "top" THEN water.depths[1] ELSE water.depths[Len(water.depths)])

Segments(side) == 1 .. Len(Nodes(side)) - 1

SegmentForRange(side, range) ==
  LET insertion == Cardinality({i \in DOMAIN Nodes(side) : Nodes(side)[i][1] < range})
  IN IF insertion = 0 THEN 1
     ELSE IF insertion < Len(Nodes(side)) THEN insertion ELSE Len(Nodes(side)) - 1

Interval(side, i) == [from |-> Nodes(side)[i][1], to |-> Nodes(side)[i + 1][1]]

(* Depth per range along a segment.                                        *)
Slope(side, i) ==
  LET rise == Nodes(side)[i + 1][2] - Nodes(side)[i][2]
  IN IF rise > 0 THEN 1 ELSE IF rise < 0 THEN -1 ELSE 0

(* signed_inside_distance, measured vertically.                            *)
InsideDistance(side, i, p) ==
  LET depth == Nodes(side)[i][2] + Slope(side, i) * (p[1] - Nodes(side)[i][1])
  IN IF side = "top" THEN p[2] - depth ELSE depth - p[2]

(* The inside distance a ray of direction u loses per step.                *)
Approach(side, i, u) ==
  LET sinking == u[2] - Slope(side, i) * u[1]
  IN IF side = "top" THEN -sinking ELSE sinking

Distance(side) == InsideDistance(side, segment[side], at)

-----------------------------------------------------------------------------
(* Segments of the sound speed.                                            *)

FirstSegment(knots, value) ==
  LET beyond == {i \in 1 .. Len(knots) - 1 : value < knots[i + 1]}
  IN IF beyond = {} THEN Len(knots) - 1 ELSE Least(beyond)

UpdateDepthSegment(depth, i) ==
  IF depth < water.depths[i] \/ depth > water.depths[i + 1]
    THEN FirstSegment(water.depths, depth) ELSE i

UpdateRangeSegment(range, i) ==
  IF water.ranges = <<>> THEN i
  ELSE IF range < water.ranges[i] \/ range >= water.ranges[i + 1]
    THEN FirstSegment(water.ranges, range) ELSE i

(* A range-dependent field ends somewhere, and so does a ray that leaves it. *)
Defined(range) ==
  water.ranges # <<>> =>
    water.ranges[1] <= range /\ range <= water.ranges[Len(water.ranges)]

-----------------------------------------------------------------------------
TypeOK ==
  /\ water \in Waters
  /\ pc \in {"step", "reflect", "test", "done"}
  /\ at \in Int \X Int /\ heading \in Headings /\ loud \in BOOLEAN
  /\ count \in 1 .. MaxSteps
  /\ bounces \in [Sides -> Nat]
  /\ \A side \in Sides : segment[side] \in Segments(side)
  /\ layer \in 1 .. Len(water.depths) - 1
  /\ column \in IF water.ranges = <<>> THEN {1} ELSE 1 .. Len(water.ranges) - 1
  /\ beginning \in [Sides -> Int]
  /\ termination \in Terminations

(* A source whose depth or range the water does not have gives an error or *)
(* a ray of one state.                                                     *)
Init ==
  /\ water \in Waters
  /\ at \in {<<0, depth>> : depth \in Sources} /\ heading \in Headings /\ loud \in BOOLEAN
  /\ count = 1 /\ bounces = [side \in Sides |-> 0]
  /\ segment = [side \in Sides |-> SegmentForRange(side, 0)]
  /\ layer = UpdateDepthSegment(at[2], 1) /\ column = UpdateRangeSegment(0, 1)
  /\ beginning = [side \in Sides |-> Distance(side)]
  /\ LET outside == \E side \in Sides : beginning[side] <= 0
     IN /\ pc = IF outside \/ ~Defined(0) THEN "done" ELSE "step"
        /\ termination = IF ~Defined(0) THEN "Error"
                         ELSE IF outside THEN "SourceOutsideBoundaries" ELSE "StepLimit"

-----------------------------------------------------------------------------
(* step_2d.                                                                *)

Along(p, u, step) == <<p[1] + step * u[1], p[2] + step * u[2]>>

Trial == Along(at, heading, BaseStep)

(* What reduce_step takes the least of: the steps to whatever the trial    *)
(* step would pass.  BaseStep, where there is nothing, stands for f64::MAX. *)
InterfaceStep(i) ==
  CASE heading[2] # 0 /\ water.depths[i] > Trial[2] -> (water.depths[i] - at[2]) * heading[2]
    [] heading[2] # 0 /\ water.depths[i + 1] < Trial[2] -> (water.depths[i + 1] - at[2]) * heading[2]
    [] OTHER -> BaseStep

(* A ray that is outside and runs parallel to the boundary divides by      *)
(* zero, which leaves it the smallest step.                                *)
BoundaryStep(side) ==
  LET distance == Distance(side)
      approach == Approach(side, segment[side], heading)
  IN IF InsideDistance(side, segment[side], Trial) >= 0 THEN BaseStep
     ELSE CASE approach = 0 -> 0
            [] approach > 0 -> distance \div approach
            [] approach < 0 -> (-distance) \div (-approach)

Greater(m, n) == IF m < n THEN n ELSE m
Lesser(m, n) == IF m < n THEN m ELSE n

(* Mutant: the least range that both intervals reach back to.              *)
SharedIntervalWider(j) ==
  LET top == Interval("top", segment["top"])
      bottom == Interval("bottom", segment["bottom"])
  IN [from |-> Lesser(top.from, bottom.from), to |-> Lesser(top.to, bottom.to)]

(* The range interval that the current segments have in common.            *)
SharedInterval(j) ==
  LET top == Interval("top", segment["top"])
      bottom == Interval("bottom", segment["bottom"])
      from == Greater(top.from, bottom.from)
      to == Lesser(top.to, bottom.to)
  IN IF water.ranges = <<>> THEN [from |-> from, to |-> to]
     ELSE [from |-> Greater(from, water.ranges[j]), to |-> Lesser(to, water.ranges[j + 1])]

SegmentStep(j) ==
  LET shared == SharedInterval(j)
  IN IF heading[1] # 0 /\ Trial[1] < shared.from THEN (shared.from - at[1]) * heading[1]
     ELSE IF heading[1] # 0 /\ Trial[1] > shared.to THEN (shared.to - at[1]) * heading[1]
     ELSE BaseStep

BoxStep ==
  Lesser(IF Magnitude(Trial[1]) > MaxRange THEN MaxRange - Magnitude(at[1]) ELSE BaseStep,
         IF Magnitude(Trial[2]) > MaxDepth THEN MaxDepth - Magnitude(at[2]) ELSE BaseStep)

LimitedStep(i, j) ==
  Lesser(Lesser(Lesser(BaseStep, InterfaceStep(i)), Lesser(BoundaryStep("top"), BoundaryStep("bottom"))),
         Lesser(SegmentStep(j), BoxStep))

ReducedStep(i, j) == Greater(MinStep, LimitedStep(i, j))

(* A coordinate that moves may be rounded.                                 *)
Rounded(value, moves) == IF moves = 0 THEN {value} ELSE value - Rounding .. value + Rounding

Landings(step) ==
  LET goal == Along(at, heading, step)
  IN Rounded(goal[1], heading[1]) \X Rounded(goal[2], heading[2])

(* The sound speed is evaluated where the step starts, halfway and where   *)
(* it ends.                                                                *)
StartLayer == UpdateDepthSegment(at[2], layer)
StartColumn == UpdateRangeSegment(at[1], column)
Halfway(step) == Along(at, heading, step \div 2)

(* segment_for_range only once the ray is out of the interval.             *)
NextSegment(side, range) ==
  LET interval == Interval(side, segment[side])
  IN IF range < interval.from \/ range > interval.to THEN SegmentForRange(side, range)
     ELSE segment[side]

(* Mutants: a ray on the boundary has not crossed it; a ray that was       *)
(* outside before has.                                                     *)
CrossedSidesBeyond(i, p) ==
  {side \in Sides : beginning[side] > 0 /\ InsideDistance(side, i[side], p) < 0}
CrossedSidesAnyway(i, p) ==
  {side \in Sides : InsideDistance(side, i[side], p) <= 0}

(* The boundary the ray was inside of and no longer is, the top first.     *)
CrossedSides(i, p) ==
  {side \in Sides : beginning[side] > 0 /\ InsideDistance(side, i[side], p) <= 0}

Fail ==
  /\ pc' = "done" /\ termination' = "Error"
  /\ UNCHANGED <<water, at, heading, loud, count, bounces, segment, layer, column, beginning>>

(* A ray whose limit leaves no room for its reflection ends with the       *)
(* incident state.                                                         *)
Step ==
  /\ pc = "step"
  /\ LET step == ReducedStep(StartLayer, StartColumn)
         half == Halfway(step)
     IN \E p \in Landings(step) :
          IF ~Defined(at[1]) \/ ~Defined(half[1]) \/ ~Defined(p[1]) THEN Fail
          ELSE
            /\ at' = p
            /\ layer' = UpdateDepthSegment(p[2], UpdateDepthSegment(half[2], StartLayer))
            /\ column' = UpdateRangeSegment(p[1], UpdateRangeSegment(half[1], StartColumn))
            /\ segment' = [side \in Sides |-> NextSegment(side, p[1])]
            /\ count' = count + 1
            /\ pc' = IF CrossedSides(segment', p) = {} THEN "test"
                     ELSE IF count' < MaxSteps THEN "reflect" ELSE "done"
            /\ UNCHANGED <<water, heading, loud, bounces, beginning, termination>>

-----------------------------------------------------------------------------
(* reflect_2d.                                                             *)

(* u - 2 (u . n) n for a line that is level, rises or falls.               *)
Mirrored(u, slope) ==
  IF slope = 0 THEN <<u[1], -u[2]>> ELSE <<slope * u[2], slope * u[1]>>

CrossedSide == IF "top" \in CrossedSides(segment, at) THEN "top" ELSE "bottom"

(* A lossy boundary, not a rigid or a free one, changes the amplitude by a *)
(* coefficient of any size, may have none, and may shift the beam along    *)
(* itself; its segments are not looked up again.                           *)
Reflect ==
  /\ pc = "reflect"
  /\ LET side == CrossedSide
         slope == Slope(side, segment[side])
     IN /\ heading' = Mirrored(heading, slope)
        /\ bounces' = [bounces EXCEPT ![side] = @ + 1]
        /\ IF side \in water.lossy
             THEN /\ loud' \in BOOLEAN
                  /\ at' \in {Along(at, <<1, slope>>, s) : s \in IF water.shift THEN Shifts ELSE {0}}
             ELSE UNCHANGED <<loud, at>>
  /\ count' = count + 1
  /\ pc' = "test"
  /\ UNCHANGED <<water, segment, layer, column, beginning, termination>>

(* A ray that grazes its boundary divides by zero.                         *)
Grazes(side) == Approach(side, segment[side], heading) = 0

ReflectFails ==
  pc = "reflect" /\ (CrossedSide \in water.lossy \/ Grazes(CrossedSide)) /\ Fail

-----------------------------------------------------------------------------
(* What ends a ray, in this order, at the end of an iteration.             *)

InBox == Magnitude(at[1]) <= MaxRange /\ Magnitude(at[2]) <= MaxDepth
Outside == \E side \in Sides : beginning[side] < 0 /\ Distance(side) < 0

(* Mutant: the energy first.                                               *)
VerdictEnergy ==
  IF ~loud THEN "LostEnergy"
  ELSE IF ~InBox THEN "ExitedTraceBox"
  ELSE IF Outside THEN "EscapedBoundary"
  ELSE "StepLimit"

Verdict ==
  IF ~InBox THEN "ExitedTraceBox"
  ELSE IF ~loud THEN "LostEnergy"
  ELSE IF Outside THEN "EscapedBoundary"
  ELSE "StepLimit"

EndingDistances == [side \in Sides |-> Distance(side)]

Test ==
  /\ pc = "test"
  /\ termination' = Verdict
  /\ IF Verdict # "StepLimit" THEN pc' = "done" /\ UNCHANGED beginning
     ELSE /\ beginning' = EndingDistances
          /\ pc' = IF count < MaxSteps THEN "step" ELSE "done"
  /\ UNCHANGED <<water, at, heading, loud, count, bounces, segment, layer, column>>

Next == Step \/ Reflect \/ ReflectFails \/ Test

Spec == Init /\ [][Next]_vars

-----------------------------------------------------------------------------
(* Properties.                                                             *)

Flat == water.top = <<>> /\ water.bottom = <<>>

(* Rays do not leak: between level boundaries no ray is ever farther       *)
(* outside than a smallest step can overshoot, and one that is said to     *)
(* have escaped is at the boundary but for rounding.                       *)
Contained ==
  Flat =>
    \A side \in Sides :
      /\ count > 1 => Distance(side) > -MinStep - Rounding
      /\ termination = "EscapedBoundary" => Distance(side) > -2 * Rounding

(* Nor does a ray bounce twice at one of them without the other between.   *)
Alternating ==
  Flat => bounces["top"] - bounces["bottom"] \in {-1, 0, 1}

(* The termination says why the ray ended.                                 *)
Truthful ==
  pc = "done" =>
    CASE termination = "StepLimit" -> count = MaxSteps
      [] termination = "SourceOutsideBoundaries" -> count = 1 /\ \E side \in Sides : Distance(side) <= 0
      [] termination = "ExitedTraceBox" -> ~InBox
      [] termination = "LostEnergy" -> InBox /\ ~loud
      [] termination = "EscapedBoundary" -> InBox /\ loud /\ \E side \in Sides : Distance(side) < 0
      [] OTHER -> TRUE

(* Every step goes forward, along its ray.                                 *)
Advancing ==
  [][pc = "step" /\ count' > count =>
       (at'[1] - at[1]) * heading[1] + (at'[2] - at[2]) * heading[2] > 0]_vars

(* No step passes over a knot of the sound speed, or over the end of a     *)
(* segment, that was farther ahead than the smallest step.  A beam shift   *)
(* leaves the segments of a boundary that has any behind, and the next     *)
(* step may then pass over ranges.                                         *)
Ahead(value, from, to) == from + MinStep <= value /\ value < to - Rounding
Behind(value, from, to) == to + Rounding < value /\ value <= from - MinStep
Passed(value, from, to) == Ahead(value, from, to) \/ Behind(value, from, to)

Tracked == ~water.shift \/ Flat

KnotsRespected ==
  [][pc = "step" =>
       /\ \A i \in 2 .. Len(water.depths) - 1 : ~Passed(water.depths[i], at[2], at'[2])
       /\ Tracked =>
            /\ \A i \in DOMAIN water.ranges : ~Passed(water.ranges[i], at[1], at'[1])
            /\ \A side \in Sides : \A i \in DOMAIN water[side] : ~Passed(water[side][i][1], at[1], at'[1])]_vars
=============================================================================
