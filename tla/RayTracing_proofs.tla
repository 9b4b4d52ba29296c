-------------------------- MODULE RayTracing_proofs --------------------------
(****************************************************************************)
(* Theorems about RayTracing: for every water, step and number of states,  *)
(* no segment index leaves its table, every step goes forward and passes   *)
(* over nothing it should stop at, rays between level boundaries neither   *)
(* leak nor bounce twice on one side, and what a ray reports is why it     *)
(* ended.                                                                  *)
(****************************************************************************)
EXTENDS RayTracing, FiniteSetTheorems, WellFoundedInduction, TLAPS

LEMMA Numbers ==
  /\ Rounding \in Int /\ Rounding >= 0 /\ MinStep \in Int /\ Rounding < MinStep
  /\ BaseStep \in Int /\ MinStep < BaseStep
  /\ MaxRange \in Int /\ MaxDepth \in Int /\ Wide \in Int /\ Wide > 0
  /\ MaxSteps \in Int /\ MaxSteps >= 2
  /\ Sources \subseteq Int /\ Shifts \subseteq Int
BY RayAssumption

LEMMA HeadingParts ==
  ASSUME NEW u \in Headings
  PROVE  u = <<u[1], u[2]>> /\ u[1] \in {-1, 0, 1} /\ u[2] \in {-1, 0, 1}
BY DEF Headings, Slopes

LEMMA WaterFacts ==
  ASSUME NEW w \in Waters
  PROVE  /\ w.top \in Shapes /\ w.bottom \in Shapes
         /\ w.depths \in Seq(Int) /\ Len(w.depths) >= 2
         /\ w.ranges # <<>> => w.ranges \in Seq(Int) /\ Len(w.ranges) >= 2
         /\ w.lossy \subseteq Sides /\ w.shift \in BOOLEAN
BY RayAssumption DEF Knots

(* The first member of a set of natural numbers.                           *)
LEMMA LeastIsLeast ==
  ASSUME NEW S \in SUBSET Nat, S # {}
  PROVE  Least(S) \in S /\ \A m \in S : Least(S) <= m
<1>1. PICK n \in S : \A m \in S : ~(<<m, n>> \in OpToRel(<, Nat))
  BY NatLessThanWellFounded, WFMin
<1>2. \A m \in S : n <= m
  <2> SUFFICES ASSUME NEW m \in S, m < n PROVE FALSE
    OBVIOUS
  <2>1. <<m, n>> \in OpToRel(<, Nat)
    BY DEF OpToRel
  <2> QED
    BY <1>1, <2>1
<1> QED
  BY <1>2 DEF Least

(* The search of ssp.rs ends inside its grid.                              *)
LEMMA FirstSegmentInGrid ==
  ASSUME NEW knots \in Seq(Int), Len(knots) >= 2, NEW value \in Int
  PROVE  FirstSegment(knots, value) \in 1 .. Len(knots) - 1
<1> DEFINE beyond == {i \in 1 .. Len(knots) - 1 : value < knots[i + 1]}
<1>1. CASE beyond = {}
  BY <1>1 DEF FirstSegment
<1>2. CASE beyond # {}
  <2>1. beyond \subseteq Nat
    OBVIOUS
  <2> QED
    BY <1>2, <2>1, LeastIsLeast DEF FirstSegment
<1> QED
  BY <1>1, <1>2

-----------------------------------------------------------------------------
(* Curves.                                                                 *)

LEMMA CurveFacts ==
  ASSUME NEW points \in Shapes, NEW depth \in Int
  PROVE  /\ Extended(points, depth) \in Seq(Int \X Int)
         /\ Len(Extended(points, depth)) >= 2
<1>1. CASE points = <<>>
  BY <1>1, Numbers DEF Extended
<1>2. CASE points # <<>>
  <2>1. points \in Seq(Int \X Int) /\ Len(points) >= 1
    BY <1>2 DEF Shapes
  <2>2. points[1] \in Int \X Int /\ points[Len(points)] \in Int \X Int
    BY <2>1
  <2>3. << <<-Wide, points[1][2]>> >> \in Seq(Int \X Int) /\ << <<Wide, points[Len(points)][2]>> >> \in Seq(Int \X Int)
    BY <2>2, Numbers
  <2> DEFINE first == << <<-Wide, points[1][2]>> >>
             last == << <<Wide, points[Len(points)][2]>> >>
  <2>4. first \in Seq(Int \X Int) /\ last \in Seq(Int \X Int) /\ Len(first) = 1 /\ Len(last) = 1
    BY <2>3
  <2>5. Extended(points, depth) = (first \o points) \o last
    BY <1>2 DEF Extended
  <2> HIDE DEF first, last
  <2> QED
    BY <2>1, <2>4, <2>5
<1> QED
  BY <1>1, <1>2

LEMMA NodesFacts ==
  ASSUME water \in Waters, NEW side \in Sides
  PROVE  /\ Nodes(side) \in Seq(Int \X Int) /\ Len(Nodes(side)) \in Nat
         /\ Len(Nodes(side)) >= 2
         /\ \A i \in 1 .. Len(Nodes(side)) :
              Nodes(side)[i] \in Int \X Int /\ Nodes(side)[i][1] \in Int /\ Nodes(side)[i][2] \in Int
<1>1. water[side] \in Shapes
  BY WaterFacts DEF Sides
<1>2. water.depths[1] \in Int /\ water.depths[Len(water.depths)] \in Int
  BY WaterFacts
<1>3. Nodes(side) \in Seq(Int \X Int) /\ Len(Nodes(side)) >= 2
  BY <1>1, <1>2, CurveFacts DEF Nodes
<1> QED
  BY <1>3

LEMMA SegmentForRangeInCurve ==
  ASSUME water \in Waters, NEW side \in Sides, NEW range
  PROVE  SegmentForRange(side, range) \in Segments(side)
<1> DEFINE n == Len(Nodes(side))
           before == {i \in DOMAIN Nodes(side) : Nodes(side)[i][1] < range}
<1>1. n \in Nat /\ n >= 2 /\ DOMAIN Nodes(side) = 1 .. n
  BY NodesFacts
<1>2. IsFiniteSet(before)
  <2>1. before \subseteq 1 .. n /\ 1 \in Int /\ n \in Int
    BY <1>1
  <2>2. IsFiniteSet(1 .. n)
    BY <2>1, FS_Interval
  <2> QED
    BY <2>1, <2>2, FS_Subset
<1>3. Cardinality(before) \in Nat
  BY <1>2, FS_CardinalityType
<1> HIDE DEF n, before
<1>4. SegmentForRange(side, range) =
        IF Cardinality(before) = 0 THEN 1
        ELSE IF Cardinality(before) < n THEN Cardinality(before) ELSE n - 1
  BY DEF SegmentForRange, before, n
<1>5. Segments(side) = 1 .. n - 1
  BY DEF Segments, n
<1> QED
  BY <1>1, <1>3, <1>4, <1>5

LEMMA SlopeType == \A side \in Sides : \A i : Slope(side, i) \in {-1, 0, 1}
BY DEF Slope

LEMMA DistanceType ==
  ASSUME water \in Waters, NEW side \in Sides, NEW i \in Segments(side), NEW p \in Int \X Int
  PROVE  InsideDistance(side, i, p) \in Int
<1>1. Nodes(side)[i][1] \in Int /\ Nodes(side)[i][2] \in Int /\ p[1] \in Int /\ p[2] \in Int
  BY NodesFacts DEF Segments
<1>2. \A k \in {-1, 0, 1}, m \in Int : k * m \in Int
  OBVIOUS
<1>3. Slope(side, i) * (p[1] - Nodes(side)[i][1]) \in Int
  BY <1>1, <1>2, SlopeType
<1> QED
  BY <1>1, <1>3 DEF InsideDistance

-----------------------------------------------------------------------------
(* Steps.                                                                  *)

LEMMA LayerType ==
  ASSUME water \in Waters, NEW depth \in Int, NEW i \in 1 .. Len(water.depths) - 1
  PROVE  UpdateDepthSegment(depth, i) \in 1 .. Len(water.depths) - 1
BY WaterFacts, FirstSegmentInGrid DEF UpdateDepthSegment

Columns == IF water.ranges = <<>> THEN {1} ELSE 1 .. Len(water.ranges) - 1

LEMMA ColumnType ==
  ASSUME water \in Waters, NEW range \in Int, NEW j \in Columns
  PROVE  UpdateRangeSegment(range, j) \in Columns
BY WaterFacts, FirstSegmentInGrid DEF UpdateRangeSegment, Columns

LEMMA Product == \A k \in {-1, 0, 1}, m \in Int : m * k \in Int /\ k * m \in Int
OBVIOUS

LEMMA AlongType ==
  ASSUME NEW p \in Int \X Int, NEW u \in {-1, 0, 1} \X {-1, 0, 1}, NEW step \in Int
  PROVE  Along(p, u, step) \in Int \X Int
BY Product DEF Along

(* No step is shorter than the smallest one.                               *)
LEMMA StepLength ==
  ASSUME TypeOK, NEW i \in 1 .. Len(water.depths) - 1, NEW j \in Columns
  PROVE  /\ LimitedStep(i, j) \in Int
         /\ \A side \in Sides : BoundaryStep(side) \in Int /\ LimitedStep(i, j) <= BoundaryStep(side)
         /\ LimitedStep(i, j) <= BaseStep
         /\ InterfaceStep(i) \in Int /\ LimitedStep(i, j) <= InterfaceStep(i)
         /\ SegmentStep(j) \in Int /\ LimitedStep(i, j) <= SegmentStep(j)
         /\ ReducedStep(i, j) \in Int /\ ReducedStep(i, j) >= MinStep
         /\ ReducedStep(i, j) = MinStep \/ ReducedStep(i, j) = LimitedStep(i, j)
<1>1. /\ water \in Waters /\ at \in Int \X Int /\ at[1] \in Int /\ at[2] \in Int
      /\ heading[1] \in {-1, 0, 1} /\ heading[2] \in {-1, 0, 1}
      /\ heading \in {-1, 0, 1} \X {-1, 0, 1}
      /\ \A side \in Sides : segment[side] \in Segments(side)
  BY HeadingParts DEF TypeOK, Headings, Slopes
<1>2. Trial \in Int \X Int /\ Trial[1] \in Int /\ Trial[2] \in Int
  BY <1>1, AlongType, Numbers DEF Trial
<1>3. InterfaceStep(i) \in Int
  <2>1. water.depths[i] \in Int /\ water.depths[i + 1] \in Int
    BY <1>1, WaterFacts
  <2>2. water.depths[i] - at[2] \in Int /\ water.depths[i + 1] - at[2] \in Int
    BY <1>1, <2>1
  <2>3. /\ (water.depths[i] - at[2]) * heading[2] \in Int
        /\ (water.depths[i + 1] - at[2]) * heading[2] \in Int
    BY <1>1, <2>2, Product
  <2> QED
    BY <2>3, Numbers DEF InterfaceStep
<1>4. ASSUME NEW side \in Sides PROVE BoundaryStep(side) \in Int
  <2>1. Distance(side) \in Int
    BY <1>1, DistanceType DEF Distance
  <2>2. Approach(side, segment[side], heading) \in Int
    BY <1>1, SlopeType, Product DEF Approach
  <2> DEFINE d == Distance(side)
             r == Approach(side, segment[side], heading)
  <2>3. \A m, n \in Int : n > 0 => m \div n \in Int
    OBVIOUS
  <2>4. (r > 0 => d \div r \in Int) /\ (r < 0 => (-d) \div (-r) \in Int)
    <3>1. d \in Int /\ r \in Int /\ -d \in Int /\ -r \in Int /\ (r < 0 => -r > 0)
      BY <2>1, <2>2
    <3> HIDE DEF d, r
    <3> QED
      BY <3>1, <2>3
  <2>5. r = 0 \/ r > 0 \/ r < 0
    BY <2>2
  <2>6. BoundaryStep(side) = IF InsideDistance(side, segment[side], Trial) >= 0 THEN BaseStep
                             ELSE CASE r = 0 -> 0 [] r > 0 -> d \div r [] r < 0 -> (-d) \div (-r)
    BY DEF BoundaryStep
  <2> HIDE DEF d, r
  <2> QED
    BY <2>2, <2>4, <2>5, <2>6, Numbers
<1>5. SegmentStep(j) \in Int
  <2>1. ASSUME NEW side \in Sides
        PROVE  /\ Interval(side, segment[side]).from \in Int
               /\ Interval(side, segment[side]).to \in Int
    <3>1. segment[side] \in 1 .. Len(Nodes(side)) /\ segment[side] + 1 \in 1 .. Len(Nodes(side))
      <4>1. Len(Nodes(side)) \in Nat /\ Len(Nodes(side)) >= 2
        BY <1>1, NodesFacts
      <4>2. segment[side] \in 1 .. Len(Nodes(side)) - 1
        BY <1>1 DEF Segments
      <4> QED
        BY <4>1, <4>2
    <3> QED
      BY <1>1, <3>1, NodesFacts DEF Interval
  <2>2. SharedInterval(j).from \in Int /\ SharedInterval(j).to \in Int
    <3>1. water.ranges # <<>> => water.ranges[j] \in Int /\ water.ranges[j + 1] \in Int
      <4> SUFFICES ASSUME water.ranges # <<>>
                   PROVE  water.ranges[j] \in Int /\ water.ranges[j + 1] \in Int
        OBVIOUS
      <4>1. water.ranges \in Seq(Int) /\ Len(water.ranges) \in Nat /\ j \in 1 .. Len(water.ranges) - 1
        BY <1>1, WaterFacts DEF Columns
      <4> QED
        BY <4>1
    <3> QED
      BY <2>1, <3>1 DEF SharedInterval, Greater, Lesser, Sides
  <2> QED
    <3> DEFINE f == SharedInterval(j).from
               t == SharedInterval(j).to
    <3>1. f - at[1] \in Int /\ t - at[1] \in Int
      BY <1>1, <2>2
    <3>2. (f - at[1]) * heading[1] \in Int /\ (t - at[1]) * heading[1] \in Int
      BY <1>1, <3>1, Product
    <3> QED
      BY <3>2, Numbers DEF SegmentStep
<1>6. BoxStep \in Int
  BY <1>1, <1>2, Numbers DEF BoxStep, Lesser, Magnitude
<1>7. "top" \in Sides /\ "bottom" \in Sides /\ Sides = {"top", "bottom"}
  BY DEF Sides
<1>8. \A m, n \in Int : Lesser(m, n) \in Int /\ Lesser(m, n) <= m /\ Lesser(m, n) <= n
  BY DEF Lesser
<1>9. /\ LimitedStep(i, j) \in Int /\ LimitedStep(i, j) <= BaseStep
      /\ LimitedStep(i, j) <= BoundaryStep("top") /\ LimitedStep(i, j) <= BoundaryStep("bottom")
      /\ LimitedStep(i, j) <= InterfaceStep(i) /\ LimitedStep(i, j) <= SegmentStep(j)
  <2> DEFINE x == Lesser(BaseStep, InterfaceStep(i))
             y == Lesser(BoundaryStep("top"), BoundaryStep("bottom"))
             z == Lesser(SegmentStep(j), BoxStep)
  <2>1. x \in Int /\ y \in Int /\ z \in Int /\ x <= BaseStep
        /\ y <= BoundaryStep("top") /\ y <= BoundaryStep("bottom")
        /\ x <= InterfaceStep(i) /\ z <= SegmentStep(j)
    BY <1>3, <1>4, <1>5, <1>6, <1>7, <1>8, Numbers
  <2>2. LimitedStep(i, j) = Lesser(Lesser(x, y), z)
    BY DEF LimitedStep
  <2> HIDE DEF x, y, z
  <2>3. Lesser(x, y) \in Int /\ Lesser(x, y) <= x /\ Lesser(x, y) <= y
    BY <1>8, <2>1
  <2>4. LimitedStep(i, j) \in Int /\ LimitedStep(i, j) <= Lesser(x, y) /\ LimitedStep(i, j) <= z
    BY <1>8, <2>1, <2>2, <2>3
  <2> QED
    BY <1>3, <1>4, <1>5, <1>7, <2>1, <2>3, <2>4, Numbers
<1> QED
  BY <1>3, <1>4, <1>5, <1>7, <1>9, Numbers DEF ReducedStep, Greater

-----------------------------------------------------------------------------
(* Type correctness, with room for the state a pending reflection adds.    *)

TypeInv == TypeOK /\ (pc \in {"step", "reflect"} => count < MaxSteps)

LEMMA TypeInit == Init => TypeInv
<1> SUFFICES ASSUME Init PROVE TypeInv
  OBVIOUS
<1>1. /\ water \in Waters /\ at \in Int \X Int /\ at[1] \in Int /\ at[2] \in Int
      /\ Len(water.depths) >= 2 /\ water.depths \in Seq(Int)
  BY Numbers, WaterFacts DEF Init
<1>2. \A side \in Sides : segment[side] \in Segments(side)
  BY <1>1, SegmentForRangeInCurve DEF Init
<1>3. layer \in 1 .. Len(water.depths) - 1
  BY <1>1, LayerType DEF Init
<1>4. column \in Columns
  <2>1. 1 \in Columns
    BY <1>1, WaterFacts DEF Columns
  <2> QED
    BY <1>1, <2>1, ColumnType DEF Init
<1>5. beginning \in [Sides -> Int]
  <2>1. \A side \in Sides : Distance(side) \in Int
    BY <1>1, <1>2, DistanceType DEF Distance
  <2> QED
    BY <2>1 DEF Init
<1> QED
  BY <1>1, <1>2, <1>3, <1>4, <1>5, Numbers DEF Init, TypeInv, TypeOK, Terminations, Columns

LEMMA FailKeepsTypes == TypeInv /\ Fail => TypeInv'
<1> SUFFICES ASSUME TypeInv, Fail PROVE TypeInv'
  OBVIOUS
<1>1. \A side \in Sides : Segments(side)' = Segments(side)
  BY DEF Fail, Segments, Nodes
<1> QED
  BY <1>1 DEF Fail, TypeInv, TypeOK, Terminations

(* What a step that does not fail does.                                    *)
LEMMA StepFacts ==
  ASSUME TypeInv, Step, ~Fail
  PROVE  \E step \in Int :
           /\ step = ReducedStep(StartLayer, StartColumn)
           /\ step >= MinStep
           /\ StartLayer \in 1 .. Len(water.depths) - 1 /\ StartColumn \in Columns
           /\ at' \in Landings(step) /\ at' \in Int \X Int
           /\ layer' = UpdateDepthSegment(at'[2], UpdateDepthSegment(Halfway(step)[2], StartLayer))
           /\ column' = UpdateRangeSegment(at'[1], UpdateRangeSegment(Halfway(step)[1], StartColumn))
           /\ segment' = [side \in Sides |-> NextSegment(side, at'[1])]
           /\ count' = count + 1
           /\ pc' = IF CrossedSides(segment', at') = {} THEN "test"
                    ELSE IF count' < MaxSteps THEN "reflect" ELSE "done"
           /\ UNCHANGED <<water, heading, loud, bounces, beginning, termination>>
<1> DEFINE step == ReducedStep(StartLayer, StartColumn)
<1>1. /\ water \in Waters /\ at \in Int \X Int /\ at[1] \in Int /\ at[2] \in Int
      /\ heading \in {-1, 0, 1} \X {-1, 0, 1} /\ heading[1] \in {-1, 0, 1} /\ heading[2] \in {-1, 0, 1}
  BY HeadingParts DEF TypeInv, TypeOK, Headings, Slopes
<1>2. StartLayer \in 1 .. Len(water.depths) - 1 /\ StartColumn \in Columns
  BY <1>1, LayerType, ColumnType DEF TypeInv, TypeOK, StartLayer, StartColumn, Columns
<1>3. step \in Int /\ step >= MinStep
  BY <1>2, StepLength DEF TypeInv
<1>4. PICK p \in Landings(step) :
           /\ at' = p
           /\ layer' = UpdateDepthSegment(p[2], UpdateDepthSegment(Halfway(step)[2], StartLayer))
           /\ column' = UpdateRangeSegment(p[1], UpdateRangeSegment(Halfway(step)[1], StartColumn))
           /\ segment' = [side \in Sides |-> NextSegment(side, p[1])]
           /\ count' = count + 1
           /\ pc' = IF CrossedSides(segment', p) = {} THEN "test"
                    ELSE IF count' < MaxSteps THEN "reflect" ELSE "done"
           /\ UNCHANGED <<water, heading, loud, bounces, beginning, termination>>
  BY DEF Step
<1>5. Landings(step) \subseteq Int \X Int
  <2>1. Along(at, heading, step)[1] \in Int /\ Along(at, heading, step)[2] \in Int
    BY <1>1, <1>3, AlongType
  <2>2. \A v \in Int, m \in Int : Rounded(v, m) \subseteq Int
    BY Numbers DEF Rounded
  <2>3. heading[1] \in Int /\ heading[2] \in Int
    BY <1>1
  <2> QED
    BY <2>1, <2>2, <2>3 DEF Landings
<1> HIDE DEF step
<1> QED
  BY <1>2, <1>3, <1>4, <1>5 DEF step

LEMMA TypeStep == TypeInv /\ [Next]_vars => TypeInv'
<1> SUFFICES ASSUME TypeInv, [Next]_vars PROVE TypeInv'
  OBVIOUS
<1>t. /\ water \in Waters /\ at \in Int \X Int /\ at[1] \in Int /\ at[2] \in Int
      /\ heading \in Headings /\ heading[1] \in {-1, 0, 1} /\ heading[2] \in {-1, 0, 1}
      /\ \A side \in Sides : segment[side] \in Segments(side)
      /\ layer \in 1 .. Len(water.depths) - 1 /\ column \in Columns
      /\ count \in Int /\ 1 <= count /\ count <= MaxSteps
      /\ bounces \in [Sides -> Nat] /\ beginning \in [Sides -> Int]
  BY HeadingParts, Numbers DEF TypeInv, TypeOK, Columns
<1>s. ASSUME water' = water
      PROVE  /\ \A side \in Sides : Segments(side)' = Segments(side)
             /\ Columns' = Columns
  BY <1>s DEF Segments, Nodes, Columns
<1>1. CASE UNCHANGED vars
  <2>1. \A side \in Sides : Segments(side)' = Segments(side)
    BY <1>1, <1>s DEF vars
  <2> QED
    BY <1>1, <2>1 DEF vars, TypeInv, TypeOK
<1>2. CASE Fail
  BY <1>2, FailKeepsTypes
<1>3. CASE Step /\ ~Fail
  <2>1. PICK step \in Int :
           /\ step >= MinStep
           /\ StartLayer \in 1 .. Len(water.depths) - 1 /\ StartColumn \in Columns
           /\ at' \in Int \X Int
           /\ layer' = UpdateDepthSegment(at'[2], UpdateDepthSegment(Halfway(step)[2], StartLayer))
           /\ column' = UpdateRangeSegment(at'[1], UpdateRangeSegment(Halfway(step)[1], StartColumn))
           /\ segment' = [side \in Sides |-> NextSegment(side, at'[1])]
           /\ count' = count + 1
           /\ pc' = IF CrossedSides(segment', at') = {} THEN "test"
                    ELSE IF count' < MaxSteps THEN "reflect" ELSE "done"
           /\ UNCHANGED <<water, heading, loud, bounces, beginning, termination>>
    BY <1>3, StepFacts
  <2>2. pc = "step"
    BY <1>3 DEF Step
  <2>3. Halfway(step)[1] \in Int /\ Halfway(step)[2] \in Int
    <3>1. step \div 2 \in Int
      OBVIOUS
    <3>2. heading \in {-1, 0, 1} \X {-1, 0, 1}
      BY <1>t DEF Headings, Slopes
    <3> QED
      BY <1>t, <3>1, <3>2, AlongType DEF Halfway
  <2>4. layer' \in 1 .. Len(water.depths) - 1
    BY <2>1, <2>3, <1>t, LayerType
  <2>5. column' \in Columns
    BY <2>1, <2>3, <1>t, ColumnType
  <2>6. \A side \in Sides : segment'[side] \in Segments(side)
    BY <2>1, <1>t, SegmentForRangeInCurve DEF NextSegment
  <2>7. count' \in 1 .. MaxSteps /\ (pc' = "reflect" => count' < MaxSteps) /\ pc' # "step"
        /\ pc' \in {"step", "reflect", "test", "done"}
    BY <2>1, <2>2, <1>t, Numbers DEF TypeInv
  <2> QED
    BY <2>1, <2>4, <2>5, <2>6, <2>7, <1>s DEF TypeInv, TypeOK, Columns
<1>4. CASE Reflect
  <2>1. /\ water' = water /\ count' = count + 1 /\ pc' = "test" /\ pc = "reflect"
        /\ UNCHANGED <<segment, layer, column, beginning, termination>>
    BY <1>4 DEF Reflect
  <2>2. CrossedSide \in Sides
    BY DEF CrossedSide, Sides
  <2>3. heading' \in Headings
    <3>1. heading' = Mirrored(heading, Slope(CrossedSide, segment[CrossedSide]))
      BY <1>4 DEF Reflect
    <3>2. \A u \in Headings, s \in {-1, 0, 1} : Mirrored(u, s) \in Headings
      BY DEF Mirrored, Headings, Slopes
    <3> QED
      BY <1>t, <2>2, <3>1, <3>2, SlopeType
  <2>4. bounces' \in [Sides -> Nat]
    BY <1>4, <1>t, <2>2 DEF Reflect
  <2>5. at' \in Int \X Int /\ loud' \in BOOLEAN
    <3> DEFINE slope == Slope(CrossedSide, segment[CrossedSide])
    <3>1. <<1, slope>> \in {-1, 0, 1} \X {-1, 0, 1}
      BY <2>2, SlopeType
    <3>2. \A s \in Shifts \cup {0} : Along(at, <<1, slope>>, s) \in Int \X Int
      BY <3>1, <1>t, AlongType, Numbers
    <3>3. at' = at \/ \E s \in Shifts \cup {0} : at' = Along(at, <<1, slope>>, s)
      BY <1>4 DEF Reflect
    <3>4. loud' \in BOOLEAN
      BY <1>4 DEF Reflect, TypeInv, TypeOK
    <3> QED
      BY <3>2, <3>3, <3>4, <1>t
  <2>6. count' \in 1 .. MaxSteps
    BY <2>1, <1>t, Numbers DEF TypeInv
  <2> QED
    BY <2>1, <2>3, <2>4, <2>5, <2>6, <1>s DEF TypeInv, TypeOK
<1>5. CASE Test
  <2>1. /\ UNCHANGED <<water, at, heading, loud, count, bounces, segment, layer, column>>
        /\ termination' \in Terminations
        /\ pc' \in {"step", "done"} /\ (pc' = "step" => count < MaxSteps)
    BY <1>5 DEF Test, Verdict, Terminations
  <2>2. beginning' \in [Sides -> Int]
    <3>1. \A side \in Sides : Distance(side) \in Int
      BY <1>t, DistanceType DEF Distance
    <3> QED
      BY <1>5, <1>t, <3>1 DEF Test, EndingDistances
  <2> QED
    BY <2>1, <2>2, <1>s DEF TypeInv, TypeOK
<1> QED
  BY <1>1, <1>2, <1>3, <1>4, <1>5 DEF Next, ReflectFails

LEMMA TypeInvariant == Spec => []TypeInv
BY TypeInit, TypeStep, PTL DEF Spec

(* No search leaves its table and no ray has more states than its limit.   *)
THEOREM RayTypes == Spec => []TypeOK
BY TypeInvariant, PTL DEF TypeInv

-----------------------------------------------------------------------------
(* Every step moves its ray forward, so that no ray is stuck at a knot.    *)
THEOREM RaysAdvance == Spec => Advancing
<1> DEFINE Forward ==
      pc = "step" /\ count' > count =>
        (at'[1] - at[1]) * heading[1] + (at'[2] - at[2]) * heading[2] > 0
<1>1. TypeInv /\ [Next]_vars => [Forward]_vars
  <2> SUFFICES ASSUME TypeInv, Next, pc = "step", count' > count
               PROVE  (at'[1] - at[1]) * heading[1] + (at'[2] - at[2]) * heading[2] > 0
    OBVIOUS
  <2>1. count \in Int
    BY Numbers DEF TypeInv, TypeOK
  <2>2. Step /\ ~Fail
    BY <2>1 DEF Next, Reflect, ReflectFails, Test, Fail
  <2>3. PICK step \in Int : step >= MinStep /\ at' \in Landings(step) /\ at' \in Int \X Int
    BY <2>2, StepFacts
  <2> DEFINE r == at[1]
             z == at[2]
             u == heading[1]
             v == heading[2]
             x == at'[1]
             y == at'[2]
  <2>4. r \in Int /\ z \in Int /\ u \in {-1, 0, 1} /\ v \in {-1, 0, 1} /\ ~(u = 0 /\ v = 0)
    BY HeadingParts DEF TypeInv, TypeOK, Headings, Slopes
  <2>5. x \in Int /\ y \in Int
    BY <2>3
  <2>6. x \in Rounded(r + step * u, u) /\ y \in Rounded(z + step * v, v)
    BY <2>3 DEF Landings, Along
  <2>7. /\ u = 0 => x = r
        /\ v = 0 => y = z
        /\ u = 1 => x - r >= step - Rounding
        /\ u = -1 => r - x >= step - Rounding
        /\ v = 1 => y - z >= step - Rounding
        /\ v = -1 => z - y >= step - Rounding
    <3> HIDE DEF r, z, u, v, x, y
    <3>1. /\ u = 0 => step * u = 0
          /\ v = 0 => step * v = 0
          /\ u = 1 => step * u = step
          /\ v = 1 => step * v = step
          /\ u = -1 => step * u = -step
          /\ v = -1 => step * v = -step
      BY <2>4
    <3> QED
      BY <2>4, <2>5, <2>6, <3>1, Numbers DEF Rounded
  <2>8. step - Rounding > 0
    BY <2>3, Numbers
  <2> HIDE DEF r, z, u, v, x, y
  <2>9. (x - r) * u + (y - z) * v > 0
    <3>1. (x - r) * u \in Int /\ (u = 0 => (x - r) * u = 0) /\ (u # 0 => (x - r) * u > 0)
      BY <2>4, <2>5, <2>7, <2>8, Numbers
    <3>2. (y - z) * v \in Int /\ (v = 0 => (y - z) * v = 0) /\ (v # 0 => (y - z) * v > 0)
      BY <2>4, <2>5, <2>7, <2>8, Numbers
    <3> HIDE DEF Forward
    <3> QED
      BY <2>4, <3>1, <3>2
  <2> QED
    BY <2>9 DEF r, z, u, v, x, y
<1>2. Spec => [][Forward]_vars
  BY <1>1, TypeInvariant, PTL DEF Spec
<1> QED
  BY <1>2 DEF Advancing

-----------------------------------------------------------------------------
(* Level boundaries.                                                       *)

Surface == water.depths[1]
Floor == water.depths[Len(water.depths)]

LEMMA FlatFacts ==
  ASSUME TypeOK, Flat
  PROVE  /\ Surface \in Int /\ Floor \in Int /\ Surface < Floor
         /\ \A side \in Sides : Segments(side) = {1} /\ segment[side] = 1 /\ Slope(side, 1) = 0
         /\ \A p \in Int \X Int :
              /\ InsideDistance("top", 1, p) = p[2] - Surface
              /\ InsideDistance("bottom", 1, p) = Floor - p[2]
<1>1. Surface \in Int /\ Floor \in Int /\ Surface < Floor
  <2>1. water.depths \in Knots
    BY RayAssumption DEF TypeOK
  <2> QED
    BY <2>1 DEF Knots, Surface, Floor
<1>2. /\ Nodes("top") = << <<-Wide, Surface>>, <<Wide, Surface>> >>
      /\ Nodes("bottom") = << <<-Wide, Floor>>, <<Wide, Floor>> >>
  BY DEF Flat, Nodes, Extended, Surface, Floor
<1>3. \A side \in Sides : Segments(side) = {1}
  <2>1. Len(Nodes("top")) = 2 /\ Len(Nodes("bottom")) = 2
    BY <1>2
  <2>2. 1 .. 2 - 1 = {1}
    OBVIOUS
  <2> QED
    BY <2>1, <2>2 DEF Sides, Segments
<1>4. \A side \in Sides : segment[side] = 1
  BY <1>3 DEF TypeOK
<1>5. \A side \in Sides : Slope(side, 1) = 0
  BY <1>1, <1>2 DEF Sides, Slope
<1>6. ASSUME NEW p \in Int \X Int
      PROVE  /\ InsideDistance("top", 1, p) = p[2] - Surface
             /\ InsideDistance("bottom", 1, p) = Floor - p[2]
  <2>1. \A m \in Int : 0 * m = 0
    OBVIOUS
  <2>2. p[1] - (-Wide) \in Int /\ p[1] - Wide \in Int /\ p[2] \in Int
    BY Numbers
  <2> QED
    BY <1>1, <1>2, <1>5, <2>1, <2>2, Numbers DEF InsideDistance, Sides
<1> QED
  BY <1>1, <1>3, <1>4, <1>5, <1>6

(* A step ends at the boundary ahead unless it is the smallest one.        *)
LEMMA StepReaches ==
  ASSUME TypeOK, Flat, NEW i \in 1 .. Len(water.depths) - 1, NEW j \in Columns
  PROVE  /\ heading[2] = 1 => ReducedStep(i, j) = MinStep \/ ReducedStep(i, j) <= Floor - at[2]
         /\ heading[2] = -1 => ReducedStep(i, j) = MinStep \/ ReducedStep(i, j) <= at[2] - Surface
<1>1. /\ at \in Int \X Int /\ at[1] \in Int /\ at[2] \in Int
      /\ heading[1] \in {-1, 0, 1} /\ heading \in {-1, 0, 1} \X {-1, 0, 1}
  BY HeadingParts DEF TypeOK, Headings, Slopes
<1>2. Surface \in Int /\ Floor \in Int /\ BaseStep \in Int
  BY FlatFacts, Numbers
<1>3. Trial \in Int \X Int /\ Trial[2] = at[2] + BaseStep * heading[2]
  BY <1>1, <1>2, AlongType DEF Trial, Along
<1>4. \A n \in Int : n \div 1 = n
  OBVIOUS
<1>5. 0 * heading[1] = 0
  BY <1>1
<1>6. CASE heading[2] = 1
  <2>1. BoundaryStep("bottom") = IF Floor - Trial[2] >= 0 THEN BaseStep ELSE Floor - at[2]
    <3>1. Approach("bottom", 1, heading) = 1
      BY <1>5, <1>6, FlatFacts DEF Approach, Sides
    <3>2. Distance("bottom") = Floor - at[2] /\ InsideDistance("bottom", 1, Trial) = Floor - Trial[2]
      BY <1>1, <1>3, FlatFacts DEF Distance, Sides
    <3>3. segment["bottom"] = 1
      BY FlatFacts DEF Sides
    <3>4. (Floor - at[2]) \div 1 = Floor - at[2]
      BY <1>1, <1>2, <1>4
    <3> QED
      BY <3>1, <3>2, <3>3, <3>4 DEF BoundaryStep
  <2>2. BoundaryStep("bottom") <= Floor - at[2]
    BY <2>1, <1>1, <1>2, <1>3, <1>6
  <2> QED
    BY <2>2, <1>1, <1>2, <1>6, StepLength, Numbers DEF Sides
<1>7. CASE heading[2] = -1
  <2>1. BoundaryStep("top") = IF Trial[2] - Surface >= 0 THEN BaseStep ELSE at[2] - Surface
    <3>1. Approach("top", 1, heading) = 1
      BY <1>5, <1>7, FlatFacts DEF Approach, Sides
    <3>2. Distance("top") = at[2] - Surface /\ InsideDistance("top", 1, Trial) = Trial[2] - Surface
      BY <1>1, <1>3, FlatFacts DEF Distance, Sides
    <3>3. segment["top"] = 1
      BY FlatFacts DEF Sides
    <3>4. (at[2] - Surface) \div 1 = at[2] - Surface
      BY <1>1, <1>2, <1>4
    <3> QED
      BY <3>1, <3>2, <3>3, <3>4 DEF BoundaryStep
  <2>2. BoundaryStep("top") <= at[2] - Surface
    BY <2>1, <1>1, <1>2, <1>3, <1>7
  <2> QED
    BY <2>2, <1>1, <1>2, <1>7, StepLength, Numbers DEF Sides
<1> QED
  BY <1>6, <1>7

(* What a ray outside a level boundary is about to do, how far outside it  *)
(* may be at each point of an iteration, and which bounce is next.         *)
WithinOvershoot ==
  /\ Surface - at[2] < MinStep + Rounding
  /\ at[2] - Floor < MinStep + Rounding

Inward ==
  /\ at[2] <= Surface => heading[2] = 1
  /\ Floor <= at[2] => heading[2] = -1

Crossing ==
  \/ beginning["top"] > 0 /\ at[2] <= Surface /\ heading[2] = -1
  \/ beginning["bottom"] > 0 /\ Floor <= at[2] /\ heading[2] = 1

Returned ==
  /\ beginning["top"] < 0 => Surface - at[2] < 2 * Rounding
  /\ beginning["bottom"] < 0 => at[2] - Floor < 2 * Rounding

NextBounce ==
  /\ heading[2] = 1 => bounces["top"] - bounces["bottom"] \in {0, 1}
  /\ heading[2] = -1 => bounces["bottom"] - bounces["top"] \in {0, 1}
  /\ heading[2] = 0 => bounces["top"] = bounces["bottom"]

Escaped ==
  pc = "done" /\ Surface - at[2] < 2 * Rounding /\ at[2] - Floor < 2 * Rounding

FlatInv ==
  Flat =>
    /\ count > 1 \/ pc # "done" => WithinOvershoot
    /\ pc = "step" => beginning["top"] = at[2] - Surface /\ beginning["bottom"] = Floor - at[2]
    /\ pc \in {"step", "test"} => Inward
    /\ pc = "reflect" => Crossing
    /\ pc = "test" => Returned
    /\ NextBounce
    /\ termination = "EscapedBoundary" => Escaped

(* What TypeOK says of the numbers of a level water.                       *)
LEMMA FlatTypes ==
  ASSUME TypeInv, Flat
  PROVE  /\ at \in Int \X Int /\ at[2] \in Int /\ count \in Int /\ count >= 1
         /\ heading \in Headings /\ heading[2] \in {-1, 0, 1}
         /\ bounces \in [Sides -> Int] /\ bounces["top"] \in Int /\ bounces["bottom"] \in Int
         /\ beginning["top"] \in Int /\ beginning["bottom"] \in Int
         /\ Surface \in Int /\ Floor \in Int /\ Surface < Floor
         /\ segment["top"] = 1 /\ segment["bottom"] = 1
         /\ Distance("top") = at[2] - Surface /\ Distance("bottom") = Floor - at[2]
<1>1. /\ at \in Int \X Int /\ count \in 1 .. MaxSteps
      /\ heading \in Headings /\ bounces \in [Sides -> Nat] /\ beginning \in [Sides -> Int]
      /\ "top" \in Sides /\ "bottom" \in Sides
  BY DEF TypeInv, TypeOK, Sides
<1>2. at[2] \in Int /\ heading[2] \in {-1, 0, 1} /\ count \in Int /\ count >= 1
  BY <1>1, HeadingParts, Numbers
<1>3. /\ Surface \in Int /\ Floor \in Int /\ Surface < Floor
      /\ segment["top"] = 1 /\ segment["bottom"] = 1
      /\ InsideDistance("top", 1, at) = at[2] - Surface
      /\ InsideDistance("bottom", 1, at) = Floor - at[2]
  BY <1>1, FlatFacts DEF TypeInv
<1> QED
  BY <1>1, <1>2, <1>3 DEF Distance

LEMMA FlatInit == Init => FlatInv
<1> SUFFICES ASSUME Init, Flat PROVE FlatInv
  BY DEF FlatInv
<1>1. TypeInv
  BY TypeInit
<1>2. /\ beginning["top"] = at[2] - Surface /\ beginning["bottom"] = Floor - at[2]
      /\ bounces["top"] = 0 /\ bounces["bottom"] = 0
  BY <1>1, FlatTypes DEF Init, Sides
<1>3. pc \in {"step", "done"} /\ termination # "EscapedBoundary" /\ count = 1
  BY DEF Init
<1>4. ASSUME pc = "step" PROVE beginning["top"] > 0 /\ beginning["bottom"] > 0
  <2>1. ~ \E side \in Sides : beginning[side] <= 0
    BY <1>4 DEF Init
  <2> QED
    BY <2>1, <1>1, FlatTypes DEF Sides
<1>5. (WithinOvershoot /\ Inward) \/ pc = "done"
  BY <1>1, <1>2, <1>3, <1>4, FlatTypes, Numbers DEF WithinOvershoot, Inward
<1>6. NextBounce
  BY <1>2 DEF NextBounce
<1> QED
  BY <1>2, <1>3, <1>5, <1>6 DEF FlatInv

(* The depth that a step reaches, by the heading.                          *)
LEMMA FlatLanding ==
  ASSUME TypeInv, FlatInv, Flat, Step, ~Fail
  PROVE  /\ at'[2] \in Int
         /\ heading[2] = 0 => at'[2] = at[2]
         /\ heading[2] = 1 =>
              /\ at'[2] > at[2] /\ at'[2] >= at[2] + MinStep - Rounding
              /\ at[2] < Floor /\ at'[2] - Floor < MinStep + Rounding
         /\ heading[2] = -1 =>
              /\ at'[2] < at[2] /\ at'[2] <= at[2] - MinStep + Rounding
              /\ at[2] > Surface /\ Surface - at'[2] < MinStep + Rounding
<1> DEFINE z == at[2]
           v == heading[2]
           y == at'[2]
<1>1. PICK step \in Int :
        /\ step >= MinStep /\ step = ReducedStep(StartLayer, StartColumn)
        /\ StartLayer \in 1 .. Len(water.depths) - 1 /\ StartColumn \in Columns
        /\ at' \in Landings(step) /\ at' \in Int \X Int
  BY StepFacts
<1>2. /\ v = 1 => step = MinStep \/ step <= Floor - z
      /\ v = -1 => step = MinStep \/ step <= z - Surface
  BY <1>1, StepReaches DEF TypeInv
<1>3. z \in Int /\ v \in {-1, 0, 1} /\ Surface \in Int /\ Floor \in Int /\ Surface < Floor
  BY FlatTypes
<1>4. y \in Int
  BY <1>1
<1>5. y \in Rounded(z + step * v, v)
  BY <1>1 DEF Landings, Along
<1>6. (v = 1 => z < Floor) /\ (v = -1 => z > Surface)
  <2>1. Inward
    BY DEF FlatInv, Step
  <2> QED
    BY <2>1, <1>3 DEF Inward
<1> HIDE DEF z, v, y
<1>7. CASE v = 0
  BY <1>3, <1>4, <1>5, <1>7 DEF Rounded, z, v, y
<1>8. CASE v = 1
  <2>1. step * v = step
    BY <1>8
  <2>2. y >= z + step - Rounding /\ y <= z + step + Rounding
    BY <2>1, <1>3, <1>4, <1>5, <1>8, Numbers DEF Rounded
  <2>3. y > z /\ y >= z + MinStep - Rounding /\ z < Floor /\ y - Floor < MinStep + Rounding
    BY <2>2, <1>1, <1>2, <1>3, <1>4, <1>6, <1>8, Numbers
  <2> QED
    BY <2>3, <1>4, <1>8 DEF z, v, y
<1>9. CASE v = -1
  <2>1. step * v = -step
    BY <1>9
  <2>2. y >= z - step - Rounding /\ y <= z - step + Rounding
    BY <2>1, <1>3, <1>4, <1>5, <1>9, Numbers DEF Rounded
  <2>3. y < z /\ y <= z - MinStep + Rounding /\ z > Surface /\ Surface - y < MinStep + Rounding
    BY <2>2, <1>1, <1>2, <1>3, <1>4, <1>6, <1>9, Numbers
  <2> QED
    BY <2>3, <1>4, <1>9 DEF z, v, y
<1> QED
  BY <1>3, <1>7, <1>8, <1>9

(* A ray leaves through the boundary that it heads for, or through none.   *)
LEMMA FlatCrossing ==
  ASSUME TypeInv, FlatInv, Flat, Step, ~Fail
  PROVE  /\ "top" \in CrossedSides(segment', at') <=> beginning["top"] > 0 /\ at'[2] <= Surface
         /\ "bottom" \in CrossedSides(segment', at') <=> beginning["bottom"] > 0 /\ Floor <= at'[2]
<1>1. /\ at' \in Int \X Int /\ at'[1] \in Int /\ at'[2] \in Int
      /\ segment' = [side \in Sides |-> NextSegment(side, at'[1])]
  BY StepFacts
<1>2. \A side \in Sides : segment'[side] = 1
  <2> SUFFICES ASSUME NEW side \in Sides PROVE segment'[side] = 1
    OBVIOUS
  <2>1. water \in Waters /\ Segments(side) = {1} /\ segment[side] = 1
    BY FlatFacts DEF TypeInv, TypeOK
  <2>2. SegmentForRange(side, at'[1]) = 1
    BY <1>1, <2>1, SegmentForRangeInCurve
  <2> QED
    BY <1>1, <2>1, <2>2 DEF NextSegment
<1>3. /\ InsideDistance("top", 1, at') = at'[2] - Surface
      /\ InsideDistance("bottom", 1, at') = Floor - at'[2]
      /\ Surface \in Int /\ Floor \in Int
  BY <1>1, FlatFacts DEF TypeInv
<1> QED
  BY <1>1, <1>2, <1>3 DEF CrossedSides, Sides
LEMMA FlatStepStep ==
  ASSUME TypeInv, FlatInv, Flat, Step, ~Fail
  PROVE  FlatInv'
<1>t. /\ at[2] \in Int /\ heading[2] \in {-1, 0, 1} /\ count \in Int /\ count >= 1
      /\ beginning["top"] \in Int /\ beginning["bottom"] \in Int
      /\ Surface \in Int /\ Floor \in Int /\ Surface < Floor
  BY FlatTypes
<1>1. /\ count' = count + 1
      /\ pc' = IF CrossedSides(segment', at') = {} THEN "test"
               ELSE IF count' < MaxSteps THEN "reflect" ELSE "done"
      /\ UNCHANGED <<water, heading, bounces, beginning, termination>>
  BY StepFacts
<1>2. /\ pc = "step" /\ beginning["top"] = at[2] - Surface /\ beginning["bottom"] = Floor - at[2]
      /\ Inward /\ WithinOvershoot /\ NextBounce /\ termination # "EscapedBoundary"
  BY DEF FlatInv, Escaped, Step
<1>3. Surface' = Surface /\ Floor' = Floor /\ NextBounce'
  BY <1>1, <1>2 DEF Surface, Floor, NextBounce
<1>4. at'[2] \in Int
  BY FlatLanding
<1>5. Surface - at'[2] < MinStep + Rounding /\ at'[2] - Floor < MinStep + Rounding
  BY <1>2, <1>4, <1>t, FlatLanding, Numbers DEF WithinOvershoot
<1>6. CrossedSides(segment', at') \subseteq Sides
  BY DEF CrossedSides
<1>7. ASSUME pc' = "test" PROVE Inward' /\ Returned'
  <2>1. CrossedSides(segment', at') = {}
    BY <1>1, <1>7
  <2>2. ~(beginning["top"] > 0 /\ at'[2] <= Surface) /\ ~(beginning["bottom"] > 0 /\ Floor <= at'[2])
    BY <2>1, FlatCrossing
  <2>3. /\ at'[2] <= Surface => heading[2] = 1
        /\ Floor <= at'[2] => heading[2] = -1
    BY <2>2, <1>2, <1>4, <1>t, FlatLanding DEF Inward
  <2>4. /\ beginning["top"] < 0 => Surface - at'[2] < 2 * Rounding
        /\ beginning["bottom"] < 0 => at'[2] - Floor < 2 * Rounding
    <3>1. beginning["top"] < 0 => heading[2] = 1 /\ Surface - at[2] < MinStep + Rounding
      BY <1>2, <1>t DEF Inward, WithinOvershoot
    <3>2. beginning["bottom"] < 0 => heading[2] = -1 /\ at[2] - Floor < MinStep + Rounding
      BY <1>2, <1>t DEF Inward, WithinOvershoot
    <3> QED
      BY <3>1, <3>2, <1>4, <1>t, FlatLanding, Numbers
  <2> QED
    BY <2>3, <2>4, <1>1, <1>3 DEF Inward, Returned
<1>8. ASSUME pc' = "reflect" PROVE Crossing'
  <2>1. CrossedSides(segment', at') # {}
    BY <1>1, <1>8
  <2>2. CASE "top" \in CrossedSides(segment', at')
    <3>1. beginning["top"] > 0 /\ at'[2] <= Surface
      BY <2>2, FlatCrossing
    <3>2. heading[2] = -1
      BY <3>1, <1>2, <1>4, <1>t, FlatLanding
    <3> QED
      BY <3>1, <3>2, <1>1, <1>3 DEF Crossing
  <2>3. CASE "bottom" \in CrossedSides(segment', at')
    <3>1. beginning["bottom"] > 0 /\ Floor <= at'[2]
      BY <2>3, FlatCrossing
    <3>2. heading[2] = 1
      BY <3>1, <1>2, <1>4, <1>t, FlatLanding
    <3> QED
      BY <3>1, <3>2, <1>1, <1>3 DEF Crossing
  <2> QED
    BY <2>1, <2>2, <2>3, <1>6 DEF Sides
<1> QED
  BY <1>1, <1>2, <1>3, <1>5, <1>7, <1>8 DEF FlatInv, WithinOvershoot

LEMMA FlatStep == TypeInv /\ FlatInv /\ [Next]_vars => FlatInv'
<1> SUFFICES ASSUME TypeInv, FlatInv, [Next]_vars, Flat' PROVE FlatInv'
  BY DEF FlatInv
<1>1. water' = water /\ Flat
  BY DEF Next, Step, Reflect, ReflectFails, Test, Fail, Flat, vars
<1>2. Surface' = Surface /\ Floor' = Floor
  BY <1>1 DEF Surface, Floor
<1>t. /\ at \in Int \X Int /\ at[2] \in Int /\ heading[2] \in {-1, 0, 1}
      /\ count \in Int /\ count >= 1
      /\ bounces \in [Sides -> Int] /\ bounces["top"] \in Int /\ bounces["bottom"] \in Int
      /\ beginning["top"] \in Int /\ beginning["bottom"] \in Int
      /\ Surface \in Int /\ Floor \in Int /\ Surface < Floor
      /\ segment["top"] = 1 /\ segment["bottom"] = 1
      /\ Distance("top") = at[2] - Surface /\ Distance("bottom") = Floor - at[2]
  BY <1>1, FlatTypes
<1>3. CASE UNCHANGED vars
  BY <1>1, <1>2, <1>3
     DEF vars, FlatInv, WithinOvershoot, Inward, Crossing, Returned, NextBounce, Escaped
<1>4. CASE Fail /\ pc \in {"step", "reflect"}
  <2>1. WithinOvershoot /\ NextBounce
    BY <1>1, <1>4, <1>t DEF FlatInv, Crossing, WithinOvershoot
  <2> QED
    BY <2>1, <1>2, <1>4 DEF FlatInv, Fail, WithinOvershoot, NextBounce
<1>5. CASE Step /\ ~Fail
  BY <1>1, <1>5, FlatStepStep
<1>6. CASE Reflect
  <2>1. Crossing /\ NextBounce /\ WithinOvershoot /\ termination # "EscapedBoundary"
    BY <1>1, <1>6 DEF FlatInv, Escaped, Reflect
  <2>2. CrossedSide = IF at[2] <= Surface THEN "top" ELSE "bottom"
    <3>1. "top" \in CrossedSides(segment, at) <=> (beginning["top"] > 0 /\ at[2] - Surface <= 0)
      BY <1>t DEF CrossedSides, Sides, Distance
    <3> QED
      BY <3>1, <2>1, <1>t DEF Crossing, CrossedSide
  <2>3. /\ at[2] <= Surface => heading[2] = -1
        /\ at[2] > Surface => heading[2] = 1 /\ Floor <= at[2]
    BY <2>1, <1>t DEF Crossing
  <2>4. CrossedSide \in Sides /\ segment[CrossedSide] = 1 /\ Slope(CrossedSide, 1) = 0
    BY <1>1, <2>2, <1>t, FlatFacts DEF Sides, TypeInv
  <2>5. /\ heading' = <<heading[1], -heading[2]>>
        /\ bounces' = [bounces EXCEPT ![CrossedSide] = @ + 1]
    BY <1>6, <2>4 DEF Reflect, Mirrored
  <2>6. at'[2] = at[2]
    <3>1. CASE at' = at
      BY <3>1
    <3>2. CASE \E s \in Shifts \cup {0} : at' = Along(at, <<1, 0>>, s)
      <4>1. PICK s \in Int : at' = Along(at, <<1, 0>>, s)
        BY <3>2, Numbers
      <4>2. at[2] + s * 0 = at[2]
        BY <1>t
      <4> QED
        BY <4>1, <4>2 DEF Along
    <3> QED
      BY <1>6, <2>4, <3>1, <3>2 DEF Reflect
  <2>7. NextBounce' /\ heading'[2] = -heading[2]
    <3>1. /\ \A m, n \in Int : m - n \in {0, 1} => n + 1 - m \in {0, 1}
          /\ \A v \in Int : -v = 1 <=> v = -1
      OBVIOUS
    <3>2. CASE at[2] <= Surface
      <4>1. heading[2] = -1 /\ bounces["bottom"] - bounces["top"] \in {0, 1}
        BY <2>1, <2>3, <3>2 DEF NextBounce
      <4>2. bounces'["top"] = bounces["top"] + 1 /\ bounces'["bottom"] = bounces["bottom"]
        BY <2>2, <2>5, <3>2, <1>t DEF Sides
      <4>3. heading'[2] = -heading[2] /\ heading'[2] = 1
        <5>1. heading[2] \in Int
          BY <1>t
        <5> QED
          BY <2>5, <4>1, <5>1, <3>1
      <4>4. bounces'["top"] - bounces'["bottom"] \in {0, 1}
        <5>1. bounces["bottom"] \in Int /\ bounces["top"] \in Int
          BY <1>t
        <5>2. bounces["top"] + 1 - bounces["bottom"] \in {0, 1}
          BY <3>1, <4>1, <5>1
        <5> QED
          BY <4>2, <5>1, <5>2
      <4> QED
        BY <3>1, <4>3, <4>4, <1>t DEF NextBounce
    <3>3. CASE at[2] > Surface
      <4>1. heading[2] = 1 /\ bounces["top"] - bounces["bottom"] \in {0, 1}
        BY <2>1, <2>3, <3>3 DEF NextBounce
      <4>2. bounces'["bottom"] = bounces["bottom"] + 1 /\ bounces'["top"] = bounces["top"]
        BY <2>2, <2>5, <3>3, <1>t DEF Sides
      <4>3. heading'[2] = -heading[2] /\ heading'[2] = -1
        BY <2>5, <4>1
      <4>4. bounces'["bottom"] - bounces'["top"] \in {0, 1}
        BY <3>1, <4>1, <4>2, <1>t
      <4> QED
        BY <3>1, <4>3, <4>4, <1>t DEF NextBounce
    <3> QED
      BY <3>2, <3>3, <1>t
  <2>8. WithinOvershoot'
    BY <2>1, <2>6, <1>2 DEF WithinOvershoot
  <2>9. Inward'
    BY <2>3, <2>6, <2>7, <1>2, <1>t DEF Inward
  <2>10. Returned'
    <3>1. beginning' = beginning
      BY <1>6 DEF Reflect
    <3>2. /\ beginning["top"] < 0 => Floor <= at[2]
          /\ beginning["bottom"] < 0 => at[2] <= Surface
      BY <2>1, <1>t DEF Crossing
    <3> QED
      BY <3>1, <3>2, <2>6, <1>2, <1>t, Numbers DEF Returned
  <2> QED
    BY <1>6, <2>1, <2>7, <2>8, <2>9, <2>10 DEF FlatInv, Reflect
<1>7. CASE Test
  <2>1. Inward /\ Returned /\ NextBounce /\ WithinOvershoot /\ termination # "EscapedBoundary"
    BY <1>1, <1>7 DEF FlatInv, Escaped, Test
  <2>2. UNCHANGED <<at, heading, bounces>> /\ pc' \in {"step", "done"}
    BY <1>7 DEF Test
  <2>3. Inward' /\ NextBounce' /\ WithinOvershoot'
    BY <2>1, <2>2, <1>2 DEF Inward, NextBounce, WithinOvershoot
  <2>4. ASSUME pc' = "step"
        PROVE  beginning'["top"] = at'[2] - Surface' /\ beginning'["bottom"] = Floor' - at'[2]
    <3>1. beginning' = EndingDistances
      BY <1>7, <2>4 DEF Test
    <3> QED
      BY <3>1, <2>2, <1>2, <1>t DEF EndingDistances, Sides
  <2>5. ASSUME termination' = "EscapedBoundary" PROVE Escaped'
    <3>1. Verdict = "EscapedBoundary" /\ pc' = "done" /\ Outside
      BY <1>7, <2>5 DEF Test, Verdict
    <3>2. \/ beginning["top"] < 0 /\ at[2] - Surface < 0
          \/ beginning["bottom"] < 0 /\ Floor - at[2] < 0
      BY <3>1, <1>t DEF Outside, Sides
    <3>3. Surface - at[2] < 2 * Rounding /\ at[2] - Floor < 2 * Rounding
      BY <2>1, <3>2, <1>t, Numbers DEF Returned
    <3> QED
      BY <3>1, <3>3, <2>2, <1>2 DEF Escaped
  <2> QED
    BY <2>2, <2>3, <2>4, <2>5 DEF FlatInv
<1> QED
  BY <1>1, <1>3, <1>4, <1>5, <1>6, <1>7 DEF Next, ReflectFails, Step

LEMMA FlatInvariant == Spec => [](TypeInv /\ FlatInv)
<1>1. Init => TypeInv /\ FlatInv
  BY TypeInit, FlatInit
<1>2. TypeInv /\ FlatInv /\ [Next]_vars => TypeInv' /\ FlatInv'
  BY TypeStep, FlatStep
<1> QED
  BY <1>1, <1>2, PTL DEF Spec

(* Between level boundaries no ray is farther outside than a smallest step *)
(* can take it, however many steps and reflections it has behind it.       *)
THEOREM RaysContained == Spec => []Contained
<1>1. TypeInv /\ FlatInv => Contained
  <2> SUFFICES ASSUME TypeInv, FlatInv, Flat, NEW side \in Sides
               PROVE  /\ count > 1 => Distance(side) > -MinStep - Rounding
                      /\ termination = "EscapedBoundary" => Distance(side) > -2 * Rounding
    BY DEF Contained
  <2>1. side = "top" \/ side = "bottom"
    BY DEF Sides
  <2>2. count > 1 => WithinOvershoot
    BY DEF FlatInv
  <2>3. termination = "EscapedBoundary" => Escaped
    BY DEF FlatInv
  <2> QED
    BY <2>1, <2>2, <2>3, FlatTypes, Numbers DEF WithinOvershoot, Escaped
<1> QED
  BY <1>1, FlatInvariant, PTL

(* Between level boundaries the bounces of a ray alternate.                *)
THEOREM BouncesAlternate == Spec => []Alternating
<1>1. TypeInv /\ FlatInv => Alternating
  <2> SUFFICES ASSUME TypeInv, FlatInv, Flat
               PROVE  bounces["top"] - bounces["bottom"] \in {-1, 0, 1}
    BY DEF Alternating
  <2>1. NextBounce
    BY DEF FlatInv
  <2> QED
    BY <2>1, FlatTypes DEF NextBounce
<1> QED
  BY <1>1, FlatInvariant, PTL

-----------------------------------------------------------------------------
(* No step passes over what was ahead.                                     *)

(* The search of ssp.rs: nothing before the segment it ends in is beyond   *)
(* the value, and the segment reaches beyond it unless it is the last.     *)
LEMMA FirstSegmentFacts ==
  ASSUME NEW knots \in Knots, NEW value \in Int
  PROVE  LET i == FirstSegment(knots, value)
         IN /\ i \in 1 .. Len(knots) - 1
            /\ \A k \in 1 .. Len(knots) - 1 : k < i => knots[k + 1] <= value
            /\ value < knots[i + 1] \/ i = Len(knots) - 1
<1> DEFINE beyond == {i \in 1 .. Len(knots) - 1 : value < knots[i + 1]}
           n == Len(knots)
<1>t. knots \in Seq(Int) /\ n \in Int /\ n >= 2 /\ \A k \in 1 .. n : knots[k] \in Int
  BY DEF Knots
<1>1. CASE beyond = {}
  <2>1. FirstSegment(knots, value) = n - 1
    BY <1>1 DEF FirstSegment
  <2>2. \A k \in 1 .. n - 1 : ~(value < knots[k + 1])
    BY <1>1
  <2>3. \A k \in 1 .. n - 1 : k + 1 \in 1 .. n /\ knots[k + 1] \in Int
    BY <1>t
  <2> QED
    BY <1>t, <2>1, <2>2, <2>3
<1>2. CASE beyond # {}
  <2>1. beyond \subseteq Nat
    OBVIOUS
  <2>2. Least(beyond) \in beyond /\ \A m \in beyond : Least(beyond) <= m
    BY <1>2, <2>1, LeastIsLeast
  <2>3. FirstSegment(knots, value) = Least(beyond)
    BY <1>2 DEF FirstSegment
  <2>4. \A k \in 1 .. n - 1 : k + 1 \in 1 .. n /\ knots[k + 1] \in Int
    BY <1>t
  <2>5. ASSUME NEW k \in 1 .. n - 1, k < Least(beyond) PROVE knots[k + 1] <= value
    <3>1. k \notin beyond
      BY <2>2, <2>5
    <3> QED
      BY <2>4, <3>1
  <2> QED
    BY <2>2, <2>3, <2>5
<1> QED
  BY <1>1, <1>2

LEMMA KnotsFacts ==
  ASSUME NEW knots \in Knots
  PROVE  /\ Len(knots) \in Int /\ Len(knots) >= 2
         /\ \A i \in 1 .. Len(knots) : knots[i] \in Int
         /\ \A i, j \in 1 .. Len(knots) : i < j => knots[i] < knots[j]
BY DEF Knots

(* The depth segment a step starts in lies between the interfaces above    *)
(* and below its start.                                                    *)
LEMMA LayerBetween ==
  ASSUME water \in Waters, NEW depth \in Int, NEW i \in 1 .. Len(water.depths) - 1,
         NEW k \in 2 .. Len(water.depths) - 1
  PROVE  LET m == UpdateDepthSegment(depth, i)
         IN /\ m \in 1 .. Len(water.depths) - 1 /\ water.depths[m] < water.depths[m + 1]
            /\ water.depths[m] \in Int /\ water.depths[m + 1] \in Int /\ water.depths[k] \in Int
            /\ depth < water.depths[k] => water.depths[m + 1] <= water.depths[k]
            /\ water.depths[k] < depth => water.depths[k] <= water.depths[m]
<1> DEFINE d == water.depths
           n == Len(d)
           m == UpdateDepthSegment(depth, i)
<1>1. d \in Knots
  BY RayAssumption
<1>2. /\ n \in Int /\ n >= 2
      /\ \A j \in 1 .. n : d[j] \in Int
      /\ \A j, l \in 1 .. n : j < l => d[j] < d[l]
  <2> HIDE DEF d
  <2> QED
    BY <1>1, KnotsFacts
<1>3. m = IF depth < d[i] \/ depth > d[i + 1] THEN FirstSegment(d, depth) ELSE i
  BY DEF UpdateDepthSegment
<1> HIDE DEF d, n, m
<1>4. i \in 1 .. n - 1 /\ k \in 2 .. n - 1
  BY DEF n, d
<1>5. m \in 1 .. n - 1 /\ (depth < d[k] => m + 1 <= k) /\ (d[k] < depth => k <= m)
  <2>1. CASE m = i /\ ~(depth < d[i]) /\ ~(depth > d[i + 1])
    <3>1. d[i] <= depth /\ depth <= d[i + 1] /\ d[k] \in Int
      BY <2>1, <1>2, <1>4
    <3>2. (k <= i => d[k] <= d[i]) /\ (i + 1 <= k => d[i + 1] <= d[k])
      <4>1. i \in 1 .. n /\ k \in 1 .. n /\ i + 1 \in 1 .. n /\ d[i] \in Int /\ d[i + 1] \in Int
        BY <1>2, <1>4
      <4>2. k = i \/ k < i \/ k = i + 1 \/ i + 1 < k
        BY <1>4
      <4>3. d[k] \in Int
        BY <1>2, <4>1
      <4>4. ASSUME k <= i PROVE d[k] <= d[i]
        <5>1. k = i \/ k < i
          BY <4>2, <4>4, <4>1, <1>2
        <5> QED
          BY <5>1, <4>1, <4>3, <1>2
      <4>5. ASSUME i + 1 <= k PROVE d[i + 1] <= d[k]
        <5>1. k = i + 1 \/ i + 1 < k
          BY <4>2, <4>5, <4>1, <1>2
        <5> QED
          BY <5>1, <4>1, <4>3, <1>2
      <4> QED
        BY <4>4, <4>5
    <3> QED
      BY <2>1, <3>1, <3>2, <1>2, <1>4
  <2>2. CASE m = FirstSegment(d, depth)
    <3>1. /\ m \in 1 .. n - 1 /\ (\A l \in 1 .. n - 1 : l < m => d[l + 1] <= depth)
          /\ depth < d[m + 1] \/ m = n - 1
      BY <1>1, <2>2, FirstSegmentFacts DEF n
    <3>2. ASSUME depth < d[k] PROVE m + 1 <= k
      <4>1. k - 1 \in 1 .. n - 1 /\ (k - 1) + 1 = k /\ d[k] \in Int
        BY <1>2, <1>4
      <4>2. ~(k - 1 < m)
        BY <3>1, <3>2, <4>1
      <4> QED
        BY <3>1, <4>1, <4>2, <1>2
    <3>3. ASSUME d[k] < depth PROVE k <= m
      <4>1. CASE m = n - 1
        BY <4>1, <1>2, <1>4
      <4>2. CASE depth < d[m + 1]
        <5>1. m + 1 \in 1 .. n /\ k \in 1 .. n /\ d[m + 1] \in Int /\ d[k] \in Int
          BY <3>1, <1>2, <1>4
        <5>2. d[k] < d[m + 1]
          BY <3>3, <4>2, <5>1
        <5>3. ~(m + 1 < k) /\ k # m + 1
          BY <1>2, <5>1, <5>2
        <5> QED
          BY <5>1, <5>3, <3>1, <1>2
      <4> QED
        BY <3>1, <4>1, <4>2
    <3> QED
      BY <3>1, <3>2, <3>3
  <2> QED
    BY <1>3, <2>1, <2>2
<1>6. m \in 1 .. n /\ m + 1 \in 1 .. n /\ k \in 1 .. n
  BY <1>2, <1>4, <1>5
<1>7. d[m] \in Int /\ d[m + 1] \in Int /\ d[k] \in Int /\ d[m] < d[m + 1]
  BY <1>2, <1>6
<1>8. ASSUME depth < d[k] PROVE d[m + 1] <= d[k]
  <2>1. m + 1 = k \/ m + 1 < k
    BY <1>4, <1>5, <1>6, <1>8
  <2> QED
    BY <2>1, <1>2, <1>6, <1>7
<1>9. ASSUME d[k] < depth PROVE d[k] <= d[m]
  <2>1. m = k \/ k < m
    BY <1>4, <1>5, <1>6, <1>9
  <2> QED
    BY <2>1, <1>2, <1>6, <1>7
<1> QED
  BY <1>5, <1>7, <1>8, <1>9 DEF d, n, m

(* The range segment a step starts in holds its start.                     *)
LEMMA ColumnHolds ==
  ASSUME water \in Waters, water.ranges # <<>>, NEW range \in Int, Defined(range), NEW j \in Columns
  PROVE  LET m == UpdateRangeSegment(range, j)
         IN /\ m \in 1 .. Len(water.ranges) - 1
            /\ water.ranges[m] \in Int /\ water.ranges[m + 1] \in Int
            /\ water.ranges[m] <= range /\ range <= water.ranges[m + 1]
<1> DEFINE r == water.ranges
           n == Len(r)
           m == UpdateRangeSegment(range, j)
<1>1. r \in Knots
  BY RayAssumption
<1>2. n \in Int /\ n >= 2 /\ \A l \in 1 .. n : r[l] \in Int
  BY <1>1 DEF Knots
<1>3. m = IF range < r[j] \/ range >= r[j + 1] THEN FirstSegment(r, range) ELSE j
  BY DEF UpdateRangeSegment
<1>4. j \in 1 .. n - 1 /\ r[1] <= range /\ range <= r[n]
  BY DEF Columns, Defined
<1> HIDE DEF r, n, m
<1>5. CASE m = j /\ ~(range < r[j]) /\ ~(range >= r[j + 1])
  <2>1. j \in 1 .. n /\ j + 1 \in 1 .. n /\ r[j] \in Int /\ r[j + 1] \in Int
    BY <1>2, <1>4
  <2>2. m \in 1 .. n - 1 /\ r[m] \in Int /\ r[m + 1] \in Int /\ r[m] <= range /\ range <= r[m + 1]
    BY <1>4, <1>5, <2>1
  <2> QED
    BY <2>2 DEF r, n, m
<1>6. CASE m = FirstSegment(r, range)
  <2>1. /\ m \in 1 .. n - 1 /\ (\A l \in 1 .. n - 1 : l < m => r[l + 1] <= range)
        /\ range < r[m + 1] \/ m = n - 1
    BY <1>1, <1>6, FirstSegmentFacts DEF n
  <2>2. m \in 1 .. n /\ m + 1 \in 1 .. n /\ r[m] \in Int /\ r[m + 1] \in Int
    BY <1>2, <2>1
  <2>3. r[m] <= range
    <3>1. CASE m = 1
      BY <3>1, <1>4
    <3>2. CASE m # 1
      <4>1. m - 1 \in 1 .. n - 1 /\ m - 1 < m /\ (m - 1) + 1 = m
        BY <1>2, <2>1, <3>2
      <4> QED
        BY <2>1, <4>1
    <3> QED
      BY <3>1, <3>2
  <2>4. range <= r[m + 1]
    <3>1. m = n - 1 => m + 1 = n
      BY <1>2, <2>1
    <3> QED
      BY <1>4, <2>1, <2>2, <3>1
  <2> QED
    BY <2>1, <2>2, <2>3, <2>4 DEF r, n, m
<1> QED
  BY <1>3, <1>5, <1>6

LEMMA Concatenated ==
  ASSUME NEW T, NEW s \in Seq(T), NEW t \in Seq(T)
  PROVE  /\ s \o t \in Seq(T) /\ Len(s \o t) = Len(s) + Len(t)
         /\ \A i \in 1 .. Len(s) : (s \o t)[i] = s[i]
         /\ \A i \in 1 .. Len(t) : (s \o t)[Len(s) + i] = t[i]
OBVIOUS

(* The ranges of a curve rise from one end of the extended range to the    *)
(* other.                                                                  *)
LEMMA CurveRises ==
  ASSUME NEW points \in Shapes, NEW depth \in Int,
         \A i \in DOMAIN points : points[i][1] \in -Wide + 1 .. Wide - 1
  PROVE  LET c == Extended(points, depth)
         IN /\ Len(c) \in Int /\ Len(c) >= 2
            /\ \A i \in 1 .. Len(c) : c[i][1] \in Int
            /\ c[1][1] = -Wide /\ c[Len(c)][1] = Wide
            /\ \A i \in 1 .. Len(c) - 1 : c[i][1] < c[i + 1][1]
            /\ \A i \in 1 .. Len(points) : c[i + 1][1] = points[i][1] /\ i + 1 \in 2 .. Len(c) - 1
<1> DEFINE c == Extended(points, depth)
           n == Len(points)
<1>1. points \in Seq(Int \X Int) /\ n \in Nat /\ \A i \in 1 .. n : points[i] \in Int \X Int /\ points[i][1] \in Int
  BY DEF Shapes
<1>2. \A i \in 1 .. n - 1 : points[i][1] < points[i + 1][1]
  <2> SUFFICES ASSUME NEW i \in 1 .. n - 1 PROVE points[i][1] < points[i + 1][1]
    OBVIOUS
  <2>1. points[i + 1][1] - points[i][1] > 0
    BY DEF Shapes
  <2>2. i \in 1 .. n /\ i + 1 \in 1 .. n
    BY <1>1
  <2>3. points[i][1] \in Int /\ points[i + 1][1] \in Int
    BY <1>1, <2>2
  <2> QED
    BY <2>1, <2>3
<1>3. CASE points = <<>>
  <2>1. c = << <<-Wide, depth>>, <<Wide, depth>> >> /\ n = 0
    BY <1>3 DEF Extended
  <2>2. Len(c) = 2 /\ c[1][1] = -Wide /\ c[2][1] = Wide /\ -Wide < Wide
    BY <2>1, Numbers
  <2> HIDE DEF c, n
  <2> QED
    BY <2>1, <2>2, Numbers DEF c, n
<1>4. CASE points # <<>>
  <2>1. n >= 1
    BY <1>1, <1>4
  <2> DEFINE first == << <<-Wide, points[1][2]>> >>
             last == << <<Wide, points[n][2]>> >>
  <2>2. c = (first \o points) \o last
    BY <1>4 DEF Extended
  <2>3. /\ first \in Seq(Int \X Int) /\ Len(first) = 1 /\ first[1][1] = -Wide
        /\ last \in Seq(Int \X Int) /\ Len(last) = 1 /\ last[1][1] = Wide
    <3>1. points[1] \in Int \X Int /\ points[n] \in Int \X Int
      BY <1>1, <2>1
    <3> QED
      BY <3>1, Numbers
  <2> HIDE DEF first, last
  <2> DEFINE f == first \o points
  <2>4. f \in Seq(Int \X Int) /\ Len(f) = n + 1 /\ f[1] = first[1] /\ \A i \in 1 .. n : f[i + 1] = points[i]
    <3>1. /\ f \in Seq(Int \X Int) /\ Len(f) = 1 + n /\ (\A i \in 1 .. 1 : f[i] = first[i])
          /\ \A i \in 1 .. n : f[1 + i] = points[i]
      <4> DEFINE T == Int \X Int
      <4>1. points \in Seq(T) /\ first \in Seq(T)
        BY <1>1, <2>3
      <4>2. n = Len(points) /\ Len(first) = 1
        BY <2>3
      <4> HIDE DEF T, n, f
      <4>3. /\ first \o points \in Seq(T) /\ Len(first \o points) = Len(first) + Len(points)
            /\ \A i \in 1 .. Len(first) : (first \o points)[i] = first[i]
            /\ \A i \in 1 .. Len(points) : (first \o points)[Len(first) + i] = points[i]
        BY ONLY <4>1, Concatenated
      <4> QED
        BY <4>2, <4>3 DEF T, f
    <3>2. \A i \in 1 .. n : f[i + 1] = points[i]
      <4> SUFFICES ASSUME NEW i \in 1 .. n PROVE f[i + 1] = points[i]
        OBVIOUS
      <4>1. i + 1 = 1 + i
        BY <1>1
      <4> QED
        BY <3>1, <4>1
    <3>3. 1 \in 1 .. 1 /\ 1 + n = n + 1
      BY <1>1
    <3> QED
      BY <3>1, <3>2, <3>3
  <2> HIDE DEF f
  <2>5. /\ Len(f \o last) = n + 2 /\ (\A i \in 1 .. n + 1 : (f \o last)[i] = f[i])
        /\ (f \o last)[n + 2] = last[1]
    <3>1. /\ Len(f \o last) = (n + 1) + 1
          /\ \A i \in 1 .. n + 1 : (f \o last)[i] = f[i]
          /\ \A i \in 1 .. 1 : (f \o last)[(n + 1) + i] = last[i]
      <4> DEFINE T == Int \X Int
      <4>1. f \in Seq(T) /\ last \in Seq(T) /\ Len(f) = n + 1 /\ Len(last) = 1
        BY <2>3, <2>4
      <4> HIDE DEF T
      <4>2. /\ Len(f \o last) = Len(f) + Len(last)
            /\ \A i \in 1 .. Len(f) : (f \o last)[i] = f[i]
            /\ \A i \in 1 .. Len(last) : (f \o last)[Len(f) + i] = last[i]
        BY <4>1, Concatenated
      <4> QED
        BY <4>1, <4>2
    <3>2. 1 \in 1 .. 1 /\ (n + 1) + 1 = n + 2
      BY <1>1
    <3> QED
      BY <3>1, <3>2
  <2>6. /\ Len(c) = n + 2 /\ (\A i \in 1 .. n + 1 : c[i] = f[i])
        /\ c[n + 2] = last[1]
    BY <2>2, <2>5 DEF f
  <2> HIDE DEF c, n
  <2>7. c[1][1] = -Wide /\ c[n + 2][1] = Wide
    BY <1>1, <2>3, <2>4, <2>6
  <2>8. \A i \in 1 .. n : c[i + 1][1] = points[i][1] /\ i + 1 \in 2 .. n + 1
    <3> SUFFICES ASSUME NEW i \in 1 .. n PROVE c[i + 1][1] = points[i][1] /\ i + 1 \in 2 .. n + 1
      OBVIOUS
    <3>1. i + 1 \in 1 .. n + 1 /\ i + 1 \in 2 .. n + 1
      BY <1>1
    <3>2. c[i + 1] = f[i + 1] /\ f[i + 1] = points[i]
      BY <2>4, <2>6, <3>1
    <3> QED
      BY <3>1, <3>2
  <2>9. ASSUME NEW i \in 2 .. n + 1
        PROVE  i - 1 \in 1 .. n /\ c[i][1] = points[i - 1][1] /\ c[i][1] \in Int
               /\ -Wide < c[i][1] /\ c[i][1] < Wide
    <3>1. i - 1 \in 1 .. n /\ (i - 1) + 1 = i
      BY <1>1
    <3>2. c[i][1] = points[i - 1][1]
      BY <2>8, <3>1
    <3>3. points[i - 1][1] \in -Wide + 1 .. Wide - 1
      BY <3>1 DEF n
    <3> QED
      BY <3>1, <3>2, <3>3, Numbers
  <2>10. \A i \in 1 .. n + 2 : c[i][1] \in Int
    <3> SUFFICES ASSUME NEW i \in 1 .. n + 2 PROVE c[i][1] \in Int
      OBVIOUS
    <3>1. i = 1 \/ i = n + 2 \/ i \in 2 .. n + 1
      BY <1>1
    <3> QED
      BY <2>7, <2>9, <3>1, Numbers
  <2>11. \A i \in 1 .. n + 1 : c[i][1] < c[i + 1][1]
    <3> SUFFICES ASSUME NEW i \in 1 .. n + 1 PROVE c[i][1] < c[i + 1][1]
      OBVIOUS
    <3>1. CASE i = 1
      <4>1. 2 \in 2 .. n + 1
        BY <1>1, <2>1
      <4> QED
        BY <2>7, <2>9, <3>1, <4>1
    <3>2. CASE i # 1 /\ i = n + 1
      <4>1. i \in 2 .. n + 1 /\ i + 1 = n + 2
        BY <1>1, <3>2
      <4> QED
        BY <2>7, <2>9, <4>1
    <3>3. CASE i # 1 /\ i # n + 1
      <4>1. i \in 2 .. n + 1 /\ i + 1 \in 2 .. n + 1 /\ i - 1 \in 1 .. n - 1 /\ (i - 1) + 1 = i /\ (i + 1) - 1 = i
        BY <1>1, <3>3
      <4>2. points[i - 1][1] < points[i][1]
        BY <1>2, <4>1
      <4> QED
        BY <2>9, <4>1, <4>2
    <3> QED
      BY <3>1, <3>2, <3>3
  <2>12. Len(c) = n + 2 /\ Len(c) - 1 = n + 1
    BY <1>1, <2>6
  <2> QED
    BY <1>1, <2>1, <2>7, <2>8, <2>10, <2>11, <2>12 DEF c, n
<1> QED
  BY <1>3, <1>4

(* What rises from each index to the next rises from each to all later.    *)
LEMMA RisesToLater ==
  ASSUME NEW f, NEW n \in Int, \A i \in 1 .. n : f[i] \in Int, \A i \in 1 .. n - 1 : f[i] < f[i + 1]
  PROVE  \A i, k \in 1 .. n : i < k => f[i] < f[k]
<1> SUFFICES ASSUME NEW i \in 1 .. n, NEW l \in 1 .. n, i < l, ~(f[i] < f[l]) PROVE FALSE
  OBVIOUS
<1> DEFINE S == {k \in 1 .. n : i < k /\ ~(f[i] < f[k])}
<1>1. S \in SUBSET Nat /\ S # {}
  OBVIOUS
<1>2. PICK k \in S : \A m \in S : k <= m
  BY <1>1, LeastIsLeast
<1>3. k \in 1 .. n /\ k - 1 \in 1 .. n - 1 /\ k - 1 \in 1 .. n /\ (k - 1) + 1 = k /\ i <= k - 1
  BY <1>2
<1>4. f[k - 1] < f[k] /\ f[i] \in Int /\ f[k] \in Int /\ f[k - 1] \in Int
  BY <1>3
<1>5. ~(k - 1 \in S)
  BY <1>2, <1>3
<1>6. i = k - 1 \/ f[i] < f[k - 1]
  BY <1>3, <1>5
<1> QED
  BY <1>2, <1>4, <1>6

Reach(side) == [i \in 1 .. Len(Nodes(side)) |-> Nodes(side)[i][1]]

LEMMA ReachRises ==
  ASSUME water \in Waters, NEW side \in Sides
  PROVE  /\ Len(Nodes(side)) \in Int /\ Len(Nodes(side)) >= 2
         /\ \A i \in 1 .. Len(Nodes(side)) : Reach(side)[i] \in Int
         /\ Reach(side)[1] = -Wide /\ Reach(side)[Len(Nodes(side))] = Wide
         /\ \A i, k \in 1 .. Len(Nodes(side)) : i < k => Reach(side)[i] < Reach(side)[k]
         /\ \A i \in 1 .. Len(water[side]) :
              Reach(side)[i + 1] = water[side][i][1] /\ i + 1 \in 2 .. Len(Nodes(side)) - 1
<1> DEFINE depth == IF side = "top" THEN water.depths[1] ELSE water.depths[Len(water.depths)]
           c == Extended(water[side], depth)
<1>1. water[side] \in Shapes /\ depth \in Int
  BY WaterFacts DEF Sides
<1>2. \A i \in DOMAIN water[side] : water[side][i][1] \in -Wide + 1 .. Wide - 1
  BY RayAssumption DEF Sides
<1>3. Nodes(side) = c
  BY DEF Nodes
<1> HIDE DEF depth
<1>4. /\ Len(c) \in Int /\ Len(c) >= 2
      /\ \A i \in 1 .. Len(c) : c[i][1] \in Int
      /\ c[1][1] = -Wide /\ c[Len(c)][1] = Wide
      /\ \A i \in 1 .. Len(c) - 1 : c[i][1] < c[i + 1][1]
      /\ \A i \in 1 .. Len(water[side]) : c[i + 1][1] = water[side][i][1] /\ i + 1 \in 2 .. Len(c) - 1
  BY <1>1, <1>2, CurveRises
<1> HIDE DEF c
<1> DEFINE f == [i \in 1 .. Len(c) |-> c[i][1]]
<1>5. Reach(side) = f
  BY <1>3 DEF Reach
<1>6. \A i \in 1 .. Len(c) : f[i] = c[i][1]
  OBVIOUS
<1> HIDE DEF f
<1>7. \A i \in 1 .. Len(c) - 1 : i \in 1 .. Len(c) /\ i + 1 \in 1 .. Len(c)
  BY <1>4
<1>8. (\A i \in 1 .. Len(c) : f[i] \in Int) /\ \A i \in 1 .. Len(c) - 1 : f[i] < f[i + 1]
  BY <1>4, <1>6, <1>7
<1>9. \A i, k \in 1 .. Len(c) : i < k => f[i] < f[k]
  BY <1>4, <1>8, RisesToLater
<1>10. f[1] = -Wide /\ f[Len(c)] = Wide
  BY <1>4, <1>6
<1>11. \A i \in 1 .. Len(water[side]) : f[i + 1] = water[side][i][1] /\ i + 1 \in 2 .. Len(c) - 1
  <2> SUFFICES ASSUME NEW i \in 1 .. Len(water[side])
               PROVE  f[i + 1] = water[side][i][1] /\ i + 1 \in 2 .. Len(c) - 1
    OBVIOUS
  <2>1. c[i + 1][1] = water[side][i][1] /\ i + 1 \in 2 .. Len(c) - 1
    BY <1>4
  <2>2. i + 1 \in 1 .. Len(c)
    BY <2>1, <1>4
  <2> QED
    BY <2>1, <2>2, <1>6
<1> QED
  BY <1>3, <1>4, <1>5, <1>8, <1>9, <1>10, <1>11

(* A looked-up segment holds its range.                                    *)
Holds(side, i, range) == Reach(side)[i] <= range /\ range <= Reach(side)[i + 1]

LEMMA LookupHolds ==
  ASSUME water \in Waters, NEW side \in Sides, NEW range \in Int, -Wide < range, range <= Wide
  PROVE  Holds(side, SegmentForRange(side, range), range)
<1> DEFINE n == Len(Nodes(side))
           f == Reach(side)
           before == {i \in DOMAIN Nodes(side) : Nodes(side)[i][1] < range}
<1>1. /\ n \in Int /\ n >= 2
      /\ \A i \in 1 .. n : f[i] \in Int
      /\ f[1] = -Wide /\ f[n] = Wide
      /\ \A i, k \in 1 .. n : i < k => f[i] < f[k]
  BY ReachRises
<1>2. before = {i \in 1 .. n : f[i] < range}
  <2>1. DOMAIN Nodes(side) = 1 .. n
    BY NodesFacts
  <2>2. \A i \in 1 .. n : f[i] = Nodes(side)[i][1]
    BY DEF Reach
  <2> HIDE DEF n, f
  <2> QED
    BY <2>1, <2>2
<1>3. SegmentForRange(side, range) =
        IF Cardinality(before) = 0 THEN 1
        ELSE IF Cardinality(before) < n THEN Cardinality(before) ELSE n - 1
  BY DEF SegmentForRange
<1> HIDE DEF n, f, before
<1> DEFINE S == {i \in 1 .. n : ~(f[i] < range)}
<1>4. n \in S /\ S \in SUBSET Nat
  BY <1>1, Numbers
<1>5. PICK j \in S : \A m \in S : j <= m
  BY <1>4, LeastIsLeast
<1>6. j \in 1 .. n /\ range <= f[j] /\ j # 1
  BY <1>1, <1>5, Numbers
<1>7. before = 1 .. j - 1
  <2>1. ASSUME NEW i \in before PROVE i \in 1 .. j - 1
    <3>1. i \in 1 .. n /\ f[i] < range /\ f[i] \in Int /\ f[j] \in Int
      BY <1>1, <1>2, <1>6, <2>1
    <3>2. ~(j < i) /\ j # i
      BY <1>1, <1>6, <3>1
    <3> QED
      BY <1>6, <3>1, <3>2
  <2>2. ASSUME NEW i \in 1 .. j - 1 PROVE i \in before
    <3>1. i \in 1 .. n /\ i < j
      BY <1>1, <1>6, <2>2
    <3>2. i \notin S
      <4>1. i \in Int /\ j \in Int
        BY <1>6, <3>1
      <4> HIDE DEF S
      <4> QED
        BY <1>5, <3>1, <4>1
    <3> QED
      BY <1>2, <3>1, <3>2
  <2> QED
    BY <2>1, <2>2
<1>8. Cardinality(before) = j - 1
  <2>1. 1 \in Int /\ j - 1 \in Int /\ ~(1 > j - 1)
    BY <1>6
  <2>2. Cardinality(1 .. j - 1) = (j - 1) - 1 + 1
    BY <2>1, FS_Interval
  <2> QED
    BY <1>7, <2>1, <2>2
<1>9. SegmentForRange(side, range) = j - 1
  BY <1>1, <1>3, <1>6, <1>8
<1>10. f[j - 1] <= range /\ range <= f[(j - 1) + 1]
  <2>1. j - 1 \in before
    BY <1>6, <1>7
  <2>2. f[j - 1] < range /\ f[j - 1] \in Int
    BY <1>1, <1>2, <2>1
  <2>3. (j - 1) + 1 = j
    BY <1>6
  <2> QED
    BY <1>6, <2>2, <2>3
<1> QED
  BY <1>9, <1>10 DEF Holds, f

(* No node is strictly inside the segment that holds a range.              *)
LEMMA NodesOutsideSegment ==
  ASSUME water \in Waters, NEW side \in Sides, NEW range \in Int, NEW i \in Segments(side),
         Holds(side, i, range), NEW k \in 1 .. Len(Nodes(side))
  PROVE  /\ Reach(side)[i] \in Int /\ Reach(side)[i + 1] \in Int /\ Reach(side)[k] \in Int
         /\ Interval(side, i).from = Reach(side)[i] /\ Interval(side, i).to = Reach(side)[i + 1]
         /\ range < Reach(side)[k] => Reach(side)[i + 1] <= Reach(side)[k]
         /\ Reach(side)[k] < range => Reach(side)[k] <= Reach(side)[i]
<1> DEFINE n == Len(Nodes(side))
           f == Reach(side)
<1>1. /\ n \in Int /\ n >= 2
      /\ \A j \in 1 .. n : f[j] \in Int
      /\ \A j, l \in 1 .. n : j < l => f[j] < f[l]
  BY ReachRises
<1>2. f[i] <= range /\ range <= f[i + 1] /\ i \in 1 .. n - 1 /\ k \in 1 .. n
  BY DEF Holds, Segments
<1>3. Interval(side, i).from = f[i] /\ Interval(side, i).to = f[i + 1]
  <2>1. i \in 1 .. n /\ i + 1 \in 1 .. n
    BY <1>1, <1>2
  <2> QED
    BY <2>1 DEF Interval, Reach
<1> HIDE DEF n, f
<1>4. i \in 1 .. n /\ i + 1 \in 1 .. n
  BY <1>1, <1>2
<1>5. f[i] \in Int /\ f[i + 1] \in Int /\ f[k] \in Int
  BY <1>1, <1>2, <1>4
<1>6. ASSUME range < f[k] PROVE f[i + 1] <= f[k]
  <2>1. ~(k < i) /\ k # i
    BY <1>1, <1>2, <1>4, <1>5, <1>6
  <2>2. k = i + 1 \/ i + 1 < k
    BY <1>2, <1>4, <2>1
  <2> QED
    BY <1>1, <1>2, <1>4, <1>5, <2>2
<1>7. ASSUME f[k] < range PROVE f[k] <= f[i]
  <2>1. ~(i + 1 < k) /\ k # i + 1
    BY <1>1, <1>2, <1>4, <1>5, <1>7
  <2>2. k = i \/ k < i
    BY <1>2, <1>4, <2>1
  <2> QED
    BY <1>1, <1>2, <1>4, <1>5, <2>2
<1> QED
  BY <1>3, <1>5, <1>6, <1>7 DEF f

(* Where a step starts, the box and both segments hold the ray.            *)
Following ==
  /\ pc = "step" => Magnitude(at[1]) <= MaxRange
  /\ Tracked /\ pc # "done" /\ Magnitude(at[1]) <= MaxRange =>
       \A side \in Sides : Holds(side, segment[side], at[1])

LEMMA BoxRange ==
  \A r \in Int : Magnitude(r) <= MaxRange => -Wide < r /\ r <= Wide
<1>1. MaxRange \in Int /\ MaxRange < Wide /\ Wide \in Int
  BY RayAssumption
<1> QED
  BY <1>1 DEF Magnitude

(* A level curve is one segment, which holds the whole box.                *)
LEMMA FlatHolds ==
  ASSUME TypeOK, Flat, NEW side \in Sides, Magnitude(at[1]) <= MaxRange
  PROVE  Holds(side, segment[side], at[1])
<1>1. segment[side] = 1 /\ Segments(side) = {1} /\ at[1] \in Int
  BY FlatFacts DEF TypeOK
<1>2. water \in Waters
  BY DEF TypeOK
<1>3. Len(Nodes(side)) = 2
  BY DEF Flat, Nodes, Extended, Sides
<1>4. Reach(side)[1] = -Wide /\ Reach(side)[2] = Wide
  BY <1>2, <1>3, ReachRises
<1>5. -Wide < at[1] /\ at[1] <= Wide
  BY <1>1, BoxRange
<1> QED
  BY <1>1, <1>4, <1>5, Numbers DEF Holds

LEMMA FlatFollowing ==
  TypeOK /\ Flat => (Magnitude(at[1]) <= MaxRange => \A side \in Sides : Holds(side, segment[side], at[1]))
BY FlatHolds

LEMMA FollowingInit == Init => Following
<1> SUFFICES ASSUME Init PROVE Following
  OBVIOUS
<1>1. at[1] = 0 /\ 0 \in Int /\ Magnitude(0) = 0 /\ water \in Waters
  BY DEF Init, Magnitude
<1>2. -Wide < 0 /\ 0 <= Wide /\ 0 <= MaxRange
  BY RayAssumption
<1>3. \A side \in Sides : segment[side] = SegmentForRange(side, 0)
  BY DEF Init
<1> QED
  BY <1>1, <1>2, <1>3, LookupHolds DEF Following

LEMMA FollowingStep == TypeInv /\ Following /\ [Next]_vars => Following'
<1>f. (TypeOK /\ Flat => (Magnitude(at[1]) <= MaxRange => \A side \in Sides : Holds(side, segment[side], at[1])))'
  BY FlatFollowing, PTL
<1> SUFFICES ASSUME TypeInv, Following, [Next]_vars PROVE Following'
  OBVIOUS
<1>p. TypeOK' /\ TypeOK
  BY TypeStep DEF TypeInv
<1>t. water \in Waters /\ water' = water /\ at[1] \in Int /\ at'[1] \in Int
  BY <1>p DEF TypeOK, Next, Step, Reflect, ReflectFails, Test, Fail, vars
<1>r. \A side \in Sides : Reach(side)' = Reach(side)
  BY <1>t DEF Reach, Nodes
<1>k. Tracked' = Tracked /\ Flat' = Flat
  BY <1>t DEF Tracked, Flat
<1>1. CASE UNCHANGED vars
  BY <1>1, <1>r, <1>k DEF vars, Following, Holds
<1>2. CASE Fail
  BY <1>2 DEF Fail, Following
<1>3. CASE Step /\ ~Fail
  <2>1. pc' # "step" /\ segment' = [side \in Sides |-> NextSegment(side, at'[1])]
    <3>1. pc' \in {"test", "reflect", "done"} /\ segment' = [side \in Sides |-> NextSegment(side, at'[1])]
      BY <1>3, StepFacts
    <3> QED
      BY <3>1
  <2>2. ASSUME NEW side \in Sides, Magnitude(at'[1]) <= MaxRange
        PROVE  Holds(side, NextSegment(side, at'[1]), at'[1])
    <3>1. -Wide < at'[1] /\ at'[1] <= Wide
      BY <1>t, <2>2, BoxRange
    <3>2. Holds(side, SegmentForRange(side, at'[1]), at'[1])
      BY <1>t, <3>1, LookupHolds
    <3>3. /\ Interval(side, segment[side]).from = Reach(side)[segment[side]]
          /\ Interval(side, segment[side]).to = Reach(side)[segment[side] + 1]
          /\ Reach(side)[segment[side]] \in Int /\ Reach(side)[segment[side] + 1] \in Int
      <4>1. segment[side] \in Segments(side)
        BY <1>p DEF TypeOK
      <4>2. Len(Nodes(side)) \in Int /\ segment[side] \in 1 .. Len(Nodes(side)) - 1
        BY <1>t, <4>1, NodesFacts DEF Segments
      <4>3. segment[side] \in 1 .. Len(Nodes(side)) /\ segment[side] + 1 \in 1 .. Len(Nodes(side))
        BY <4>2
      <4> QED
        BY <1>t, <4>3, ReachRises DEF Interval, Reach
    <3> QED
      BY <1>t, <3>2, <3>3 DEF NextSegment, Holds
  <2>3. ASSUME NEW side \in Sides, Magnitude(at'[1]) <= MaxRange
        PROVE  Holds(side, segment[side], at[1])'
    <3>1. segment'[side] = NextSegment(side, at'[1])
      BY <2>1
    <3>2. Holds(side, segment'[side], at'[1])
      BY <2>2, <2>3, <3>1
    <3> QED
      BY <3>2, <1>r DEF Holds
  <2> QED
    BY <2>1, <2>3, <1>r DEF Following, Holds
<1>4. CASE Reflect
  <2>1. segment' = segment /\ pc' = "test" /\ pc = "reflect"
    BY <1>4 DEF Reflect
  <2>2. CASE Flat
    <3>1. ASSUME NEW side \in Sides, Magnitude(at'[1]) <= MaxRange
          PROVE  Holds(side, segment[side], at[1])'
      BY <1>f, <1>p, <1>k, <2>2, <3>1
    <3> QED
      BY <2>1, <3>1 DEF Following
  <2>3. CASE ~Flat
    <3>1. ASSUME Tracked PROVE at'[1] = at[1]
      <4>1. ~water.shift
        BY <2>3, <3>1 DEF Tracked
      <4>2. at' = at \/ \E slope : at' = Along(at, <<1, slope>>, 0)
        BY <1>4, <4>1 DEF Reflect
      <4>3. \A slope : Along(at, <<1, slope>>, 0)[1] = at[1] + 0 * 1
        BY DEF Along
      <4>4. at[1] + 0 * 1 = at[1]
        BY <1>t
      <4> QED
        BY <4>2, <4>3, <4>4
    <3> QED
      BY <2>1, <3>1, <1>k, <1>r DEF Following, Holds
  <2> QED
    BY <2>2, <2>3
<1>5. CASE Test
  <2>1. UNCHANGED <<at, segment>> /\ pc = "test"
    BY <1>5 DEF Test
  <2>2. pc' = "step" => Magnitude(at[1]) <= MaxRange
    BY <1>5 DEF Test, Verdict, InBox
  <2> QED
    BY <2>1, <2>2, <1>k, <1>r DEF Following, Holds
<1> QED
  BY <1>1, <1>2, <1>3, <1>4, <1>5 DEF Next, ReflectFails

(* What a coordinate that passed a value says of the step.                 *)
LEMMA PassedStep ==
  ASSUME NEW x \in Int, NEW u \in {-1, 0, 1}, NEW step \in Int, step >= MinStep,
         NEW y \in Rounded(x + step * u, u), NEW value \in Int, Passed(value, x, y)
  PROVE  /\ step # MinStep
         /\ \/ u = 1 /\ x < value /\ value < x + step
            \/ u = -1 /\ value < x /\ x - step < value
<1>1. step * u \in Int /\ (u = 0 => step * u = 0) /\ (u = 1 => step * u = step) /\ (u = -1 => step * u = -step)
  OBVIOUS
<1>2. /\ u = 0 => y = x
      /\ u = 1 => y \in Int /\ x + step - Rounding <= y /\ y <= x + step + Rounding
      /\ u = -1 => y \in Int /\ x - step - Rounding <= y /\ y <= x - step + Rounding
  BY <1>1, Numbers DEF Rounded
<1> QED
  BY <1>2, Numbers DEF Passed, Ahead, Behind

(* The trial step is the longest.                                          *)
LEMMA TrialBeyond ==
  ASSUME NEW x \in Int, NEW u \in {-1, 1}, NEW value \in Int, NEW step \in Int, step <= BaseStep,
         (u = 1 /\ x < value /\ value < x + step) \/ (u = -1 /\ value < x /\ x - step < value)
  PROVE  /\ u = 1 => value < x + BaseStep * u
         /\ u = -1 => x + BaseStep * u < value
         /\ \A m \in Int : u = 1 /\ m <= value => (m - x) * u < step
         /\ \A m \in Int : u = -1 /\ value <= m => (m - x) * u < step
<1>1. /\ u = 1 => BaseStep * u = BaseStep /\ \A m \in Int : (m - x) * u = m - x
      /\ u = -1 => BaseStep * u = -BaseStep /\ \A m \in Int : (m - x) * u = x - m
  BY Numbers
<1> QED
  BY <1>1, Numbers

(* No step passes over an interface of the sound speed, an end of a range  *)
(* segment or of a boundary segment that is ahead by more than the least   *)
(* step, wherever the searches stand after the steps and reflections       *)
(* before.                                                                 *)
THEOREM KnotsNotPassed == Spec => KnotsRespected
<1> DEFINE Respected ==
      pc = "step" =>
        /\ \A i \in 2 .. Len(water.depths) - 1 : ~Passed(water.depths[i], at[2], at'[2])
        /\ Tracked =>
             /\ \A i \in DOMAIN water.ranges : ~Passed(water.ranges[i], at[1], at'[1])
             /\ \A side \in Sides : \A i \in DOMAIN water[side] : ~Passed(water[side][i][1], at[1], at'[1])
<1>1. TypeInv /\ Following /\ [Next]_vars => [Respected]_vars
  <2> SUFFICES ASSUME TypeInv, Following, Next, pc = "step" PROVE Respected
    OBVIOUS
  <2>t. /\ water \in Waters /\ at \in Int \X Int /\ at[1] \in Int /\ at[2] \in Int
        /\ heading[1] \in {-1, 0, 1} /\ heading[2] \in {-1, 0, 1}
        /\ heading \in {-1, 0, 1} \X {-1, 0, 1}
        /\ \A side \in Sides : segment[side] \in Segments(side)
    BY HeadingParts DEF TypeInv, TypeOK, Headings, Slopes
  <2>n. /\ \A i \in DOMAIN water.depths : water.depths[i] \in Int
        /\ \A i \in DOMAIN water.ranges : water.ranges[i] \in Int
        /\ \A side \in Sides : \A i \in DOMAIN water[side] : water[side][i][1] \in Int
    <3>1. \A i \in DOMAIN water.depths : water.depths[i] \in Int
      BY <2>t, WaterFacts
    <3>2. \A i \in DOMAIN water.ranges : water.ranges[i] \in Int
      <4>1. CASE water.ranges = <<>>
        BY <4>1
      <4>2. CASE water.ranges # <<>>
        BY <2>t, <4>2, WaterFacts
      <4> QED
        BY <4>1, <4>2
    <3>3. \A side \in Sides : \A i \in DOMAIN water[side] : water[side][i][1] \in Int
      <4>1. \A side \in Sides : water[side] \in Shapes
        BY <2>t, WaterFacts DEF Sides
      <4> QED
        BY <4>1 DEF Shapes
    <3> QED
      BY <3>1, <3>2, <3>3
  <2>s. \A x, v \in Int : ~Passed(v, x, x)
    BY Numbers DEF Passed, Ahead, Behind
  <2>1. CASE Fail
    <3>1. at' = at
      BY <2>1 DEF Fail
    <3>2. \A i \in 2 .. Len(water.depths) - 1 : i \in DOMAIN water.depths
      BY <2>t, WaterFacts
    <3> QED
      BY <3>1, <3>2, <2>s, <2>t, <2>n
  <2>2. CASE Step /\ ~Fail
    <3>1. PICK step \in Int :
           /\ step = ReducedStep(StartLayer, StartColumn)
           /\ step >= MinStep
           /\ StartLayer \in 1 .. Len(water.depths) - 1 /\ StartColumn \in Columns
           /\ at' \in Landings(step) /\ at' \in Int \X Int
      BY <2>2, StepFacts
    <3>2. /\ InterfaceStep(StartLayer) \in Int /\ SegmentStep(StartColumn) \in Int
          /\ step # MinStep => step <= BaseStep /\ step <= InterfaceStep(StartLayer) /\ step <= SegmentStep(StartColumn)
      BY <3>1, StepLength, Numbers DEF TypeInv
    <3>3. at'[1] \in Rounded(at[1] + step * heading[1], heading[1]) /\ at'[2] \in Rounded(at[2] + step * heading[2], heading[2])
      BY <3>1 DEF Landings, Along
    <3>4. Trial[1] = at[1] + BaseStep * heading[1] /\ Trial[2] = at[2] + BaseStep * heading[2]
          /\ Trial[1] \in Int /\ Trial[2] \in Int
      BY <2>t, AlongType, Numbers DEF Trial, Along
    <3>5. Defined(at[1])
      BY <2>2 DEF Step
    <3>6. ASSUME NEW k \in 2 .. Len(water.depths) - 1, Passed(water.depths[k], at[2], at'[2])
          PROVE  FALSE
      <4> DEFINE z == at[2]
                 v == water.depths[k]
                 u == heading[2]
                 m == StartLayer
                 low == water.depths[m]
                 high == water.depths[m + 1]
      <4>1. /\ low < high /\ low \in Int /\ high \in Int /\ v \in Int
            /\ z < v => high <= v
            /\ v < z => v <= low
        BY <2>t, LayerBetween DEF StartLayer, TypeInv, TypeOK
      <4>2. /\ step # MinStep
            /\ \/ u = 1 /\ z < v /\ v < z + step
               \/ u = -1 /\ v < z /\ z - step < v
        BY <2>t, <3>1, <3>3, <3>6, <4>1, PassedStep
      <4>3. /\ u = 1 => v < Trial[2]
            /\ u = -1 => Trial[2] < v
            /\ \A n \in Int : u = 1 /\ n <= v => (n - z) * u < step
            /\ \A n \in Int : u = -1 /\ v <= n => (n - z) * u < step
        <5>1. u \in {-1, 1} /\ step <= BaseStep
          BY <3>2, <4>2
        <5> HIDE DEF z, v, u
        <5>2. z \in Int /\ v \in Int
          BY <2>t, <4>1 DEF z, v
        <5>3. Trial[2] = z + BaseStep * u
          BY <3>4 DEF z, u
        <5>4. (u = 1 /\ z < v /\ v < z + step) \/ (u = -1 /\ v < z /\ z - step < v)
          BY <4>2
        <5>5. /\ u = 1 => v < z + BaseStep * u
              /\ u = -1 => z + BaseStep * u < v
              /\ \A n \in Int : u = 1 /\ n <= v => (n - z) * u < step
              /\ \A n \in Int : u = -1 /\ v <= n => (n - z) * u < step
          BY ONLY <5>1, <5>2, <5>4, step \in Int, TrialBeyond
        <5> QED
          BY <5>3, <5>5
      <4>4. InterfaceStep(m) = CASE u # 0 /\ low > Trial[2] -> (low - z) * u
                                 [] u # 0 /\ high < Trial[2] -> (high - z) * u
                                 [] OTHER -> BaseStep
        BY DEF InterfaceStep
      <4> HIDE DEF z, v, u, m, low, high
      <4>5. CASE u = 1
        <5>1. high <= v /\ v < Trial[2] /\ ~(low > Trial[2]) /\ high < Trial[2]
          BY <3>4, <4>1, <4>2, <4>3, <4>5
        <5>2. InterfaceStep(m) = (high - z) * u
          BY <4>4, <4>5, <5>1
        <5>3. (high - z) * u < step
          BY <4>1, <4>3, <4>5, <5>1
        <5> QED
          BY <3>2, <4>2, <5>2, <5>3 DEF m
      <4>6. CASE u = -1
        <5>1. v <= low /\ Trial[2] < v /\ low > Trial[2] /\ ~(high < Trial[2])
          BY <3>4, <4>1, <4>2, <4>3, <4>6
        <5>2. InterfaceStep(m) = (low - z) * u
          BY <4>4, <4>6, <5>1
        <5>3. (low - z) * u < step
          BY <4>1, <4>3, <4>6, <5>1
        <5> QED
          BY <3>2, <4>2, <5>2, <5>3 DEF m
      <4> QED
        BY <4>2, <4>5, <4>6
    <3> DEFINE shared == SharedInterval(StartColumn)
               x == at[1]
               u == heading[1]
    <3>7. ASSUME Tracked
          PROVE  /\ shared.from \in Int /\ shared.to \in Int /\ shared.from <= x /\ x <= shared.to
                 /\ \A i \in DOMAIN water.ranges :
                      /\ x < water.ranges[i] => shared.to <= water.ranges[i]
                      /\ water.ranges[i] < x => water.ranges[i] <= shared.from
                 /\ \A side \in Sides : \A i \in DOMAIN water[side] :
                      /\ x < water[side][i][1] => shared.to <= water[side][i][1]
                      /\ water[side][i][1] < x => water[side][i][1] <= shared.from
      <4> DEFINE top == Interval("top", segment["top"])
                 bottom == Interval("bottom", segment["bottom"])
                 m == StartColumn
      <4>1. ASSUME NEW side \in Sides
            PROVE  LET i == Interval(side, segment[side])
                   IN /\ i.from \in Int /\ i.to \in Int /\ i.from <= x /\ x <= i.to
                      /\ \A k \in DOMAIN water[side] :
                           /\ x < water[side][k][1] => i.to <= water[side][k][1]
                           /\ water[side][k][1] < x => water[side][k][1] <= i.from
        <5>1. Holds(side, segment[side], at[1]) /\ segment[side] \in Segments(side)
          BY <3>7, <2>t DEF Following
        <5>2. /\ 1 \in 1 .. Len(Nodes(side))
              /\ \A k \in 1 .. Len(water[side]) :
                   /\ k + 1 \in 1 .. Len(Nodes(side))
                   /\ Reach(side)[k + 1] = water[side][k][1]
          <6>1. /\ Len(Nodes(side)) \in Int /\ Len(Nodes(side)) >= 2
                /\ \A k \in 1 .. Len(water[side]) :
                     Reach(side)[k + 1] = water[side][k][1] /\ k + 1 \in 2 .. Len(Nodes(side)) - 1
            BY <2>t, ReachRises
          <6> QED
            BY <6>1
        <5>3. ASSUME NEW k \in 1 .. Len(Nodes(side))
              PROVE  /\ Reach(side)[segment[side]] \in Int /\ Reach(side)[segment[side] + 1] \in Int
                     /\ Interval(side, segment[side]).from = Reach(side)[segment[side]]
                     /\ Interval(side, segment[side]).to = Reach(side)[segment[side] + 1]
                     /\ at[1] < Reach(side)[k] => Reach(side)[segment[side] + 1] <= Reach(side)[k]
                     /\ Reach(side)[k] < at[1] => Reach(side)[k] <= Reach(side)[segment[side]]
          BY <2>t, <5>1, NodesOutsideSegment
        <5>4. DOMAIN water[side] = 1 .. Len(water[side])
          <6>1. water[side] \in Shapes
            BY <2>t, WaterFacts DEF Sides
          <6> QED
            BY <6>1 DEF Shapes
        <5>5. \A k \in 1 .. Len(water[side]) :
                /\ x < water[side][k][1] => Reach(side)[segment[side] + 1] <= water[side][k][1]
                /\ water[side][k][1] < x => water[side][k][1] <= Reach(side)[segment[side]]
          BY <5>2, <5>3
        <5> QED
          BY <5>1, <5>2, <5>3, <5>4, <5>5 DEF Holds
      <4>2. ASSUME water.ranges # <<>>
            PROVE  /\ water.ranges[m] \in Int /\ water.ranges[m + 1] \in Int
                   /\ water.ranges[m] <= x /\ x <= water.ranges[m + 1]
                   /\ \A k \in DOMAIN water.ranges :
                        /\ x < water.ranges[k] => water.ranges[m + 1] <= water.ranges[k]
                        /\ water.ranges[k] < x => water.ranges[k] <= water.ranges[m]
        <5>1. /\ m \in 1 .. Len(water.ranges) - 1
              /\ water.ranges[m] \in Int /\ water.ranges[m + 1] \in Int
              /\ water.ranges[m] <= x /\ x <= water.ranges[m + 1]
          BY <2>t, <3>5, <4>2, ColumnHolds DEF StartColumn, TypeInv, TypeOK, Columns
        <5> DEFINE r == water.ranges
        <5>2. /\ Len(r) \in Int /\ DOMAIN r = 1 .. Len(r)
              /\ \A i \in 1 .. Len(r) : r[i] \in Int
              /\ \A i, j \in 1 .. Len(r) : i < j => r[i] < r[j]
          <6>1. r \in Knots
            BY <2>t, <4>2, RayAssumption
          <6> HIDE DEF r
          <6> QED
            BY <6>1, KnotsFacts DEF Knots
        <5> HIDE DEF r, m, x
        <5>3. ASSUME NEW k \in DOMAIN r
              PROVE  (x < r[k] => r[m + 1] <= r[k]) /\ (r[k] < x => r[k] <= r[m])
          <6>1. k \in 1 .. Len(r) /\ m \in 1 .. Len(r) /\ m + 1 \in 1 .. Len(r) /\ r[k] \in Int
                /\ r[m] \in Int /\ r[m + 1] \in Int /\ r[m] <= x /\ x <= r[m + 1] /\ x \in Int
            BY <2>t, <5>1, <5>2 DEF r, x
          <6>2. x < r[k] => ~(k < m) /\ k # m
            BY <5>2, <6>1
          <6>3. r[k] < x => ~(m + 1 < k) /\ k # m + 1
            BY <5>2, <6>1
          <6>4. k < m \/ k = m \/ k = m + 1 \/ m + 1 < k
            BY <6>1
          <6>5. (m + 1 < k => r[m + 1] < r[k]) /\ (k < m => r[k] < r[m])
            BY <5>2, <6>1
          <6> QED
            BY <6>1, <6>2, <6>3, <6>4, <6>5
        <5> QED
          BY <5>1, <5>3 DEF r
      <4>3. /\ shared.from = IF water.ranges = <<>> THEN Greater(top.from, bottom.from)
                             ELSE Greater(Greater(top.from, bottom.from), water.ranges[m])
            /\ shared.to = IF water.ranges = <<>> THEN Lesser(top.to, bottom.to)
                           ELSE Lesser(Lesser(top.to, bottom.to), water.ranges[m + 1])
        BY DEF SharedInterval
      <4>4. x \in Int
        BY <2>t
      <4>5. \A a, b \in Int : /\ Greater(a, b) \in Int /\ a <= Greater(a, b) /\ b <= Greater(a, b)
                              /\ Lesser(a, b) \in Int /\ Lesser(a, b) <= a /\ Lesser(a, b) <= b
                              /\ (a <= x /\ b <= x => Greater(a, b) <= x)
                              /\ (x <= a /\ x <= b => x <= Lesser(a, b))
        BY DEF Greater, Lesser
      <4>6. /\ top.from \in Int /\ top.to \in Int /\ top.from <= x /\ x <= top.to
            /\ bottom.from \in Int /\ bottom.to \in Int /\ bottom.from <= x /\ x <= bottom.to
        BY <4>1 DEF Sides
      <4>7. /\ shared.from \in Int /\ shared.to \in Int /\ shared.from <= x /\ x <= shared.to
            /\ top.from <= shared.from /\ bottom.from <= shared.from
            /\ shared.to <= top.to /\ shared.to <= bottom.to
            /\ water.ranges # <<>> => water.ranges[m] <= shared.from /\ shared.to <= water.ranges[m + 1]
        <5> HIDE DEF top, bottom, shared, x, m
        <5> DEFINE a == Greater(top.from, bottom.from)
                   b == Lesser(top.to, bottom.to)
        <5>1. /\ a \in Int /\ top.from <= a /\ bottom.from <= a /\ a <= x
              /\ b \in Int /\ b <= top.to /\ b <= bottom.to /\ x <= b
          BY <4>4, <4>5, <4>6
        <5> HIDE DEF a, b
        <5>2. CASE water.ranges = <<>>
          BY <5>1, <5>2, <4>3 DEF a, b
        <5>3. CASE water.ranges # <<>>
          <6>1. /\ shared.from = Greater(a, water.ranges[m]) /\ shared.to = Lesser(b, water.ranges[m + 1])
                /\ water.ranges[m] \in Int /\ water.ranges[m + 1] \in Int
                /\ water.ranges[m] <= x /\ x <= water.ranges[m + 1]
            BY <5>3, <4>2, <4>3 DEF a, b
          <6>2. /\ shared.from \in Int /\ a <= shared.from /\ water.ranges[m] <= shared.from /\ shared.from <= x
                /\ shared.to \in Int /\ shared.to <= b /\ shared.to <= water.ranges[m + 1] /\ x <= shared.to
            BY <4>5, <5>1, <6>1
          <6> QED
            BY <4>6, <5>1, <6>2
        <5> QED
          BY <5>2, <5>3
      <4>8. ASSUME NEW i \in DOMAIN water.ranges
            PROVE  /\ x < water.ranges[i] => shared.to <= water.ranges[i]
                   /\ water.ranges[i] < x => water.ranges[i] <= shared.from
        <5>1. water.ranges # <<>> /\ water.ranges[i] \in Int
          BY <2>n, <4>8
        <5> HIDE DEF shared, x, m
        <5> QED
          BY <4>2, <4>7, <5>1
      <4>9. ASSUME NEW side \in Sides, NEW i \in DOMAIN water[side]
            PROVE  /\ x < water[side][i][1] => shared.to <= water[side][i][1]
                   /\ water[side][i][1] < x => water[side][i][1] <= shared.from
        <5>1. water[side][i][1] \in Int
          BY <2>n
        <5>2. side = "top" \/ side = "bottom"
          BY DEF Sides
        <5> DEFINE s == Interval(side, segment[side])
        <5>3. s.from \in Int /\ s.to \in Int /\ s.from <= shared.from /\ shared.to <= s.to
          BY <4>6, <4>7, <5>2
        <5>4. /\ x < water[side][i][1] => s.to <= water[side][i][1]
              /\ water[side][i][1] < x => water[side][i][1] <= s.from
          BY <4>1
        <5> HIDE DEF s, shared, x
        <5> QED
          BY <4>7, <5>1, <5>3, <5>4
      <4> QED
        BY <4>7, <4>8, <4>9
    <3>8. ASSUME Tracked, NEW v \in Int, Passed(v, x, at'[1]),
                 x < v => shared.to <= v, v < x => v <= shared.from
          PROVE  FALSE
      <4>1. /\ step # MinStep
            /\ \/ u = 1 /\ x < v /\ v < x + step
               \/ u = -1 /\ v < x /\ x - step < v
        BY <2>t, <3>1, <3>3, <3>8, PassedStep
      <4>2. /\ u = 1 => v < Trial[1]
            /\ u = -1 => Trial[1] < v
            /\ \A n \in Int : u = 1 /\ n <= v => (n - x) * u < step
            /\ \A n \in Int : u = -1 /\ v <= n => (n - x) * u < step
        <5>1. u \in {-1, 1} /\ step <= BaseStep
          BY <3>2, <4>1
        <5>2. Trial[1] = x + BaseStep * u
          BY <3>4
        <5>3. x \in Int
          BY <2>t
        <5> HIDE DEF x, u
        <5>4. (u = 1 /\ x < v /\ v < x + step) \/ (u = -1 /\ v < x /\ x - step < v)
          BY <4>1
        <5>5. /\ u = 1 => v < x + BaseStep * u
              /\ u = -1 => x + BaseStep * u < v
              /\ \A n \in Int : u = 1 /\ n <= v => (n - x) * u < step
              /\ \A n \in Int : u = -1 /\ v <= n => (n - x) * u < step
          BY ONLY <5>1, <5>3, <5>4, v \in Int, step \in Int, TrialBeyond
        <5> QED
          BY <5>2, <5>5
      <4>3. SegmentStep(StartColumn) =
              IF u # 0 /\ Trial[1] < shared.from THEN (shared.from - x) * u
              ELSE IF u # 0 /\ Trial[1] > shared.to THEN (shared.to - x) * u
              ELSE BaseStep
        BY DEF SegmentStep
      <4>4. shared.from \in Int /\ shared.to \in Int /\ shared.from <= x /\ x <= shared.to /\ x \in Int
        BY <2>t, <3>7, <3>8
      <4> DEFINE f == shared.from
                 t == shared.to
      <4>5. (x < v => t <= v) /\ (v < x => v <= f)
        BY <3>8
      <4>6. f \in Int /\ t \in Int /\ f <= x /\ x <= t /\ x \in Int
        BY <4>4
      <4>7. SegmentStep(StartColumn) =
              IF u # 0 /\ Trial[1] < f THEN (f - x) * u
              ELSE IF u # 0 /\ Trial[1] > t THEN (t - x) * u
              ELSE BaseStep
        BY <4>3
      <4> HIDE DEF f, t, x, u, shared
      <4>8. CASE u = 1
        <5>1. t <= v /\ v < Trial[1] /\ ~(Trial[1] < f) /\ Trial[1] > t
          BY <3>4, <4>1, <4>2, <4>5, <4>6, <4>8
        <5>2. SegmentStep(StartColumn) = (t - x) * u
          BY <4>7, <4>8, <5>1
        <5>3. (t - x) * u < step
          BY <4>2, <4>6, <4>8, <5>1
        <5> QED
          BY <3>2, <4>1, <5>2, <5>3
      <4>9. CASE u = -1
        <5>1. v <= f /\ Trial[1] < v /\ Trial[1] < f
          BY <3>4, <4>1, <4>2, <4>5, <4>6, <4>9
        <5>2. SegmentStep(StartColumn) = (f - x) * u
          BY <4>7, <4>9, <5>1
        <5>3. (f - x) * u < step
          BY <4>2, <4>6, <4>9, <5>1
        <5> QED
          BY <3>2, <4>1, <5>2, <5>3
      <4> QED
        BY <4>1, <4>8, <4>9
    <3>9. ASSUME Tracked
          PROVE  /\ \A i \in DOMAIN water.ranges : ~Passed(water.ranges[i], at[1], at'[1])
                 /\ \A side \in Sides : \A i \in DOMAIN water[side] : ~Passed(water[side][i][1], at[1], at'[1])
      BY <2>n, <3>7, <3>8, <3>9
    <3> QED
      BY <3>6, <3>9
  <2> QED
    BY <2>1, <2>2 DEF Next, Reflect, ReflectFails, Test
<1>2. Spec => [][Respected]_vars
  <2>1. Spec => []Following
    BY FollowingInit, FollowingStep, TypeInvariant, PTL DEF Spec
  <2> QED
    BY <1>1, <2>1, TypeInvariant, PTL DEF Spec
<1> QED
  BY <1>2 DEF KnotsRespected

-----------------------------------------------------------------------------
(* Why rays end.  Until a ray ends, nothing but the limit has been given   *)
(* as the reason, whatever failed or was tested on its way.                *)
Pending == pc # "done" => termination = "StepLimit"

Reasons ==
  pc = "done" =>
    /\ termination = "StepLimit" => count = MaxSteps
    /\ termination = "SourceOutsideBoundaries" => count = 1 /\ \E side \in Sides : Distance(side) <= 0
    /\ termination = "ExitedTraceBox" => ~InBox
    /\ termination = "LostEnergy" => InBox /\ ~loud
    /\ termination = "EscapedBoundary" => InBox /\ loud /\ \E side \in Sides : Distance(side) < 0

LEMMA ReasonsStep == TypeInv /\ Pending /\ Reasons /\ [Next]_vars => Pending' /\ Reasons'
<1> SUFFICES ASSUME TypeInv, Pending, Reasons, [Next]_vars PROVE Pending' /\ Reasons'
  OBVIOUS
<1>1. count' \in Int /\ count' <= MaxSteps /\ count \in Int /\ count <= MaxSteps
  BY TypeStep, Numbers DEF TypeInv, TypeOK
<1>2. ASSUME UNCHANGED <<water, segment, at>>
      PROVE  InBox' = InBox /\ \A side \in Sides : Distance(side)' = Distance(side)
  BY <1>2 DEF InBox, Distance, InsideDistance, Slope, Nodes
<1>3. CASE UNCHANGED vars
  BY <1>2, <1>3 DEF vars, Pending, Reasons
<1>4. CASE Fail
  BY <1>4 DEF Fail, Pending, Reasons
<1>5. CASE Step /\ ~Fail
  <2>1. /\ pc = "step" /\ termination' = termination
        /\ pc' \in {"test", "reflect"} \/ (pc' = "done" /\ ~(count' < MaxSteps))
    <3>1. pc = "step"
      BY <1>5 DEF Step
    <3> QED
      BY <1>5, <3>1, StepFacts
  <2> QED
    BY <1>1, <2>1, Numbers DEF Pending, Reasons
<1>6. CASE Reflect
  BY <1>6 DEF Reflect, Pending, Reasons
<1>7. CASE Test
  <2>1. /\ pc = "test" /\ termination' = Verdict /\ count' = count
        /\ InBox' = InBox /\ loud' = loud /\ \A side \in Sides : Distance(side)' = Distance(side)
    BY <1>2, <1>7 DEF Test
  <2>2. CASE Verdict # "StepLimit"
    <3>1. pc' = "done"
      BY <1>7, <2>2 DEF Test
    <3>2. /\ Verdict = "ExitedTraceBox" => ~InBox
          /\ Verdict = "LostEnergy" => InBox /\ ~loud
          /\ Verdict = "EscapedBoundary" => InBox /\ loud /\ \E side \in Sides : Distance(side) < 0
          /\ Verdict # "SourceOutsideBoundaries"
      BY DEF Verdict, Outside
    <3> QED
      BY <2>1, <2>2, <3>1, <3>2 DEF Pending, Reasons
  <2>3. CASE Verdict = "StepLimit"
    <3>1. pc' = IF count < MaxSteps THEN "step" ELSE "done"
      BY <1>7, <2>3 DEF Test
    <3> QED
      BY <1>1, <2>1, <2>3, <3>1, Numbers DEF Pending, Reasons
  <2> QED
    BY <2>2, <2>3
<1> QED
  BY <1>3, <1>4, <1>5, <1>6, <1>7 DEF Next, ReflectFails

(* The termination a ray reports is why it ended: the state it stopped in  *)
(* shows it, in the order in which the tests are made, and a ray that      *)
(* reports the limit has as many states as the limit allows.               *)
THEOREM TerminationTruthful == Spec => []Truthful
<1>1. Init => Pending /\ Reasons
  <2> SUFFICES ASSUME Init PROVE Pending /\ Reasons
    OBVIOUS
  <2>1. \A side \in Sides : beginning[side] = Distance(side)
    BY DEF Init
  <2>2. pc # "done" => termination = "StepLimit"
    BY DEF Init
  <2>3. pc = "done" => termination = "Error" \/ (termination = "SourceOutsideBoundaries"
                                               /\ \E side \in Sides : beginning[side] <= 0)
    BY DEF Init
  <2>4. count = 1
    BY DEF Init
  <2> QED
    BY <2>1, <2>2, <2>3, <2>4 DEF Pending, Reasons
<1>2. Reasons => Truthful
  BY DEF Reasons, Truthful
<1>3. Spec => []Reasons
  BY <1>1, ReasonsStep, TypeInvariant, PTL DEF Spec
<1> QED
  BY <1>2, <1>3, PTL
=============================================================================
