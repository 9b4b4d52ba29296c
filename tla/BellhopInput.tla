---------------------------- MODULE BellhopInput ----------------------------
(****************************************************************************)
(* From the files of a legacy BELLHOP case to its definition: the parser of *)
(* the environment (bellhop/src/input/legacy/env.rs), the parsers of its    *)
(* auxiliary files (auxiliary.rs), and the checks every definition must     *)
(* pass whatever it was read from (bellhop/src/case.rs).                    *)
(*                                                                         *)
(* A parser is a chain of reads over a reading: the lines, how many of them *)
(* are used, the slots of the last record, and what has been understood.    *)
(* The first error ends it and is all it reports.  Numbers are integers;    *)
(* records whose fields all play one part keep two or three of them.        *)
(****************************************************************************)
EXTENDS LegacyRecords, FiniteSets, TLC

CONSTANTS
  MaxVector,       \* MAX_LEGACY_VECTOR
  MaxPoints,       \* MAX_SSP_POINTS
  MaxMatrix,       \* MAX_SSP_VALUES
  AutomaticCount,  \* automatic_launch_count
  FullCircle,      \* 360 degrees
  LoudLevel        \* the first source level whose amplitude overflows

ASSUME InputAssumption ==
  /\ {MaxVector, MaxPoints, MaxMatrix, AutomaticCount, FullCircle} \subseteq Nat \ {0}
  /\ NaN \in Int /\ LoudLevel \in Int /\ LoudLevel < NaN

Finite(x) == x # NaN
Less(x, y) == Finite(x) /\ Finite(y) /\ x < y
AtMost(x, y) == Finite(x) /\ Finite(y) /\ x <= y
Positive(x) == Less(0, x)
AllFinite(s) == \A i \in DOMAIN s : Finite(s[i])
Increasing(s) == \A i \in 1 .. Len(s) - 1 : ~AtMost(s[i + 1], s[i])
TotalOrder(x, y) == x < y
Upto(n) == [i \in 1 .. n |-> i]
Column(points, field) == [i \in DOMAIN points |-> points[i][field]]
LastOf(s, otherwise) == IF s = <<>> THEN otherwise ELSE s[Len(s)]
FirstOf(s, otherwise) == IF s = <<>> THEN otherwise ELSE s[1]

(* A diagnostic is of the case, of an auxiliary file or of the export.      *)
ErrorOf(part, what) == [severity |-> "error", of |-> part, what |-> what]
Error(what) == ErrorOf("case", what)
Warning(what) == [severity |-> "warning", of |-> "case", what |-> what]
HasErrors(report) == \E i \in DOMAIN report : report[i].severity = "error"

-----------------------------------------------------------------------------
(* Reading.                                                                *)

Medium == [depth |-> 0, speed |-> 1500, density |-> 1]  \* MediumDefaults

Open(lines) == [lines |-> lines, used |-> 0, ok |-> TRUE, slots |-> <<>>,
                report |-> <<>>, defaults |-> Medium, value |-> <<>>]

Fail(r, what) == [r EXCEPT !.ok = FALSE, !.report = <<Error(what)>>]
Warn(r, warned, what) ==
  IF r.ok /\ warned THEN [r EXCEPT !.report = Append(@, Warning(what))] ELSE r
Check(r, holds, what) == IF r.ok /\ ~holds THEN Fail(r, what) ELSE r
Keep(r, part) ==
  IF r.ok THEN [r EXCEPT !.value = [x \in DOMAIN part \cup DOMAIN r.value |->
                                      IF x \in DOMAIN part THEN part[x] ELSE r.value[x]]]
  ELSE r

Fetch(r, record, valid) ==
  IF valid THEN [r EXCEPT !.used = record.used, !.slots = record.slots] ELSE Fail(r, "record")
FetchAtoms(r, record, n) == Fetch(r, record, RequiredAtoms(record, n))
FetchSlots(r, record) == Fetch(r, record, record.ok)
Slots(r, n) == IF r.ok THEN FetchSlots(r, ReadFields(r.lines, r.used, n)) ELSE r
Atoms(r, n) == IF r.ok THEN FetchAtoms(r, ReadFields(r.lines, r.used, n), n) ELSE r
Numeric(r) == Check(r, \A i \in DOMAIN r.slots : IsNumber(r.slots[i]), "number")
Numbers(r, n) == Numeric(Atoms(r, n))
Num(r, i) == r.slots[i].number
Option(r, i) == Character(r.slots[1], i)

(* A count, and the numbers 1 .. of what is counted, none after a failure.  *)
Between(r, minimum, maximum) == Check(r, Num(r, 1) \in minimum .. maximum, "count")
Count(r, minimum, maximum) == Between(Numbers(r, 1), minimum, maximum)
Counting(r) == IF r.ok THEN Upto(Num(r, 1)) ELSE <<>>

(* MediumDefaults::apply: fields that are left out keep their last values.  *)
Place == [depth |-> 1, speed |-> 2, density |-> 3]
Supplied(r) == {i \in DOMAIN r.slots : Given(r.slots[i])}
Supplement(r) ==
  [f \in DOMAIN r.defaults |-> IF Place[f] \in Supplied(r) THEN Num(r, Place[f]) ELSE r.defaults[f]]
Apply(r) == IF r.ok THEN [r EXCEPT !.defaults = Supplement(r)] ELSE r
ApplyMedium(r, requireDepth) ==
  Apply(Check(Check(r, requireDepth => 1 \in Supplied(r), "depth"),
              \A i \in Supplied(r) : IsNumber(r.slots[i]), "number"))

-----------------------------------------------------------------------------
(* The environment, record by record.                                      *)

KeepFrequency(r) == Keep(r, [frequency |-> Num(r, 1)])
OneMedium(r) == Check(r, Num(r, 1) = 1, "media")
ReadHeading(r) == OneMedium(Numbers(KeepFrequency(Numbers(Atoms(r, 1), 1)), 1))

AddLayer(r) == Keep(r, [volume |-> Append(r.value.volume, <<Num(r, 1), Num(r, 2)>>)])
ReadLayer(r, i) == AddLayer(Numbers(r, 2))
KeepTypical(r) == Keep(r, [volume |-> <<<<Num(r, 1), Num(r, 1)>>>>])
ReadLayers(r) == FoldLeft(ReadLayer, Keep(r, [volume |-> <<>>]), Counting(r))

(* Francois-Garrison and biological losses have records of their own.       *)
ReadVolume(r, option) ==
  CASE option \in {" ", "T"} -> Keep(r, [volume |-> <<>>])
    [] option = "F" -> KeepTypical(Numbers(r, 2))
    [] option = "B" -> ReadLayers(Count(r, 1, MaxVector))
    [] OTHER -> Check(r, FALSE, "option")

Shaped(option) == option \in {"~", "*"}
ShapeOption(option) == Shaped(option) \/ option \in {"-", "_", " "}

(* A half-space and a grain size have records of their own.                 *)
KeepBoundary(r, side, condition, roughness, shaped) ==
  Keep(r, [x \in {side} |->
             [condition |-> condition, roughness |-> roughness, shaped |-> shaped,
              material |-> IF condition = "A" THEN <<r.defaults>> ELSE <<>>,
              grain |-> IF condition = "G" THEN <<Num(r, 1), Num(r, 2)>> ELSE <<>>]])
ReadHalfSpace(r, condition) ==
  CASE condition = "A" -> ApplyMedium(Slots(r, 3), FALSE)
    [] condition = "G" -> Numbers(r, 2)
    [] OTHER -> Check(r, condition \in {"V", "R", "F", "W", "P"}, "option")
ReadBoundary(r, side, condition, roughness, shaped) ==
  KeepBoundary(ReadHalfSpace(r, condition), side, condition, roughness, shaped)

(* The options are of the record `o`, whatever has been read since.         *)
TopMedium(r) ==
  Check(r, Option(r, 1) \in {"N", "C", "P", "S", "Q", "A"} /\
           Option(r, 3) \in {"N", "F", "M", "W", "Q", "L"}, "option")
TopShape(r, o) ==
  Keep(Check(r, ShapeOption(Option(o, 5)) /\ Option(o, 6) \in {"I", " "}, "option"),
       [interpolation |-> Option(o, 1), altimetry |-> Shaped(Option(o, 5)),
        development |-> Option(o, 6) = "I"])
TopBoundary(r, o) == ReadBoundary(r, "top", Option(o, 2), 0, Shaped(Option(o, 5)))
TopOptions(o) ==
  IF o.ok THEN TopBoundary(TopShape(ReadVolume(TopMedium(o), Option(o, 4)), o), o) ELSE o
ReadTopOptions(r) == TopOptions(Atoms(r, 1))

(* Points are read until one lies at the bottom depth of the header.        *)
AddPoint(r) ==
  Keep(Check(r, ~AtMost(r.defaults.depth, LastOf(r.value.points, [depth |-> NaN]).depth), "increasing"),
       [points |-> Append(r.value.points, r.defaults),
        atBottom |-> Finite(r.defaults.depth) /\ r.defaults.depth = r.value.bottomDepth])
TwoPoints(r) == Check(r, r.value.atBottom => Len(r.value.points) >= 2, "points")
ReadPoint(r, i) ==
  IF ~r.ok \/ r.value.atBottom THEN r ELSE TwoPoints(AddPoint(ApplyMedium(Slots(r, 3), TRUE)))

StartProfile(r) ==
  Keep(r, [top |-> [r.value.top EXCEPT !.roughness = Num(r, 2)],
           bottomDepth |-> Num(r, 3), points |-> <<>>, atBottom |-> FALSE])
Analytic(r) == r.value.interpolation = "A"
EndProfile(r) ==
  Keep(Check(r, Analytic(r) \/ r.value.atBottom, "points"),
       [topDepth |-> FirstOf(r.value.points, [depth |-> 0]).depth])
Points(r) == IF r.ok /\ ~Analytic(r) THEN FoldLeft(ReadPoint, r, Upto(MaxPoints)) ELSE r
ReadProfile(r) == EndProfile(Points(StartProfile(Numbers(r, 3))))

BottomOptions(r) ==
  IF ~r.ok \/ ~IsNumber(r.slots[2]) THEN Check(r, FALSE, "option")
  ELSE ReadBoundary(Check(r, ShapeOption(Option(r, 2)), "option"),
                    "bottom", Option(r, 1), Num(r, 2), Shaped(Option(r, 2)))
ReadBottomOptions(r) == BottomOptions(Atoms(r, 2))

(* The values of a record, sorted; a warning if they were not.              *)
Sorted(values) == LET sorted == SortSeq(values, TotalOrder) IN [i \in DOMAIN values |-> sorted[i]]
KeepVector(r, values, name) ==
  Warn(Keep(Check(r, values # <<>>, "vector"), [x \in {name} |-> Sorted(values)]),
       \E i \in 1 .. Len(values) - 1 : ~AtMost(values[i], values[i + 1]), name)
Expanded(r, count) == IF r.ok THEN ExpandVector(r.slots, count) ELSE <<>>
Vector(r, count, name) == KeepVector(r, Expanded(r, count), name)
CountedVector(r, name) == IF r.ok THEN Vector(Slots(r, Num(r, 1)), Num(r, 1), name) ELSE r
ReadVector(r, name) == CountedVector(Count(r, 1, MaxVector), name)

Families == "C" :> "cervenyCartesian" @@ "R" :> "cervenyCentered" @@ "S" :> "simple"
         @@ "b" :> "gaussianCentered" @@ "B" :> "gaussianCartesian" @@ "g" :> "hatCentered"
Cerveny == {"cervenyCartesian", "cervenyCentered"}

Kind(r) == IF Option(r, 1) = "a" THEN "A" ELSE Option(r, 1)
RunOf(r) ==
  [kind |-> Kind(r),
   encoding |-> CASE Option(r, 1) = "A" -> "ascii" [] Option(r, 1) = "a" -> "binary" [] OTHER -> "none",
   family |-> CASE Kind(r) = "R" -> "none"
                [] Kind(r) # "R" /\ Option(r, 2) \in DOMAIN Families -> Families[Option(r, 2)]
                [] OTHER -> "hatCartesian",
   pattern |-> Option(r, 3) = "*", irregular |-> Option(r, 5) = "I", line |-> Option(r, 4) = "X"]

RunKind(r) == Check(r, Kind(r) \in {"R", "E", "C", "S", "I", "A"}, "option")
RunFamily(r) ==
  Warn(r, Kind(r) # "R" /\ Option(r, 2) \notin DOMAIN Families \cup {"G", "^", " "}, "family")
RunGeometry(r) ==
  Warn(Warn(r, Option(r, 4) \notin {"X", "R", " "}, "geometry"), Option(r, 5) \notin {"I", "R", " "}, "grid")
RunPaired(r) == Check(r, Option(r, 5) = "I" => Len(r.value.depths) = Len(r.value.ranges), "paired")
RunPlane(r) ==
  Warn(Check(r, Option(r, 6) # "3", "plane"), Option(r, 6) \notin {"2", " "}, "plane")
KeepRun(r) == Keep(r, [run |-> RunOf(r)])
ReadRunOptions(r) == KeepRun(RunPlane(RunPaired(RunGeometry(RunFamily(RunKind(Atoms(r, 1)))))))

(* The last angle of a full circle is its first again.                     *)
WithoutRepeated(angles) ==
  IF Len(angles) > 1 /\ AllFinite(angles) /\ (angles[Len(angles)] - angles[1]) % FullCircle = 0
    THEN Front(angles) ELSE angles

LaunchCount(r) == IF Num(r, 1) = 0 THEN AutomaticCount ELSE Num(r, 1)
SelectedAngle(r) == IF r.value.development THEN <<Num(r, 2)>> ELSE <<>>

KeepAngles(r, angles, selected) ==
  Keep(Check(Check(r, angles # <<>>, "vector"), Range(selected) \subseteq DOMAIN angles, "selected"),
       [angles |-> angles, selected |-> selected])
Angles(r, count, selected) ==
  KeepAngles(r, WithoutRepeated(Sorted(Expanded(r, count))), selected)
LaunchAngles(r) ==
  IF r.ok THEN Angles(Slots(Check(r, LaunchCount(r) \in 1 .. MaxVector, "count"), LaunchCount(r)),
                      LaunchCount(r), SelectedAngle(r))
          ELSE r
ReadLaunchAngles(r) ==
  IF r.ok THEN LaunchAngles(Numbers(r, IF r.value.development THEN 2 ELSE 1)) ELSE r

(* The limits of a trace, and two records more for Cerveny beams.           *)
KeepLimits(r) ==
  Keep(r, [trace |-> [step |-> Num(r, 1), depth |-> Num(r, 2), range |-> Num(r, 3)], cerveny |-> <<>>])
BeamWidth(r) ==
  Keep(Check(r, /\ Option(r, 1) \in {"F", "M", "W"} /\ Option(r, 2) \in {"D", "S", "Z"}
                /\ IsNumber(r.slots[2]) /\ IsNumber(r.slots[3]), "option"),
       [cerveny |-> <<Num(r, 2), Num(r, 3)>>])
BeamImages(r) ==
  Check(r, /\ Character(r.slots[3], 1) \in {"P", "V", "H", "D"}
           /\ IsNumber(r.slots[1]) /\ IsNumber(r.slots[2]), "option")
ReadCerveny(r) ==
  IF r.ok /\ r.value.run.family \in Cerveny THEN BeamImages(Atoms(BeamWidth(Atoms(r, 3)), 3)) ELSE r
ReadTrace(r) == ReadCerveny(KeepLimits(Numbers(r, 3)))

ReadPositions(r) == ReadVector(ReadVector(ReadVector(r, "sources"), "depths"), "ranges")

ParseEnvironment(lines) ==
  ReadTrace(ReadLaunchAngles(ReadRunOptions(ReadPositions(ReadBottomOptions(
    ReadProfile(ReadTopOptions(ReadHeading(Open(lines)))))))))

-----------------------------------------------------------------------------
(* The auxiliary files.                                                     *)

(* Each file is a count and as many points.                                *)

Row(r) == [i \in DOMAIN r.slots |-> Num(r, i)]
AddSpeeds(r) ==
  Keep(Check(r, \A i \in DOMAIN r.slots : Positive(Num(r, i)), "speeds"),
       [speeds |-> Append(r.value.speeds, Row(r))])
ReadSpeeds(r, i) == AddSpeeds(Numbers(r, Len(r.value.ranges)))
Axes(r, depths) ==
  Keep(Check(r, AllFinite(Row(r)) /\ Increasing(Row(r)), "ranges"),
       [ranges |-> Row(r), depths |-> depths, speeds |-> <<>>])
MatrixSize(r, depths) == Check(r, Num(r, 1) * Len(depths) <= MaxMatrix, "matrix")
Matrix(r, depths) == IF r.ok THEN FoldLeft(ReadSpeeds, r, Upto(Len(depths))) ELSE r
MatrixAxes(r, depths) == IF r.ok THEN Matrix(Axes(Numbers(r, Num(r, 1)), depths), depths) ELSE r
ParseRangeDependentSoundSpeed(lines, depths) ==
  MatrixAxes(MatrixSize(Count(Check(Open(lines), Len(depths) >= 2, "depths"), 2, MaxVector), depths),
             depths)

(* The shape of a boundary, in its long form with a material at each point. *)
Long(r) == r.value.width = 3
ShapePoint(r) ==
  [range |-> Num(r, 1), depth |-> Num(r, 2), material |-> IF Long(r) THEN <<Num(r, 3)>> ELSE <<>>]
Inside(r) ==
  IF r.value.isTop THEN Num(r, 2) >= r.value.limit ELSE Num(r, 2) <= r.value.limit
AddShapePoint(r) ==
  Keep(Check(Check(Check(Check(r,
         Finite(Num(r, 1)) /\ Finite(Num(r, 2)), "finite"),
         ~AtMost(Num(r, 1), LastOf(r.value.points, [range |-> NaN]).range), "ranges"),
         Inside(r), "outside"),
         Long(r) => Positive(Num(r, 3)), "material"),
       [points |-> Append(r.value.points, ShapePoint(r))])
ReadShapePoint(r, i) == AddShapePoint(Numbers(r, r.value.width))
ShapeOptions(r, isTop, limit) ==
  Keep(Check(r, Option(r, 1) \in {"L", "C"} /\ Option(r, 2) \in {" ", "S", "L"}, "option"),
       [points |-> <<>>, curvilinear |-> Option(r, 1) = "C", isTop |-> isTop, limit |-> limit,
        width |-> IF Option(r, 2) = "L" THEN 3 ELSE 2])
ShapePoints(r) == FoldLeft(ReadShapePoint, r, Counting(r))
ParseBoundaryShape(lines, isTop, profileDepth) ==
  ShapePoints(Count(ShapeOptions(Atoms(Open(lines), 1), isTop, profileDepth), 1, MaxVector))

(* All angles, magnitudes and phases are one record.  Degrees become        *)
(* radians, with rounding; a phase is a number here or none.               *)
Phase(x) == IF Finite(x) THEN 0 ELSE NaN
Coefficients(r) ==
  [i \in 1 .. Len(r.slots) \div 3 |->
     [angle |-> Num(r, 3 * i - 2), magnitude |-> Num(r, 3 * i - 1), phase |-> Phase(Num(r, 3 * i))]]
ValidCoefficients(points) ==
  /\ \A p \in Range(points) : Finite(p.angle) /\ Finite(p.phase) /\ AtMost(0, p.magnitude)
  /\ Increasing(Column(points, "angle"))
KeepCoefficients(r) ==
  Keep(Check(r, ValidCoefficients(Coefficients(r)), "reflection"), [points |-> Coefficients(r)])
ReadCoefficients(r) == IF r.ok THEN KeepCoefficients(Numbers(r, 3 * Num(r, 1))) ELSE r
ParseReflectionCoefficients(lines) == ReadCoefficients(Count(Open(lines), 2, MaxVector))

(* A fixed-width table over squared wavenumbers, at one frequency.          *)
FixedAtoms(r) == IF r.ok THEN FetchAtoms(r, ReadFixedWidthFields(r.lines, r.used, 2), 2) ELSE r
AddWavenumber(r) ==
  Keep(Check(r, /\ AtMost(0, Num(r, 1)) /\ Finite(Num(r, 2))
                /\ ~AtMost(Num(r, 1), LastOf(r.value.points, [wavenumber |-> NaN]).wavenumber), "internal"),
       [points |-> Append(r.value.points, [wavenumber |-> Num(r, 1), f |-> Num(r, 2)])])
ReadWavenumber(r, i) == AddWavenumber(Numeric(FixedAtoms(r)))
InternalFrequency(r) ==
  Keep(Check(r, IsNumber(r.slots[2]) /\ Positive(Num(r, 2)), "frequency"),
       [frequency |-> Num(r, 2), points |-> <<>>])
Wavenumbers(r) == FoldLeft(ReadWavenumber, r, Counting(r))
ParseInternalReflection(lines) ==
  Wavenumbers(Count(InternalFrequency(Atoms(Open(lines), 2)), 2, MaxVector))

AddLevel(r) ==
  Keep(Check(r, /\ Finite(Num(r, 1)) /\ Finite(Num(r, 2))
                /\ ~AtMost(Num(r, 1), LastOf(r.value.points, [angle |-> NaN]).angle), "pattern"),
       [points |-> Append(r.value.points, [angle |-> Num(r, 1), level |-> Num(r, 2)])])
ReadLevel(r, i) == AddLevel(Numbers(r, 2))
Levels(r) == FoldLeft(ReadLevel, Keep(r, [points |-> <<>>]), Counting(r))
ParseSourceBeamPattern(lines) == Levels(Count(Open(lines), 2, MaxVector))
=============================================================================
