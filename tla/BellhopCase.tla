---------------------------- MODULE BellhopCase ----------------------------
(****************************************************************************)
(* What makes a definition a case (bellhop/src/case.rs), and the JSON       *)
(* document a case is exported to and imported from (bellhop/src/input/     *)
(* json.rs).  A definition is an environment and seven optional parts; an   *)
(* optional value is a sequence of none or one.                            *)
(*                                                                         *)
(* Every check reports under a name of its own, so a diagnostic stands for  *)
(* its code, message, field and location.                                  *)
(****************************************************************************)
EXTENDS BellhopInput

CONSTANTS
  RecommendedBeams,  \* what validate_coherent_beam_count recommends
  Spacing,           \* last places of a density from one double to the next
                     \* where the doubles are 1000 times as large
  Overflow           \* the first density in kg/m3 that is no finite double

ASSUME DensityAssumption ==
  Spacing \in {512, 1024} /\ Overflow \in Int /\ Overflow <= NaN

Present(option) == option # <<>>
Unless(holds, what) == IF holds THEN {} ELSE {Error(what)}
Noting(holds, what) == IF holds THEN {Warning(what)} ELSE {}

ValidMaterial(m) == Positive(m.speed) /\ Positive(m.density)

ValidateBoundary(b, side) ==
  Unless(AtMost(0, b.roughness), side \o " roughness") \cup
  Unless(\A m \in Range(b.material) : ValidMaterial(m), side \o " half-space") \cup
  Unless(AllFinite(b.grain), side \o " grain size")

ValidateRunConfiguration(e) ==
  Unless((e.run.kind = "R") = (e.run.family = "none"), "run.family") \cup
  Unless((e.run.family \in Cerveny) = Present(e.cerveny), "trace.cerveny presence") \cup
  Unless(e.development = Present(e.selected), "development") \cup
  Unless((e.run.kind = "A") = (e.run.encoding # "none"), "run.encoding")

ValidateVolume(e) ==
  Unless(\A layer \in Range(e.volume) : AtMost(layer[1], layer[2]), "volume")

ValidateCoherentBeamCount(e) ==
  Noting(/\ e.run.kind = "C" /\ Positive(LastOf(e.ranges, 0)) /\ Len(e.angles) > 1
         /\ Len(e.angles) < RecommendedBeams, "beam count")

InColumn(e, depths) ==
  \A d \in Range(depths) : ~Less(d, e.topDepth) /\ ~Less(e.bottomDepth, d)

(* Mutant: only the parser checks that an irregular grid is paired.         *)
ValidatePositionsUnpaired(e) ==
  Unless(Positive(e.frequency), "frequency") \cup
  Unless(Less(e.topDepth, e.bottomDepth), "bottom depth") \cup
  (UNION {Unless(Present(e[v]), v \o " empty") \cup Unless(AllFinite(e[v]), v \o " finite")
            : v \in {"sources", "depths", "ranges", "angles"}}) \cup
  Unless(InColumn(e, e.sources), "source depths") \cup
  Unless(InColumn(e, e.depths), "receiver depths") \cup
  Unless(Increasing(e.ranges), "receiver ranges")

ValidatePositions(e) ==
  Unless(Positive(e.frequency), "frequency") \cup
  Unless(Less(e.topDepth, e.bottomDepth), "bottom depth") \cup
  (UNION {Unless(Present(e[v]), v \o " empty") \cup Unless(AllFinite(e[v]), v \o " finite")
            : v \in {"sources", "depths", "ranges", "angles"}}) \cup
  Unless(InColumn(e, e.sources), "source depths") \cup
  Unless(InColumn(e, e.depths), "receiver depths") \cup
  Unless(Increasing(e.ranges), "receiver ranges") \cup
  Unless(e.run.irregular => Len(e.depths) = Len(e.ranges), "irregular")

ValidateEnvironment(e) ==
  ValidatePositions(e) \cup
  Unless(e.interpolation # "A" => Len(e.points) >= 2, "two points") \cup
  Unless(Increasing(Column(e.points, "depth")), "point depths") \cup
  Unless(\A p \in Range(e.points) : Finite(p.depth) /\ ValidMaterial(p), "points") \cup
  Unless(Range(e.selected) \subseteq DOMAIN e.angles, "selected") \cup
  Unless(AtMost(0, e.trace.step), "trace.step") \cup
  Unless(Positive(e.trace.depth), "trace.depth") \cup
  Unless(Positive(e.trace.range), "trace.range") \cup
  Unless(AllFinite(e.cerveny), "trace.cerveny") \cup
  ValidateRunConfiguration(e) \cup
  ValidateBoundary(e.top, "top") \cup ValidateBoundary(e.bottom, "bottom") \cup
  ValidateVolume(e) \cup ValidateCoherentBeamCount(e)

ValidateRangeDependentSoundSpeed(f, e) ==
  Unless(Len(f.ranges) >= 2 /\ Len(f.depths) >= 2, "matrix size") \cup
  Unless(/\ AllFinite(f.ranges) /\ AllFinite(f.depths)
         /\ Increasing(f.ranges) /\ Increasing(f.depths), "matrix axes") \cup
  Unless(/\ Len(f.speeds) = Len(f.depths)
         /\ \A row \in Range(f.speeds) : Len(row) = Len(f.ranges), "matrix dimensions") \cup
  Unless(\A row \in Range(f.speeds) : \A v \in Range(row) : Positive(v), "matrix speeds") \cup
  Unless(f.depths = Column(e.points, "depth"), "matrix depths")

ValidateBoundaryShape(shape, side, isTop, profileDepth) ==
  Unless(/\ Present(shape.points) /\ Increasing(Column(shape.points, "range"))
         /\ \A p \in Range(shape.points) :
              /\ Finite(p.range) /\ Finite(p.depth)
              /\ IF isTop THEN ~Less(p.depth, profileDepth) ELSE ~Less(profileDepth, p.depth),
         side \o " shape") \cup
  Unless(\A p \in Range(shape.points) : \A speed \in Range(p.material) : Positive(speed),
         side \o " shape material")

ValidateReflectionPresence(d) ==
  LET e == d.environment
      needs(side, condition, table) == (e[side].condition = condition) = Present(table)
  IN  Unless(e.top.condition # "P", "top P") \cup
      Unless(needs("top", "F", d.topReflection), "top table") \cup
      Unless(needs("bottom", "F", d.bottomReflection), "bottom table") \cup
      Unless(needs("bottom", "P", d.internalReflection), "internal table")

ValidateReflectionTable(table, side) ==
  Unless(/\ Len(table.points) >= 2 /\ Increasing(Column(table.points, "angle"))
         /\ \A p \in Range(table.points) : Finite(p.angle) /\ AtMost(0, p.magnitude) /\ Finite(p.phase),
         side \o " reflection")

ValidateInternalReflection(table, e) ==
  Unless(/\ Positive(table.frequency)
         /\ Len(table.points) >= 2 /\ Increasing(Column(table.points, "wavenumber"))
         /\ \A p \in Range(table.points) : AtMost(0, p.wavenumber) /\ Finite(p.f), "internal") \cup
  Noting(Finite(table.frequency) /\ Finite(e.frequency) /\ table.frequency # e.frequency,
         "internal frequency")

(* The amplitude of a level is 10^(level / 20): infinite from some level on. *)
ValidateSourceBeamPattern(pattern) ==
  Unless(/\ Len(pattern.points) >= 2 /\ Increasing(Column(pattern.points, "angle"))
         /\ \A p \in Range(pattern.points) : Finite(p.angle) /\ Less(p.level, LoudLevel), "pattern")

Each(option, Validate(_)) == UNION {Validate(v) : v \in Range(option)}

ValidateDefinition(d) ==
  LET e == d.environment IN
  Unless((e.interpolation = "Q") = Present(d.soundSpeed), "matrix presence") \cup
  Each(d.soundSpeed, LAMBDA f : ValidateRangeDependentSoundSpeed(f, e)) \cup
  Unless(e.altimetry = e.top.shaped, "top markers") \cup
  Unless(e.altimetry = Present(d.altimetry), "altimetry presence") \cup
  Unless(e.bottom.shaped = Present(d.bathymetry), "bathymetry presence") \cup
  Each(d.altimetry, LAMBDA s : ValidateBoundaryShape(s, "top", TRUE, e.topDepth)) \cup
  Each(d.bathymetry, LAMBDA s : ValidateBoundaryShape(s, "bottom", FALSE, e.bottomDepth)) \cup
  ValidateReflectionPresence(d) \cup
  Each(d.topReflection, LAMBDA t : ValidateReflectionTable(t, "top")) \cup
  Each(d.bottomReflection, LAMBDA t : ValidateReflectionTable(t, "bottom")) \cup
  Each(d.internalReflection, LAMBDA t : ValidateInternalReflection(t, e)) \cup
  Unless(e.run.pattern = Present(d.pattern), "pattern presence") \cup
  Each(d.pattern, ValidateSourceBeamPattern)

(* Case::from_definition_with: both checks, after what is already reported. *)
Checked(d, report) == report \o SetToSeq(ValidateEnvironment(d.environment) \cup ValidateDefinition(d))

-----------------------------------------------------------------------------
(* The JSON document: boundaries carry their tables and shapes, densities   *)
(* are in kg/m3, and what a case marks is what the document has.            *)

Malformed == [malformed |-> TRUE]

(* A density counts its last places.  1000 times as much is rounded to a    *)
(* double, or too much for one; a thousandth of that is rounded again.      *)
Nearest(x) == Spacing * ((2 * 1000 * x + Spacing) \div (2 * Spacing))
Thousandfold(x) == IF Nearest(x) < Overflow THEN Nearest(x) ELSE NaN

DocumentPoint(p) == [p EXCEPT !.density = Thousandfold(@)]
CasePoint(p) == [p EXCEPT !.density = (@ + 500) \div 1000]
ForEach(s, Op(_)) == [i \in DOMAIN s |-> Op(s[i])]

ImportBoundary(b) ==
  [boundary |-> [condition |-> b.condition, roughness |-> b.roughness, shaped |-> Present(b.shape),
                 material |-> ForEach(b.material, CasePoint), grain |-> b.grain],
   shape |-> b.shape,
   reflection |-> IF b.condition = "F" THEN b.table ELSE <<>>,
   internal |-> IF b.condition = "P" THEN b.table ELSE <<>>]

IntoCase(doc) ==
  LET top == ImportBoundary(doc.top)
      bottom == ImportBoundary(doc.bottom)
  IN  [environment |->
         [frequency |-> doc.frequency, interpolation |-> doc.interpolation, volume |-> doc.volume,
          altimetry |-> Present(top.shape), development |-> Present(doc.selected),
          top |-> top.boundary, bottom |-> bottom.boundary,
          topDepth |-> doc.topDepth, bottomDepth |-> doc.bottomDepth,
          points |-> ForEach(doc.points, CasePoint),
          sources |-> doc.sources, depths |-> doc.depths, ranges |-> doc.ranges,
          run |-> [doc.run EXCEPT !.pattern = Present(doc.pattern),
                                  !.encoding = IF doc.run.kind = "A" THEN "ascii" ELSE "none"],
          angles |-> doc.angles, selected |-> doc.selected, trace |-> doc.trace,
          cerveny |-> doc.cerveny],
       soundSpeed |-> doc.rangeDependent,
       altimetry |-> top.shape, bathymetry |-> bottom.shape,
       topReflection |-> top.reflection, bottomReflection |-> bottom.reflection,
       internalReflection |-> bottom.internal, pattern |-> doc.pattern]

(* serde_json prints a number that is not finite as null, and reads null    *)
(* as no number: NaN in a document is that null.                           *)
LegibleMedium(m) == Finite(m.depth) /\ Finite(m.speed) /\ Finite(m.density)
LegibleShape(shape) ==
  \A p \in Range(shape.points) :
    Finite(p.range) /\ Finite(p.depth) /\ \A speed \in Range(p.material) : Finite(speed)
LegibleReflection(table) ==
  \A p \in Range(table.points) : Finite(p.angle) /\ Finite(p.magnitude) /\ Finite(p.phase)
LegibleInternal(table) ==
  Finite(table.frequency) /\ \A p \in Range(table.points) : Finite(p.wavenumber) /\ Finite(p.f)
LegibleMatrix(f) ==
  AllFinite(f.ranges) /\ AllFinite(f.depths) /\ \A row \in Range(f.speeds) : \A v \in Range(row) : Finite(v)
LegiblePattern(pattern) == \A p \in Range(pattern.points) : Finite(p.angle) /\ Finite(p.level)

LegibleBoundary(b) ==
  /\ Finite(b.roughness) /\ AllFinite(b.grain)
  /\ \A m \in Range(b.material) : LegibleMedium(m)
  /\ \A shape \in Range(b.shape) : LegibleShape(shape)
  /\ b.condition = "F" => \A table \in Range(b.table) : LegibleReflection(table)
  /\ b.condition = "P" => \A table \in Range(b.table) : LegibleInternal(table)

Legible(doc) ==
  /\ Finite(doc.frequency) /\ Finite(doc.topDepth) /\ Finite(doc.bottomDepth)
  /\ Finite(doc.trace.step) /\ Finite(doc.trace.depth) /\ Finite(doc.trace.range)
  /\ AllFinite(doc.sources) /\ AllFinite(doc.depths) /\ AllFinite(doc.ranges)
  /\ AllFinite(doc.angles) /\ AllFinite(doc.cerveny)
  /\ \A layer \in Range(doc.volume) : Finite(layer[1]) /\ Finite(layer[2])
  /\ \A m \in Range(doc.points) : LegibleMedium(m)
  /\ \A f \in Range(doc.rangeDependent) : LegibleMatrix(f)
  /\ LegibleBoundary(doc.top) /\ LegibleBoundary(doc.bottom)
  /\ \A pattern \in Range(doc.pattern) : LegiblePattern(pattern)

(* What the text of a document is read as, before it is made a case.        *)
Decoded(doc) == IF doc # Malformed /\ Legible(doc) THEN doc ELSE Malformed

(* A schema version of another time is one problem more.                    *)
LoadDocument(doc) ==
  Checked(IntoCase(doc), IF doc.version = 1 THEN <<>> ELSE <<Error("schema")>>)

(* Mutant: the densities stay in g/cm3.                                     *)
ExportBoundaryUnconverted(b, shape, reflection, internal) ==
  [condition |-> b.condition, roughness |-> b.roughness, grain |-> b.grain,
   material |-> b.material, shape |-> shape,
   table |-> CASE b.condition = "F" -> reflection [] b.condition = "P" -> internal [] OTHER -> <<>>]

ExportBoundary(b, shape, reflection, internal) ==
  [condition |-> b.condition, roughness |-> b.roughness, grain |-> b.grain,
   material |-> ForEach(b.material, DocumentPoint), shape |-> shape,
   table |-> CASE b.condition = "F" -> reflection [] b.condition = "P" -> internal [] OTHER -> <<>>]

(* W has no modern form, a table that is missing none at all.              *)
Exportable(d) ==
  /\ d.environment.top.condition \notin {"W", "P"} /\ d.environment.bottom.condition # "W"
  /\ d.environment.top.condition = "F" => Present(d.topReflection)
  /\ d.environment.bottom.condition = "F" => Present(d.bottomReflection)
  /\ d.environment.bottom.condition = "P" => Present(d.internalReflection)

Export(d) ==
  LET e == d.environment IN
  [version |-> 1, frequency |-> e.frequency, interpolation |-> e.interpolation, volume |-> e.volume,
   topDepth |-> e.topDepth, bottomDepth |-> e.bottomDepth, points |-> ForEach(e.points, DocumentPoint),
   rangeDependent |-> d.soundSpeed,
   top |-> ExportBoundary(e.top, d.altimetry, d.topReflection, <<>>),
   bottom |-> ExportBoundary(e.bottom, d.bathymetry, d.bottomReflection, d.internalReflection),
   sources |-> e.sources, depths |-> e.depths, ranges |-> e.ranges,
   run |-> e.run, angles |-> e.angles, selected |-> e.selected, trace |-> e.trace,
   cerveny |-> e.cerveny, pattern |-> d.pattern]
=============================================================================
