----------------------------- MODULE KrakenCase -----------------------------
(****************************************************************************)
(* The cases of KRAKEN: the definition of one profile at one frequency and  *)
(* what makes it a case (kraken/src/case.rs, solver/layers.rs, elastic.rs   *)
(* and reflection.rs), the sequence of profiles that makes a field, how an  *)
(* environment becomes definitions (input/legacy), and the document that    *)
(* carries them (input/json.rs).                                           *)
(*                                                                         *)
(* A medium or a half-space is <<depth, speed, speed of shear, density,     *)
(* loss, loss of shear>>, as in KrakenInput.  Whether a definition is a     *)
(* case is all that is modelled of the report of what is wrong with it.  A  *)
(* finite number is an integer: a document has no others, nor has a record, *)
(* and that they are is checked only of ranges, interfaces and samples.     *)
(****************************************************************************)
EXTENDS KrakenInput, FiniteSetsExt

CONSTANTS
  Scale,        \* [units -> Nat]: the loss of a wavelength for one of each unit
  MostLoss,     \* the loss whose speed has equal parts
  MaxMesh,      \* MAX_MESH_POINTS
  MaxModes,     \* MAX_MODE_LIMIT
  MaxSamples,   \* MAX_FIELD_SAMPLES
  MaxValues     \* MAX_SEQUENCE_VALUES, and so MAX_FREQUENCY_INPUT_VALUES

ASSUME KrakenCaseAssumption ==
  /\ Scale \in [{"N", "W", "M", "m", "F", "Q", "L"} -> Nat]
  /\ MostLoss \in Nat /\ {MaxMesh, MaxModes, MaxSamples, MaxValues} \subseteq Nat \ {0}

LossOf(p) == p[5]
ShearLoss(p) == p[6]
Total(s) == FoldLeft(LAMBDA n, x : n + x, 0, s)
TotalOf(s, Of(_)) == Total([i \in DOMAIN s |-> Of(s[i])])
LastOf(s) == s[Len(s)]
Rising(s) == \A i \in 1 .. Len(s) - 1 : s[i] < s[i + 1]
Finite(s) == s \in Seq(Int)

-----------------------------------------------------------------------------
(* The finite media.                                                       *)

FluidTop(d) == IF d.tops = <<>> THEN 0 ELSE LastOf(d.tops).bottom
FluidBottom(d) == LastOf(d.fluids).bottom
TopOf(d, i) == IF i = 1 THEN FluidTop(d) ELSE d.fluids[i - 1].bottom
Munk(d) == d.interpolation = "A"

LossAllowed(loss) == 0 <= loss /\ loss <= MostLoss
MeshAllowed(mesh) == mesh = 0 \/ mesh \in MinimumMesh .. MaxMesh
StiffEnough(p) == 3 * Speed(p) * Speed(p) > 4 * Shear(p) * Shear(p)

ProfileValid(layer, top) ==
  /\ Len(layer.points) \in 2 .. MaxVector
  /\ \A p \in Range(layer.points) : Speed(p) > 0
  /\ Rising([i \in DOMAIN layer.points |-> Depth(layer.points[i])])
  /\ Depth(layer.points[1]) = top /\ Depth(LastOf(layer.points)) = layer.bottom
LossesValid(layer) ==
  layer.losses # <<>> => Len(layer.losses) = Len(layer.points) /\ \A a \in Range(layer.losses) : LossAllowed(a)
MunkAllowed(d) ==
  LET water == d.fluids[1] IN
  /\ water.points = <<>> /\ water.losses = <<>> /\ Len(d.fluids) = 1
  /\ water.bottom = 5000 /\ water.density = 1

ElasticPoints(d) ==
  TotalOf(d.tops \o d.bottoms, LAMBDA l : IF l.profile = <<>> THEN 2 ELSE Len(l.profile))
FluidsAllowed(d) ==
  /\ IF Munk(d) THEN MunkAllowed(d)
                ELSE \A i \in DOMAIN d.fluids : ProfileValid(d.fluids[i], TopOf(d, i)) /\ LossesValid(d.fluids[i])
  /\ \A i \in DOMAIN d.fluids : d.fluids[i].density > 0 /\ MeshAllowed(d.fluids[i].mesh)
  /\ Finite([i \in 1 .. Len(d.fluids) |-> d.fluids[i].bottom]) /\ d.fluids[1].bottom > 0
  /\ \A i \in 2 .. Len(d.fluids) : d.fluids[i].bottom > TopOf(d, i)
  /\ Len(d.fluids) \in 1 .. MaxLayers - Len(d.tops) - Len(d.bottoms)
  /\ TotalOf(d.fluids, LAMBDA l : Len(l.points)) + ElasticPoints(d) <= MaxVector
  /\ TotalOf(d.fluids, LAMBDA l : Len(l.losses)) + 2 * ElasticPoints(d) <= MaxVector

(* The slowest speed of the water; between nodes it is not followed.        *)
MinimumSpeed(d) ==
  IF Munk(d) THEN 1500 ELSE Min({Speed(p) : p \in UNION {Range(l.points) : l \in Range(d.fluids)}})

IsHalfSpace(kind) == kind \in {"fluid", "elastic"}
IsTabulated(kind) == kind \in {"reflection", "impedance"}

(* A half-space has a material that traps modes below a fluid; nothing else *)
(* has one.                                                                *)
HalfSpaceValid(d, kind, p) ==
  IF IsHalfSpace(kind)
    THEN /\ Speed(p) > 0 /\ Density(p) > 0 /\ LossAllowed(LossOf(p))
         /\ d.solver = "kraken" /\ kind = "fluid" => Speed(p) > MinimumSpeed(d) /\ d.high <= Speed(p)
    ELSE Speed(p) = 0 /\ Density(p) = 0 /\ LossOf(p) = 0

SmoothCase(d) == ~Munk(d) /\ ~IsTabulated(d.surface) /\ ~IsTabulated(d.bottom)
ElasticHalfSpaceAllowed(d, p) ==
  /\ Shear(p) > 0 /\ StiffEnough(p) /\ LossAllowed(ShearLoss(p)) /\ SmoothCase(d)

Material(p) == [p EXCEPT ![1] = 0]
(* A solid layer: one material, or samples from its top to its bottom the   *)
(* first of which is that material.                                        *)
MaterialAllowed(p) == Shear(p) > 0 /\ StiffEnough(p) /\ Density(p) > 0
                      /\ LossAllowed(LossOf(p)) /\ LossAllowed(ShearLoss(p))
SolidProfileAllowed(layer, top) ==
  layer.profile # <<>> =>
    /\ Len(layer.profile) \in 2 .. MaxVector /\ Material(layer.profile[1]) = layer.material
    /\ Depth(layer.profile[1]) = top /\ Depth(LastOf(layer.profile)) = layer.bottom
    /\ Rising([i \in DOMAIN layer.profile |-> Depth(layer.profile[i])])
    /\ \A p \in Range(layer.profile) : MaterialAllowed(p)
SolidsAllowed(layers, start, kind) ==
  LET top(i) == IF i = 1 THEN start ELSE layers[i - 1].bottom IN
  /\ layers # <<>> => kind # "fluid"
  /\ \A i \in DOMAIN layers : layers[i].bottom > top(i) /\ MaterialAllowed(layers[i].material)
                              /\ MeshAllowed(layers[i].mesh) /\ SolidProfileAllowed(layers[i], top(i))
HasSolids(d) == d.tops # <<>> \/ d.bottoms # <<>>
ElasticAllowed(d) ==
  /\ d.solver = "kraken" /\ HasSolids(d) => d.surface # "elastic"
  /\ d.surface = "elastic" => ElasticHalfSpaceAllowed(d, d.surfacePoint)
  /\ d.bottom = "elastic" => ElasticHalfSpaceAllowed(d, d.bottomPoint)
  /\ HasSolids(d) => /\ SmoothCase(d) /\ FluidTop(d) < d.fluids[1].bottom
                     /\ SolidsAllowed(d.tops, 0, d.surface)
                     /\ SolidsAllowed(d.bottoms, FluidBottom(d), d.bottom)

(* A table is <<angle or wavenumber, magnitude or power>> in order; one of  *)
(* impedances has neighbours that can be scaled together and is for one     *)
(* frequency.                                                              *)
TableOrdered(table) ==
  /\ Len(table.points) \in 2 .. MaxVector
  /\ Rising([i \in DOMAIN table.points |-> table.points[i][1]]) /\ table.points[1][1] >= 0
TableValid(kind, table, frequency) ==
  CASE kind = "reflection" ->
         TableOrdered(table) /\ \A p \in Range(table.points) : p[1] <= 90 /\ p[2] >= 0
    [] kind = "impedance" ->
         /\ table.frequency = frequency /\ TableOrdered(table)
         /\ \A p \in Range(table.points) : p[2] \in -1000 .. 1000
         /\ \A i, j \in DOMAIN table.points : j - i \in 1 .. 2 => table.points[i][2] - table.points[j][2] \in -100 .. 100
    [] OTHER -> TRUE
SingleLossless(d) ==
  /\ d.solver = "krakenc" /\ d.interpolation \in {"N", "C"} /\ Len(d.fluids) = 1 /\ d.maxRange = 0
  /\ d.reference = <<>> /\ \A a \in Range(d.fluids[1].losses) : a = 0
BottomTableAllowed(d) ==
  IsTabulated(d.bottom) => /\ SingleLossless(d) /\ d.surface = "vacuum"
                           /\ TableValid(d.bottom, d.bottomTable, d.frequency)
SurfaceTableAllowed(d) ==
  /\ d.surface # "impedance"
  /\ d.surface = "reflection" =>
       /\ SingleLossless(d) /\ TableValid(d.surface, d.surfaceTable, d.frequency)
       /\ d.fluids[1].points # <<>> => d.low >= Speed(LastOf(d.fluids[1].points))
-----------------------------------------------------------------------------
(* The grids.                                                              *)

PatternAllowed(pattern) ==
  pattern # <<>> => /\ Len(pattern) \in 2 .. MaxVector /\ \A p \in Range(pattern) : p[2] >= 0
                    /\ Rising([i \in DOMAIN pattern |-> pattern[i][1]])
InWater(d, depths) == \A z \in Range(depths) : FluidTop(d) <= z /\ z <= FluidBottom(d)
Filled(s) == Len(s) \in 1 .. MaxVector

(* A depth of the field is within a wavelength of those that are sampled.   *)
NearSamples(d) ==
  \A z \in Range(d.sources \o d.receivers) :
    LET far == IF Len(d.modeDepths) >= 2 THEN 1500 ELSE 0 IN
    /\ (d.modeDepths[1] - z) * d.frequency <= far
    /\ (z - LastOf(d.modeDepths)) * d.frequency <= far
GridsAllowed(d) ==
  /\ Filled(d.modeDepths) /\ Finite(d.modeDepths) /\ InWater(d, d.modeDepths) /\ Rising(d.modeDepths)
  /\ Filled(d.sources) /\ InWater(d, d.sources) /\ Filled(d.receivers) /\ InWater(d, d.receivers)
  /\ Filled(d.ranges) /\ Finite(d.ranges) /\ Rising(d.ranges) /\ d.ranges[1] >= 0
  /\ Len(d.offsets) = Len(d.receivers)
  /\ d.geometry = "point" => \A x \in Range(d.offsets) : d.ranges[1] + x >= 0
  /\ NearSamples(d)
  /\ Len(d.sources) * Len(d.receivers) * Len(d.ranges) <= MaxSamples
LimitsAllowed(d) ==
  /\ d.frequency > 0 /\ \A f \in Range(d.reference) : f > 0
  /\ 0 <= d.low /\ d.low < d.high /\ d.maxRange >= 0 /\ d.limit \in 1 .. MaxModes

(* Case::from_definition.                                                  *)
CaseAllowed(d) ==
  /\ LimitsAllowed(d) /\ FluidsAllowed(d) /\ PatternAllowed(d.pattern)
  /\ HalfSpaceValid(d, d.surface, d.surfacePoint) /\ HalfSpaceValid(d, d.bottom, d.bottomPoint)
  /\ SurfaceTableAllowed(d) /\ BottomTableAllowed(d) /\ ElasticAllowed(d) /\ GridsAllowed(d)

(* The meshes of the fluids at the first multiplier: an interval for each   *)
(* twentieth of a wavelength, scaled from the reference frequency.  Those   *)
(* of the solids are not modelled.                                         *)
Needed(d, i) ==
  LET points == d.fluids[i].points
      speed == IF points = <<>> THEN 1500 ELSE Speed(LastOf(points))
      reference == IF d.reference = <<>> THEN d.frequency ELSE d.reference[1]
  IN  Max({10, ((d.fluids[i].bottom - TopOf(d, i)) * 20 * reference) \div speed})
BaseMesh(d, i) == IF d.fluids[i].mesh = 0 THEN Needed(d, i) ELSE d.fluids[i].mesh
ScaledMesh(d, i) ==
  IF d.reference = <<>> THEN BaseMesh(d, i) ELSE (BaseMesh(d, i) * d.frequency) \div d.reference[1]
Meshed(d) ==
  /\ \A i \in DOMAIN d.fluids : /\ BaseMesh(d, i) \in Needed(d, i) \div 2 .. MaxMesh
                                /\ ScaledMesh(d, i) \in 10 .. MaxMesh
  /\ Total([i \in DOMAIN d.fluids |-> ScaledMesh(d, i)]) <= MaxMesh

-----------------------------------------------------------------------------
(* A field: profiles in order of range, at one frequency.                   *)

InputValues(d) ==
  TotalOf(d.fluids, LAMBDA l : Len(l.points) + Len(l.losses)) + Len(d.fluids) - 1
  + TotalOf(d.tops \o d.bottoms, LAMBDA l : 7 + 6 * Len(l.profile))
  + Len(d.modeDepths) + Len(d.sources) + Len(d.receivers) + Len(d.ranges) + Len(d.offsets)
  + 2 * Len(d.pattern) + Len(d.surfaceTable.points) + Len(d.bottomTable.points)

Shared(d) == <<d.frequency, d.solver, d.geometry, d.addition, d.pattern, d.limit, d.sources,
               d.receivers, d.ranges, d.offsets>>

(* How many samples lie above an interface; each interface between fluids   *)
(* needs samples of its own on both sides, but for one that it is on.       *)
Above(z, depth) == Cardinality({i \in DOMAIN z : z[i] < depth})

(* Mutant: only that each interface has its samples, not that it has them   *)
(* to itself.                                                              *)
StencilsAlone(d) ==
  LET z == d.modeDepths
      upper(i) == Above(z, d.fluids[i].bottom)
  IN  \A i \in 1 .. Len(d.fluids) - 1 :
        /\ upper(i) \notin {0, Len(z)}
        /\ d.fluids[i].bottom \notin Range(z) => upper(i) \notin {1, Len(z) - 1}

(* Every interface has samples on both sides, and to itself.               *)
StencilsResolved(d) ==
  LET z == d.modeDepths
      upper(i) == Above(z, d.fluids[i].bottom)
      onGrid(i) == d.fluids[i].bottom \in Range(z)
      interfaces == 1 .. Len(d.fluids) - 1
  IN  /\ \A i \in interfaces : /\ upper(i) \notin {0, Len(z)}
                               /\ ~onGrid(i) => upper(i) \notin {1, Len(z) - 1}
      /\ \A i, j \in interfaces : j = i + 1 => /\ upper(i) # upper(j)
                                               /\ ~onGrid(j) => upper(i) + 1 # upper(j)

Coupleable(d) ==
  /\ d.addition # "incoherent" /\ ~HasSolids(d)
  /\ {d.surface, d.bottom} \cap {"elastic", "reflection", "impedance"} = {}
  /\ d.modeDepths[1] = FluidTop(d) /\ LastOf(d.modeDepths) = FluidBottom(d)
  /\ StencilsResolved(d)
FieldCaseAllowed(f) ==
  /\ Len(f.profiles) \in 1 .. MaxVector /\ Len(f.starts) = Len(f.profiles)
  /\ f.starts[1] = 0 /\ Finite(f.starts) /\ Rising(f.starts)
  /\ (Len(f.profiles) = 1) = (f.propagation = "independent")
  /\ \A d \in Range(f.profiles) : Shared(d) = Shared(f.profiles[1])
  /\ f.propagation = "coupled" => \A d \in Range(f.profiles) : Coupleable(d)
  /\ TotalOf(f.profiles, InputValues) + Len(f.starts) <= MaxValues
-----------------------------------------------------------------------------
(* What an environment and a field say of one profile at one frequency.     *)

(* Losses as written become losses of a wavelength, to which the water adds *)
(* its own at a depth; that of marine life is local, and half-spaces, which *)
(* are deeper than any, have none of it.                                   *)
Deepest == -1
VolumeAdds(e, depth) ==
  CASE e.volume \in {"T", "F"} -> TRUE
    [] e.volume = "B" -> \E l \in Range(e.layers) : l[1] <= depth /\ depth <= l[2] /\ l[3] > 0
    [] OTHER -> FALSE
Scaled(unit, raw) ==
  CASE unit # "Q" -> raw * Scale[unit] [] unit = "Q" /\ raw # 0 -> Scale[unit] \div raw [] OTHER -> 0
Convert(e, raw, depth) == Scaled(e.unit, raw) + (IF VolumeAdds(e, depth) THEN 1 ELSE 0)
Canonical(e, p, depth) == [p EXCEPT ![5] = Convert(e, @, depth), ![6] = Convert(e, @, depth)]

(* A fluid without loss has no losses, a uniform solid no profile.          *)
FluidLayer(e, m) ==
  LET losses == [i \in DOMAIN m.points |-> Convert(e, LossOf(m.points[i]), Depth(m.points[i]))] IN
  [bottom |-> m.bottom, mesh |-> m.mesh,
   density |-> IF m.points = <<>> THEN 1 ELSE Density(m.points[1]),
   points |-> [i \in DOMAIN m.points |-> <<Depth(m.points[i]), Speed(m.points[i])>>],
   losses |-> IF Range(losses) \subseteq {0} THEN <<>> ELSE losses]
ElasticLayer(e, m) ==
  LET points == [i \in DOMAIN m.points |-> Canonical(e, m.points[i], Depth(m.points[i]))] IN
  [bottom |-> m.bottom, mesh |-> m.mesh, material |-> Material(points[1]),
   profile |-> IF {Material(p) : p \in Range(points)} = {Material(points[1])} THEN <<>> ELSE points]
HalfSpaceOf(e, kind, p) ==
  CASE kind = "elastic" -> Canonical(e, p, Deepest)
    [] kind = "fluid" -> [p EXCEPT ![5] = Convert(e, @, Deepest)]
    [] OTHER -> p

(* The solids above and below the fluids, which are contiguous.             *)
Wet(e) == {i \in DOMAIN e.media : ~IsElastic(e.media[i].points)}
TopSolids(e) == SubSeq(e.media, 1, Min(Wet(e)) - 1)
WaterOf(e) == SubSeq(e.media, Min(Wet(e)), Max(Wet(e)))
BottomSolids(e) == SubSeq(e.media, Max(Wet(e)) + 1, Len(e.media))
Layers(media, Of(_)) == [i \in DOMAIN media |-> Of(media[i])]

NoTable == [points |-> <<>>]
InOrder(depths) ==
  [i \in 1 .. Cardinality(depths) |-> CHOOSE z \in depths : Cardinality({y \in depths : y < z}) = i - 1]
ModeDepths(e) == InOrder(Range(e.sources) \cup Range(e.receivers))
Definition(e, field, surfaceTable, bottomTable, pattern, solver, frequency) ==
  [solver |-> solver, frequency |-> frequency,
   reference |-> IF e.broadband THEN <<e.frequency>> ELSE <<>>, interpolation |-> e.interpolation,
   surface |-> e.surface, surfacePoint |-> HalfSpaceOf(e, e.surface, e.surfacePoint), surfaceTable |-> surfaceTable,
   bottom |-> e.bottom, bottomPoint |-> HalfSpaceOf(e, e.bottom, e.bottomPoint), bottomTable |-> bottomTable,
   fluids |-> Layers(WaterOf(e), LAMBDA m : FluidLayer(e, m)),
   tops |-> Layers(TopSolids(e), LAMBDA m : ElasticLayer(e, m)),
   bottoms |-> Layers(BottomSolids(e), LAMBDA m : ElasticLayer(e, m)),
   geometry |-> field.geometry, addition |-> field.addition, pattern |-> pattern,
   low |-> e.low, high |-> e.high, maxRange |-> e.maxRange, modeDepths |-> ModeDepths(e), limit |-> field.limit,
   sources |-> field.sources, receivers |-> field.depths, ranges |-> field.ranges, offsets |-> field.offsets]

(* What the materials hold before they are converted for each frequency.    *)
RawValues(e) ==
  LET expanded(m) == e.volume = "B" \/ Cardinality({Material(p) : p \in Range(m.points)}) > 1
      solid(m) == 7 + IF expanded(m) THEN 6 * Len(m.points) ELSE 0
  IN  TotalOf(TopSolids(e) \o BottomSolids(e), solid)
      + TotalOf(WaterOf(e), LAMBDA m : 2 * Len(m.points)) + Cardinality(Wet(e)) - 1
Stored(e, field, surfaceTable, bottomTable, pattern) ==
  RawValues(e) + Len(surfaceTable.points) + Len(bottomTable.points) + 2 * Len(pattern)
  + Len(ModeDepths(e)) + Len(field.sources) + Len(field.depths) + Len(field.ranges) + Len(field.offsets)

-----------------------------------------------------------------------------
(* Documents.                                                              *)

ChargeOf(f) == Len(f.starts) + TotalOf(f.profiles, InputValues)
SequencesAllowed(fields) ==
  /\ Len(fields) \in 1 .. MaxFrequencies
  /\ \A f \in Range(fields) : f.profiles[1].solver = fields[1].profiles[1].solver
  /\ TotalOf(fields, ChargeOf) <= MaxValues
DocumentAllowed(doc) ==
  /\ doc.version = 1 /\ Len(doc.fields) \in 1 .. MaxFrequencies
  /\ \A f \in Range(doc.fields) : (\A d \in Range(f.profiles) : CaseAllowed(d)) /\ FieldCaseAllowed(f)
  /\ SequencesAllowed(doc.fields)
Document(fields) == [version |-> 1, fields |-> fields]
=============================================================================
