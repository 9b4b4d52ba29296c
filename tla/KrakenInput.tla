---------------------------- MODULE KrakenInput ----------------------------
(****************************************************************************)
(* The legacy inputs of KRAKEN (kraken/src/input/legacy/mod.rs): records,   *)
(* the environments of an ENV file, the FIELD file, and the tables and the  *)
(* source pattern that they ask for.  Unlike the records of BELLHOP, a      *)
(* file is split into records before any is read, a record has at least one *)
(* token or a slash, and what it holds too much is an error or is dropped   *)
(* as each reader decides.                                                  *)
(*                                                                         *)
(* A parser is a chain of reads over a reading: the records, how many are   *)
(* used, the tokens of the last one and what has been understood.  The      *)
(* first error ends it and is all it reports, by the name of its field.     *)
(* Numbers are integers, so that single precision rounds none of them.      *)
(****************************************************************************)
EXTENDS LegacyRecords, FiniteSets, TLC

CONSTANTS
  MaxVector,       \* MAX_VECTOR_LENGTH, and so MAX_PROFILE_POINTS
  MaxLayers,       \* MAX_LAYERS
  MaxFrequencies,  \* MAX_FREQUENCIES
  MaxBiological,   \* 200 layers
  LoudLevel,       \* the first source level whose amplitude overflows
  MinimumMesh      \* the fewest intervals of a mesh that is not automatic

ASSUME KrakenInputAssumption ==
  /\ {MaxVector, MaxLayers, MaxFrequencies, MaxBiological, MinimumMesh} \subseteq Nat \ {0}
  /\ NaN \in Int /\ LoudLevel \in Int /\ LoudLevel < NaN

-----------------------------------------------------------------------------
(* Records.                                                                *)

(* A comma after a comma, or before any token, is an error and not a gap;   *)
(* a repeat count is part of a text; a slash hides the rest of the line.    *)
TokenText(lexeme) == IF lexeme.count = 1 THEN lexeme.value ELSE Text(<<"*">>)
Scan(seen, lexeme) ==
  IF seen.stop \/ lexeme.kind = "blank" THEN seen
  ELSE CASE lexeme.kind = "comma" /\ (seen.comma \/ seen.tokens = <<>>) ->
              [seen EXCEPT !.stop = TRUE, !.ok = FALSE]
         [] lexeme.kind = "comma" /\ ~(seen.comma \/ seen.tokens = <<>>) -> [seen EXCEPT !.comma = TRUE]
         [] lexeme.kind = "comment" -> [seen EXCEPT !.stop = TRUE]
         [] lexeme.kind = "slash" -> [seen EXCEPT !.stop = TRUE, !.slash = TRUE]
         [] lexeme.kind = "quote" -> [seen EXCEPT !.stop = TRUE, !.ok = FALSE]
         [] OTHER -> [seen EXCEPT !.comma = FALSE, !.tokens = Append(@, TokenText(lexeme))]

Unseen == [tokens |-> <<>>, slash |-> FALSE, comma |-> FALSE, stop |-> FALSE, ok |-> TRUE]
Tokenize(line) == FoldLeft(Scan, Unseen, line.lexemes)

(* A file with a line that cannot be split has no records at all.           *)
IsRecord(scanned) == scanned.tokens # <<>> \/ scanned.slash
Begin(scanned, value) ==
  [records |-> SelectSeq(scanned, IsRecord), used |-> 0, tokens |-> <<>>, slash |-> FALSE,
   ok |-> \A i \in DOMAIN scanned : scanned[i].ok, what |-> "input", value |-> value]
NewReader(lines) == Begin([i \in DOMAIN lines |-> Tokenize(lines[i])], <<>>)

Fail(r, what) == [r EXCEPT !.ok = FALSE, !.what = what]
Then(r, Go(_)) == IF r.ok THEN Go(r) ELSE r
Ensure(r, Holds(_), what) == IF r.ok /\ ~Holds(r) THEN Fail(r, what) ELSE r
With(parts, old) ==
  [x \in DOMAIN parts \cup DOMAIN old |-> IF x \in DOMAIN parts THEN parts[x] ELSE old[x]]
Named(name, value) == [x \in {name} |-> value]
Keep(r, parts) == IF r.ok THEN [r EXCEPT !.value = With(parts, r.value)] ELSE r

Advance(r) == [r EXCEPT !.used = @ + 1, !.tokens = r.records[r.used + 1].tokens,
                        !.slash = r.records[r.used + 1].slash]
More(r) == r.used < Len(r.records)
NextRecord(r, field) == Then(r, LAMBDA s : IF More(s) THEN Advance(s) ELSE Fail(s, field))
Finish(r) == Ensure(r, LAMBDA s : ~More(s), "input")

Numeric(slot) == IsNumber(slot) /\ slot.number # NaN
Num(r, i) == r.tokens[i].number
TextRecord(r, field) == Ensure(NextRecord(r, field), LAMBDA s : s.tokens # <<>>, field)

AllNumeric(r, field) == Ensure(r, LAMBDA s : \A i \in DOMAIN s.tokens : Numeric(s.tokens[i]), field)
Between(r, least, most, field) == Ensure(r, LAMBDA s : Num(s, 1) \in least .. most, field)
Exactly(r, n, field) == AllNumeric(Ensure(r, LAMBDA s : Len(s.tokens) = n, field), field)

Scalar(r, field) == Ensure(TextRecord(r, field), LAMBDA s : Numeric(s.tokens[1]), field)
Count(r, most, field) == Between(Scalar(r, field), 1, IF most < MaxVector THEN most ELSE MaxVector, field)
ExactNumbers(r, n, field) == Exactly(NextRecord(r, field), n, field)
Counting(r) == IF r.ok THEN [i \in 1 .. Num(r, 1) |-> i] ELSE <<>>

(* A vector takes the tokens it needs from records until it is full or a    *)
(* slash ends it; all are numbers, and there is one on every record.        *)
Least(i, j) == IF i < j THEN i ELSE j
Gather(r, taken, field) ==
  IF (r.slash \/ taken # <<>>) /\ \A i \in DOMAIN taken : Numeric(taken[i])
    THEN Keep(r, [vector |-> r.value.vector \o taken, closed |-> r.slash]) ELSE Fail(r, field)
GatherNext(r, count, field) ==
  Gather(r, SubSeq(r.tokens, 1, Least(Len(r.tokens), count - Len(r.value.vector))), field)
GatherMore(r, count, field) ==
  IF ~r.ok \/ r.value.closed \/ Len(r.value.vector) = count THEN r
  ELSE IF More(r) THEN GatherNext(Advance(r), count, field) ELSE Fail(r, field)
Vector(r, count, field) ==
  FoldLeft(LAMBDA s, i : GatherMore(s, count, field),
           Keep(r, [vector |-> <<>>, closed |-> FALSE]), [i \in 1 .. count |-> i])

(* One or two ends of an equidistant vector of at least three.              *)
Expandable(n, count) == n = count \/ (n \in {1, 2} /\ count >= 3)
Spread(s, count) ==
  [i \in 1 .. count |->
     IF Len(s) = count THEN s[i].number
     ELSE s[1].number + ((i - 1) * (s[Len(s)].number - s[1].number)) \div (count - 1)]
VectorValues(r, count, name, field) ==
  Then(Ensure(Vector(r, count, field), LAMBDA s : Expandable(Len(s.value.vector), count), field),
       LAMBDA s : Keep(s, Named(name, Spread(s.value.vector, count))))

(* Every vector but that of the frequencies is sorted.                      *)
Ascending(x, y) == x < y
Arranged(v) == LET sorted == SortSeq(v, Ascending) IN [i \in DOMAIN v |-> sorted[i]]
Sorted(r, name) == Then(r, LAMBDA s : Keep(s, Named(name, Arranged(s.value[name]))))
ReadVector(r, name, field) ==
  Then(Count(r, MaxVector, field), LAMBDA s : Sorted(VectorValues(s, Num(s, 1), name, field), name))
-----------------------------------------------------------------------------
(* The environment of one profile.  A point of a medium is its depth, its   *)
(* speeds of compression and shear, its density and its two losses.         *)

Depth(p) == p[1]
Speed(p) == p[2]
Shear(p) == p[3]
Density(p) == p[4]
Losses(p) == <<p[5], p[6]>>
Water(depth) == <<depth, 1500, 0, 1, 0, 0>>

InterpolationOf(o) == Character(o, 1)
SurfaceOf(o) == Character(o, 2)
UnitOf(o) == Character(o, 3)
VolumeOf(o) == Character(o, 4)
RestartOf(o) == Character(o, 5)
Broadband(o) == Character(o, 6) = "B"
Analytic(o) == InterpolationOf(o) = "A"

OptionsAllowed(o, solver) ==
  /\ InterpolationOf(o) \in {"N", "C", "P", "S", "A"}
  /\ SurfaceOf(o) \in {"V", "R", "A", "F"}
  /\ SurfaceOf(o) = "F" => (solver = "krakenc" /\ RestartOf(o) = " ")
  /\ UnitOf(o) \in {"N", "W", "M", "m", "F", "Q", "L"}
  /\ VolumeOf(o) \in {" ", "T", "F", "B"}
  /\ RestartOf(o) \in IF solver = "krakenc" THEN {" ", "."} ELSE {" "}
  /\ Character(o, 6) \in {" ", "B"}
  /\ \A i \in 7 .. Len(Characters(o)) : Character(o, i) = " "

Single(o, media) == media > 1 => (~Analytic(o) /\ SurfaceOf(o) # "F")
KeepTop(r, media) == Keep(r, [options |-> r.tokens[1], count |-> media])
ReadTop(r, solver, media) ==
  Then(Ensure(TextRecord(r, "top_options"),
              LAMBDA s : OptionsAllowed(s.tokens[1], solver) /\ Single(s.tokens[1], media), "top_options"),
       LAMBDA s : KeepTop(s, media))
KeepFrequency(r) == Keep(r, [frequency |-> Num(r, 1)])
ReadTitle(r, solver) ==
  Then(Count(Then(Scalar(TextRecord(r, "title"), "frequency_hz"), KeepFrequency), MaxLayers, "medium_count"),
       LAMBDA s : ReadTop(s, solver, Num(s, 1)))

(* The losses of the water itself: a record of its own, or several.         *)
KeepLayer(r) == Keep(r, [volume |-> Append(r.value.volume, <<Num(r, 1), Num(r, 2), Num(r, 5)>>)])
ReadBiological(r, i) ==
  Then(Ensure(ExactNumbers(r, 5, "bio_layers"),
              LAMBDA s : /\ 0 <= Num(s, 1) /\ Num(s, 1) <= Num(s, 2)
                         /\ Num(s, 3) > 0 /\ Num(s, 4) > 0 /\ Num(s, 5) >= 0, "bio_layers"),
       KeepLayer)
ReadFrancois(r) ==
  Ensure(ExactNumbers(r, 4, "volume_attenuation"),
         LAMBDA s : Num(s, 1) > -273 /\ Num(s, 2) >= 0 /\ Num(s, 3) \in 0 .. 14 /\ Num(s, 4) >= 0,
         "volume_attenuation")
ReadLayers(r) == FoldLeft(ReadBiological, Keep(r, [volume |-> <<>>]), Counting(r))
ReadVolume(r) ==
  CASE VolumeOf(r.value.options) = "F" -> ReadFrancois(Keep(r, [volume |-> <<>>]))
    [] VolumeOf(r.value.options) = "B" -> ReadLayers(Count(r, MaxBiological, "bio_layers.count"))
    [] OTHER -> Keep(r, [volume |-> <<>>])
Lossless(o) == Analytic(o) => VolumeOf(o) = " "
ReadWaterLoss(r) == Ensure(Then(r, ReadVolume), LAMBDA s : Lossless(s.value.options), "top_options")

(* Values that are left out before a slash keep those of the point before.  *)
Inherit(defaults, tokens) ==
  [i \in 1 .. 6 |-> IF i <= Len(tokens) THEN tokens[i].number ELSE defaults[i]]
Partial(r, least) == Len(r.tokens) \in least .. 6 /\ (Len(r.tokens) = 6 \/ r.slash)
ReadPoint(r, least, defaults, field) ==
  Then(AllNumeric(Ensure(NextRecord(r, field), LAMBDA s : Partial(s, least), field), field),
       LAMBDA s : Keep(s, [point |-> Inherit(defaults, s.tokens)]))

HalfSpaceAllowed(p, depth) ==
  /\ Depth(p) = depth /\ Speed(p) > 0 /\ Shear(p) >= 0 /\ Density(p) > 0
  /\ p[5] >= 0 /\ p[6] >= 0 /\ (Shear(p) = 0 => p[6] = 0)
ReadHalfSpace(r, field, depth, defaults, least) ==
  Ensure(ReadPoint(r, least, defaults, field), LAMBDA s : HalfSpaceAllowed(s.value.point, depth), field)

NoMaterial == <<0, 0, 0, 0, 0, 0>>
KeepSurface(r, p) == Keep(r, [surface |-> p])
ReadSurfacePoint(r) ==
  Then(ReadHalfSpace(Ensure(r, LAMBDA s : UnitOf(s.value.options) # "m", "top_options"),
                     "surface_half_space", 0, Water(0), 1),
       LAMBDA s : KeepSurface(s, s.value.point))
ReadSurface(r) ==
  Then(r, LAMBDA s : IF SurfaceOf(s.value.options) = "A" THEN ReadSurfacePoint(s) ELSE KeepSurface(s, NoMaterial))

(* A power law has two more numbers on the record it is for.                *)
PowerAllowed(r, start) ==
  /\ Numeric(r.tokens[start]) /\ Numeric(r.tokens[start + 1])
  /\ Num(r, start) >= 0 /\ Num(r, start + 1) > 0
ReadPowerLaw(r, start) ==
  Ensure(r, LAMBDA s : UnitOf(s.value.options) = "m" => PowerAllowed(s, start), "attenuation_power_law")

(* Whether a point may follow those of its medium: its depth, and that the  *)
(* medium is either a fluid of one density or a solid throughout.           *)
DepthAllowed(p, points, top, bottom) ==
  /\ top <= Depth(p) /\ Depth(p) <= bottom
  /\ points = <<>> => Depth(p) = top
  /\ points # <<>> => Depth(p) > Depth(points[Len(points)])
KindAllowed(p, points) ==
  /\ Shear(p) >= 0 /\ p[5] >= 0 /\ p[6] >= 0 /\ (Shear(p) = 0 => p[6] = 0)
  /\ points # <<>> => IF Shear(points[1]) = 0 THEN Density(p) = Density(points[1]) /\ Shear(p) = 0
                                              ELSE Shear(p) > 0
KeepPoint(r) ==
  Keep(r, [points |-> Append(r.value.points, r.value.point), inherited |-> r.value.point,
           whole |-> Depth(r.value.point) = r.value.bottom])
PointAllowed(r) ==
  /\ DepthAllowed(r.value.point, r.value.points, r.value.top, r.value.bottom)
  /\ KindAllowed(r.value.point, r.value.points)
ReadNextPoint(r, i) ==
  IF ~r.ok \/ r.value.whole THEN r
  ELSE Then(Ensure(ReadPoint(r, 1, r.value.inherited, "sound_speed_profile"), PointAllowed, "sound_speed_profile"),
            KeepPoint)

(* A header and, but for the analytic profile, points down to its depth.    *)
HeaderLength(r) == IF UnitOf(r.value.options) = "m" THEN 5 ELSE 3
HeaderAllowed(r) ==
  /\ Len(r.tokens) = HeaderLength(r) /\ \A i \in 1 .. 3 : Numeric(r.tokens[i])
  /\ Num(r, 1) >= 0 /\ Num(r, 2) = 0 /\ Num(r, 3) > r.value.top
KeepHeader(r) ==
  Keep(r, [mesh |-> Num(r, 1), bottom |-> Num(r, 3), points |-> <<>>, whole |-> Analytic(r.value.options)])
ReadHeader(r, field) ==
  ReadPowerLaw(Then(Ensure(NextRecord(r, field), HeaderAllowed, field), KeepHeader), 4)
Whole(r) == r.value.whole /\ (Analytic(r.value.options) \/ Len(r.value.points) >= 2)
ReadProfile(r) ==
  Ensure(FoldLeft(ReadNextPoint, r, [i \in 1 .. MaxVector |-> i]), Whole, "sound_speed_profile")

(* No fluid lies below a solid that lies below a fluid.                     *)
IsElastic(points) == points # <<>> /\ Shear(points[1]) > 0
Contiguous(media, points) ==
  ~IsElastic(points) =>
    \A i, j \in DOMAIN media : (i < j /\ IsElastic(media[j].points)) => IsElastic(media[i].points)
PointsOf(media) == FoldLeft(LAMBDA n, m : n + Len(m.points), 0, media)
KeepMedium(r) ==
  Keep(r, [media |-> Append(r.value.media, [bottom |-> r.value.bottom, mesh |-> r.value.mesh,
                                            points |-> r.value.points]),
           top |-> r.value.bottom])
FewEnough(r) == PointsOf(r.value.media) + Len(r.value.points) <= MaxVector
ReadMedium(r, i) ==
  Then(Ensure(Ensure(Then(ReadHeader(r, "water_header"), ReadProfile), FewEnough, "medium_count"),
              LAMBDA s : Contiguous(s.value.media, s.value.points), "sound_speed_profile"),
       KeepMedium)

HasFluid(media) == \E i \in DOMAIN media : ~IsElastic(media[i].points)
FirstPoint(v) == IF SurfaceOf(v.options) = "A" THEN v.surface ELSE Water(0)
BeginMedia(r) == Keep(r, [media |-> <<>>, top |-> 0, inherited |-> FirstPoint(r.value)])
ReadMedia(r) ==
  Then(r, LAMBDA s : Ensure(FoldLeft(ReadMedium, BeginMedia(s), [i \in 1 .. s.value.count |-> i]),
                            LAMBDA t : HasFluid(t.value.media), "medium_count"))

(* A tabulated bottom is KRAKENC's, under one medium and with no restarts.  *)
BottomOf(slot) == IF ~IsNumber(slot) /\ Len(slot.text) = 1 THEN slot.text[1] ELSE " "
BottomLength(r) == IF UnitOf(r.value.options) = "m" THEN 4 ELSE 2
BottomAllowed(r, b, solver) ==
  /\ Len(r.tokens) = BottomLength(r)
  /\ b \in IF solver = "kraken" THEN {"V", "A", "R"} ELSE {"V", "A", "R", "F", "P"}
  /\ r.tokens[2] = Number(0)
  /\ b \in {"F", "P"} => (r.value.count = 1 /\ RestartOf(r.value.options) # ".")
BottomDefault(v) == IF Analytic(v.options) THEN Water(v.top) ELSE v.inherited
KeepBottomPoint(r, p) == Keep(r, [bottomPoint |-> p])
ReadBottomPoint(r) ==
  Then(ReadHalfSpace(r, "bottom_half_space", r.value.top, BottomDefault(r.value),
                     IF Analytic(r.value.options) THEN 4 ELSE 1),
       LAMBDA s : KeepBottomPoint(s, s.value.point))
KeepBoundary(r) == Keep(r, [boundary |-> BottomOf(r.tokens[1])])
ReadBottom(r, solver) ==
  Then(ReadPowerLaw(Then(Ensure(NextRecord(r, "bottom_options"),
                                LAMBDA s : BottomAllowed(s, BottomOf(s.tokens[1]), solver), "bottom_options"),
                         KeepBoundary), 3),
       LAMBDA s : IF s.value.boundary = "A" THEN ReadBottomPoint(s) ELSE KeepBottomPoint(s, NoMaterial))

KeepLimits(r) == Keep(r, [low |-> Num(r, 1), high |-> Num(r, 2)])
KeepRange(r) == Keep(r, [maxRange |-> 1000 * Num(r, 1)])
ReadLimits(r) ==
  Then(Scalar(Then(ExactNumbers(r, 2, "phase_speed_limits"), KeepLimits), "max_range_km"), KeepRange)

(* The frequencies keep their order and their repetitions.                  *)
ReadBand(r) ==
  Ensure(Then(Count(r, MaxFrequencies, "frequencies_hz"),
              LAMBDA s : VectorValues(s, Num(s, 1), "frequencies", "frequencies_hz")),
         LAMBDA s : \A i \in DOMAIN s.value.frequencies : s.value.frequencies[i] > 0, "frequencies_hz")
ReadFrequencies(r) ==
  Then(r, LAMBDA s : IF Broadband(s.value.options) THEN ReadBand(s) ELSE Keep(s, [frequencies |-> <<s.value.frequency>>]))

(* A half-space with a speed of shear is elastic.                          *)
HalfSpaceKind(p) == IF Shear(p) > 0 THEN "elastic" ELSE "fluid"
BoundaryKind(code, p) ==
  CASE code = "V" -> "vacuum" [] code = "R" -> "rigid" [] code = "F" -> "reflection"
    [] code = "P" -> "impedance" [] OTHER -> HalfSpaceKind(p)
Environment(v) ==
  [frequency |-> v.frequency, frequencies |-> v.frequencies, broadband |-> Broadband(v.options),
   interpolation |-> InterpolationOf(v.options), unit |-> UnitOf(v.options),
   volume |-> VolumeOf(v.options), layers |-> v.volume,
   surface |-> BoundaryKind(SurfaceOf(v.options), v.surface), surfacePoint |-> v.surface,
   bottom |-> BoundaryKind(v.boundary, v.bottomPoint), bottomPoint |-> v.bottomPoint,
   media |-> v.media, low |-> v.low, high |-> v.high, maxRange |-> v.maxRange,
   sources |-> v.sources, receivers |-> v.receivers]

ReadEnvironment(r, solver) ==
  ReadFrequencies(ReadVector(ReadVector(ReadLimits(ReadBottom(ReadMedia(ReadSurface(ReadWaterLoss(
    ReadTitle([r EXCEPT !.value = <<>>], solver)))), solver)),
    "sources", "mode_source_depths_m"), "receivers", "mode_receiver_depths_m"))

-----------------------------------------------------------------------------
(* The FIELD file.                                                         *)

FieldAllowed(o) ==
  /\ Character(o, 1) \in {"X", "R", "S"} /\ Character(o, 2) \in {" ", "A", "C"}
  /\ Character(o, 3) \in {" ", "O", "*"} /\ Character(o, 4) \in {" ", "C", "I"}
  /\ \A i \in 5 .. Len(Characters(o)) : Character(o, i) = " "
Propagation(o, n) ==
  CASE n = 1 -> "independent" [] n > 1 /\ Character(o, 2) = "C" -> "coupled" [] OTHER -> "adiabatic"
StrictlyIncreasing(s) == \A i \in 1 .. Len(s) - 1 : s[i] < s[i + 1]
ProfilesAllowed(o, ranges) ==
  /\ ranges[1] = 0 /\ StrictlyIncreasing(ranges)
  /\ Len(ranges) > 1 => Character(o, 2) \in {"A", "C"}
  /\ ~(Len(ranges) > 1 /\ Character(o, 2) = "C" /\ Character(o, 4) = "I")

KeepOptions(r) == Keep(r, [options |-> r.tokens[1]])
ReadFieldOptions(r) ==
  Then(Count(Then(Ensure(TextRecord(NextRecord(r, "field_title"), "field_options"),
                         LAMBDA s : FieldAllowed(s.tokens[1]), "field_options"), KeepOptions),
             MaxVector, "mode_limit"),
       LAMBDA s : Keep(s, [limit |-> Num(s, 1)]))
ReadProfileRanges(r) ==
  Ensure(ReadVector(r, "profiles", "profile_ranges_km"),
         LAMBDA s : ProfilesAllowed(s.value.options, s.value.profiles), "profile_ranges_km")
Kilo(s) == [i \in DOMAIN s |-> 1000 * s[i]]
FieldOf(v) ==
  [profiles |-> Kilo(v.profiles), propagation |-> Propagation(v.options, Len(v.profiles)),
   limit |-> v.limit,
   geometry |-> CASE Character(v.options, 1) = "X" -> "line" [] Character(v.options, 1) = "R" -> "point"
                  [] OTHER -> "scaled",
   addition |-> IF Character(v.options, 4) = "I" THEN "incoherent" ELSE "coherent",
   asked |-> Character(v.options, 3) = "*", sources |-> v.sources, depths |-> v.depths,
   ranges |-> Kilo(v.ranges), offsets |-> v.offsets]
ParseField(lines) ==
  Finish(ReadVector(ReadVector(ReadVector(ReadVector(ReadProfileRanges(ReadFieldOptions(NewReader(lines))),
    "ranges", "receiver_ranges_km"), "sources", "field_source_depths_m"),
    "depths", "field_receiver_depths_m"), "offsets", "receiver_offsets_m"))

-----------------------------------------------------------------------------
(* Tables.  A point of a reflection table keeps its angle and magnitude, of *)
(* an impedance table its wavenumber and its power of ten.                  *)

KeepRow(r, kept) == Keep(r, [points |-> Append(r.value.points, <<Num(r, 1), Num(r, kept)>>)])
TableRows(r, n, kept, field) ==
  Finish(FoldLeft(LAMBDA s, i : Then(ExactNumbers(s, n, field), LAMBDA t : KeepRow(t, kept)),
                  Keep(r, [points |-> <<>>]), Counting(r)))
ParseReflectionTable(lines) ==
  TableRows(Count(NewReader(lines), MaxVector, "boundary.count"), 3, 2, "boundary")

(* The title and frequency are a record; the count is a line of its own and *)
(* every row is a line of fixed columns.                                   *)
WideRow(line) == line.wide /\ Len(line.lexemes) = 2 /\ \A i \in 1 .. 2 : Numeric(line.lexemes[i].value)
ImpedanceHeader(line) ==
  Ensure(NextRecord(NewReader(<<line>>), "frequency_hz"),
         LAMBDA s : Len(s.tokens) = 2 /\ ~IsNumber(s.tokens[1]) /\ Numeric(s.tokens[2]), "boundary")
ImpedanceCount(line) ==
  IF Len(line.lexemes) = 1 /\ line.lexemes[1].kind = "atom" /\ IsNumber(line.lexemes[1].value)
    THEN line.lexemes[1].value.number ELSE 0
LineAt(lines, i) == IF i <= Len(lines) THEN lines[i] ELSE Line(<<>>)
ImpedanceRows(lines, n) ==
  /\ n \in 2 .. MaxVector
  /\ \A i \in 3 .. n + 2 : WideRow(LineAt(lines, i))
  /\ \A i \in n + 3 .. Len(lines) : lines[i].lexemes = <<>>
ImpedancePoints(lines, n) == [i \in 1 .. n |-> [k \in 1 .. 2 |-> lines[i + 2].lexemes[k].value.number]]
ParseImpedanceTable(lines) ==
  LET n == ImpedanceCount(LineAt(lines, 2)) IN
  Then(Ensure(ImpedanceHeader(LineAt(lines, 1)), LAMBDA s : ImpedanceRows(lines, n), "boundary"),
       LAMBDA s : Keep(s, [frequency |-> Num(s, 2), points |-> ImpedancePoints(lines, n)]))

PatternIncreasing(points) ==
  /\ StrictlyIncreasing([i \in DOMAIN points |-> points[i][1]])
  /\ \A i \in DOMAIN points : points[i][2] < LoudLevel
ParseSourcePattern(lines) ==
  Ensure(TableRows(Ensure(Count(NewReader(lines), MaxVector, "source_pattern.count"),
                          LAMBDA s : Num(s, 1) >= 2, "source_pattern.count"), 2, 2, "source_pattern"),
         LAMBDA s : PatternIncreasing(s.value.points), "source_pattern")
=============================================================================
