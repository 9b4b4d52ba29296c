----------------------------- MODULE KrakenField -----------------------------
(****************************************************************************)
(* The fields of KRAKEN (kraken/src/solver/field.rs, and the synthesis of   *)
(* solver/mod.rs): frequencies are solved in order, the profiles of each in *)
(* order, and then its pressures are made by a march of every source across *)
(* the receivers' ranges.  How many modes a profile has is an oracle        *)
(* (KrakenModes tells how they are found); a mode of the march is only its  *)
(* number, and its phase is the pieces of range that it was advanced by,    *)
(* each with the profile that it was advanced in.  Ranges are doubled, so   *)
(* that the middle of two is an integer.                                   *)
(****************************************************************************)
EXTENDS KrakenCase

CONSTANTS
  MostModes,   \* modes a profile may have
  MaxWork      \* MAX_FIELD_WORK

ASSUME KrakenFieldAssumption == MostModes \in Nat \ {0} /\ MaxWork \in Nat

VARIABLES
  fields,     \* the fields to solve, one for each frequency
  frequency,  \* how many have been begun
  phase,      \* "idle", "modes", "march", "solved" or "failed"
  limit,      \* root_limit: the bound of the search in solids
  counts,     \* the modes of each profile that is solved
  source, receiver, segment,
  previous,   \* where the march is
  live,       \* how many modes it carries
  pieces,     \* history: what each of them was advanced by
  pressure    \* what each sample is made of: source, depth and range

march == <<source, receiver, segment, previous, live, pieces>>
fieldVars == <<fields, frequency, phase, limit, counts, march, pressure>>

Field == fields[frequency]
Profiles == Field.profiles
Profile == Profiles[1]
Coupled == Field.propagation = "coupled"
Samples(d) == Len(d.sources) * Len(d.receivers) * Len(d.ranges)
Largest == Max(Range(counts))

FieldInit ==
  /\ fields = <<>> /\ frequency = 0 /\ phase = "idle" /\ limit = MaxModes
  /\ counts = <<>> /\ pressure = <<>>
  /\ source = 0 /\ receiver = 0 /\ segment = 0 /\ previous = 0 /\ live = 0 /\ pieces = <<>>

-----------------------------------------------------------------------------
(* Frequencies and modes.                                                  *)

(* The next frequency keeps the limit of the last; another solver fails.    *)
NextFrequency ==
  /\ phase \in {"idle", "solved"} /\ frequency + 1 \in DOMAIN fields
  /\ frequency' = frequency + 1 /\ counts' = <<>> /\ pressure' = <<>>
  /\ phase' = IF fields[frequency + 1].profiles[1].solver = fields[1].profiles[1].solver THEN "modes" ELSE "failed"
  /\ UNCHANGED <<fields, limit, march>>

(* Only the real solver's search in solids is bounded by the last count.    *)
Bounded(d) == d.solver = "kraken" /\ HasSolids(d)
Shapes(n) == n * Len(Profiles[Len(counts) + 1].modeDepths)
Gathered == Total([i \in DOMAIN counts |-> counts[i] * Len(Profiles[i].modeDepths)])
SolveProfile ==
  /\ phase = "modes" /\ Len(counts) < Len(Profiles)
  /\ \/ phase' = "failed" /\ UNCHANGED <<limit, counts>>
     \/ \E n \in 1 .. MostModes :
          /\ Bounded(Profiles[Len(counts) + 1]) => n <= limit
          /\ limit' = n /\ counts' = Append(counts, n)
          /\ phase' = IF Len(Profiles) > 1 /\ Gathered + Shapes(n) > MaxValues THEN "failed" ELSE phase
  /\ UNCHANGED <<fields, frequency, march, pressure>>

Order(d) ==
  [i \in 1 .. Samples(d) |->
     LET k == i - 1  n == Len(d.ranges)  m == Len(d.receivers)
     IN  <<k \div (m * n) + 1, ((k \div n) % m) + 1, (k % n) + 1>>]

(* One profile: every sample in turn, unless one of them is not finite.     *)
Synthesize ==
  /\ phase = "modes" /\ Field.propagation = "independent" /\ Len(counts) = 1
  /\ \/ phase' = "failed" /\ UNCHANGED pressure
     \/ /\ Samples(Profile) * Least(counts[1], Profile.limit) <= MaxWork
        /\ phase' = "solved" /\ pressure' = Order(Profile)
  /\ UNCHANGED <<fields, frequency, limit, counts, march>>

(* What the march costs, coupling included.                                 *)
CouplingWork ==
  LET m(i) == Len(Profiles[i].modeDepths)
      step(i) == counts[i] * m(i) + (counts[i] + counts[i + 1]) * (m(i) + m(i + 1))
                 + 2 * counts[i] * counts[i + 1] + counts[i + 1] * Len(Profile.receivers)
  IN  Len(Profile.sources) * Total([i \in 1 .. Len(counts) - 1 |-> step(i)])
MarchWork == Samples(Profile) * Largest + (IF Coupled THEN CouplingWork ELSE 0)

-----------------------------------------------------------------------------
(* The march.                                                              *)

Start(i) == 2 * Field.starts[i]
ReceiverRange == 2 * Profile.ranges[receiver]
Ahead == segment < Len(Profiles)

(* Coupled modes change where the next profile is nearer, adiabatic ones    *)
(* follow both profiles of a segment.                                      *)
Boundary == IF Coupled THEN Field.starts[segment] + Field.starts[segment + 1] ELSE Start(segment + 1)
Excited == Least(counts[1], Profile.limit)
BeginSource(s) ==
  /\ source' = s /\ receiver' = 1 /\ segment' = 1 /\ previous' = 0 /\ pieces' = <<>>
  /\ live' = IF Coupled THEN Excited ELSE Least(Excited, counts[2])

StartMarch ==
  /\ phase = "modes" /\ Len(Profiles) > 1 /\ Len(counts) = Len(Profiles)
  /\ IF MarchWork > MaxWork THEN phase' = "failed" /\ UNCHANGED <<march, pressure>>
     ELSE /\ phase' = "march" /\ BeginSource(1)
          /\ pressure' = [i \in 1 .. Samples(Profile) |-> <<>>]
  /\ UNCHANGED <<fields, frequency, limit, counts>>

Piece(to) == <<segment, previous, to>>

(* Mutant: the modes of the profile after the next are not looked at.       *)
CrossCarrying ==
  /\ phase = "march" /\ Ahead /\ ReceiverRange > Boundary
  /\ pieces' = Append(pieces, Piece(Boundary)) /\ previous' = Boundary /\ segment' = segment + 1
  /\ live' = IF Coupled THEN counts[segment + 1] ELSE live
  /\ UNCHANGED <<fields, frequency, phase, limit, counts, source, receiver, pressure>>

(* The adiabatic march goes on with the modes that both profiles have.      *)
Cross ==
  /\ phase = "march" /\ Ahead /\ ReceiverRange > Boundary
  /\ pieces' = Append(pieces, Piece(Boundary)) /\ previous' = Boundary /\ segment' = segment + 1
  /\ live' = CASE Coupled -> counts[segment + 1]
               [] ~Coupled /\ segment + 2 <= Len(Profiles) -> Least(live, counts[segment + 2])
               [] OTHER -> live
  /\ UNCHANGED <<fields, frequency, phase, limit, counts, source, receiver, pressure>>

Index(iz) ==
  (source - 1) * (Samples(Profile) \div Len(Profile.sources)) + (iz - 1) * Len(Profile.ranges) + receiver
Receive ==
  /\ phase = "march" /\ (Ahead => ReceiverRange <= Boundary)
  /\ pressure' = [i \in DOMAIN pressure |->
                    LET heard == {iz \in 1 .. Len(Profile.receivers) : Index(iz) = i}
                    IN  IF heard = {} THEN pressure[i] ELSE <<source, Min(heard), receiver>>]
  /\ CASE receiver < Len(Profile.ranges) ->
            /\ receiver' = receiver + 1 /\ previous' = ReceiverRange
            /\ pieces' = Append(pieces, Piece(ReceiverRange))
            /\ UNCHANGED <<phase, source, segment, live>>
       [] receiver = Len(Profile.ranges) /\ source < Len(Profile.sources) ->
            BeginSource(source + 1) /\ UNCHANGED phase
       [] OTHER -> phase' \in {"solved", "failed"} /\ UNCHANGED march
  /\ UNCHANGED <<fields, frequency, limit, counts>>

SolveField == SolveProfile \/ Synthesize \/ StartMarch \/ Cross \/ Receive

-----------------------------------------------------------------------------
(* The projection of one profile's modes onto the next: the weight of each  *)
(* sample, as lengths over the density of a medium of the next, the last of *)
(* which is the half-space.  Coupled profiles have no solids, so that their *)
(* fluids begin at the surface with the samples.                           *)

(* The samples of the next, and those of the last that are deeper.          *)
Deepened(z, depth) == IF depth > LastOf(z) THEN Append(z, depth) ELSE z
Grid(left, right) == FoldLeft(Deepened, right.modeDepths, left.modeDepths)
Interface(d, k) == d.fluids[k].bottom
Below(d) == Len(d.fluids) + 1

(* The medium is followed down the grid, one interface at a sample.         *)
Followed(d, z) ==
  LET medium[i \in 0 .. Len(z)] ==
        IF i = 0 THEN 1
        ELSE LET m == medium[i - 1] IN
             IF z[i] <= FluidBottom(d) /\ m < Len(d.fluids) /\ z[i] > Interface(d, m) THEN m + 1 ELSE m
  IN  medium
Weight(d, z, medium, i) ==
  LET here == IF z[i] > FluidBottom(d) THEN Below(d) ELSE medium[i]
      below == Interface(d, medium[i])
      from == IF i = 1 THEN z[1] ELSE z[i - 1]
      to == IF i = Len(z) THEN z[i] ELSE z[i + 1]
      split == i \notin {1, Len(z)} /\ from < below /\ to > below
      whole == [m \in 1 .. Below(d) |-> IF m = here THEN to - from ELSE 0]
  IN  IF split THEN [whole EXCEPT ![here] = below - from, ![medium[i] + 1] = @ + to - below] ELSE whole
Weights(left, right) ==
  LET z == Grid(left, right)
      medium == Followed(right, z)
  IN  [i \in DOMAIN z |-> Weight(right, z, medium, i)]
=============================================================================
