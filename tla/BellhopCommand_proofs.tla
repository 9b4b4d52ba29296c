------------------------ MODULE BellhopCommand_proofs ------------------------
(****************************************************************************)
(* Proofs about BellhopCommand, for all requests, files and documents: what *)
(* a command has read, what a case that it accepts has for the solver, what *)
(* it says of its files, and what a reader finds in the files of a result   *)
(* (BellhopWriters); and about the simulation (BellhopRun) by              *)
(* itself, for every job and all limits: what a receiver keeps of the       *)
(* arrivals that are offered to it, however many, in whatever order and     *)
(* however they are combined, and what is counted of them.                  *)
(*                                                                         *)
(* The folds of the parser and of the counts have no value to begin with:   *)
(* the community modules define them by a recursive function, whose         *)
(* existence is proved here by induction over the indices (SetInduction).   *)
(****************************************************************************)
EXTENDS BellhopCommand, SequenceTheorems, FiniteSetTheorems, WellFoundedInduction, TLAPS
-----------------------------------------------------------------------------
(* Lists, and the readings of the parser.                                   *)

(* A sequence, of whatever values.                                          *)
Listed(s) == Len(s) \in Nat /\ s = [i \in 1 .. Len(s) |-> s[i]]

Parts == {"lines", "used", "ok", "slots", "report", "defaults", "value"}
(* A sequence that says nothing twice.                                      *)
Distinct(s) == Listed(s) /\ \A i, j \in 1 .. Len(s) : s[i] = s[j] => i = j

(* Diagnostics that are warnings, each said once, by names in N.            *)
Warnings(s, N) ==
  /\ Distinct(s)
  /\ \A i \in 1 .. Len(s) : \E name \in N : s[i] = Warning(name)

(* A reading, which has warnings until it fails, and then one error.        *)
Reading(r, N) ==
  /\ DOMAIN r = Parts
  /\ r.ok => Warnings(r.report, N)
  /\ ~r.ok => \E what : r.report = <<Error(what)>>

(* A list has the indices 1 .. its length, and is a sequence of its values. *)
LEMMA ListedType ==
  ASSUME NEW s, Listed(s)
  PROVE  s \in Seq({s[i] : i \in DOMAIN s}) /\ DOMAIN s = 1 .. Len(s)
<1>1. Len(s) \in Nat /\ s = [i \in 1 .. Len(s) |-> s[i]]
  BY DEF Listed
<1>2. DOMAIN s = 1 .. Len(s)
  BY <1>1
<1> DEFINE T == {s[i] : i \in DOMAIN s}
<1>3. s \in [1 .. Len(s) -> T]
  BY <1>1, <1>2
<1> HIDE DEF T
<1> QED
  BY <1>1, <1>2, <1>3 DEF T

(* A list whose values are of a set is a sequence over it.                  *)
LEMMA ListedIn ==
  ASSUME NEW s, Listed(s), NEW T, \A i \in 1 .. Len(s) : s[i] \in T
  PROVE  s \in Seq(T)
<1>1. s \in [1 .. Len(s) -> T] /\ Len(s) \in Nat
  BY DEF Listed
<1> QED
  BY <1>1

(* Every sequence is a list.                                                *)
LEMMA TypeListed ==
  ASSUME NEW S, NEW s \in Seq(S)
  PROVE  Listed(s)
BY DEF Listed

(* A function on 1 .. n is a list of length n.                              *)
LEMMA FunctionListed ==
  ASSUME NEW s, NEW n \in Nat, DOMAIN s = 1 .. n, s = [i \in 1 .. n |-> s[i]]
  PROVE  Listed(s) /\ Len(s) = n
<1> DEFINE T == {s[i] : i \in 1 .. n}
<1>1. s \in [1 .. n -> T]
  OBVIOUS
<1> HIDE DEF T
<1>2. s \in Seq(T)
  BY <1>1
<1>3. Len(s) = n
  BY <1>2
<1> QED
  BY <1>2, <1>3, TypeListed

(* What a list is when something is appended to it.                         *)
LEMMA Appended ==
  ASSUME NEW s, Listed(s), NEW e
  PROVE  /\ Listed(Append(s, e)) /\ Len(Append(s, e)) = Len(s) + 1
         /\ \A i \in 1 .. Len(s) : Append(s, e)[i] = s[i]
         /\ Append(s, e)[Len(s) + 1] = e
<1> DEFINE T == {s[i] : i \in DOMAIN s} \cup {e}
<1>0. (\A i \in 1 .. Len(s) : s[i] \in T) /\ e \in T
  BY ListedType
<1>1. s \in Seq(T) /\ e \in T
  <2> HIDE DEF T
  <2> QED
    BY <1>0, ListedIn
<1> HIDE DEF T
<1>2. Append(s, e) \in Seq(T) /\ Len(Append(s, e)) = Len(s) + 1
  BY <1>1
<1>3. Listed(Append(s, e))
  BY <1>2, TypeListed
<1> QED
  BY <1>1, <1>2, <1>3

(* What two lists are when they are joined.                                 *)
LEMMA Joint ==
  ASSUME NEW s, Listed(s), NEW t, Listed(t)
  PROVE  /\ Listed(s \o t) /\ Len(s \o t) = Len(s) + Len(t)
         /\ \A i \in 1 .. Len(s) : (s \o t)[i] = s[i]
         /\ \A i \in 1 .. Len(t) : (s \o t)[Len(s) + i] = t[i]
<1> DEFINE T == {s[i] : i \in DOMAIN s} \cup {t[i] : i \in DOMAIN t}
<1>0. (\A i \in 1 .. Len(s) : s[i] \in T) /\ (\A i \in 1 .. Len(t) : t[i] \in T)
  BY ListedType
<1>1. s \in Seq(T) /\ t \in Seq(T)
  <2> HIDE DEF T
  <2> QED
    BY <1>0, ListedIn
<1> HIDE DEF T
<1>2. s \o t \in Seq(T) /\ Len(s \o t) = Len(s) + Len(t)
  BY <1>1
<1>3. Listed(s \o t)
  BY <1>2, TypeListed
<1>4. \A i \in 1 .. Len(s) : (s \o t)[i] = s[i]
  BY <1>1
<1>5. \A i \in 1 .. Len(t) : (s \o t)[Len(s) + i] = t[i]
  BY <1>1
<1> QED
  BY <1>2, <1>3, <1>4, <1>5

(* The lists of none and of one.                                            *)
LEMMA EmptyListed == Listed(<<>>) /\ \A e : Listed(<<e>>) /\ Len(<<e>>) = 1
<1>1. Listed(<<>>)
  BY DEF Listed
<1>2. ASSUME NEW e PROVE Listed(<<e>>) /\ Len(<<e>>) = 1
  <2>1. <<e>> \in Seq({e})
    OBVIOUS
  <2> QED
    BY <2>1, TypeListed
<1> QED
  BY <1>1, <1>2

(* A reading that fails has one diagnostic.                                 *)
LEMMA Failing ==
  ASSUME NEW N, NEW r, Reading(r, N), NEW what
  PROVE  Reading(Fail(r, what), N) /\ Fail(r, what).ok = FALSE
BY DEF Fail, Reading, Parts

(* More names of warnings.                                                  *)
LEMMA Widened ==
  ASSUME NEW N, NEW M, N \subseteq M, NEW r, Reading(r, N)
  PROVE  Reading(r, M)
BY DEF Reading, Warnings, Distinct

(* A warning under a new name is one diagnostic more.                       *)
LEMMA Noted ==
  ASSUME NEW N, NEW r, Reading(r, N), NEW warned, NEW name, name \notin N
  PROVE  Reading(Warn(r, warned, name), N \cup {name})
<1> DEFINE s == r.report
           t == Append(s, Warning(name))
<1>1. CASE r.ok /\ warned
  <2>1. Warnings(s, N)
    BY <1>1 DEF Reading
  <2>2. /\ Listed(t) /\ Len(t) = Len(s) + 1 /\ Len(s) \in Nat
        /\ \A i \in 1 .. Len(s) : t[i] = s[i]
        /\ t[Len(s) + 1] = Warning(name)
    BY <2>1, Appended DEF Warnings, Distinct, Listed
  <2>3. \A i \in 1 .. Len(s) : t[i] # Warning(name)
    <3>1. \A n : Warning(n).what = n
      BY DEF Warning
    <3> HIDE DEF t, s
    <3> QED
      BY <2>1, <2>2, <3>1 DEF Warnings, Distinct
  <2> HIDE DEF t, s
  <2>4. ASSUME NEW i \in 1 .. Len(t), NEW j \in 1 .. Len(t), t[i] = t[j] PROVE i = j
    <3>1. (i \in 1 .. Len(s) \/ i = Len(s) + 1) /\ (j \in 1 .. Len(s) \/ j = Len(s) + 1)
      BY <2>2
    <3> QED
      BY <2>1, <2>2, <2>3, <2>4, <3>1 DEF Warnings, Distinct
  <2>5. ASSUME NEW i \in 1 .. Len(t) PROVE \E n \in N \cup {name} : t[i] = Warning(n)
    <3>1. i \in 1 .. Len(s) \/ i = Len(s) + 1
      BY <2>2
    <3> QED
      BY <2>1, <2>2, <3>1 DEF Warnings, Distinct
  <2>6. Warnings(t, N \cup {name})
    BY <2>2, <2>4, <2>5 DEF Warnings, Distinct
  <2> QED
    BY <1>1, <2>6 DEF Warn, Reading, Parts, s, t
<1>2. CASE ~(r.ok /\ warned)
  BY <1>2, Widened DEF Warn
<1> QED
  BY <1>1, <1>2

(* What is understood changes nothing else of a reading.                    *)
LEMMA KeepingPart ==
  ASSUME NEW N, NEW r, Reading(r, N), NEW part
  PROVE  Reading(Keep(r, part), N)
BY DEF Keep, Reading, Parts

(* A record is fetched, or the reading fails.                               *)
LEMMA Fetching ==
  ASSUME NEW N, NEW r, Reading(r, N), NEW record, NEW valid \in BOOLEAN
  PROVE  Reading(Fetch(r, record, valid), N)
<1>1. Reading([r EXCEPT !.used = record.used, !.slots = record.slots], N)
  BY DEF Reading, Parts
<1> QED
  BY <1>1, Failing DEF Fetch

(* The reads of slots, atoms and numbers, whatever the lines hold.          *)
LEMMA Reads ==
  ASSUME NEW N, NEW r, Reading(r, N), NEW n
  PROVE  /\ Reading(Slots(r, n), N) /\ Reading(Atoms(r, n), N)
         /\ Reading(Numeric(r), N) /\ Reading(Numbers(r, n), N)
<1>1. \A s : Reading(s, N) => Reading(Numeric(s), N)
  BY Failing DEF Numeric, Check
<1>2. Reading(Atoms(r, n), N)
  <2> DEFINE record == ReadFields(r.lines, r.used, n)
             valid == RequiredAtoms(record, n)
  <2>1. valid \in BOOLEAN => Reading(Fetch(r, record, valid), N)
    BY Fetching
  <2> QED
    BY Failing DEF Atoms, FetchAtoms, Fetch, Reading, Parts
<1>3. Reading(Slots(r, n), N)
  BY Failing DEF Slots, FetchSlots, Fetch, Reading, Parts
<1> QED
  BY <1>1, <1>2, <1>3 DEF Numbers

(* A count that is accepted is within its bounds.                           *)
LEMMA Counts ==
  ASSUME NEW N, NEW r, Reading(r, N), NEW least, NEW most
  PROVE  /\ Reading(Count(r, least, most), N)
         /\ Count(r, least, most).ok => Num(Count(r, least, most), 1) \in least .. most
<1>1. Reading(Numbers(r, 1), N)
  BY Reads
<1>2. \A s : Reading(s, N) => /\ Reading(Between(s, least, most), N)
                              /\ Between(s, least, most).ok => Num(Between(s, least, most), 1) \in least .. most
  BY Failing DEF Between, Check
<1> QED
  BY <1>1, <1>2 DEF Count

(* The defaults of a medium.                                                *)
LEMMA Applies ==
  ASSUME NEW N, NEW r, Reading(r, N), NEW required
  PROVE  Reading(ApplyMedium(r, required), N)
<1>1. \A s : Reading(s, N) => Reading(Apply(s), N)
  BY DEF Apply, Reading, Parts
<1> QED
  BY <1>1, Failing DEF ApplyMedium, Check

(* The records of the environment, one by one: title, frequency and media.  *)
LEMMA HeadingRead ==
  ASSUME NEW N, NEW r, Reading(r, N)
  PROVE  Reading(ReadHeading(r), N)
<1>1. \A s : Reading(s, N) => Reading(OneMedium(s), N)
  BY Failing DEF OneMedium, Check
<1>2. \A s : Reading(s, N) => Reading(KeepFrequency(s), N)
  BY KeepingPart DEF KeepFrequency
<1> QED
  BY <1>1, <1>2, Reads DEF ReadHeading

(* One layer of biological loss.                                            *)
LEMMA LayerRead ==
  ASSUME NEW N, NEW r, Reading(r, N), NEW i
  PROVE  Reading(ReadLayer(r, i), N)
<1>1. \A s : Reading(s, N) => Reading(AddLayer(s), N)
  BY KeepingPart DEF AddLayer
<1> QED
  BY <1>1, Reads DEF ReadLayer

(* A boundary with its half-space or grain size.                            *)
LEMMA HalfSpaceRead ==
  ASSUME NEW N, NEW r, Reading(r, N), NEW side, NEW condition, NEW roughness, NEW shaped
  PROVE  Reading(ReadBoundary(r, side, condition, roughness, shaped), N)
<1>1. Reading(ReadHalfSpace(r, condition), N)
  BY Failing, Applies, Reads DEF ReadHalfSpace, Check
<1> QED
  BY <1>1, KeepingPart DEF ReadBoundary, KeepBoundary

(* One point of the sound speed profile.                                    *)
LEMMA PointRead ==
  ASSUME NEW N, NEW r, Reading(r, N), NEW i
  PROVE  Reading(ReadPoint(r, i), N)
<1>1. \A s : Reading(s, N) => Reading(AddPoint(s), N)
  BY Failing, KeepingPart DEF AddPoint, Check
<1>2. \A s : Reading(s, N) => Reading(TwoPoints(s), N)
  BY Failing DEF TwoPoints, Check
<1>3. Reading(ApplyMedium(Slots(r, 3), TRUE), N)
  BY Applies, Reads
<1> QED
  BY <1>1, <1>2, <1>3 DEF ReadPoint

(* The bottom and its options.                                              *)
LEMMA BottomRead ==
  ASSUME NEW N, NEW r, Reading(r, N)
  PROVE  Reading(ReadBottomOptions(r), N)
<1>1. \A s : Reading(s, N) => Reading(BottomOptions(s), N)
  BY Failing, HalfSpaceRead DEF BottomOptions, Check
<1> QED
  BY <1>1, Reads DEF ReadBottomOptions

(* A counted vector of positions.                                           *)
LEMMA VectorRead ==
  ASSUME NEW N, NEW r, Reading(r, N), NEW name, name \notin N
  PROVE  Reading(ReadVector(r, name), N \cup {name})
<1>1. \A s, values : Reading(s, N) => Reading(KeepVector(s, values, name), N \cup {name})
  <2>1. \A s, values : Reading(s, N) =>
          Reading(Keep(Check(s, values # <<>>, "vector"), [x \in {name} |-> Sorted(values)]), N)
    BY Failing, KeepingPart DEF Check
  <2> QED
    BY <2>1, Noted DEF KeepVector
<1>2. \A s : Reading(s, N) => Reading(CountedVector(s, name), N \cup {name})
  BY <1>1, Reads, Widened DEF CountedVector, Vector
<1>3. Reading(Count(r, 1, MaxVector), N)
  BY Counts
<1> QED
  BY <1>2, <1>3 DEF ReadVector

(* The run options.                                                         *)
LEMMA RunRead ==
  ASSUME NEW r, Reading(r, {"sources", "depths", "ranges"})
  PROVE  Reading(ReadRunOptions(r), {"sources", "depths", "ranges", "family", "geometry", "grid", "plane"})
<1> DEFINE A == {"sources", "depths", "ranges"}
           B == A \cup {"family"}
           C == B \cup {"geometry"}
           D == C \cup {"grid"}
           E == D \cup {"plane"}
<1>1. \A s, N : Reading(s, N) => Reading(RunKind(s), N)
  BY Failing DEF RunKind, Check
<1>2. "family" \notin A /\ "geometry" \notin B /\ "grid" \notin C /\ "plane" \notin D
  OBVIOUS
<1>3. E = {"sources", "depths", "ranges", "family", "geometry", "grid", "plane"}
  OBVIOUS
<1>4. Reading(RunKind(Atoms(r, 1)), A)
  BY <1>1, Reads
<1> HIDE DEF A, B, C, D, E
<1>5. Reading(RunFamily(RunKind(Atoms(r, 1))), B)
  BY <1>2, <1>4, Noted DEF RunFamily, B
<1>6. \A s : Reading(s, B) => Reading(RunGeometry(s), D)
  BY <1>2, Noted DEF RunGeometry, C, D
<1>7. \A s : Reading(s, D) => Reading(RunPaired(s), D)
  BY Failing DEF RunPaired, Check
<1>8. \A s : Reading(s, D) => Reading(RunPlane(s), E)
  <2>1. \A s : Reading(s, D) => Reading(Check(s, Option(s, 6) # "3", "plane"), D)
    BY Failing DEF Check
  <2> QED
    BY <1>2, <2>1, Noted DEF RunPlane, E
<1>9. \A s : Reading(s, E) => Reading(KeepRun(s), E)
  BY KeepingPart DEF KeepRun
<1>10. Reading(ReadRunOptions(r), E)
  BY <1>5, <1>6, <1>7, <1>8, <1>9 DEF ReadRunOptions
<1> QED
  BY <1>3, <1>10

(* The launch angles.                                                       *)
LEMMA AnglesRead ==
  ASSUME NEW N, NEW r, Reading(r, N)
  PROVE  Reading(ReadLaunchAngles(r), N)
<1>1. \A s, angles, selected : Reading(s, N) => Reading(KeepAngles(s, angles, selected), N)
  BY Failing, KeepingPart DEF KeepAngles, Check
<1>2. \A s : Reading(s, N) => Reading(LaunchAngles(s), N)
  BY <1>1, Failing, Reads DEF LaunchAngles, Angles, Check
<1> QED
  BY <1>2, Reads DEF ReadLaunchAngles

(* The limits of a trace and the Cerveny records.                           *)
LEMMA TraceRead ==
  ASSUME NEW N, NEW r, Reading(r, N)
  PROVE  Reading(ReadTrace(r), N)
<1>1. \A s : Reading(s, N) => Reading(KeepLimits(s), N)
  BY KeepingPart DEF KeepLimits
<1>2. \A s : Reading(s, N) => Reading(BeamWidth(s), N)
  BY Failing, KeepingPart DEF BeamWidth, Check
<1>3. \A s : Reading(s, N) => Reading(BeamImages(s), N)
  BY Failing DEF BeamImages, Check
<1>4. \A s : Reading(s, N) => Reading(ReadCerveny(s), N)
  BY <1>2, <1>3, Reads DEF ReadCerveny
<1> QED
  BY <1>1, <1>4, Reads DEF ReadTrace

-----------------------------------------------------------------------------
(* Folds.                                                                   *)

(* Induction over the natural numbers, for a set instead of a predicate.    *)
LEMMA SetInduction ==
  ASSUME NEW S, 0 \in S, \A n \in Nat : n \in S => n + 1 \in S
  PROVE  Nat \subseteq S
<1> SUFFICES ASSUME Nat \ S # {} PROVE FALSE
  OBVIOUS
<1>1. PICK x \in Nat \ S : \A y \in Nat \ S : ~(<<y, x>> \in OpToRel(<, Nat))
  BY NatLessThanWellFounded, WFMin
<1>2. x \in Nat /\ x # 0
  BY <1>1
<1>3. x - 1 \in Nat /\ x - 1 < x /\ (x - 1) + 1 = x
  BY <1>2
<1>4. <<x - 1, x>> \in OpToRel(<, Nat)
  BY <1>2, <1>3 DEF OpToRel
<1>5. x - 1 \in S
  BY <1>1, <1>3, <1>4
<1>6. (x - 1) + 1 \in S
  BY <1>3, <1>5
<1> QED
  BY <1>1, <1>3, <1>6

(* The greatest of a set of indices, and what is left below it.             *)
LEMMA Greatest ==
  ASSUME NEW k \in Nat, NEW s \in SUBSET (1 .. k), s # {}
  PROVE  Max(s) \in s /\ \A x \in s : x <= Max(s)
<1> DEFINE P(m) == \A t \in SUBSET (1 .. m) : t # {} => \E x \in t : \A y \in t : x >= y
           S == {m \in Nat : P(m)}
<1>1. 0 \in S
  <2>1. \A t \in SUBSET (1 .. 0) : t = {}
    OBVIOUS
  <2> QED
    BY <2>1
<1>2. ASSUME NEW m \in Nat, m \in S PROVE m + 1 \in S
  <2> SUFFICES ASSUME NEW t \in SUBSET (1 .. m + 1), t # {} PROVE \E x \in t : \A y \in t : x >= y
    OBVIOUS
  <2>1. CASE m + 1 \in t
    BY <2>1
  <2>2. CASE m + 1 \notin t
    <3>1. t \in SUBSET (1 .. m)
      BY <2>2
    <3> QED
      BY <1>2, <3>1
  <2> QED
    BY <2>1, <2>2
<1>3. k \in S
  <2> HIDE DEF S
  <2>1. \A m \in Nat : m \in S => m + 1 \in S
    BY <1>2
  <2> QED
    BY <1>1, <2>1, SetInduction
<1>4. \E x \in s : \A y \in s : x >= y
  BY <1>3
<1>5. Max(s) \in s /\ \A y \in s : Max(s) >= y
  BY <1>4 DEF Max
<1> QED
  BY <1>5

(* The greatest of a set of indices up to k + 1 is k + 1, or below it.      *)
LEMMA Peeled ==
  ASSUME NEW k \in Nat, NEW s \in SUBSET (1 .. k + 1)
  PROVE  /\ k + 1 \in s => Max(s) = k + 1 /\ s \ {k + 1} \in SUBSET (1 .. k)
         /\ k + 1 \notin s => s \in SUBSET (1 .. k)
         /\ k + 1 \notin s /\ s # {} => Max(s) \in s /\ s \ {Max(s)} \in SUBSET (1 .. k)
<1>1. s # {} => Max(s) \in s /\ \A x \in s : x <= Max(s)
  <2>1. k + 1 \in Nat
    OBVIOUS
  <2> QED
    BY <2>1, Greatest
<1> HIDE DEF Max
<1>2. \A x \in s : x \in Int /\ 1 <= x /\ x <= k + 1
  OBVIOUS
<1>3. ASSUME k + 1 \in s PROVE Max(s) = k + 1
  <2> DEFINE m == Max(s)
  <2>1. m \in s /\ k + 1 <= m
    BY <1>1, <1>3
  <2> HIDE DEF m
  <2>2. m \in Int /\ m <= k + 1
    BY <1>2, <2>1
  <2>3. m = k + 1
    BY <2>1, <2>2
  <2> QED
    BY <2>3 DEF m
<1>4. \A x \in s : x # k + 1 => x \in 1 .. k
  BY <1>2
<1> QED
  BY <1>1, <1>3, <1>4

(* The greatest of 1 .. k + 1, and what is left without it.                 *)
LEMMA Prefix ==
  ASSUME NEW k \in Nat
  PROVE  /\ 1 .. k + 1 # {} /\ Max(1 .. k + 1) = k + 1 /\ (1 .. k + 1) \ {k + 1} = 1 .. k
         /\ 1 .. k \in SUBSET (1 .. k + 1)
<1>1. k + 1 \in 1 .. k + 1
  OBVIOUS
<1>2. Max(1 .. k + 1) \in 1 .. k + 1 /\ \A x \in 1 .. k + 1 : x <= Max(1 .. k + 1)
  <2>1. k + 1 \in Nat
    OBVIOUS
  <2> QED
    BY <1>1, <2>1, Greatest
<1>3. Max(1 .. k + 1) = k + 1
  BY <1>1, <1>2
<1> QED
  BY <1>1, <1>3

LayersSolved(g, n, b, q, folded) ==
  /\ g[{}] = b
  /\ \A k \in 0 .. n - 1 : g[1 .. k + 1] = ReadLayer(g[1 .. k], q[k + 1])
  /\ folded = g[1 .. n]

(* The fold over the layers has a solution: FoldLeft applies ReadLayer to   *)
(* them in their order.                                                     *)
LEMMA LayersFolded ==
  ASSUME NEW n \in Nat, NEW b, NEW q, DOMAIN q = 1 .. n
  PROVE  \E g : LayersSolved(g, n, b, q, FoldLeft(ReadLayer, b, q))
<1> DEFINE Go(a, i) == ReadLayer(a, q[i])
           After(g, s) == IF s = {} THEN b ELSE Go(g[s \ {Max(s)}], Max(s))
           Solves(g, k) == g = [s \in SUBSET (1 .. k) |-> After(g, s)]
           S == {k \in Nat : \E g : Solves(g, k)}
           fold == CHOOSE g : Solves(g, n)
<1>1. FoldLeft(ReadLayer, b, q) = fold[1 .. n]
  BY DEF FoldLeft, MapThenFoldSet
<1> HIDE DEF Go, fold
<1>2. 0 \in S
  <2> DEFINE g == [s \in SUBSET (1 .. 0) |-> b]
  <2>1. \A s \in SUBSET (1 .. 0) : s = {}
    OBVIOUS
  <2>2. Solves(g, 0)
    BY <2>1
  <2> QED
    BY <2>2
<1>3. ASSUME NEW k \in Nat, k \in S PROVE k + 1 \in S
  <2>1. PICK g : Solves(g, k)
    BY <1>3
  <2> DEFINE h == [s \in SUBSET (1 .. k + 1) |-> IF k + 1 \in s THEN Go(g[s \ {k + 1}], k + 1) ELSE g[s]]
  <2>2. \A s \in SUBSET (1 .. k) : h[s] = g[s] /\ g[s] = After(g, s)
    <3>1. \A s \in SUBSET (1 .. k) : s \in SUBSET (1 .. k + 1) /\ k + 1 \notin s
      OBVIOUS
    <3> HIDE DEF After
    <3> QED
      BY <2>1, <3>1
  <2>3. \A s \in SUBSET (1 .. k + 1) : h[s] = IF k + 1 \in s THEN Go(g[s \ {k + 1}], k + 1) ELSE g[s]
    OBVIOUS
  <2>4. h = [s \in SUBSET (1 .. k + 1) |-> h[s]]
    OBVIOUS
  <2> HIDE DEF h
  <2>5. ASSUME NEW s \in SUBSET (1 .. k + 1) PROVE h[s] = After(h, s)
    <3>1. CASE k + 1 \in s
      <4>1. Max(s) = k + 1 /\ s \ {k + 1} \in SUBSET (1 .. k) /\ s # {}
        BY <3>1, Peeled
      <4> QED
        BY <2>2, <2>3, <3>1, <4>1
    <3>2. CASE k + 1 \notin s
      <4>1. s \in SUBSET (1 .. k) /\ (s # {} => s \ {Max(s)} \in SUBSET (1 .. k))
        BY <3>2, Peeled
      <4> QED
        BY <2>2, <4>1
    <3> QED
      BY <3>1, <3>2
  <2>6. h = [s \in SUBSET (1 .. k + 1) |-> After(h, s)]
    <3> HIDE DEF After
    <3> QED
      BY <2>4, <2>5
  <2>7. Solves(h, k + 1)
    BY <2>6
  <2> HIDE DEF Solves
  <2> QED
    BY <2>7
<1>4. n \in S
  <2> HIDE DEF S
  <2> QED
    BY <1>2, <1>3, SetInduction
<1>5. Solves(fold, n)
  <2>1. \E g : Solves(g, n)
    BY <1>4
  <2> HIDE DEF Solves
  <2> QED
    BY <2>1 DEF fold
<1>6. \A s \in SUBSET (1 .. n) : fold[s] = After(fold, s)
  <2> HIDE DEF After
  <2> QED
    BY <1>5
<1>7. fold[{}] = b
  BY <1>6
<1>8. ASSUME NEW k \in 0 .. n - 1
      PROVE  fold[1 .. k + 1] = Go(fold[1 .. k], k + 1)
  <2>1. k \in Nat /\ 1 .. k + 1 \in SUBSET (1 .. n)
    OBVIOUS
  <2>2. 1 .. k + 1 # {} /\ Max(1 .. k + 1) = k + 1 /\ (1 .. k + 1) \ {k + 1} = 1 .. k
    BY <2>1, Prefix
  <2>3. fold[1 .. k + 1] = After(fold, 1 .. k + 1)
    BY <1>6, <2>1
  <2> QED
    BY <2>2, <2>3
<1> QED
  BY <1>1, <1>7, <1>8 DEF Go, LayersSolved

PointsSolved(g, n, b, q, folded) ==
  /\ g[{}] = b
  /\ \A k \in 0 .. n - 1 : g[1 .. k + 1] = ReadPoint(g[1 .. k], q[k + 1])
  /\ folded = g[1 .. n]

(* The same of the points of a profile.                                     *)
LEMMA PointsFolded ==
  ASSUME NEW n \in Nat, NEW b, NEW q, DOMAIN q = 1 .. n
  PROVE  \E g : PointsSolved(g, n, b, q, FoldLeft(ReadPoint, b, q))
<1> DEFINE Go(a, i) == ReadPoint(a, q[i])
           After(g, s) == IF s = {} THEN b ELSE Go(g[s \ {Max(s)}], Max(s))
           Solves(g, k) == g = [s \in SUBSET (1 .. k) |-> After(g, s)]
           S == {k \in Nat : \E g : Solves(g, k)}
           fold == CHOOSE g : Solves(g, n)
<1>1. FoldLeft(ReadPoint, b, q) = fold[1 .. n]
  BY DEF FoldLeft, MapThenFoldSet
<1> HIDE DEF Go, fold
<1>2. 0 \in S
  <2> DEFINE g == [s \in SUBSET (1 .. 0) |-> b]
  <2>1. \A s \in SUBSET (1 .. 0) : s = {}
    OBVIOUS
  <2>2. Solves(g, 0)
    BY <2>1
  <2> QED
    BY <2>2
<1>3. ASSUME NEW k \in Nat, k \in S PROVE k + 1 \in S
  <2>1. PICK g : Solves(g, k)
    BY <1>3
  <2> DEFINE h == [s \in SUBSET (1 .. k + 1) |-> IF k + 1 \in s THEN Go(g[s \ {k + 1}], k + 1) ELSE g[s]]
  <2>2. \A s \in SUBSET (1 .. k) : h[s] = g[s] /\ g[s] = After(g, s)
    <3>1. \A s \in SUBSET (1 .. k) : s \in SUBSET (1 .. k + 1) /\ k + 1 \notin s
      OBVIOUS
    <3> HIDE DEF After
    <3> QED
      BY <2>1, <3>1
  <2>3. \A s \in SUBSET (1 .. k + 1) : h[s] = IF k + 1 \in s THEN Go(g[s \ {k + 1}], k + 1) ELSE g[s]
    OBVIOUS
  <2>4. h = [s \in SUBSET (1 .. k + 1) |-> h[s]]
    OBVIOUS
  <2> HIDE DEF h
  <2>5. ASSUME NEW s \in SUBSET (1 .. k + 1) PROVE h[s] = After(h, s)
    <3>1. CASE k + 1 \in s
      <4>1. Max(s) = k + 1 /\ s \ {k + 1} \in SUBSET (1 .. k) /\ s # {}
        BY <3>1, Peeled
      <4> QED
        BY <2>2, <2>3, <3>1, <4>1
    <3>2. CASE k + 1 \notin s
      <4>1. s \in SUBSET (1 .. k) /\ (s # {} => s \ {Max(s)} \in SUBSET (1 .. k))
        BY <3>2, Peeled
      <4> QED
        BY <2>2, <4>1
    <3> QED
      BY <3>1, <3>2
  <2>6. h = [s \in SUBSET (1 .. k + 1) |-> After(h, s)]
    <3> HIDE DEF After
    <3> QED
      BY <2>4, <2>5
  <2>7. Solves(h, k + 1)
    BY <2>6
  <2> HIDE DEF Solves
  <2> QED
    BY <2>7
<1>4. n \in S
  <2> HIDE DEF S
  <2> QED
    BY <1>2, <1>3, SetInduction
<1>5. Solves(fold, n)
  <2>1. \E g : Solves(g, n)
    BY <1>4
  <2> HIDE DEF Solves
  <2> QED
    BY <2>1 DEF fold
<1>6. \A s \in SUBSET (1 .. n) : fold[s] = After(fold, s)
  <2> HIDE DEF After
  <2> QED
    BY <1>5
<1>7. fold[{}] = b
  BY <1>6
<1>8. ASSUME NEW k \in 0 .. n - 1
      PROVE  fold[1 .. k + 1] = Go(fold[1 .. k], k + 1)
  <2>1. k \in Nat /\ 1 .. k + 1 \in SUBSET (1 .. n)
    OBVIOUS
  <2>2. 1 .. k + 1 # {} /\ Max(1 .. k + 1) = k + 1 /\ (1 .. k + 1) \ {k + 1} = 1 .. k
    BY <2>1, Prefix
  <2>3. fold[1 .. k + 1] = After(fold, 1 .. k + 1)
    BY <1>6, <2>1
  <2> QED
    BY <2>2, <2>3
<1> QED
  BY <1>1, <1>7, <1>8 DEF Go, PointsSolved

(* All layers of biological loss.                                           *)
LEMMA LayersRead ==
  ASSUME NEW N, NEW n \in Nat, NEW b, Reading(b, N), NEW q, DOMAIN q = 1 .. n
  PROVE  Reading(FoldLeft(ReadLayer, b, q), N)
<1>0. PICK g : LayersSolved(g, n, b, q, FoldLeft(ReadLayer, b, q))
  BY LayersFolded
<1>1. /\ g[{}] = b
      /\ \A k \in 0 .. n - 1 : g[1 .. k + 1] = ReadLayer(g[1 .. k], q[k + 1])
      /\ FoldLeft(ReadLayer, b, q) = g[1 .. n]
  BY <1>0 DEF LayersSolved
<1> DEFINE S == {k \in Nat : k <= n => Reading(g[1 .. k], N)}
<1>2. 0 \in S
  <2>1. 1 .. 0 = {}
    OBVIOUS
  <2> QED
    BY <1>1, <2>1
<1>3. ASSUME NEW k \in Nat, k \in S PROVE k + 1 \in S
  <2> SUFFICES ASSUME k + 1 <= n PROVE Reading(g[1 .. k + 1], N)
    OBVIOUS
  <2>1. Reading(g[1 .. k], N) /\ k \in 0 .. n - 1
    BY <1>3
  <2> QED
    BY <1>1, <2>1, LayerRead
<1>4. n \in S
  <2> HIDE DEF S
  <2> QED
    BY <1>2, <1>3, SetInduction
<1> QED
  BY <1>1, <1>4

(* All points of a profile.                                                 *)
LEMMA PointsRead ==
  ASSUME NEW N, NEW n \in Nat, NEW b, Reading(b, N), NEW q, DOMAIN q = 1 .. n
  PROVE  Reading(FoldLeft(ReadPoint, b, q), N)
<1>0. PICK g : PointsSolved(g, n, b, q, FoldLeft(ReadPoint, b, q))
  BY PointsFolded
<1>1. /\ g[{}] = b
      /\ \A k \in 0 .. n - 1 : g[1 .. k + 1] = ReadPoint(g[1 .. k], q[k + 1])
      /\ FoldLeft(ReadPoint, b, q) = g[1 .. n]
  BY <1>0 DEF PointsSolved
<1> DEFINE S == {k \in Nat : k <= n => Reading(g[1 .. k], N)}
<1>2. 0 \in S
  <2>1. 1 .. 0 = {}
    OBVIOUS
  <2> QED
    BY <1>1, <2>1
<1>3. ASSUME NEW k \in Nat, k \in S PROVE k + 1 \in S
  <2> SUFFICES ASSUME k + 1 <= n PROVE Reading(g[1 .. k + 1], N)
    OBVIOUS
  <2>1. Reading(g[1 .. k], N) /\ k \in 0 .. n - 1
    BY <1>3
  <2> QED
    BY <1>1, <2>1, PointRead
<1>4. n \in S
  <2> HIDE DEF S
  <2> QED
    BY <1>2, <1>3, SetInduction
<1> QED
  BY <1>1, <1>4

(* The volume attenuation.                                                  *)
LEMMA VolumeRead ==
  ASSUME NEW N, NEW r, Reading(r, N), NEW option
  PROVE  Reading(ReadVolume(r, option), N)
<1>1. \A s : Reading(s, N) => Reading(KeepTypical(s), N)
  BY KeepingPart DEF KeepTypical
<1>2. ASSUME NEW s, Reading(s, N), s.ok => Num(s, 1) \in 1 .. MaxVector
      PROVE  Reading(ReadLayers(s), N)
  <2>1. Reading(Keep(s, [volume |-> <<>>]), N)
    BY <1>2, KeepingPart
  <2>2. \E n \in Nat : DOMAIN Counting(s) = 1 .. n
    <3>1. CASE s.ok
      <4>1. Num(s, 1) \in Nat
        BY <1>2, <3>1, InputAssumption
      <4>2. DOMAIN Counting(s) = 1 .. Num(s, 1)
        BY <3>1 DEF Counting, Upto
      <4> QED
        BY <4>1, <4>2
    <3>2. CASE ~s.ok
      <4>1. DOMAIN Counting(s) = 1 .. 0
        BY <3>2 DEF Counting
      <4> QED
        BY <4>1
    <3> QED
      BY <3>1, <3>2
  <2> QED
    BY <2>1, <2>2, LayersRead DEF ReadLayers
<1>3. Reading(ReadLayers(Count(r, 1, MaxVector)), N)
  BY <1>2, Counts
<1>4. Reading(Keep(r, [volume |-> <<>>]), N) /\ Reading(KeepTypical(Numbers(r, 2)), N) /\ Reading(Check(r, FALSE, "option"), N)
  BY <1>1, KeepingPart, Reads, Failing DEF Check
<1>5. CASE option \in {" ", "T"}
  BY <1>4, <1>5 DEF ReadVolume
<1>6. CASE option = "F"
  BY <1>4, <1>6 DEF ReadVolume
<1>7. CASE option = "B"
  BY <1>3, <1>7 DEF ReadVolume
<1>8. CASE option \notin {" ", "T", "F", "B"}
  BY <1>4, <1>8 DEF ReadVolume
<1> QED
  BY <1>5, <1>6, <1>7, <1>8

(* The top and its options.                                                 *)
LEMMA TopRead ==
  ASSUME NEW N, NEW r, Reading(r, N)
  PROVE  Reading(ReadTopOptions(r), N)
<1>1. \A s : Reading(s, N) => Reading(TopMedium(s), N)
  BY Failing DEF TopMedium, Check
<1>2. \A s, o : Reading(s, N) => Reading(TopShape(s, o), N)
  BY KeepingPart, Failing DEF TopShape, Check
<1>3. \A s, o : Reading(s, N) => Reading(TopBoundary(s, o), N)
  BY HalfSpaceRead DEF TopBoundary
<1>4. \A o : Reading(o, N) => Reading(TopOptions(o), N)
  BY <1>1, <1>2, <1>3, VolumeRead DEF TopOptions
<1> QED
  BY <1>4, Reads DEF ReadTopOptions

(* The profile, from its header to the bottom.                              *)
LEMMA ProfileRead ==
  ASSUME NEW N, NEW r, Reading(r, N)
  PROVE  Reading(ReadProfile(r), N)
<1>1. \A s : Reading(s, N) => Reading(StartProfile(s), N)
  BY KeepingPart DEF StartProfile
<1>2. \A s : Reading(s, N) => Reading(EndProfile(s), N)
  BY KeepingPart, Failing DEF EndProfile, Check
<1>3. ASSUME NEW s, Reading(s, N) PROVE Reading(Points(s), N)
  <2>1. MaxPoints \in Nat /\ DOMAIN Upto(MaxPoints) = 1 .. MaxPoints
    BY InputAssumption DEF Upto
  <2>2. Reading(FoldLeft(ReadPoint, s, Upto(MaxPoints)), N)
    BY <1>3, <2>1, PointsRead
  <2> QED
    BY <1>3, <2>2 DEF Points
<1> QED
  BY <1>1, <1>2, <1>3, Reads DEF ReadProfile

(* What the parser of an environment warns of.                              *)
ParserWarnings == {"sources", "depths", "ranges", "family", "geometry", "grid", "plane"}

(* Whatever the lines of an environment are, the parser has warnings, each  *)
(* said once, or one error.                                                *)
LEMMA EnvironmentRead ==
  ASSUME NEW lines
  PROVE  Reading(ParseEnvironment(lines), ParserWarnings)
<1>1. Reading(Open(lines), {})
  BY EmptyListed DEF Open, Reading, Warnings, Distinct, Parts
<1>2. \A s : Reading(s, {}) => Reading(ReadPositions(s), {"sources", "depths", "ranges"})
  <2>1. /\ {} \cup {"sources"} = {"sources"} /\ {"sources"} \cup {"depths"} = {"sources", "depths"}
        /\ {"sources", "depths"} \cup {"ranges"} = {"sources", "depths", "ranges"}
        /\ "depths" \notin {"sources"} /\ "ranges" \notin {"sources", "depths"}
    OBVIOUS
  <2>2. \A s : Reading(s, {}) => Reading(ReadVector(s, "sources"), {"sources"})
    BY <2>1, VectorRead
  <2>3. \A s : Reading(s, {"sources"}) => Reading(ReadVector(s, "depths"), {"sources", "depths"})
    BY <2>1, VectorRead
  <2>4. \A s : Reading(s, {"sources", "depths"}) => Reading(ReadVector(s, "ranges"), {"sources", "depths", "ranges"})
    BY <2>1, VectorRead
  <2> QED
    BY <2>2, <2>3, <2>4 DEF ReadPositions
<1>3. Reading(ReadBottomOptions(ReadProfile(ReadTopOptions(ReadHeading(Open(lines))))), {})
  BY <1>1, HeadingRead, TopRead, ProfileRead, BottomRead
<1> QED
  BY <1>2, <1>3, RunRead, AnglesRead, TraceRead DEF ParseEnvironment, ParserWarnings

(* Its diagnostics are a list.                                              *)
LEMMA EnvironmentTold ==
  ASSUME NEW lines
  PROVE  Listed(ParseEnvironment(lines).report)
BY EnvironmentRead, EmptyListed DEF Reading, Warnings, Distinct

-----------------------------------------------------------------------------
(* What has been read.                                                      *)

(* The auxiliary files a case has a place for.                              *)
Extensions == DOMAIN Nothing

(* Only auxiliary files that a case has a place for are asked for.          *)
LEMMA AskedFor ==
  ASSUME NEW e
  PROVE  Auxiliaries(e) \in Seq(Extensions)
<1>1. \A marked, x : x \in Extensions => Ask(e, x, marked) \in Seq(Extensions)
  BY DEF Ask
<1>2. {"ssp", "ati", "bty", "brc", "trc", "irc", "sbp"} \subseteq Extensions
  BY DEF Extensions, Nothing
<1> HIDE DEF Extensions
<1> QED
  BY <1>1, <1>2 DEF Auxiliaries

(* An error that is noted is among what is noted.                           *)
LEMMA ErrorNoted ==
  ASSUME NEW s, Listed(s), NEW part, NEW what
  PROVE  Listed(Append(s, ErrorOf(part, what))) /\ HasErrors(Append(s, ErrorOf(part, what)))
<1>1. Listed(Append(s, ErrorOf(part, what))) /\ Len(s) + 1 \in 1 .. Len(Append(s, ErrorOf(part, what)))
  BY Appended DEF Listed
<1>2. Len(s) + 1 \in DOMAIN Append(s, ErrorOf(part, what))
  BY <1>1, ListedType
<1>3. Append(s, ErrorOf(part, what))[Len(s) + 1].severity = "error"
  BY Appended DEF ErrorOf
<1> QED
  BY <1>1, <1>2, <1>3 DEF HasErrors

(* The files that were read are those that were understood, until one is    *)
(* not.                                                                     *)
Consumption ==
  /\ stage = "read" => parts = Nothing /\ definition = <<>>
  /\ stage = "auxiliary" =>
       /\ Listed(report) /\ pending \in Seq(Extensions) /\ definition = <<>>
       /\ DOMAIN parts = Extensions
  /\ Legacy /\ (Accepted \/ (stage = "auxiliary" /\ ~HasErrors(report))) =>
       paths = {"env"} \cup {x \in DOMAIN parts : Present(parts[x])}

(* Nothing is read at first.                                                *)
LEMMA ConsumptionInit == Init => Consumption
BY DEF Init, Consumption, Accepted

(* Every step keeps account of the files that were read.                    *)
LEMMA ConsumptionStep == Consumption /\ [Next]_vars => Consumption'
<1> SUFFICES ASSUME Consumption, [Next]_vars PROVE Consumption'
  OBVIOUS
<1>1. CASE ReadEnvironment
  <2>1. \A x \in Extensions : ~Present(Nothing[x])
    BY DEF Extensions, Nothing, Present
  <2>2. parts' = Nothing /\ UNCHANGED input /\ Legacy /\ definition = <<>>
    BY <1>1 DEF ReadEnvironment, Consumption, Keeping
  <2>3. CASE stage' = "over" /\ definition' = definition
    BY <2>2, <2>3 DEF Consumption, Accepted
  <2>4. CASE stage' # "over" \/ definition' # definition
    <3>1. PICK r \in {ParseEnvironment(Lines("env")[1])} : \E e \in {Understanding(r)} :
            /\ paths' = {"env"} /\ pending' = Auxiliaries(e) /\ report' = r.report
            /\ stage' = "auxiliary" /\ definition' = definition
      BY <1>1, <2>4 DEF ReadEnvironment, Rejected, Exits
    <3>2. Listed(report') /\ pending' \in Seq(Extensions)
      BY <3>1, EnvironmentTold, AskedFor
    <3> QED
      BY <2>1, <2>2, <3>1, <3>2 DEF Consumption, Accepted, Extensions
  <2> QED
    BY <2>3, <2>4
<1>2. CASE ReadAuxiliary
  <2> DEFINE x == Head(pending)
  <2>1. /\ stage = "auxiliary" /\ stage' = "auxiliary" /\ UNCHANGED <<input, definition>>
        /\ pending # <<>> /\ pending' = Tail(pending)
    BY <1>2 DEF ReadAuxiliary, Keeping
  <2>2. /\ x \in Extensions /\ pending' \in Seq(Extensions) /\ Listed(report)
        /\ DOMAIN parts = Extensions /\ definition = <<>>
    BY <2>1 DEF Consumption
  <2>3. (Legacy /\ ~HasErrors(report)) => paths = {"env"} \cup {y \in DOMAIN parts : Present(parts[y])}
    BY <2>1 DEF Consumption
  <2>4. CASE \E part, what : report' = Append(report, ErrorOf(part, what)) /\ parts' = parts
    <3>1. Listed(report') /\ HasErrors(report')
      BY <2>2, <2>4, ErrorNoted
    <3> QED
      BY <2>1, <2>2, <2>4, <3>1 DEF Consumption, Accepted
  <2>5. CASE \E r : /\ paths' = paths \cup {x} /\ report' = report
                    /\ parts' = [parts EXCEPT ![x] = <<Understanding(r)>>]
    <3>1. PICK r : /\ paths' = paths \cup {x} /\ report' = report
                   /\ parts' = [parts EXCEPT ![x] = <<Understanding(r)>>]
      BY <2>5
    <3> DEFINE u == <<Understanding(r)>>
    <3>2. Present(u)
      BY DEF Present
    <3> HIDE DEF u, x
    <3>3. /\ DOMAIN parts' = Extensions /\ parts'[x] = u
          /\ \A y \in Extensions \ {x} : parts'[y] = parts[y]
      BY <2>2, <3>1 DEF u
    <3>4. {y \in DOMAIN parts' : Present(parts'[y])} = {y \in DOMAIN parts : Present(parts[y])} \cup {x}
      BY <2>2, <3>2, <3>3
    <3>5. Legacy' = Legacy
      BY <2>1 DEF Legacy
    <3> QED
      BY <2>1, <2>2, <2>3, <3>1, <3>3, <3>4, <3>5 DEF Consumption, Accepted
  <2> QED
    BY <1>2, <2>4, <2>5 DEF ReadAuxiliary, Understood
<1>3. CASE Define
  <2>1. /\ stage = "auxiliary" /\ UNCHANGED <<input, parts, paths>> /\ stage' \in {"over", "loaded"}
        /\ (definition' # <<>> => ~HasErrors(report))
    BY <1>3 DEF Define, Keeping, Judge, Rejected, Exits, Consumption
  <2>2. Legacy' = Legacy
    BY <2>1 DEF Legacy
  <2> QED
    BY <2>1, <2>2 DEF Consumption, Accepted
<1>4. CASE ReadDocument
  <2>1. ~Legacy' /\ stage' \in {"over", "loaded"}
    BY <1>4 DEF ReadDocument, Keeping, Judge, Rejected, Exits, Legacy
  <2> QED
    BY <2>1 DEF Consumption
<1>5. ASSUME UNCHANGED <<input, parts, paths, definition>>, stage \notin {"read", "auxiliary"},
             stage' \notin {"read", "auxiliary"}
      PROVE  Consumption'
  <2>1. Legacy' = Legacy
    BY <1>5 DEF Legacy
  <2> QED
    BY <1>5, <2>1 DEF Consumption, Accepted
<1>6. CASE UNCHANGED vars
  <2>1. Legacy' = Legacy
    BY <1>6 DEF Legacy, vars, loadVars
  <2> QED
    BY <1>6, <2>1 DEF Consumption, Accepted, vars, loadVars
<1>7. CASE Validate
  BY <1>5, <1>7 DEF Validate, Exits, loadVars
<1>8. CASE ExportCase
  BY <1>5, <1>8 DEF ExportCase, Exits
<1>9. CASE Run
  BY <1>5, <1>9 DEF Run, loadVars
<1>10. CASE Step
  BY <1>5, <1>10 DEF Step, loadVars
<1>11. CASE Write
  BY <1>5, <1>11 DEF Write, Exits, loadVars
<1>12. CASE Over
  BY <1>6, <1>12 DEF Over
<1> QED
  BY <1>1, <1>2, <1>3, <1>4, <1>6, <1>7, <1>8, <1>9, <1>10, <1>11, <1>12 DEF Next

(* An accepted case was made of the files that were read and of no other,  *)
(* whichever of them it asks for, whatever they say and however reading     *)
(* them ends (cli/src/bellhop.rs; CONTEXT.md, Consumed input).              *)
THEOREM InputsConsumed == Spec => []Consumed
<1>1. Consumption => Consumed
  BY DEF Consumption, Consumed
<1> QED
  BY <1>1, ConsumptionInit, ConsumptionStep, PTL DEF Spec

-----------------------------------------------------------------------------
(* What has been checked.                                                   *)

(* The values of none and of one.                                           *)
LEMMA OptionRange ==
  /\ Range(<<>>) = {}
  /\ \A v : Range(<<v>>) = {v} /\ <<v>>[1] = v
BY DEF Range

(* The list of a finite set has each of its elements once, and no other.    *)
LEMMA SetListed ==
  ASSUME NEW S, IsFiniteSet(S)
  PROVE  Distinct(SetToSeq(S)) /\ Listed(SetToSeq(S)) /\ S = {SetToSeq(S)[i] : i \in 1 .. Len(SetToSeq(S))}
<1> DEFINE n == Cardinality(S)
           f == SetToSeq(S)
<1>1. n \in Nat /\ ExistsBijection(1 .. n, S)
  BY FS_CardinalityType
<1>2. \E g : g \in [1 .. n -> S] /\ IsInjective(g)
  BY <1>1 DEF ExistsBijection, Bijection, Injection
<1>3. f \in [1 .. n -> S] /\ IsInjective(f)
  BY <1>2 DEF SetToSeq
<1> HIDE DEF f
<1>4. f \in Injection(1 .. n, S)
  BY <1>3 DEF Injection
<1>5. IsFiniteSet(1 .. n) /\ Cardinality(1 .. n) = n
  BY <1>1, FS_Interval
<1>6. f \in Surjection(1 .. n, S)
  BY <1>4, <1>5, FS_Injection
<1>7. Listed(f) /\ Len(f) = n
  BY <1>1, <1>3, FunctionListed
<1>8. \A x \in S : \E i \in 1 .. n : f[i] = x
  BY <1>6 DEF Surjection
<1>9. \A i \in 1 .. n : f[i] \in S
  BY <1>3
<1>10. S = {f[i] : i \in 1 .. Len(f)}
  BY <1>7, <1>8, <1>9
<1>11. \A i, j \in 1 .. n : f[i] = f[j] => i = j
  BY <1>3 DEF IsInjective
<1> QED
  BY <1>7, <1>10, <1>11 DEF f, Distinct

(* What is checked without error is a report without error, and no check    *)
(* has found one.                                                          *)
LEMMA Cleared ==
  ASSUME NEW S, IsFiniteSet(S), NEW said, Listed(said), ~HasErrors(said \o SetToSeq(S)),
         NEW holds \in BOOLEAN, NEW what, Unless(holds, what) \subseteq S
  PROVE  holds
<1> SUFFICES ASSUME ~holds PROVE FALSE
  OBVIOUS
<1> DEFINE t == SetToSeq(S)
<1>1. Error(what) \in S /\ Error(what).severity = "error"
  BY DEF Unless, Error, ErrorOf
<1>2. Listed(t) /\ S = {t[i] : i \in 1 .. Len(t)}
  BY SetListed
<1> HIDE DEF t
<1>3. PICK i \in 1 .. Len(t) : t[i] = Error(what)
  BY <1>1, <1>2
<1>4. Listed(said \o t) /\ Len(said \o t) = Len(said) + Len(t) /\ (said \o t)[Len(said) + i] = t[i]
  BY <1>2, Joint
<1>5. Len(said) + i \in DOMAIN (said \o t)
  <2>1. Len(said) \in Nat /\ Len(t) \in Nat
    BY <1>2 DEF Listed
  <2>2. Len(said) + i \in 1 .. Len(said \o t)
    BY <1>4, <2>1
  <2> QED
    BY <1>4, <2>2, ListedType
<1> QED
  BY <1>1, <1>3, <1>4, <1>5 DEF HasErrors, t

(* A check finds nothing, or one thing.                                     *)
LEMMA Few ==
  ASSUME NEW holds, NEW what
  PROVE  IsFiniteSet(Unless(holds, what)) /\ IsFiniteSet(Noting(holds, what))
BY FS_EmptySet, FS_Singleton DEF Unless, Noting

(* One check more.                                                          *)
LEMMA Added ==
  ASSUME NEW S, IsFiniteSet(S), NEW holds, NEW what
  PROVE  IsFiniteSet(S \cup Unless(holds, what)) /\ IsFiniteSet(S \cup Noting(holds, what))
BY Few, FS_Union

(* The checks of two parts.                                                 *)
LEMMA Both ==
  ASSUME NEW S, IsFiniteSet(S), NEW T, IsFiniteSet(T)
  PROVE  IsFiniteSet(S \cup T)
BY FS_Union

(* The optional parts of a definition.                                      *)
Options(d) ==
  /\ Optional(d.soundSpeed) /\ Optional(d.altimetry) /\ Optional(d.bathymetry)
  /\ Optional(d.topReflection) /\ Optional(d.bottomReflection)
  /\ Optional(d.internalReflection) /\ Optional(d.pattern)

(* What the checks find of an environment is finite.                        *)
LEMMA EnvironmentFinite ==
  ASSUME NEW e
  PROVE  IsFiniteSet(ValidateEnvironment(e))
<1>1. IsFiniteSet(UNION {Unless(Present(e[v]), v \o " empty") \cup Unless(AllFinite(e[v]), v \o " finite")
                          : v \in {"sources", "depths", "ranges", "angles"}})
  <2> DEFINE V(v) == Unless(Present(e[v]), v \o " empty") \cup Unless(AllFinite(e[v]), v \o " finite")
  <2>1. \A v : IsFiniteSet(V(v))
    BY Few, Both
  <2> HIDE DEF V
  <2>2. UNION {V(v) : v \in {"sources", "depths", "ranges", "angles"}} =
        ((V("sources") \cup V("depths")) \cup V("ranges")) \cup V("angles")
    OBVIOUS
  <2>3. IsFiniteSet(UNION {V(v) : v \in {"sources", "depths", "ranges", "angles"}})
    <3>1. IsFiniteSet(V("sources") \cup V("depths"))
      BY <2>1, Both
    <3>2. IsFiniteSet((V("sources") \cup V("depths")) \cup V("ranges"))
      BY <2>1, <3>1, Both
    <3> QED
      BY <2>1, <2>2, <3>2, Both
  <2> QED
    BY <2>3 DEF V
<1>2. IsFiniteSet(ValidatePositions(e))
  <2> DEFINE A == Unless(Positive(e.frequency), "frequency")
             B == Unless(Less(e.topDepth, e.bottomDepth), "bottom depth")
             U == UNION {Unless(Present(e[v]), v \o " empty") \cup Unless(AllFinite(e[v]), v \o " finite")
                          : v \in {"sources", "depths", "ranges", "angles"}}
             C == Unless(InColumn(e, e.sources), "source depths")
             D == Unless(InColumn(e, e.depths), "receiver depths")
             E == Unless(Increasing(e.ranges), "receiver ranges")
             F == Unless(e.run.irregular => Len(e.depths) = Len(e.ranges), "irregular")
  <2>1. ValidatePositions(e) = (((((A \cup B) \cup U) \cup C) \cup D) \cup E) \cup F
    BY DEF ValidatePositions
  <2>2. IsFiniteSet(A) /\ IsFiniteSet(B) /\ IsFiniteSet(C) /\ IsFiniteSet(D) /\ IsFiniteSet(E) /\ IsFiniteSet(F)
    BY Few
  <2> HIDE DEF A, B, U, C, D, E, F
  <2>3. IsFiniteSet((((A \cup B) \cup U) \cup C) \cup D)
    BY <1>1, <2>2, Both DEF U
  <2> QED
    BY <2>1, <2>2, <2>3, Both
<1>3. \A b, side : IsFiniteSet(ValidateBoundary(b, side))
  BY Few, Added DEF ValidateBoundary
<1>4. IsFiniteSet(ValidateRunConfiguration(e))
  BY Few, Added DEF ValidateRunConfiguration
<1>5. IsFiniteSet(ValidateVolume(e)) /\ IsFiniteSet(ValidateCoherentBeamCount(e))
  BY Few DEF ValidateVolume, ValidateCoherentBeamCount
<1> DEFINE A == Unless(e.interpolation # "A" => Len(e.points) >= 2, "two points")
           B == Unless(Increasing(Column(e.points, "depth")), "point depths")
           C == Unless(\A p \in Range(e.points) : Finite(p.depth) /\ ValidMaterial(p), "points")
           D == Unless(Range(e.selected) \subseteq DOMAIN e.angles, "selected")
           E == Unless(AtMost(0, e.trace.step), "trace.step")
           F == Unless(Positive(e.trace.depth), "trace.depth")
           G == Unless(Positive(e.trace.range), "trace.range")
           H == Unless(AllFinite(e.cerveny), "trace.cerveny")
           T == ValidateRunConfiguration(e)
           K == ValidateBoundary(e.top, "top") \cup ValidateBoundary(e.bottom, "bottom")
           M == ValidateVolume(e) \cup ValidateCoherentBeamCount(e)
<1>6. ValidateEnvironment(e) =
        (((((((((ValidatePositions(e) \cup A) \cup B) \cup C) \cup D) \cup E) \cup F) \cup G) \cup H) \cup T) \cup (K \cup M)
  BY DEF ValidateEnvironment
<1>7. IsFiniteSet(A) /\ IsFiniteSet(B) /\ IsFiniteSet(C) /\ IsFiniteSet(D) /\ IsFiniteSet(E) /\ IsFiniteSet(F)
      /\ IsFiniteSet(G) /\ IsFiniteSet(H)
  BY Few
<1>8. IsFiniteSet(K) /\ IsFiniteSet(M) /\ IsFiniteSet(T)
  BY <1>3, <1>4, <1>5, Both
<1> HIDE DEF A, B, C, D, E, F, G, H, K, M, T
<1>9. IsFiniteSet(((((ValidatePositions(e) \cup A) \cup B) \cup C) \cup D) \cup E)
  BY <1>2, <1>7, Both
<1>10. IsFiniteSet((((((((ValidatePositions(e) \cup A) \cup B) \cup C) \cup D) \cup E) \cup F) \cup G) \cup H)
  BY <1>7, <1>9, Both
<1>11. IsFiniteSet(K \cup M)
  BY <1>8, Both
<1>12. IsFiniteSet(((((((((ValidatePositions(e) \cup A) \cup B) \cup C) \cup D) \cup E) \cup F) \cup G) \cup H) \cup T)
  BY <1>8, <1>10, Both
<1> QED
  BY <1>6, <1>11, <1>12, Both

(* An option is none or one.                                                *)
LEMMA OneOrNone ==
  ASSUME NEW option, Optional(option)
  PROVE  Range(option) = {} \/ \E v : Range(option) = {v}
BY OptionRange DEF Optional

(* What the checks find of a definition is finite.                          *)
LEMMA DefinitionFinite ==
  ASSUME NEW d, Options(d)
  PROVE  IsFiniteSet(ValidateDefinition(d))
<1> DEFINE e == d.environment
           A == Unless((e.interpolation = "Q") = Present(d.soundSpeed), "matrix presence")
           B == UNION {ValidateRangeDependentSoundSpeed(f, e) : f \in Range(d.soundSpeed)}
           C == Unless(e.altimetry = e.top.shaped, "top markers")
           D == Unless(e.altimetry = Present(d.altimetry), "altimetry presence")
           E == Unless(e.bottom.shaped = Present(d.bathymetry), "bathymetry presence")
           F == UNION {ValidateBoundaryShape(s, "top", TRUE, e.topDepth) : s \in Range(d.altimetry)}
           G == UNION {ValidateBoundaryShape(s, "bottom", FALSE, e.bottomDepth) : s \in Range(d.bathymetry)}
           H == ValidateReflectionPresence(d)
           K == UNION {ValidateReflectionTable(t, "top") : t \in Range(d.topReflection)}
           L == UNION {ValidateReflectionTable(t, "bottom") : t \in Range(d.bottomReflection)}
           M == UNION {ValidateInternalReflection(t, e) : t \in Range(d.internalReflection)}
           P == Unless(e.run.pattern = Present(d.pattern), "pattern presence")
           Q == UNION {ValidateSourceBeamPattern(t) : t \in Range(d.pattern)}
<1>1. ValidateDefinition(d) =
        (((((((((((A \cup B) \cup C) \cup D) \cup E) \cup F) \cup G) \cup H) \cup K) \cup L) \cup M) \cup P) \cup Q
  BY DEF ValidateDefinition, Each
<1>2. \A f, x : IsFiniteSet(ValidateRangeDependentSoundSpeed(f, x))
  BY Few, Both DEF ValidateRangeDependentSoundSpeed
<1>3. \A s, side, isTop, depth : IsFiniteSet(ValidateBoundaryShape(s, side, isTop, depth))
  BY Few, Both DEF ValidateBoundaryShape
<1>4. \A t, side : IsFiniteSet(ValidateReflectionTable(t, side))
  BY Few DEF ValidateReflectionTable
<1>5. \A t, x : IsFiniteSet(ValidateInternalReflection(t, x))
  BY Few, Both DEF ValidateInternalReflection
<1>6. \A t : IsFiniteSet(ValidateSourceBeamPattern(t))
  BY Few DEF ValidateSourceBeamPattern
<1>7. IsFiniteSet(H)
  BY Few, Both DEF ValidateReflectionPresence
<1>8. IsFiniteSet(A) /\ IsFiniteSet(C) /\ IsFiniteSet(D) /\ IsFiniteSet(E) /\ IsFiniteSet(P)
  BY Few
<1>9. IsFiniteSet(B)
  <2>1. CASE Range(d.soundSpeed) = {}
    <3>1. B = {}
      BY <2>1
    <3> QED
      BY <3>1, FS_EmptySet
  <2>2. CASE \E f : Range(d.soundSpeed) = {f}
    <3>1. PICK f : B = ValidateRangeDependentSoundSpeed(f, e)
      BY <2>2
    <3> HIDE DEF B
    <3> QED
      BY <3>1, <1>2
  <2> QED
    BY <2>1, <2>2, OneOrNone DEF Options
<1>10. IsFiniteSet(F)
  <2>1. CASE Range(d.altimetry) = {}
    <3>1. F = {}
      BY <2>1
    <3> QED
      BY <3>1, FS_EmptySet
  <2>2. CASE \E s : Range(d.altimetry) = {s}
    <3>0. PICK s : Range(d.altimetry) = {s}
      BY <2>2
    <3>1. F = ValidateBoundaryShape(s, "top", TRUE, e.topDepth)
      BY <3>0
    <3> HIDE DEF F
    <3> QED
      BY <3>1, <1>3
  <2> QED
    BY <2>1, <2>2, OneOrNone DEF Options
<1>11. IsFiniteSet(G)
  <2>1. CASE Range(d.bathymetry) = {}
    <3>1. G = {}
      BY <2>1
    <3> QED
      BY <3>1, FS_EmptySet
  <2>2. CASE \E s : Range(d.bathymetry) = {s}
    <3>0. PICK s : Range(d.bathymetry) = {s}
      BY <2>2
    <3>1. G = ValidateBoundaryShape(s, "bottom", FALSE, e.bottomDepth)
      BY <3>0
    <3> HIDE DEF G
    <3> QED
      BY <3>1, <1>3
  <2> QED
    BY <2>1, <2>2, OneOrNone DEF Options
<1>12. IsFiniteSet(K)
  <2>1. CASE Range(d.topReflection) = {}
    <3>1. K = {}
      BY <2>1
    <3> QED
      BY <3>1, FS_EmptySet
  <2>2. CASE \E t : Range(d.topReflection) = {t}
    <3>1. PICK t : K = ValidateReflectionTable(t, "top")
      BY <2>2
    <3> HIDE DEF K
    <3> QED
      BY <3>1, <1>4
  <2> QED
    BY <2>1, <2>2, OneOrNone DEF Options
<1>13. IsFiniteSet(L)
  <2>1. CASE Range(d.bottomReflection) = {}
    <3>1. L = {}
      BY <2>1
    <3> QED
      BY <3>1, FS_EmptySet
  <2>2. CASE \E t : Range(d.bottomReflection) = {t}
    <3>1. PICK t : L = ValidateReflectionTable(t, "bottom")
      BY <2>2
    <3> HIDE DEF L
    <3> QED
      BY <3>1, <1>4
  <2> QED
    BY <2>1, <2>2, OneOrNone DEF Options
<1>14. IsFiniteSet(M)
  <2>1. CASE Range(d.internalReflection) = {}
    <3>1. M = {}
      BY <2>1
    <3> QED
      BY <3>1, FS_EmptySet
  <2>2. CASE \E t : Range(d.internalReflection) = {t}
    <3>1. PICK t : M = ValidateInternalReflection(t, e)
      BY <2>2
    <3> HIDE DEF M
    <3> QED
      BY <3>1, <1>5
  <2> QED
    BY <2>1, <2>2, OneOrNone DEF Options
<1>15. IsFiniteSet(Q)
  <2>1. CASE Range(d.pattern) = {}
    <3>1. Q = {}
      BY <2>1
    <3> QED
      BY <3>1, FS_EmptySet
  <2>2. CASE \E t : Range(d.pattern) = {t}
    <3>1. PICK t : Q = ValidateSourceBeamPattern(t)
      BY <2>2
    <3> HIDE DEF Q
    <3> QED
      BY <3>1, <1>6
  <2> QED
    BY <2>1, <2>2, OneOrNone DEF Options
<1> HIDE DEF A, B, C, D, E, F, G, H, K, L, M, P, Q
<1>16. IsFiniteSet(((((A \cup B) \cup C) \cup D) \cup E) \cup F)
  BY <1>8, <1>9, <1>10, Both
<1>17. IsFiniteSet((((((((A \cup B) \cup C) \cup D) \cup E) \cup F) \cup G) \cup H) \cup K)
  BY <1>7, <1>11, <1>12, <1>16, Both
<1>18. IsFiniteSet(((((((((((A \cup B) \cup C) \cup D) \cup E) \cup F) \cup G) \cup H) \cup K) \cup L) \cup M) \cup P)
  BY <1>8, <1>13, <1>14, <1>17, Both
<1> QED
  BY <1>1, <1>15, <1>18, Both

(* What passes both checks has all that the solver takes from it.           *)
LEMMA CheckedSufficient ==
  ASSUME NEW d, Options(d), NEW said, Listed(said), ~HasErrors(Checked(d, said))
  PROVE  Sufficient(d)
<1> DEFINE e == d.environment
           j == Job(d)
           S == ValidateEnvironment(e) \cup ValidateDefinition(d)
<1>1. IsFiniteSet(S)
  BY EnvironmentFinite, DefinitionFinite, Both
<1>2. ~HasErrors(said \o SetToSeq(S))
  BY DEF Checked
<1>3. ASSUME NEW holds \in BOOLEAN, NEW what, Unless(holds, what) \subseteq S
      PROVE  holds
  <2> HIDE DEF S
  <2> QED
    BY <1>1, <1>2, <1>3, Cleared
<1>4. ValidatePositions(e) \subseteq S /\ ValidateRunConfiguration(e) \subseteq S /\ ValidateReflectionPresence(d) \subseteq S
  BY DEF ValidateEnvironment, ValidateDefinition
<1>5. ASSUME NEW v \in {"sources", "depths", "ranges", "angles"} PROVE Present(e[v])
  <2>1. Unless(Present(e[v]), v \o " empty") \subseteq S
    <3>1. Unless(Present(e[v]), v \o " empty") \subseteq ValidatePositions(e)
      <4> DEFINE V(x) == Unless(Present(e[x]), x \o " empty") \cup Unless(AllFinite(e[x]), x \o " finite")
      <4>1. UNION {V(x) : x \in {"sources", "depths", "ranges", "angles"}} \subseteq ValidatePositions(e)
        BY DEF ValidatePositions
      <4>2. V(v) \subseteq UNION {V(x) : x \in {"sources", "depths", "ranges", "angles"}}
        <5> HIDE DEF V
        <5> QED
          OBVIOUS
      <4> QED
        BY <4>1, <4>2
    <3> QED
      BY <3>1, <1>4
  <2> HIDE DEF S
  <2> QED
    BY <2>1, <1>3 DEF Present
<1>6. e.run.irregular => Len(e.depths) = Len(e.ranges)
  <2>1. Unless(e.run.irregular => Len(e.depths) = Len(e.ranges), "irregular") \subseteq ValidatePositions(e)
    BY DEF ValidatePositions
  <2> HIDE DEF S
  <2> QED
    BY <2>1, <1>3, <1>4
<1>7. e.interpolation # "A" => Len(e.points) >= 2
  <2>1. Unless(e.interpolation # "A" => Len(e.points) >= 2, "two points") \subseteq S
    BY DEF ValidateEnvironment
  <2> HIDE DEF S
  <2> QED
    BY <2>1, <1>3
<1>8. (e.run.kind = "R") = (e.run.family = "none")
  <2>1. Unless((e.run.kind = "R") = (e.run.family = "none"), "run.family") \subseteq ValidateRunConfiguration(e)
    BY DEF ValidateRunConfiguration
  <2> HIDE DEF S
  <2> QED
    BY <2>1, <1>3, <1>4
<1>9. (e.run.family \in Cerveny) = Present(e.cerveny)
  <2>1. Unless((e.run.family \in Cerveny) = Present(e.cerveny), "trace.cerveny presence") \subseteq ValidateRunConfiguration(e)
    BY DEF ValidateRunConfiguration
  <2> HIDE DEF S
  <2> QED
    BY <2>1, <1>3, <1>4
<1>10. (e.interpolation = "Q") = Present(d.soundSpeed)
  <2>1. Unless((e.interpolation = "Q") = Present(d.soundSpeed), "matrix presence") \subseteq S
    BY DEF ValidateDefinition
  <2> HIDE DEF S
  <2> QED
    BY <2>1, <1>3
<1>11. ASSUME NEW f \in Range(d.soundSpeed) PROVE Matches(f)
  <2>1. ValidateRangeDependentSoundSpeed(f, e) \subseteq S
    <3>1. UNION {ValidateRangeDependentSoundSpeed(g, e) : g \in Range(d.soundSpeed)} \subseteq ValidateDefinition(d)
      BY DEF ValidateDefinition, Each
    <3>2. ValidateDefinition(d) \subseteq S
      OBVIOUS
    <3> HIDE DEF S
    <3> QED
      BY <1>11, <3>1, <3>2
  <2>2. Unless(Len(f.ranges) >= 2 /\ Len(f.depths) >= 2, "matrix size") \subseteq S
    BY <2>1 DEF ValidateRangeDependentSoundSpeed
  <2>3. Unless(Len(f.speeds) = Len(f.depths) /\ \A row \in Range(f.speeds) : Len(row) = Len(f.ranges),
               "matrix dimensions") \subseteq S
    BY <2>1 DEF ValidateRangeDependentSoundSpeed
  <2> HIDE DEF S
  <2>4. Len(f.ranges) >= 2 /\ Len(f.depths) >= 2
    BY <2>2, <1>3
  <2>5. Len(f.speeds) = Len(f.depths) /\ \A row \in Range(f.speeds) : Len(row) = Len(f.ranges)
    BY <2>3, <1>3
  <2> QED
    BY <2>4, <2>5 DEF Matches
<1>12. Present(d.soundSpeed) => d.soundSpeed[1] \in Range(d.soundSpeed)
  BY OptionRange DEF Options, Optional, Present
<1>13. /\ (e.top.condition = "F") = Present(d.topReflection)
       /\ (e.bottom.condition = "F") = Present(d.bottomReflection)
       /\ (e.bottom.condition = "P") = Present(d.internalReflection)
  <2>1. /\ Unless((e.top.condition = "F") = Present(d.topReflection), "top table") \subseteq ValidateReflectionPresence(d)
        /\ Unless((e.bottom.condition = "F") = Present(d.bottomReflection), "bottom table") \subseteq ValidateReflectionPresence(d)
        /\ Unless((e.bottom.condition = "P") = Present(d.internalReflection), "internal table") \subseteq ValidateReflectionPresence(d)
    BY DEF ValidateReflectionPresence
  <2> HIDE DEF S
  <2>2. (e.top.condition = "F") = Present(d.topReflection)
    BY <2>1, <1>3, <1>4
  <2>3. (e.bottom.condition = "F") = Present(d.bottomReflection)
    BY <2>1, <1>3, <1>4
  <2>4. (e.bottom.condition = "P") = Present(d.internalReflection)
    BY <2>1, <1>3, <1>4
  <2> QED
    BY <2>2, <2>3, <2>4
<1>14. ASSUME NEW t \in Range(d.topReflection) \cup Range(d.bottomReflection)
                      \cup Range(d.internalReflection) \cup Range(d.pattern)
       PROVE  Len(t.points) >= 2
  <2> DEFINE rest(table) ==
               \A p \in Range(table.points) : Finite(p.angle) /\ AtMost(0, p.magnitude) /\ Finite(p.phase)
  <2>1. CASE t \in Range(d.topReflection) \cup Range(d.bottomReflection)
    <3>0. /\ UNION {ValidateReflectionTable(x, "top") : x \in Range(d.topReflection)} \subseteq S
          /\ UNION {ValidateReflectionTable(x, "bottom") : x \in Range(d.bottomReflection)} \subseteq S
      BY DEF ValidateDefinition, Each
    <3>1. ValidateReflectionTable(t, "top") \subseteq S \/ ValidateReflectionTable(t, "bottom") \subseteq S
      <4> HIDE DEF S
      <4> QED
        BY <2>1, <3>0
    <3>2. PICK side : ValidateReflectionTable(t, side) \subseteq S
      BY <3>1
    <3>3. Unless(Len(t.points) >= 2 /\ Increasing(Column(t.points, "angle")) /\ rest(t), side \o " reflection") \subseteq S
      BY <3>2 DEF ValidateReflectionTable
    <3> HIDE DEF S, rest
    <3>4. Len(t.points) >= 2 /\ Increasing(Column(t.points, "angle")) /\ rest(t)
      BY <3>3, <1>3
    <3> QED
      BY <3>4
  <2>2. CASE t \in Range(d.internalReflection)
    <3>0. UNION {ValidateInternalReflection(x, e) : x \in Range(d.internalReflection)} \subseteq S
      BY DEF ValidateDefinition, Each
    <3>1. ValidateInternalReflection(t, e) \subseteq S
      <4> HIDE DEF S, e
      <4> QED
        BY <2>2, <3>0
    <3> DEFINE good == /\ Positive(t.frequency)
                       /\ Len(t.points) >= 2 /\ Increasing(Column(t.points, "wavenumber"))
                       /\ \A p \in Range(t.points) : AtMost(0, p.wavenumber) /\ Finite(p.f)
    <3>2. Unless(good, "internal") \subseteq S
      BY <3>1 DEF ValidateInternalReflection
    <3>3. good
      <4> HIDE DEF S, good
      <4>1. good \in BOOLEAN
        BY DEF good
      <4> QED
        BY <3>2, <4>1, <1>3
    <3> QED
      BY <3>3
  <2>3. CASE t \in Range(d.pattern)
    <3>1. ValidateSourceBeamPattern(t) \subseteq S
      BY <2>3 DEF ValidateDefinition, Each
    <3> DEFINE good == /\ Len(t.points) >= 2 /\ Increasing(Column(t.points, "angle"))
                       /\ \A p \in Range(t.points) : Finite(p.angle) /\ Less(p.level, LoudLevel)
    <3>2. Unless(good, "pattern") \subseteq S
      BY <3>1 DEF ValidateSourceBeamPattern
    <3>3. good
      <4> HIDE DEF S, good
      <4>1. good \in BOOLEAN
        BY DEF good
      <4> QED
        BY <3>2, <4>1, <1>3
    <3> QED
      BY <3>3
  <2> QED
    BY <1>14, <2>1, <2>2, <2>3
<1>15. ASSUME NEW s, NEW side, NEW isTop, NEW depth, ValidateBoundaryShape(s, side, isTop, depth) \subseteq S
       PROVE  Present(s.points)
  <2> DEFINE good == /\ Present(s.points) /\ Increasing(Column(s.points, "range"))
                     /\ \A p \in Range(s.points) :
                          /\ Finite(p.range) /\ Finite(p.depth)
                          /\ IF isTop THEN ~Less(p.depth, depth) ELSE ~Less(depth, p.depth)
  <2>1. Unless(good, side \o " shape") \subseteq S
    BY <1>15 DEF ValidateBoundaryShape
  <2>2. good
    <3> HIDE DEF S, good
    <3>1. good \in BOOLEAN
      BY DEF good
    <3> QED
      BY <2>1, <3>1, <1>3
  <2> QED
    BY <2>2
<1>16. \A s \in Range(d.altimetry) \cup Range(d.bathymetry) : Present(s.points)
  <2>1. \A s \in Range(d.altimetry) : ValidateBoundaryShape(s, "top", TRUE, e.topDepth) \subseteq S
    <3>1. UNION {ValidateBoundaryShape(s, "top", TRUE, e.topDepth) : s \in Range(d.altimetry)}
            \subseteq ValidateDefinition(d)
      BY DEF ValidateDefinition, Each
    <3>2. ValidateDefinition(d) \subseteq S
      OBVIOUS
    <3> HIDE DEF S
    <3> QED
      BY <3>1, <3>2
  <2>2. \A s \in Range(d.bathymetry) : ValidateBoundaryShape(s, "bottom", FALSE, e.bottomDepth) \subseteq S
    <3>1. UNION {ValidateBoundaryShape(s, "bottom", FALSE, e.bottomDepth) : s \in Range(d.bathymetry)}
            \subseteq ValidateDefinition(d)
      BY DEF ValidateDefinition, Each
    <3>2. ValidateDefinition(d) \subseteq S
      OBVIOUS
    <3> HIDE DEF S
    <3> QED
      BY <3>1, <3>2
  <2> HIDE DEF S, e
  <2> QED
    BY <2>1, <2>2, <1>15
<1>17. /\ j.kind = e.run.kind /\ j.family = e.run.family /\ j.sources = e.sources /\ j.depths = e.depths
       /\ j.ranges = e.ranges /\ j.irregular = e.run.irregular
       /\ j.angles = IF Present(e.selected) THEN <<e.angles[e.selected[1]]>> ELSE e.angles
  BY DEF Job
<1>18. Present(j.angles) /\ Present(j.sources) /\ Present(j.ranges) /\ Present(j.depths)
  <2>1. Present(e["sources"]) /\ Present(e["depths"]) /\ Present(e["ranges"]) /\ Present(e["angles"])
    BY <1>5
  <2>2. \A v : Present(<<v>>)
    BY DEF Present
  <2> HIDE DEF S, j, e
  <2> QED
    BY <1>17, <2>1, <2>2
<1>19. e.run.family = "gaussianCentered" => ~Supported(j)
  BY <1>8, <1>17 DEF Supported
<1> HIDE DEF S, e, j
<1>20. d.environment = e /\ Job(d) = j
  BY DEF e, j
<1> QED
  BY <1>6, <1>7, <1>9, <1>10, <1>11, <1>12, <1>13, <1>14, <1>16, <1>17, <1>18, <1>19, <1>20 DEF Sufficient

(* What was understood is there or not, and what is accepted is checked.    *)
Soundness ==
  /\ \E r \in Requests : input = r.input
  /\ DOMAIN parts = Extensions /\ \A x \in Extensions : Optional(parts[x])
  /\ stage = "auxiliary" => Listed(report)
  /\ definition = <<>> \/ \E d : definition = <<d>> /\ Sufficient(d)

(* At first nothing is accepted.                                            *)
LEMMA SoundnessInit == Init => Soundness
<1>1. DOMAIN Nothing = Extensions /\ \A x \in Extensions : Nothing[x] = <<>>
  BY DEF Extensions, Nothing
<1> QED
  BY <1>1 DEF Init, Soundness, Optional

(* What is accepted has passed the checks.                                  *)
LEMMA Judged ==
  ASSUME NEW d, Options(d), NEW said, Listed(said), Judge(d, Checked(d, said))
  PROVE  definition' = definition \/ \E x : definition' = <<x>> /\ Sufficient(x)
BY CheckedSufficient DEF Judge, Rejected

(* What is not malformed is read as it is.                                  *)
LEMMA DecodedSame ==
  ASSUME NEW x, Decoded(x) # Malformed
  PROVE  Decoded(x) = x /\ x # Malformed
BY DEF Decoded

(* A document that is understood has its optional parts or not.             *)
LEMMA DocumentOptions ==
  ASSUME NEW r \in Requests, "document" \in DOMAIN r.input, r.input.document # <<>>,
         r.input.document[1] # Malformed
  PROVE  Options(IntoCase(r.input.document[1]))
<1> DEFINE doc == r.input.document[1]
<1>1. doc \in Range(r.input.document)
  <2>1. Optional(r.input.document)
    BY RequestsAssumption
  <2>2. r.input.document = <<doc>>
    BY <2>1 DEF Optional
  <2> QED
    BY <2>2, OptionRange
<1>2. \A part \in {doc.rangeDependent, doc.top.shape, doc.bottom.shape,
                   doc.top.table, doc.bottom.table, doc.pattern} : Optional(part)
  BY <1>1, RequestsAssumption
<1>3. Optional(<<>>)
  BY DEF Optional
<1> HIDE DEF doc
<1>4. Options(IntoCase(doc))
  BY <1>2, <1>3 DEF Options, IntoCase, ImportBoundary
<1> QED
  BY <1>4 DEF doc

(* Every step accepts only what has passed the checks.                      *)
LEMMA SoundnessStep == Consumption /\ Soundness /\ [Next]_vars => Soundness'
<1> SUFFICES ASSUME Consumption, Soundness, [Next]_vars PROVE Soundness'
  OBVIOUS
<1>1. CASE ReadEnvironment
  <2>1. UNCHANGED <<input, parts>> /\ definition' = definition
    BY <1>1 DEF ReadEnvironment, Keeping, Rejected
  <2>2. stage' = "auxiliary" => Listed(report')
    <3>1. stage' = "auxiliary" => \E r \in {ParseEnvironment(Lines("env")[1])} : report' = r.report
      BY <1>1 DEF ReadEnvironment, Rejected, Exits
    <3> QED
      BY <3>1, EnvironmentTold
  <2> QED
    BY <2>1, <2>2 DEF Soundness
<1>2. CASE ReadAuxiliary
  <2> DEFINE x == Head(pending)
  <2>1. stage = "auxiliary" /\ UNCHANGED <<input, definition>> /\ pending # <<>>
    BY <1>2 DEF ReadAuxiliary, Keeping
  <2>2. x \in Extensions /\ Listed(report)
    BY <2>1 DEF Consumption
  <2>3. CASE \E part, what : report' = Append(report, ErrorOf(part, what)) /\ parts' = parts
    <3>1. Listed(report')
      BY <2>2, <2>3, ErrorNoted
    <3> QED
      BY <2>1, <2>3, <3>1 DEF Soundness
  <2>4. CASE \E r : report' = report /\ parts' = [parts EXCEPT ![x] = <<Understanding(r)>>]
    <3>1. PICK r : report' = report /\ parts' = [parts EXCEPT ![x] = <<Understanding(r)>>]
      BY <2>4
    <3> DEFINE u == <<Understanding(r)>>
    <3>2. Optional(u)
      BY DEF Optional
    <3> HIDE DEF u, x
    <3>3. DOMAIN parts' = Extensions /\ parts'[x] = u /\ \A y \in Extensions \ {x} : parts'[y] = parts[y]
      BY <2>2, <3>1 DEF u, Soundness
    <3>4. \A y \in Extensions : Optional(parts'[y])
      BY <3>2, <3>3 DEF Soundness
    <3> QED
      BY <2>1, <2>2, <3>1, <3>3, <3>4 DEF Soundness
  <2> QED
    BY <1>2, <2>3, <2>4 DEF ReadAuxiliary, Understood
<1>3. CASE Define
  <2> DEFINE d == Definition(environment, parts)
  <2>1. stage = "auxiliary" /\ UNCHANGED <<input, parts>> /\ stage' # "auxiliary"
    BY <1>3 DEF Define, Keeping, Judge, Rejected, Exits
  <2>2. Options(d) /\ Listed(report)
    <3>1. {"ssp", "ati", "bty", "brc", "trc", "irc", "sbp"} \subseteq Extensions
      BY DEF Extensions, Nothing
    <3> QED
      BY <2>1, <3>1 DEF Soundness, Options, Definition
  <2>3. definition' = definition \/ Judge(d, Checked(d, report))
    BY <1>3 DEF Define, Rejected
  <2> HIDE DEF d
  <2>4. definition' = definition \/ \E x : definition' = <<x>> /\ Sufficient(x)
    BY <2>2, <2>3, Judged
  <2> QED
    BY <2>1, <2>4 DEF Soundness
<1>4. CASE ReadDocument
  <2>1. UNCHANGED <<input, parts>> /\ stage' # "auxiliary"
    BY <1>4 DEF ReadDocument, Keeping, Judge, Rejected, Exits
  <2>2. CASE definition' = definition
    BY <2>1, <2>2 DEF Soundness
  <2>3. CASE definition' # definition
    <3> DEFINE doc == input.document[1]
               said == IF doc.version = 1 THEN <<>> ELSE <<Error("schema")>>
    <3> DEFINE heard == Decoded(doc)
    <3>6. /\ "files" \notin DOMAIN input /\ input.document # <<>> /\ heard # Malformed
          /\ Judge(IntoCase(heard), LoadDocument(heard))
      BY <1>4, <2>3 DEF ReadDocument, Rejected, Legacy
    <3>7. heard = doc /\ doc # Malformed
      BY <3>6, DecodedSame
    <3> HIDE DEF heard
    <3>1. /\ "files" \notin DOMAIN input /\ input.document # <<>> /\ doc # Malformed
          /\ Judge(IntoCase(doc), Checked(IntoCase(doc), said))
      BY <3>6, <3>7 DEF LoadDocument
    <3>2. PICK r \in Requests : input = r.input
      BY DEF Soundness
    <3>3. Options(IntoCase(doc))
      BY <3>1, <3>2, RequestsAssumption, DocumentOptions
    <3>4. Listed(said)
      BY EmptyListed
    <3> HIDE DEF doc, said
    <3>5. definition' = definition \/ \E x : definition' = <<x>> /\ Sufficient(x)
      BY <3>1, <3>3, <3>4, Judged
    <3> QED
      BY <2>1, <3>5 DEF Soundness
  <2> QED
    BY <2>2, <2>3
<1>5. CASE UNCHANGED <<input, parts, definition>> /\ stage' # "auxiliary"
  BY <1>5 DEF Soundness
<1>6. CASE UNCHANGED vars
  BY <1>6 DEF Soundness, vars, loadVars
<1>7. CASE Validate
  BY <1>5, <1>7 DEF Validate, Exits, loadVars
<1>8. CASE ExportCase
  BY <1>5, <1>8 DEF ExportCase, Exits
<1>9. CASE Run
  BY <1>5, <1>9 DEF Run, loadVars
<1>10. CASE Step
  BY <1>5, <1>10 DEF Step, loadVars
<1>11. CASE Write
  BY <1>5, <1>11 DEF Write, Exits, loadVars
<1>12. CASE Over
  BY <1>6, <1>12 DEF Over
<1> QED
  BY <1>1, <1>2, <1>3, <1>4, <1>6, <1>7, <1>8, <1>9, <1>10, <1>11, <1>12 DEF Next

(* No case is accepted, from files or from a document, without all that the *)
(* solver takes from it unasked (bellhop/src/case.rs, from_definition_with; *)
(* solver/mod.rs).                                                         *)
THEOREM AcceptedUsable == Spec => []Usable
<1>1. Soundness => Usable
  BY DEF Soundness, Usable, Accepted, Case
<1> QED
  BY <1>1, ConsumptionInit, ConsumptionStep, SoundnessInit, SoundnessStep, PTL DEF Spec

-----------------------------------------------------------------------------
(* What is said.                                                            *)

(* What says nothing twice has as many things to say as it is long.         *)
LEMMA DistinctCounted ==
  ASSUME NEW s, Distinct(s)
  PROVE  Len(s) = Cardinality(Range(s))
<1> DEFINE n == Len(s)
           T == Range(s)
<1>1. n \in Nat /\ DOMAIN s = 1 .. n /\ s = [i \in 1 .. n |-> s[i]]
  BY ListedType DEF Distinct, Listed
<1>2. T = {s[i] : i \in 1 .. n}
  BY <1>1 DEF Range
<1>3. \A i, j \in 1 .. n : s[i] = s[j] => i = j
  BY DEF Distinct
<1> HIDE DEF n, T
<1>4. s \in [1 .. n -> T]
  BY <1>1, <1>2
<1>5. s \in Bijection(1 .. n, T)
  <2>1. s \in Injection(1 .. n, T)
    BY <1>3, <1>4 DEF Injection, IsInjective
  <2>2. s \in Surjection(1 .. n, T)
    BY <1>2, <1>4 DEF Surjection
  <2> QED
    BY <2>1, <2>2 DEF Bijection
<1>6. IsFiniteSet(1 .. n) /\ Cardinality(1 .. n) = n
  BY <1>1, FS_Interval
<1>7. Cardinality(T) = Cardinality(1 .. n)
  BY <1>5, <1>6, FS_Bijection DEF ExistsBijection
<1> QED
  BY <1>6, <1>7 DEF n, T

(* The indices of a sequence with something appended, and of one after      *)
(* another.                                                                *)
LEMMA IndexSplit ==
  /\ \A n \in Nat : \A i \in 1 .. n + 1 : i \in 1 .. n \/ i = n + 1
  /\ \A m, n \in Nat : \A i \in 1 .. m + n : i \in 1 .. m \/ \E k \in 1 .. n : i = m + k
<1>1. ASSUME NEW m \in Nat, NEW n \in Nat, NEW i \in 1 .. m + n
      PROVE  i \in 1 .. m \/ \E k \in 1 .. n : i = m + k
  <2>1. i \in 1 .. m \/ (i - m \in 1 .. n /\ i = m + (i - m))
    OBVIOUS
  <2> QED
    BY <2>1
<1> QED
  BY <1>1

(* Something new is said once more.                                         *)
LEMMA DistinctAppended ==
  ASSUME NEW s, Distinct(s), NEW e, e \notin Range(s)
  PROVE  Distinct(Append(s, e)) /\ Range(Append(s, e)) = Range(s) \cup {e}
<1> DEFINE n == Len(s)
           t == Append(s, e)
<1>1. /\ n \in Nat /\ DOMAIN s = 1 .. n
      /\ Listed(t) /\ Len(t) = n + 1 /\ DOMAIN t = 1 .. n + 1
      /\ (\A i \in 1 .. n : t[i] = s[i]) /\ t[n + 1] = e
  BY Appended, ListedType DEF Distinct, Listed
<1>2. /\ \A i \in 1 .. n : s[i] # e
      /\ \A i, j \in 1 .. n : s[i] = s[j] => i = j
  BY <1>1 DEF Range, Distinct
<1>3. Range(s) = {s[i] : i \in 1 .. n} /\ Range(t) = {t[i] : i \in 1 .. n + 1}
  BY <1>1 DEF Range
<1>4. (\A i \in 1 .. n + 1 : i \in 1 .. n \/ i = n + 1) /\ (\A i \in 1 .. n : i \in 1 .. n + 1) /\ n + 1 \in 1 .. n + 1
  BY <1>1, IndexSplit
<1> HIDE DEF n, t
<1>5. \A i, j \in 1 .. n + 1 : t[i] = t[j] => i = j
  BY <1>1, <1>2, <1>4
<1>6. Range(t) = Range(s) \cup {e}
  BY <1>1, <1>3, <1>4
<1> QED
  BY <1>1, <1>5, <1>6 DEF Distinct, t

(* Two that have nothing in common, one after the other.                    *)
LEMMA DistinctJoint ==
  ASSUME NEW s, Distinct(s), NEW t, Distinct(t), Range(s) \cap Range(t) = {}
  PROVE  Distinct(s \o t) /\ Range(s \o t) = Range(s) \cup Range(t)
<1> DEFINE m == Len(s)
           n == Len(t)
           u == s \o t
<1>1. /\ m \in Nat /\ n \in Nat /\ DOMAIN s = 1 .. m /\ DOMAIN t = 1 .. n
      /\ Listed(u) /\ Len(u) = m + n /\ DOMAIN u = 1 .. m + n
      /\ (\A i \in 1 .. m : u[i] = s[i]) /\ (\A i \in 1 .. n : u[m + i] = t[i])
  BY Joint, ListedType DEF Distinct, Listed
<1>2. /\ \A i, j \in 1 .. m : s[i] = s[j] => i = j
      /\ \A i, j \in 1 .. n : t[i] = t[j] => i = j
  BY DEF Distinct
<1>3. Range(s) = {s[i] : i \in 1 .. m} /\ Range(t) = {t[i] : i \in 1 .. n} /\ Range(u) = {u[i] : i \in 1 .. m + n}
  BY <1>1 DEF Range
<1>4. \A i \in 1 .. m, j \in 1 .. n : s[i] # t[j]
  BY <1>3
<1>5. \A i \in 1 .. m + n : i \in 1 .. m \/ \E k \in 1 .. n : i = m + k
  BY <1>1, IndexSplit
<1>6. (\A i \in 1 .. m : i \in 1 .. m + n) /\ (\A k \in 1 .. n : m + k \in 1 .. m + n)
  BY <1>1
<1> HIDE DEF m, n, u
<1>7. ASSUME NEW i \in 1 .. m + n, NEW j \in 1 .. m + n, u[i] = u[j] PROVE i = j
  <2>1. CASE i \in 1 .. m /\ j \in 1 .. m
    BY <1>1, <1>2, <1>7, <2>1
  <2>2. ASSUME NEW k \in 1 .. n, j = m + k, i \in 1 .. m PROVE FALSE
    BY <1>1, <1>4, <1>7, <2>2
  <2>3. ASSUME NEW k \in 1 .. n, i = m + k, j \in 1 .. m PROVE FALSE
    <3>1. u[i] = t[k] /\ u[j] = s[j]
      BY <1>1, <2>3
    <3> QED
      BY <1>4, <1>7, <2>3, <3>1
  <2>4. ASSUME NEW k \in 1 .. n, NEW l \in 1 .. n, i = m + k, j = m + l PROVE i = j
    <3>1. u[m + k] = t[k] /\ u[m + l] = t[l]
      BY <1>1
    <3>2. k = l
      BY <1>2, <1>7, <2>4, <3>1
    <3> QED
      BY <2>4, <3>2
  <2> QED
    BY <1>5, <2>1, <2>2, <2>3, <2>4
<1>8. Range(u) = Range(s) \cup Range(t)
  <2>1. ASSUME NEW i \in 1 .. m + n PROVE u[i] \in Range(s) \cup Range(t)
    BY <1>1, <1>3, <1>5
  <2>2. \A i \in 1 .. m : s[i] \in Range(u)
    BY <1>1, <1>3, <1>6
  <2>3. \A i \in 1 .. n : t[i] \in Range(u)
    <3>1. ASSUME NEW i \in 1 .. n PROVE t[i] \in Range(u)
      <4>1. u[m + i] = t[i] /\ m + i \in 1 .. m + n
        BY <1>1, <1>6
      <4> QED
        BY <1>3, <4>1
    <3> QED
      BY <3>1
  <2> QED
    BY <1>3, <2>1, <2>2, <2>3
<1> QED
  BY <1>1, <1>7, <1>8 DEF Distinct, u

(* What is left when the first is taken.                                    *)
LEMMA DistinctTail ==
  ASSUME NEW S, NEW s \in Seq(S), s # <<>>, Distinct(s)
  PROVE  /\ Head(s) \in Range(s) /\ Tail(s) \in Seq(S) /\ Distinct(Tail(s))
         /\ Range(Tail(s)) = Range(s) \ {Head(s)}
<1> DEFINE n == Len(s)
           t == Tail(s)
<1>1. /\ n \in Nat /\ n >= 1 /\ DOMAIN s = 1 .. n /\ Head(s) = s[1]
      /\ t \in Seq(S) /\ Len(t) = n - 1 /\ DOMAIN t = 1 .. n - 1
      /\ \A i \in 1 .. n - 1 : t[i] = s[i + 1]
  OBVIOUS
<1>2. \A i, j \in 1 .. n : s[i] = s[j] => i = j
  BY DEF Distinct
<1>3. Listed(t)
  BY <1>1, TypeListed
<1>4. Range(s) = {s[i] : i \in 1 .. n} /\ Range(t) = {t[i] : i \in 1 .. n - 1}
  BY <1>1 DEF Range
<1>5. /\ 1 \in 1 .. n
      /\ \A i \in 1 .. n - 1 : i + 1 \in 1 .. n /\ i + 1 # 1
      /\ \A i \in 1 .. n : i = 1 \/ \E k \in 1 .. n - 1 : i = k + 1
  <2>1. 1 \in 1 .. n /\ \A i \in 1 .. n - 1 : i + 1 \in 1 .. n /\ i + 1 # 1
    BY <1>1
  <2>2. ASSUME NEW i \in 1 .. n PROVE i = 1 \/ \E k \in 1 .. n - 1 : i = k + 1
    <3>1. i = 1 \/ (i - 1 \in 1 .. n - 1 /\ i = (i - 1) + 1)
      BY <1>1
    <3> QED
      BY <3>1
  <2> QED
    BY <2>1, <2>2
<1> HIDE DEF n, t
<1>6. ASSUME NEW i \in 1 .. n - 1, NEW j \in 1 .. n - 1, t[i] = t[j] PROVE i = j
  <2>1. i + 1 = j + 1
    BY <1>1, <1>2, <1>5, <1>6
  <2> QED
    BY <2>1
<1>7. \A x \in Range(t) : x \in Range(s) /\ x # s[1]
  <2>1. ASSUME NEW i \in 1 .. n - 1 PROVE t[i] \in Range(s) /\ t[i] # s[1]
    BY <1>1, <1>2, <1>4, <1>5
  <2> QED
    BY <1>4, <2>1
<1>8. \A x \in Range(s) : x # s[1] => x \in Range(t)
  <2>1. ASSUME NEW i \in 1 .. n, s[i] # s[1] PROVE s[i] \in Range(t)
    <3>1. PICK k \in 1 .. n - 1 : i = k + 1
      BY <1>5, <2>1
    <3>2. s[i] = t[k]
      BY <1>1, <3>1
    <3> QED
      BY <1>4, <3>2
  <2> QED
    BY <1>4, <2>1
<1>9. Head(s) \in Range(s)
  BY <1>1, <1>4, <1>5
<1>10. Distinct(t)
  BY <1>1, <1>3, <1>6 DEF Distinct
<1> QED
  BY <1>1, <1>7, <1>8, <1>9, <1>10 DEF t

(* The list of a finite set says each of its elements once.                 *)
LEMMA SetSaid ==
  ASSUME NEW S, IsFiniteSet(S)
  PROVE  Distinct(SetToSeq(S)) /\ Range(SetToSeq(S)) = S
<1>1. Distinct(SetToSeq(S)) /\ S = {SetToSeq(S)[i] : i \in 1 .. Len(SetToSeq(S))}
  BY SetListed
<1>2. DOMAIN SetToSeq(S) = 1 .. Len(SetToSeq(S))
  BY <1>1, ListedType DEF Distinct
<1> QED
  BY <1>1, <1>2 DEF Range

(* Lists of none and of one say nothing twice.                              *)
LEMMA LittleSaid == Distinct(<<>>) /\ \A e : Distinct(<<e>>)
<1>1. Distinct(<<>>)
  BY EmptyListed DEF Distinct
<1>2. ASSUME NEW e PROVE Distinct(<<e>>)
  <2>1. Listed(<<e>>) /\ Len(<<e>>) = 1
    BY EmptyListed
  <2> QED
    BY <2>1 DEF Distinct
<1> QED
  BY <1>1, <1>2

(* One auxiliary file more is asked for, or not.                            *)
LEMMA AskedOnce ==
  ASSUME NEW s, Distinct(s), NEW X, Range(s) \subseteq X, NEW e, NEW x, x \notin X, NEW marked
  PROVE  Distinct(s \o Ask(e, x, marked)) /\ Range(s \o Ask(e, x, marked)) \subseteq X \cup {x}
<1>1. Distinct(Ask(e, x, marked)) /\ Range(Ask(e, x, marked)) \subseteq {x}
  BY LittleSaid, OptionRange DEF Ask
<1>2. Range(s) \cap Range(Ask(e, x, marked)) = {}
  BY <1>1
<1> HIDE DEF Ask
<1> QED
  BY <1>1, <1>2, DistinctJoint

(* No auxiliary file is asked for twice.                                    *)
LEMMA AskedDistinct ==
  ASSUME NEW e
  PROVE  Distinct(Auxiliaries(e))
<1> DEFINE a == Ask(e, "ssp", e.interpolation = "Q")
           b == a \o Ask(e, "ati", e.top.shaped)
           c == b \o Ask(e, "bty", e.bottom.shaped)
           d == c \o Ask(e, "brc", e.bottom.condition = "F")
           f == d \o Ask(e, "trc", e.top.condition = "F")
           g == f \o Ask(e, "irc", e.bottom.condition = "P")
           h == g \o Ask(e, "sbp", e.run.pattern)
           A == {"ssp"}
           B == A \cup {"ati"}
           C == B \cup {"bty"}
           D == C \cup {"brc"}
           F == D \cup {"trc"}
           G == F \cup {"irc"}
<1>1. Auxiliaries(e) = h
  BY DEF Auxiliaries
<1>2. Distinct(a) /\ Range(a) \subseteq A
  BY LittleSaid, OptionRange DEF Ask
<1>3. "ati" \notin A /\ "bty" \notin B /\ "brc" \notin C /\ "trc" \notin D /\ "irc" \notin F /\ "sbp" \notin G
  OBVIOUS
<1>4. Distinct(b) /\ Range(b) \subseteq B
  <2> HIDE DEF a, A
  <2>1. \A x, marked : x \notin A => Distinct(a \o Ask(e, x, marked)) /\ Range(a \o Ask(e, x, marked)) \subseteq A \cup {x}
    BY <1>2, AskedOnce
  <2>2. "ati" \notin A
    BY <1>3
  <2> QED
    BY <2>1, <2>2
<1> HIDE DEF b, B
<1>5. Distinct(c) /\ Range(c) \subseteq C
  <2>1. \A x, marked : x \notin B =>
          Distinct(b \o Ask(e, x, marked)) /\ Range(b \o Ask(e, x, marked)) \subseteq B \cup {x}
    BY <1>4, AskedOnce
  <2>2. "bty" \notin B
    BY <1>3
  <2> QED
    BY <2>1, <2>2
<1> HIDE DEF c, C
<1>6. Distinct(d) /\ Range(d) \subseteq D
  <2>1. \A x, marked : x \notin C =>
          Distinct(c \o Ask(e, x, marked)) /\ Range(c \o Ask(e, x, marked)) \subseteq C \cup {x}
    BY <1>5, AskedOnce
  <2>2. "brc" \notin C
    BY <1>3
  <2> QED
    BY <2>1, <2>2
<1> HIDE DEF d, D
<1>7. Distinct(f) /\ Range(f) \subseteq F
  <2>1. \A x, marked : x \notin D =>
          Distinct(d \o Ask(e, x, marked)) /\ Range(d \o Ask(e, x, marked)) \subseteq D \cup {x}
    BY <1>6, AskedOnce
  <2>2. "trc" \notin D
    BY <1>3
  <2> QED
    BY <2>1, <2>2
<1> HIDE DEF f, F
<1>8. Distinct(g) /\ Range(g) \subseteq G
  <2>1. \A x, marked : x \notin F =>
          Distinct(f \o Ask(e, x, marked)) /\ Range(f \o Ask(e, x, marked)) \subseteq F \cup {x}
    BY <1>7, AskedOnce
  <2>2. "irc" \notin F
    BY <1>3
  <2> QED
    BY <2>1, <2>2
<1> HIDE DEF g, G
<1>9. Distinct(h)
  <2>1. \A x, marked : x \notin G => Distinct(g \o Ask(e, x, marked))
    BY <1>8, AskedOnce
  <2>2. "sbp" \notin G
    BY <1>3
  <2> QED
    BY <2>1, <2>2
<1> QED
  BY <1>1, <1>9

-----------------------------------------------------------------------------
(* What the checks find, and what the parser says, are told apart.          *)
Finding(n) ==
  n.of = "case" /\ (n.severity = "error" \/ n = Warning("beam count") \/ n = Warning("internal frequency"))
Findings(S) == \A n \in S : Finding(n)
ParserWarning(n) == n.of = "case" /\ n.severity = "warning" /\ n.what \in ParserWarnings

(* One check, and the checks of two parts.                                  *)
LEMMA OneFinding ==
  /\ \A holds, what : Findings(Unless(holds, what))
  /\ \A holds : Findings(Noting(holds, "beam count")) /\ Findings(Noting(holds, "internal frequency"))
  /\ \A S, T : Findings(S) /\ Findings(T) => Findings(S \cup T)
<1>1. \A holds, what : Findings(Unless(holds, what))
  <2>1. \A what : Finding(Error(what))
    BY DEF Finding, Error, ErrorOf
  <2> QED
    BY <2>1 DEF Findings, Unless
<1>2. Finding(Warning("beam count")) /\ Finding(Warning("internal frequency"))
  BY DEF Finding, Warning
<1>3. \A holds : Findings(Noting(holds, "beam count")) /\ Findings(Noting(holds, "internal frequency"))
  BY <1>2 DEF Findings, Noting
<1> QED
  BY <1>1, <1>3 DEF Findings

(* All that the checks find of an environment.                              *)
LEMMA EnvironmentFindings ==
  ASSUME NEW e
  PROVE  Findings(ValidateEnvironment(e))
<1> DEFINE V(v) == Unless(Present(e[v]), v \o " empty") \cup Unless(AllFinite(e[v]), v \o " finite")
           U == UNION {V(v) : v \in {"sources", "depths", "ranges", "angles"}}
<1>1. Findings(U)
  <2>1. \A v : Findings(V(v))
    BY OneFinding
  <2> HIDE DEF V
  <2> QED
    BY <2>1 DEF Findings
<1>2. Findings(ValidatePositions(e))
  <2> DEFINE A == Unless(Positive(e.frequency), "frequency")
             B == Unless(Less(e.topDepth, e.bottomDepth), "bottom depth")
             C == Unless(InColumn(e, e.sources), "source depths")
             D == Unless(InColumn(e, e.depths), "receiver depths")
             E == Unless(Increasing(e.ranges), "receiver ranges")
             F == Unless(e.run.irregular => Len(e.depths) = Len(e.ranges), "irregular")
             G == ((A \cup B) \cup U) \cup C
  <2>1. ValidatePositions(e) = ((G \cup D) \cup E) \cup F
    BY DEF ValidatePositions
  <2>2. Findings(A) /\ Findings(B) /\ Findings(C) /\ Findings(D) /\ Findings(E) /\ Findings(F)
    <3> HIDE DEF U
    <3> QED
      BY OneFinding
  <2> HIDE DEF U, A, B, C, D, E, F
  <2>3. Findings(G)
    BY <1>1, <2>2, OneFinding
  <2> HIDE DEF G
  <2> QED
    BY <2>1, <2>2, <2>3, OneFinding
<1>3. Findings(ValidateRunConfiguration(e))
  BY OneFinding DEF ValidateRunConfiguration
<1>4. \A b, side : Findings(ValidateBoundary(b, side))
  BY OneFinding DEF ValidateBoundary
<1>5. Findings(ValidateVolume(e)) /\ Findings(ValidateCoherentBeamCount(e))
  BY OneFinding DEF ValidateVolume, ValidateCoherentBeamCount
<1> DEFINE A == Unless(e.interpolation # "A" => Len(e.points) >= 2, "two points")
           B == Unless(Increasing(Column(e.points, "depth")), "point depths")
           C == Unless(\A p \in Range(e.points) : Finite(p.depth) /\ ValidMaterial(p), "points")
           D == Unless(Range(e.selected) \subseteq DOMAIN e.angles, "selected")
           E == Unless(AtMost(0, e.trace.step), "trace.step")
           F == Unless(Positive(e.trace.depth), "trace.depth")
           G == Unless(Positive(e.trace.range), "trace.range")
           H == Unless(AllFinite(e.cerveny), "trace.cerveny")
           P == ValidatePositions(e)
           R == ValidateRunConfiguration(e)
           T == ValidateBoundary(e.top, "top")
           M == ValidateBoundary(e.bottom, "bottom")
           N == ValidateVolume(e)
           O == ValidateCoherentBeamCount(e)
           X == (((P \cup A) \cup B) \cup C) \cup D
           Y == (((X \cup E) \cup F) \cup G) \cup H
<1>6. Findings(A) /\ Findings(B) /\ Findings(C) /\ Findings(D)
  BY OneFinding
<1>7. Findings(E) /\ Findings(F) /\ Findings(G) /\ Findings(H)
  BY OneFinding
<1>8. Findings(P) /\ Findings(R) /\ Findings(T) /\ Findings(M) /\ Findings(N) /\ Findings(O)
  BY <1>2, <1>3, <1>4, <1>5
<1>9. ValidateEnvironment(e) = ((((Y \cup R) \cup T) \cup M) \cup N) \cup O
  BY DEF ValidateEnvironment
<1> HIDE DEF A, B, C, D, E, F, G, H, P, R, T, M, N, O
<1>10. Findings(X)
  BY <1>6, <1>8, OneFinding
<1> HIDE DEF X
<1>11. Findings(Y)
  BY <1>7, <1>10, OneFinding
<1> HIDE DEF Y
<1> QED
  BY <1>8, <1>9, <1>11, OneFinding

(* And of a definition.                                                     *)
LEMMA DefinitionFindings ==
  ASSUME NEW d
  PROVE  Findings(ValidateDefinition(d))
<1> DEFINE e == d.environment
           A == Unless((e.interpolation = "Q") = Present(d.soundSpeed), "matrix presence")
           B == UNION {ValidateRangeDependentSoundSpeed(f, e) : f \in Range(d.soundSpeed)}
           C == Unless(e.altimetry = e.top.shaped, "top markers")
           D == Unless(e.altimetry = Present(d.altimetry), "altimetry presence")
           E == Unless(e.bottom.shaped = Present(d.bathymetry), "bathymetry presence")
           F == UNION {ValidateBoundaryShape(s, "top", TRUE, e.topDepth) : s \in Range(d.altimetry)}
           G == UNION {ValidateBoundaryShape(s, "bottom", FALSE, e.bottomDepth) : s \in Range(d.bathymetry)}
           H == ValidateReflectionPresence(d)
           K == UNION {ValidateReflectionTable(t, "top") : t \in Range(d.topReflection)}
           L == UNION {ValidateReflectionTable(t, "bottom") : t \in Range(d.bottomReflection)}
           M == UNION {ValidateInternalReflection(t, e) : t \in Range(d.internalReflection)}
           P == Unless(e.run.pattern = Present(d.pattern), "pattern presence")
           Q == UNION {ValidateSourceBeamPattern(t) : t \in Range(d.pattern)}
<1>1. ValidateDefinition(d) =
        (((((((((((A \cup B) \cup C) \cup D) \cup E) \cup F) \cup G) \cup H) \cup K) \cup L) \cup M) \cup P) \cup Q
  BY DEF ValidateDefinition, Each
<1>2. Findings(A) /\ Findings(C) /\ Findings(D) /\ Findings(E) /\ Findings(P)
  BY OneFinding
<1>3. Findings(B)
  <2>1. \A f, x : Findings(ValidateRangeDependentSoundSpeed(f, x))
    BY OneFinding DEF ValidateRangeDependentSoundSpeed
  <2> QED
    BY <2>1 DEF Findings
<1>4. Findings(F) /\ Findings(G)
  <2>1. \A s, side, depth : /\ Findings(ValidateBoundaryShape(s, side, TRUE, depth))
                             /\ Findings(ValidateBoundaryShape(s, side, FALSE, depth))
    BY OneFinding DEF ValidateBoundaryShape
  <2>2. \A s \in Range(d.altimetry) : Findings(ValidateBoundaryShape(s, "top", TRUE, e.topDepth))
    BY <2>1
  <2>3. \A s \in Range(d.bathymetry) : Findings(ValidateBoundaryShape(s, "bottom", FALSE, e.bottomDepth))
    BY <2>1
  <2>4. Findings(F)
    BY <2>2 DEF Findings
  <2>5. Findings(G)
    BY <2>3 DEF Findings
  <2> QED
    BY <2>4, <2>5
<1>5. Findings(H)
  BY OneFinding DEF ValidateReflectionPresence
<1>6. Findings(K) /\ Findings(L)
  <2>1. \A t, side : Findings(ValidateReflectionTable(t, side))
    BY OneFinding DEF ValidateReflectionTable
  <2> QED
    BY <2>1 DEF Findings
<1>7. Findings(M)
  <2>1. \A t, x : Findings(ValidateInternalReflection(t, x))
    BY OneFinding DEF ValidateInternalReflection
  <2> QED
    BY <2>1 DEF Findings
<1>8. Findings(Q)
  <2>1. \A t : Findings(ValidateSourceBeamPattern(t))
    BY OneFinding DEF ValidateSourceBeamPattern
  <2> QED
    BY <2>1 DEF Findings
<1> HIDE DEF A, B, C, D, E, F, G, H, K, L, M, P, Q
<1> DEFINE X == ((((A \cup B) \cup C) \cup D) \cup E) \cup F
           Y == ((((X \cup G) \cup H) \cup K) \cup L) \cup M
<1>9. Findings(X)
  BY <1>2, <1>3, <1>4, OneFinding
<1>10. ValidateDefinition(d) = (Y \cup P) \cup Q
  BY <1>1
<1> HIDE DEF X
<1>11. Findings(Y)
  BY <1>4, <1>5, <1>6, <1>7, <1>9, OneFinding
<1> HIDE DEF Y
<1> QED
  BY <1>2, <1>8, <1>10, <1>11, OneFinding

(* No finding is one of the parser's warnings, nor of a file.               *)
LEMMA ToldApart ==
  \A n : Finding(n) => /\ ~ParserWarning(n) /\ n # Unwritable
                       /\ \A x \in Extensions : \A what : n # ErrorOf(x, what)
<1>1. \A what : Warning(what).what = what /\ Warning(what).severity = "warning"
  BY DEF Warning
<1>2. \A part, what : ErrorOf(part, what).of = part
  BY DEF ErrorOf
<1>3. "case" \notin Extensions /\ "beam count" \notin ParserWarnings /\ "internal frequency" \notin ParserWarnings
  BY DEF Extensions, Nothing, ParserWarnings
<1>4. Unwritable.of # "case"
  BY <1>2 DEF Unwritable
<1> SUFFICES ASSUME NEW n, Finding(n)
             PROVE  ~ParserWarning(n) /\ n # Unwritable /\ \A x \in Extensions : \A what : n # ErrorOf(x, what)
  OBVIOUS
<1>5. n.of = "case" /\ (n.severity = "error" \/ n = Warning("beam count") \/ n = Warning("internal frequency"))
  BY DEF Finding
<1>6. ~ParserWarning(n)
  <2>1. CASE n.severity = "error"
    BY <2>1 DEF ParserWarning
  <2>2. CASE n.what \notin ParserWarnings
    BY <2>2 DEF ParserWarning
  <2> QED
    BY <1>1, <1>3, <1>5, <2>1, <2>2
<1>7. n # Unwritable
  BY <1>4, <1>5
<1>8. \A x \in Extensions : \A what : n # ErrorOf(x, what)
  BY <1>2, <1>3, <1>5
<1> QED
  BY <1>6, <1>7, <1>8

(* What a reading that succeeds warns of.                                   *)
LEMMA ParserTold ==
  ASSUME NEW r, Reading(r, ParserWarnings), r.ok
  PROVE  Distinct(r.report) /\ \A n \in Range(r.report) : ParserWarning(n)
<1>1. Distinct(r.report) /\ \A i \in 1 .. Len(r.report) : \E name \in ParserWarnings : r.report[i] = Warning(name)
  BY DEF Reading, Warnings
<1>2. \A name \in ParserWarnings : ParserWarning(Warning(name))
  BY DEF ParserWarning, Warning
<1>3. DOMAIN r.report = 1 .. Len(r.report)
  BY <1>1, ListedType DEF Distinct
<1> QED
  BY <1>1, <1>2, <1>3 DEF Range

(* A report has errors or it has warnings alone.                            *)
LEMMA ErrorsOrWarnings ==
  ASSUME NEW s, \A n \in Range(s) : n.severity \in {"error", "warning"}
  PROVE  HasErrors(s) = ~\A n \in Range(s) : n.severity = "warning"
BY DEF HasErrors, Range

-----------------------------------------------------------------------------
(* What is said of the auxiliary files.                                     *)

(* What is wrong with one file, and what is understood of it.               *)
Fault(files, e, x) ==
  IF x \notin DOMAIN files THEN {ErrorOf(x, "read")}
  ELSE IF ParseAuxiliary(x, files[x], e).ok THEN {}
  ELSE {ErrorOf(x, ParseAuxiliary(x, files[x], e).report[1].what)}
Piece(files, e, x) ==
  IF x \in DOMAIN files /\ ParseAuxiliary(x, files[x], e).ok
    THEN <<Understanding(ParseAuxiliary(x, files[x], e))>> ELSE <<>>

Faults(files, e, X) == UNION {Fault(files, e, x) : x \in X}
Pieces(files, e, X) == [x \in Extensions |-> IF x \in X THEN Piece(files, e, x) ELSE <<>>]

(* What has been said at the end.                                           *)
Outcome(files, r, said, accepted) ==
  /\ accepted = \A n \in said : n.severity = "warning"
  /\ said = Range(r.report) \cup
       UNION {ToSay(files, e, Readings(files, e)) : e \in {Understanding(x) : x \in {x \in {r} : x.ok}}}

(* What has been said when the files q are still to be read.                *)
Underway(files, r, e, q, p, s) ==
  /\ r.ok /\ e = Understanding(r) /\ ~HasErrors(Preflight(e))
  /\ q \in Seq(Extensions) /\ Distinct(q) /\ Range(q) \subseteq Range(Auxiliaries(e))
  /\ p = Pieces(files, e, Range(Auxiliaries(e)) \ Range(q))
  /\ Distinct(s) /\ Range(s) = Range(r.report) \cup Faults(files, e, Range(Auxiliaries(e)) \ Range(q))

(* All that is to be said once the environment is accepted.                 *)
LEMMA WhatToSay ==
  ASSUME NEW files, NEW e
  PROVE  LET X == Range(Auxiliaries(e))
             said == ToSay(files, e, Readings(files, e))
         IN  /\ HasErrors(Preflight(e)) => said = ValidateEnvironment(e)
             /\ ~HasErrors(Preflight(e)) /\ Faults(files, e, X) # {} =>
                  said = ValidateEnvironment(e) \cup Faults(files, e, X)
             /\ ~HasErrors(Preflight(e)) /\ Faults(files, e, X) = {} =>
                  said = ValidateEnvironment(e) \cup ValidateDefinition(Definition(e, Pieces(files, e, X)))
<1> DEFINE X == Range(Auxiliaries(e))
           P(x) == ParseAuxiliary(x, files[x], e)
           readings == Readings(files, e)
           missing == X \ DOMAIN files
           wrong == {x \in DOMAIN readings : ~readings[x].ok}
           part(x) == IF x \in DOMAIN readings THEN <<Understanding(readings[x])>> ELSE <<>>
           V == ValidateEnvironment(e)
           F == {ErrorOf(x, "read") : x \in missing} \cup {ErrorOf(x, readings[x].report[1].what) : x \in wrong}
           p == [x \in DOMAIN Nothing |-> part(x)]
           said == ToSay(files, e, readings)
<1>1. said = V \cup (IF HasErrors(Preflight(e)) THEN {} ELSE IF missing \cup wrong # {} THEN F
                     ELSE ValidateDefinition(Definition(e, p)))
  BY DEF ToSay
<1>2. DOMAIN readings = X \cap DOMAIN files /\ \A x \in X \cap DOMAIN files : readings[x] = P(x)
  <2> HIDE DEF P
  <2>1. readings = [x \in X \cap DOMAIN files |-> P(x)]
    BY DEF Readings, P
  <2> HIDE DEF readings, X
  <2> QED
    BY <2>1
<1>3. \A x : Fault(files, e, x) = IF x \notin DOMAIN files THEN {ErrorOf(x, "read")}
                                  ELSE IF P(x).ok THEN {} ELSE {ErrorOf(x, P(x).report[1].what)}
  BY DEF Fault
<1>4. \A x : Piece(files, e, x) = IF x \in DOMAIN files /\ P(x).ok THEN <<Understanding(P(x))>> ELSE <<>>
  BY DEF Piece
<1> HIDE DEF P, readings, X
<1>5. F = Faults(files, e, X)
  <2>1. ASSUME NEW n \in F PROVE n \in Faults(files, e, X)
    BY <1>2, <1>3, <2>1 DEF Faults
  <2>2. ASSUME NEW x \in X PROVE Fault(files, e, x) \subseteq F
    <3>1. CASE x \notin DOMAIN files
      BY <1>3, <3>1
    <3>2. CASE x \in DOMAIN files /\ P(x).ok
      BY <1>3, <3>2
    <3>3. CASE x \in DOMAIN files /\ ~P(x).ok
      <4>1. x \in wrong /\ readings[x] = P(x)
        BY <1>2, <3>3
      <4>2. Fault(files, e, x) = {ErrorOf(x, readings[x].report[1].what)}
        BY <1>3, <3>3, <4>1
      <4> QED
        BY <4>1, <4>2
    <3> QED
      BY <3>1, <3>2, <3>3
  <2> QED
    BY <2>1, <2>2 DEF Faults
<1>6. missing \cup wrong = {} <=> F = {}
  OBVIOUS
<1>7. ASSUME F = {} PROVE p = Pieces(files, e, X)
  <2>1. missing = {} /\ wrong = {}
    BY <1>6, <1>7
  <2>2. ASSUME NEW x \in Extensions PROVE part(x) = IF x \in X THEN Piece(files, e, x) ELSE <<>>
    <3>1. CASE x \in X
      <4>1. x \in DOMAIN files /\ readings[x] = P(x) /\ x \in DOMAIN readings
        BY <1>2, <2>1, <3>1
      <4>2. readings[x].ok
        BY <2>1, <4>1
      <4> QED
        BY <1>4, <3>1, <4>1, <4>2
    <3>2. CASE x \notin X
      BY <1>2, <3>2
    <3> QED
      BY <3>1, <3>2
  <2> HIDE DEF part
  <2> QED
    BY <2>2 DEF Pieces, Extensions
<1> HIDE DEF said, V, F, p, missing, wrong
<1>8. /\ HasErrors(Preflight(e)) => said = V
      /\ ~HasErrors(Preflight(e)) /\ F # {} => said = V \cup F
      /\ ~HasErrors(Preflight(e)) /\ F = {} => said = V \cup ValidateDefinition(Definition(e, p))
  BY <1>1, <1>6
<1> QED
  BY <1>5, <1>7, <1>8 DEF said, V, readings, X

(* What has been said of files that were read.                              *)
LEMMA OutcomeOf ==
  ASSUME NEW files, NEW r, r.ok, NEW e, e = Understanding(r), NEW said,
         said = Range(r.report) \cup ToSay(files, e, Readings(files, e)),
         NEW accepted, accepted = \A n \in said : n.severity = "warning"
  PROVE  Outcome(files, r, said, accepted)
<1>1. {Understanding(x) : x \in {x \in {r} : x.ok}} = {e}
  OBVIOUS
<1> QED
  BY <1>1 DEF Outcome

(* An environment that cannot be parsed is one error.                       *)
LEMMA Unparsed ==
  ASSUME NEW files, NEW r, Reading(r, ParserWarnings), ~r.ok
  PROVE  /\ Distinct(r.report) /\ Unwritable \notin Range(r.report)
         /\ Outcome(files, r, Range(r.report), FALSE)
<1>1. PICK what : r.report = <<Error(what)>>
  BY DEF Reading
<1>2. Range(r.report) = {Error(what)} /\ Distinct(r.report)
  BY <1>1, OptionRange, LittleSaid
<1>3. Error(what) # Unwritable /\ Error(what).severity = "error"
  <2>1. \A part, w : ErrorOf(part, w).of = part /\ ErrorOf(part, w).severity = "error"
    BY DEF ErrorOf
  <2>2. Unwritable.of = "export" /\ Error(what).of = "case" /\ Error(what).severity = "error"
    BY <2>1 DEF Unwritable, Error
  <2> QED
    BY <2>2
<1>4. {Understanding(x) : x \in {x \in {r} : x.ok}} = {}
  OBVIOUS
<1>5. ~\A n \in Range(r.report) : n.severity = "warning"
  BY <1>2, <1>3
<1> QED
  BY <1>2, <1>3, <1>4, <1>5 DEF Outcome

(* Warnings of the parser, and then findings.                               *)
LEMMA SaidThenFound ==
  ASSUME NEW s, Distinct(s), NEW S, IsFiniteSet(S), Findings(S),
         \A n \in Range(s) : ParserWarning(n) \/ \E x \in Extensions : \E what : n = ErrorOf(x, what)
  PROVE  LET t == s \o SetToSeq(S) IN
         /\ Distinct(t) /\ Range(t) = Range(s) \cup S /\ Unwritable \notin Range(t)
         /\ HasErrors(t) = ~\A n \in Range(t) : n.severity = "warning"
<1> DEFINE u == SetToSeq(S)
           t == s \o u
<1>1. Distinct(u) /\ Range(u) = S
  BY SetSaid
<1>2. \A n \in S : Finding(n)
  BY DEF Findings
<1>3. Range(s) \cap Range(u) = {}
  BY <1>1, <1>2, ToldApart
<1> HIDE DEF u
<1>4. Distinct(t) /\ Range(t) = Range(s) \cup S
  BY <1>1, <1>3, DistinctJoint
<1>5. \A part, what : ErrorOf(part, what).of = part /\ ErrorOf(part, what).severity = "error"
  BY DEF ErrorOf
<1>6. \A n : Finding(n) \/ ParserWarning(n) \/ (\E x \in Extensions : \E what : n = ErrorOf(x, what))
               => n.severity \in {"error", "warning"} /\ n # Unwritable
  <2>1. "export" \notin Extensions /\ Unwritable.of = "export"
    BY <1>5 DEF Extensions, Nothing, Unwritable
  <2>2. Warning("beam count").severity = "warning" /\ Warning("internal frequency").severity = "warning"
    BY DEF Warning
  <2>3. ASSUME NEW n, Finding(n) PROVE n.severity \in {"error", "warning"} /\ n # Unwritable
    BY <2>2, <2>3, ToldApart DEF Finding
  <2>4. ASSUME NEW n, ParserWarning(n) PROVE n.severity \in {"error", "warning"} /\ n # Unwritable
    BY <2>1, <2>4 DEF ParserWarning
  <2>5. ASSUME NEW n, NEW x \in Extensions, NEW what, n = ErrorOf(x, what)
        PROVE  n.severity \in {"error", "warning"} /\ n # Unwritable
    BY <1>5, <2>1, <2>5
  <2> QED
    BY <2>3, <2>4, <2>5
<1> HIDE DEF t
<1>7. \A n \in Range(t) : n.severity \in {"error", "warning"} /\ n # Unwritable
  BY <1>2, <1>4, <1>6
<1>8. HasErrors(t) = ~\A n \in Range(t) : n.severity = "warning"
  BY <1>7, ErrorsOrWarnings
<1> QED
  BY <1>4, <1>7, <1>8 DEF t, u

(* An environment whose values are wrong.                                   *)
LEMMA Preflighted ==
  ASSUME NEW files, NEW r, Reading(r, ParserWarnings), r.ok, NEW e, e = Understanding(r), HasErrors(Preflight(e))
  PROVE  LET t == r.report \o Preflight(e) IN
         Distinct(t) /\ Unwritable \notin Range(t) /\ Outcome(files, r, Range(t), FALSE)
<1> DEFINE s == r.report
           S == ValidateEnvironment(e)
           t == s \o SetToSeq(S)
<1>1. Distinct(s) /\ \A n \in Range(s) : ParserWarning(n)
  BY ParserTold
<1>2. IsFiniteSet(S) /\ Findings(S)
  BY EnvironmentFinite, EnvironmentFindings
<1>3. Distinct(SetToSeq(S)) /\ Range(SetToSeq(S)) = S
  BY <1>2, SetSaid
<1>4. HasErrors(SetToSeq(S))
  BY DEF Preflight
<1>5. \E n \in S : n.severity = "error"
  BY <1>3, <1>4 DEF HasErrors, Range
<1>6. ToSay(files, e, Readings(files, e)) = S
  BY WhatToSay
<1> HIDE DEF s, S
<1>7. /\ Distinct(t) /\ Range(t) = Range(s) \cup S /\ Unwritable \notin Range(t)
  BY <1>1, <1>2, SaidThenFound
<1>8. ~\A n \in Range(t) : n.severity = "warning"
  BY <1>5, <1>7
<1> HIDE DEF t
<1>9. Outcome(files, r, Range(t), FALSE)
  BY <1>6, <1>7, <1>8, OutcomeOf DEF s
<1> QED
  BY <1>7, <1>9 DEF t, s, S, Preflight

(* At first all the auxiliary files are still to be read.                   *)
LEMMA Begun ==
  ASSUME NEW files, NEW r, Reading(r, ParserWarnings), r.ok, NEW e, e = Understanding(r), ~HasErrors(Preflight(e))
  PROVE  Underway(files, r, e, Auxiliaries(e), Nothing, r.report)
<1>1. Auxiliaries(e) \in Seq(Extensions) /\ Distinct(Auxiliaries(e)) /\ Distinct(r.report)
  BY AskedFor, AskedDistinct, ParserTold
<1>2. Range(Auxiliaries(e)) \ Range(Auxiliaries(e)) = {}
  OBVIOUS
<1>3. Nothing = Pieces(files, e, {})
  <2>1. Nothing = [x \in Extensions |-> <<>>]
    BY DEF Extensions, Nothing
  <2> QED
    BY <2>1 DEF Pieces
<1>4. Faults(files, e, {}) = {}
  BY DEF Faults
<1> QED
  BY <1>1, <1>2, <1>3, <1>4 DEF Underway

(* Then they are read one by one.                                           *)
LEMMA OneRead ==
  ASSUME NEW files, NEW r, Reading(r, ParserWarnings), NEW e, NEW q, NEW p, NEW s, Underway(files, r, e, q, p, s),
         q # <<>>, NEW t,
         \/ Fault(files, e, Head(q)) = {} /\ t = s
         \/ \E what : Fault(files, e, Head(q)) = {ErrorOf(Head(q), what)} /\ t = Append(s, ErrorOf(Head(q), what))
  PROVE  Underway(files, r, e, Tail(q), [p EXCEPT ![Head(q)] = Piece(files, e, Head(q))], t)
<1> DEFINE x == Head(q)
           A == Range(Auxiliaries(e))
           D == A \ Range(q)
           E == A \ Range(Tail(q))
           v == [p EXCEPT ![x] = Piece(files, e, x)]
<1>1. /\ q \in Seq(Extensions) /\ Distinct(q) /\ Range(q) \subseteq A
      /\ p = Pieces(files, e, D) /\ Distinct(s) /\ Range(s) = Range(r.report) \cup Faults(files, e, D)
      /\ r.ok
  BY DEF Underway
<1>2. /\ x \in Range(q) /\ Tail(q) \in Seq(Extensions) /\ Distinct(Tail(q))
      /\ Range(Tail(q)) = Range(q) \ {x} /\ x \in Extensions
  BY <1>1, DistinctTail
<1>3. E = D \cup {x} /\ x \notin D
  BY <1>1, <1>2
<1>4. v = Pieces(files, e, E)
  <2> HIDE DEF x, D, E, A
  <2>1. p = [y \in Extensions |-> IF y \in D THEN Piece(files, e, y) ELSE <<>>]
    BY <1>1 DEF Pieces
  <2>2. v = [y \in Extensions |-> IF y \in E THEN Piece(files, e, y) ELSE <<>>]
    BY <2>1, <1>2, <1>3
  <2> QED
    BY <2>2 DEF Pieces
<1>5. Faults(files, e, E) = Faults(files, e, D) \cup Fault(files, e, x)
  BY <1>3 DEF Faults
<1>6. \A y, what : y \in D => ErrorOf(x, what) \notin Fault(files, e, y)
  <2>1. \A y, a, b : ErrorOf(x, a) = ErrorOf(y, b) => x = y
    BY DEF ErrorOf
  <2> HIDE DEF x, D
  <2> QED
    BY <1>3, <2>1 DEF Fault
<1>7. \A what : ErrorOf(x, what) \notin Range(s)
  <2>1. \A n \in Range(r.report) : ParserWarning(n)
    BY <1>1, ParserTold
  <2>2. \A what : ~ParserWarning(ErrorOf(x, what))
    BY DEF ParserWarning, ErrorOf
  <2> HIDE DEF x, D
  <2> QED
    BY <1>1, <1>6, <2>1, <2>2 DEF Faults
<1>8. Distinct(t) /\ Range(t) = Range(s) \cup Fault(files, e, x)
  <2>1. CASE Fault(files, e, x) = {} /\ t = s
    BY <1>1, <2>1
  <2>2. ASSUME NEW what, Fault(files, e, x) = {ErrorOf(x, what)}, t = Append(s, ErrorOf(x, what))
        PROVE  Distinct(t) /\ Range(t) = Range(s) \cup Fault(files, e, x)
    <3> DEFINE n == ErrorOf(x, what)
    <3>1. n \notin Range(s)
      BY <1>7
    <3> HIDE DEF n
    <3>2. Distinct(Append(s, n)) /\ Range(Append(s, n)) = Range(s) \cup {n}
      BY <1>1, <3>1, DistinctAppended
    <3> QED
      BY <2>2, <3>2 DEF n
  <2> QED
    BY <2>1, <2>2
<1>9. Range(t) = Range(r.report) \cup Faults(files, e, E)
  BY <1>1, <1>5, <1>8
<1>10. Range(Tail(q)) \subseteq A
  BY <1>1, <1>2
<1> HIDE DEF v
<1> QED
  BY <1>2, <1>4, <1>8, <1>9, <1>10 DEF Underway, v

(* All of them read, and some are wrong.                                    *)
LEMMA FilesFailed ==
  ASSUME NEW files, NEW r, Reading(r, ParserWarnings), NEW e, NEW p, NEW s, Underway(files, r, e, <<>>, p, s),
         HasErrors(s)
  PROVE  LET t == s \o Preflight(e) IN
         Distinct(t) /\ Unwritable \notin Range(t) /\ Outcome(files, r, Range(t), FALSE)
<1> DEFINE S == ValidateEnvironment(e)
           X == Range(Auxiliaries(e))
           F == Faults(files, e, X)
           t == s \o SetToSeq(S)
<1>1. r.ok /\ e = Understanding(r) /\ ~HasErrors(Preflight(e)) /\ Distinct(s) /\ Range(s) = Range(r.report) \cup F
  <2>1. X \ Range(<<>>) = X
    BY OptionRange
  <2> QED
    BY <2>1 DEF Underway
<1>2. \A n \in Range(r.report) : ParserWarning(n)
  BY <1>1, ParserTold
<1>3. \A n \in F : \E x \in Extensions : \E what : n = ErrorOf(x, what)
  <2>1. X \subseteq Extensions
    BY AskedFor DEF Range
  <2> HIDE DEF X
  <2> QED
    BY <2>1 DEF Faults, Fault
<1>4. IsFiniteSet(S) /\ Findings(S)
  BY EnvironmentFinite, EnvironmentFindings
<1>5. \E n \in Range(s) : n.severity = "error"
  BY DEF HasErrors, Range
<1>6. F # {}
  BY <1>1, <1>2, <1>5 DEF ParserWarning
<1>7. ToSay(files, e, Readings(files, e)) = S \cup F
  BY <1>1, <1>6, WhatToSay
<1> HIDE DEF S, F, X
<1>8. Distinct(t) /\ Range(t) = Range(s) \cup S /\ Unwritable \notin Range(t)
  BY <1>1, <1>2, <1>3, <1>4, SaidThenFound
<1>9. ~\A n \in Range(t) : n.severity = "warning"
  BY <1>5, <1>8
<1> HIDE DEF t
<1>10. Range(t) = Range(r.report) \cup ToSay(files, e, Readings(files, e))
  BY <1>1, <1>7, <1>8
<1>11. Outcome(files, r, Range(t), FALSE)
  BY <1>1, <1>9, <1>10, OutcomeOf
<1> QED
  BY <1>8, <1>11 DEF t, S, Preflight

(* All of them understood, and the whole is checked.                        *)
LEMMA WholeChecked ==
  ASSUME NEW files, NEW r, Reading(r, ParserWarnings), NEW e, NEW p, NEW s, Underway(files, r, e, <<>>, p, s),
         ~HasErrors(s), Options(Definition(e, p))
  PROVE  LET t == Checked(Definition(e, p), s) IN
         Distinct(t) /\ Unwritable \notin Range(t) /\ Outcome(files, r, Range(t), ~HasErrors(t))
<1> DEFINE d == Definition(e, p)
           S == ValidateEnvironment(e) \cup ValidateDefinition(d)
           X == Range(Auxiliaries(e))
           F == Faults(files, e, X)
           t == s \o SetToSeq(S)
<1>1. /\ r.ok /\ e = Understanding(r) /\ ~HasErrors(Preflight(e)) /\ Distinct(s) /\ Range(s) = Range(r.report) \cup F
      /\ p = Pieces(files, e, X)
  <2>1. X \ Range(<<>>) = X
    BY OptionRange
  <2> QED
    BY <2>1 DEF Underway
<1>2. \A n \in Range(r.report) : ParserWarning(n)
  BY <1>1, ParserTold
<1>3. IsFiniteSet(S) /\ Findings(S)
  BY EnvironmentFinite, EnvironmentFindings, DefinitionFinite, DefinitionFindings, Both, OneFinding
<1>4. F = {}
  <2>1. \A n \in F : n.severity = "error"
    <3>1. \A part, what : ErrorOf(part, what).severity = "error"
      BY DEF ErrorOf
    <3> HIDE DEF X
    <3> QED
      BY <3>1 DEF Faults, Fault
  <2>2. \A n \in Range(s) : n.severity # "error"
    BY DEF HasErrors, Range
  <2> HIDE DEF F
  <2> QED
    BY <1>1, <2>1, <2>2
<1>5. ToSay(files, e, Readings(files, e)) = S
  BY <1>1, <1>4, WhatToSay
<1>6. Checked(d, s) = t
  BY DEF Checked, Definition
<1> HIDE DEF S, F, X, d
<1>7. /\ Distinct(t) /\ Range(t) = Range(s) \cup S /\ Unwritable \notin Range(t)
      /\ HasErrors(t) = ~\A n \in Range(t) : n.severity = "warning"
  BY <1>1, <1>2, <1>3, <1>4, SaidThenFound
<1> HIDE DEF t
<1>8. Range(t) = Range(r.report) \cup ToSay(files, e, Readings(files, e))
  BY <1>1, <1>4, <1>5, <1>7
<1>9. (~HasErrors(t)) = \A n \in Range(t) : n.severity = "warning"
  BY <1>7
<1>10. Outcome(files, r, Range(t), ~HasErrors(t))
  BY <1>1, <1>8, <1>9, OutcomeOf
<1> QED
  BY <1>6, <1>7, <1>10 DEF d

(* What has been said so far, and what at the end.                          *)
Telling ==
  Legacy /\ "env" \in DOMAIN input.files =>
    /\ stage = "auxiliary" =>
         Underway(input.files, ParseEnvironment(input.files.env), environment, pending, parts, report)
    /\ stage \notin {"read", "auxiliary"} =>
         /\ Distinct(report)
         /\ Outcome(input.files, ParseEnvironment(input.files.env), Range(report) \ {Unwritable}, Accepted)
    /\ stage = "loaded" => Unwritable \notin Range(report)

(* At first nothing is said.                                                *)
LEMMA TellingInit == Init => Telling
BY DEF Init, Telling

(* What has been said at the end is told.                                   *)
LEMMA Told ==
  ASSUME UNCHANGED input, stage' \notin {"read", "auxiliary"}, NEW t, report' = t,
         Distinct(t), Unwritable \notin Range(t), NEW accepted,
         Outcome(input.files, ParseEnvironment(input.files.env), Range(t), accepted), accepted = Accepted'
  PROVE  Telling'
<1>1. Range(t) \ {Unwritable} = Range(t)
  OBVIOUS
<1>2. Outcome(input.files, ParseEnvironment(input.files.env), Range(t) \ {Unwritable}, Accepted')
  BY <1>1 DEF Outcome
<1> QED
  BY <1>2 DEF Telling

(* Every step says what is to be said.                                      *)
LEMMA TellingStep == Consumption /\ Soundness /\ Telling /\ [Next]_vars => Telling'
<1> SUFFICES ASSUME Consumption, Soundness, Telling, [Next]_vars, Legacy', "env" \in DOMAIN input'.files
             PROVE  Telling'
  BY DEF Telling
<1>0. UNCHANGED input
  BY DEF Next, ReadEnvironment, ReadAuxiliary, Define, ReadDocument, Validate, ExportCase, Run, Step, Write, Over,
         Keeping, loadVars, vars
<1>1. Legacy /\ "env" \in DOMAIN input.files
  BY <1>0 DEF Legacy
<1> DEFINE files == input.files
           r == ParseEnvironment(files.env)
<1>2. Reading(r, ParserWarnings)
  BY EnvironmentRead
<1>3. CASE ReadEnvironment
  <2>1. Lines("env") # <<>> /\ Lines("env")[1] = files.env
    BY <1>1 DEF Lines
  <2>2. /\ stage = "read"
        /\ IF ~r.ok THEN Rejected(r.report)
           ELSE \E e \in {Understanding(r)} :
                  IF HasErrors(Preflight(e)) THEN Rejected(r.report \o Preflight(e))
                  ELSE /\ environment' = e /\ pending' = Auxiliaries(e) /\ report' = r.report
                       /\ stage' = "auxiliary"
        /\ UNCHANGED parts
    BY <1>3, <2>1 DEF ReadEnvironment, Keeping
  <2>3. definition = <<>> /\ parts = Nothing
    BY <2>2 DEF Consumption
  <2> DEFINE e == Understanding(r)
  <2> HIDE DEF r, e
  <2>4. \A t : Rejected(t) => report' = t /\ stage' = "over" /\ Accepted' = FALSE
    BY <2>3 DEF Rejected, Exits, Accepted
  <2>5. CASE ~r.ok
    <3>1. Rejected(r.report)
      BY <2>2, <2>5
    <3>2. Distinct(r.report) /\ Unwritable \notin Range(r.report) /\ Outcome(files, r, Range(r.report), FALSE)
      BY <1>2, <2>5, Unparsed
    <3> QED
      BY <1>0, <2>4, <3>1, <3>2, Told DEF r
  <2>6. CASE r.ok /\ HasErrors(Preflight(e))
    <3> DEFINE t == r.report \o Preflight(e)
    <3>1. Rejected(t)
      BY <2>2, <2>6 DEF e
    <3>2. Distinct(t) /\ Unwritable \notin Range(t) /\ Outcome(files, r, Range(t), FALSE)
      BY <1>2, <2>6, Preflighted DEF e
    <3> HIDE DEF t
    <3> QED
      BY <1>0, <2>4, <3>1, <3>2, Told DEF r
  <2>7. CASE r.ok /\ ~HasErrors(Preflight(e))
    <3>1. /\ environment' = e /\ pending' = Auxiliaries(e) /\ report' = r.report /\ stage' = "auxiliary"
          /\ parts' = Nothing
      BY <2>2, <2>3, <2>7 DEF e
    <3>2. Underway(files, r, e, Auxiliaries(e), Nothing, r.report)
      BY <1>2, <2>7, Begun DEF e
    <3>3. Underway(input'.files, ParseEnvironment(input'.files.env), environment', pending', parts', report')
      BY <1>0, <3>1, <3>2 DEF r
    <3> QED
      BY <3>1, <3>3 DEF Telling
  <2> QED
    BY <2>5, <2>6, <2>7
<1>4. CASE ReadAuxiliary
  <2> DEFINE x == Head(pending)
             e == environment
             P == ParseAuxiliary(x, files[x], e)
             v == [parts EXCEPT ![x] = Piece(files, e, x)]
  <2>1. /\ stage = "auxiliary" /\ stage' = "auxiliary" /\ pending # <<>> /\ pending' = Tail(pending)
        /\ environment' = e
    BY <1>4 DEF ReadAuxiliary, Keeping
  <2>2. Underway(files, r, e, pending, parts, report)
    BY <1>1, <2>1 DEF Telling
  <2>3. IF x \notin DOMAIN files THEN report' = Append(report, ErrorOf(x, "read")) /\ UNCHANGED parts
        ELSE Understood(x, P)
    BY <1>4 DEF ReadAuxiliary, Lines
  <2>4. x \in Extensions /\ parts = [y \in Extensions |-> parts[y]] /\ parts[x] = <<>>
    <3>1. x \in Range(pending) /\ x \in Extensions
      BY <2>1, <2>2, DistinctTail DEF Underway
    <3>2. parts = Pieces(files, e, Range(Auxiliaries(e)) \ Range(pending))
      BY <2>2 DEF Underway
    <3> HIDE DEF x
    <3> QED
      BY <3>1, <3>2 DEF Pieces
  <2>5. Fault(files, e, x) = IF x \notin DOMAIN files THEN {ErrorOf(x, "read")}
                             ELSE IF P.ok THEN {} ELSE {ErrorOf(x, P.report[1].what)}
    BY DEF Fault
  <2>6. Piece(files, e, x) = IF x \in DOMAIN files /\ P.ok THEN <<Understanding(P)>> ELSE <<>>
    BY DEF Piece
  <2> HIDE DEF x, P, r
  <2>7. /\ parts' = v
        /\ \/ Fault(files, e, x) = {} /\ report' = report
           \/ \E what : Fault(files, e, x) = {ErrorOf(x, what)} /\ report' = Append(report, ErrorOf(x, what))
    <3>1. Piece(files, e, x) = <<>> => v = parts
      BY <2>4
    <3>2. CASE x \notin DOMAIN files
      BY <2>3, <2>5, <2>6, <3>1, <3>2
    <3>3. CASE x \in DOMAIN files /\ P.ok
      BY <2>3, <2>5, <2>6, <3>3 DEF Understood
    <3>4. CASE x \in DOMAIN files /\ ~P.ok
      <4>1. report' = Append(report, ErrorOf(x, P.report[1].what)) /\ parts' = parts
        BY <2>3, <3>4 DEF Understood
      <4> QED
        BY <2>5, <2>6, <3>1, <3>4, <4>1
    <3> QED
      BY <3>2, <3>3, <3>4
  <2> DEFINE t == report'
  <2> HIDE DEF t
  <2>8. \/ Fault(files, e, Head(pending)) = {} /\ t = report
        \/ \E what : /\ Fault(files, e, Head(pending)) = {ErrorOf(Head(pending), what)}
                     /\ t = Append(report, ErrorOf(Head(pending), what))
    BY <2>7 DEF x, t
  <2> HIDE DEF e
  <2>9. Underway(files, r, e, Tail(pending), [parts EXCEPT ![Head(pending)] = Piece(files, e, Head(pending))], t)
    BY <1>2, <2>1, <2>2, <2>8, OneRead
  <2>10. Underway(input'.files, ParseEnvironment(input'.files.env), environment', pending', parts', report')
    BY <1>0, <2>1, <2>7, <2>9 DEF r, t, x
  <2> QED
    BY <2>1, <2>10 DEF Telling
<1>5. CASE Define
  <2> DEFINE e == environment
             d == Definition(e, parts)
             t == Checked(d, report)
             u == report \o Preflight(e)
  <2>1. stage = "auxiliary" /\ pending = <<>> /\ definition = <<>>
    BY <1>5 DEF Define, Consumption
  <2>2. Underway(files, r, e, <<>>, parts, report)
    BY <1>1, <2>1 DEF Telling
  <2>3. Options(d)
    <3>1. {"ssp", "ati", "bty", "brc", "trc", "irc", "sbp"} \subseteq Extensions
      BY DEF Extensions, Nothing
    <3> QED
      BY <2>1, <3>1 DEF Soundness, Options, Definition
  <2>4. IF HasErrors(report) THEN Rejected(u) ELSE Judge(d, t)
    BY <1>5 DEF Define
  <2>5. \A s : Rejected(s) => report' = s /\ stage' = "over" /\ Accepted' = FALSE
    BY <2>1 DEF Rejected, Exits, Accepted
  <2>6. CASE HasErrors(report)
    <3>1. Distinct(u) /\ Unwritable \notin Range(u) /\ Outcome(files, r, Range(u), FALSE)
      BY <1>2, <2>2, <2>6, FilesFailed
    <3> HIDE DEF u
    <3> QED
      BY <1>0, <2>4, <2>5, <2>6, <3>1, Told
  <2>7. CASE ~HasErrors(report)
    <3>1. Distinct(t) /\ Unwritable \notin Range(t) /\ Outcome(files, r, Range(t), ~HasErrors(t))
      BY <1>2, <2>2, <2>3, <2>7, WholeChecked
    <3>2. Judge(d, t)
      BY <2>4, <2>7
    <3> HIDE DEF t, d
    <3>3. CASE HasErrors(t)
      <4>1. Rejected(t)
        BY <3>2, <3>3 DEF Judge
      <4>2. Outcome(files, r, Range(t), FALSE)
        BY <3>1, <3>3 DEF Outcome
      <4> QED
        BY <1>0, <2>5, <3>1, <4>1, <4>2, Told
    <3>4. CASE ~HasErrors(t)
      <4>1. report' = t /\ stage' = "loaded" /\ Accepted' = TRUE
        BY <3>2, <3>4 DEF Judge, Accepted
      <4>2. Outcome(files, r, Range(t), TRUE)
        BY <3>1, <3>4 DEF Outcome
      <4> QED
        BY <1>0, <3>1, <4>1, <4>2, Told
    <3> QED
      BY <3>3, <3>4
  <2> QED
    BY <2>6, <2>7
<1>6. CASE ReadDocument
  BY <1>1, <1>6 DEF ReadDocument
<1>7. ASSUME UNCHANGED <<report, definition>>, stage \notin {"read", "auxiliary"},
             stage' \notin {"read", "auxiliary", "loaded"} \/ stage' = stage
      PROVE  Telling'
  <2>1. Accepted' = Accepted
    BY <1>7 DEF Accepted
  <2> QED
    BY <1>0, <1>1, <1>7, <2>1 DEF Telling
<1>8. CASE UNCHANGED vars
  <2>1. Accepted' = Accepted
    BY <1>8 DEF Accepted, vars
  <2> QED
    BY <1>0, <1>1, <1>8, <2>1 DEF Telling, vars, loadVars
<1>9. CASE Validate
  BY <1>7, <1>9 DEF Validate, Exits, loadVars
<1>10. CASE ExportCase
  <2>1. CASE Exportable(Case)
    BY <1>7, <1>10, <2>1 DEF ExportCase, Exits
  <2>2. CASE ~Exportable(Case)
    <3>1. stage = "loaded" /\ report' = Append(report, Unwritable) /\ stage' = "over" /\ definition' = definition
      BY <1>10, <2>2 DEF ExportCase, Exits
    <3> DEFINE t == Append(report, Unwritable)
               n == Unwritable
    <3>2. Distinct(report) /\ n \notin Range(report) /\ Outcome(files, r, Range(report) \ {n}, Accepted)
      BY <1>1, <3>1 DEF Telling
    <3> HIDE DEF n
    <3>3. Distinct(Append(report, n)) /\ Range(Append(report, n)) = Range(report) \cup {n}
      BY <3>2, DistinctAppended
    <3>4. Range(Append(report, n)) \ {n} = Range(report) \ {n}
      BY <3>3
    <3>5. Accepted' = Accepted
      BY <3>1 DEF Accepted
    <3> QED
      BY <1>0, <3>1, <3>2, <3>3, <3>4, <3>5 DEF Telling, n
  <2> QED
    BY <2>1, <2>2
<1>11. CASE Run
  BY <1>7, <1>11 DEF Run, loadVars
<1>12. CASE Step
  BY <1>7, <1>12 DEF Step, loadVars
<1>13. CASE Write
  BY <1>7, <1>13 DEF Write, Exits, loadVars
<1>14. CASE Over
  BY <1>8, <1>14 DEF Over
<1> QED
  BY <1>3, <1>4, <1>5, <1>6, <1>8, <1>9, <1>10, <1>11, <1>12, <1>13, <1>14 DEF Next

(* Every command on files says each thing once, and all that is to be said  *)
(* of the first of them that is not right, whatever the files are; and it   *)
(* refuses them exactly when some of it is an error                         *)
(* (bellhop/src/input/legacy/mod.rs, load_env; bellhop/src/case.rs).       *)
THEOREM FilesReported == Spec => []Reported
<1>1. Telling => Reported
  <2> SUFFICES ASSUME Telling, stage \notin {"read", "auxiliary"}, Legacy, "env" \in DOMAIN input.files
               PROVE  Reported
    BY DEF Reported
  <2>1. /\ Distinct(report)
        /\ Outcome(input.files, ParseEnvironment(input.files.env), Range(report) \ {Unwritable}, Accepted)
    BY DEF Telling
  <2>2. Len(report) = Cardinality(Range(report))
    BY <2>1, DistinctCounted
  <2> QED
    BY <2>1, <2>2 DEF Reported, Outcome
<1> QED
  BY <1>1, ConsumptionInit, ConsumptionStep, SoundnessInit, SoundnessStep, TellingInit, TellingStep, PTL DEF Spec

-----------------------------------------------------------------------------
(* What is understood.                                                      *)

(* A point of a profile or a half-space, and a boundary.                    *)
Samples == [{"depth", "speed", "density"} -> Int]
Bounds(b) ==
  /\ b = [condition |-> b.condition, roughness |-> b.roughness, shaped |-> b.shaped,
          material |-> b.material, grain |-> b.grain]
  /\ b.material \in Seq(Samples)

(* What a run is made of.                                                   *)
RunFields == {"kind", "encoding", "family", "pattern", "irregular", "line"}
RunLike(run) == run = [x \in RunFields |-> run[x]]

(* What is understood has points, boundaries, a run and lists of positions  *)
(* and angles, where it has any.                                            *)
Content(v) ==
  /\ "points" \in DOMAIN v => v["points"] \in Seq(Samples)
  /\ \A name \in {"sources", "depths", "ranges", "angles"} : name \in DOMAIN v => Listed(v[name])
  /\ \A side \in {"top", "bottom"} : side \in DOMAIN v => Bounds(v[side])
  /\ "run" \in DOMAIN v => RunLike(v["run"])

(* A reading that has understood the fields D.                              *)
Knows(r, D) ==
  /\ DOMAIN r = Parts /\ r.defaults \in Samples
  /\ r.ok => DOMAIN r.value = D /\ Content(r.value)

(* A reading that fails, and one that is checked.                           *)
LEMMA KnowsChecked ==
  ASSUME NEW D, NEW r, Knows(r, D)
  PROVE  /\ \A what : Knows(Fail(r, what), D) /\ Fail(r, what).ok = FALSE
         /\ \A holds, what : Knows(Check(r, holds, what), D)
         /\ \A warned, what : Knows(Warn(r, warned, what), D)
         /\ \A what, E : Knows(Check(r, FALSE, what), E)
<1>1. \A what : Knows(Fail(r, what), D) /\ Fail(r, what).ok = FALSE
  BY DEF Knows, Fail, Parts
<1>2. \A warned, what : Knows(Warn(r, warned, what), D)
  BY DEF Knows, Warn, Parts
<1>3. \A holds, what : Knows(Check(r, holds, what), D)
  BY <1>1 DEF Check
<1>4. ASSUME NEW what, NEW E PROVE Knows(Check(r, FALSE, what), E)
  <2>1. ~Check(r, FALSE, what).ok
    BY <1>1 DEF Check
  <2>2. Knows(Check(r, FALSE, what), D)
    BY <1>3
  <2> QED
    BY <2>1, <2>2 DEF Knows
<1> QED
  BY <1>1, <1>2, <1>3, <1>4

(* A part more is understood.                                               *)
LEMMA KnowsKept ==
  ASSUME NEW D, NEW r, Knows(r, D), NEW part, r.ok => Content(part)
  PROVE  Knows(Keep(r, part), D \cup DOMAIN part)
<1>1. CASE ~r.ok
  BY <1>1 DEF Keep, Knows
<1>2. CASE r.ok
  <2> DEFINE w == [x \in DOMAIN part \cup DOMAIN r.value |-> IF x \in DOMAIN part THEN part[x] ELSE r.value[x]]
  <2>0. DOMAIN r.value = D
    BY <1>2 DEF Knows
  <2> DEFINE v == r.value
  <2> HIDE DEF v
  <2>1. /\ DOMAIN w = D \cup DOMAIN part
        /\ \A x \in DOMAIN part : w[x] = part[x]
        /\ \A x \in D \ DOMAIN part : w[x] = v[x]
    <3>1. w = [x \in DOMAIN part \cup D |-> IF x \in DOMAIN part THEN part[x] ELSE v[x]]
      BY <2>0 DEF v
    <3> HIDE DEF w
    <3> QED
      BY <3>1
  <2> HIDE DEF w
  <2>2. Content(w)
    BY <1>2, <2>0, <2>1 DEF Content, Knows, v
  <2>3. Keep(r, part) = [r EXCEPT !.value = w]
    BY <1>2 DEF Keep, w
  <2> QED
    BY <1>2, <2>1, <2>2, <2>3 DEF Knows, Parts
<1> QED
  BY <1>1, <1>2

(* A part of another kind.                                                  *)
LEMMA KnowsMore ==
  ASSUME NEW D, NEW r, Knows(r, D), NEW part,
         {"points", "top", "bottom", "run", "sources", "depths", "ranges", "angles"} \cap DOMAIN part = {}
  PROVE  Knows(Keep(r, part), D \cup DOMAIN part)
BY KnowsKept DEF Content

(* What is read into the slots leaves what is understood.                   *)
LEMMA KnowsRead ==
  ASSUME NEW D, NEW r, Knows(r, D), NEW n
  PROVE  /\ Knows(Slots(r, n), D) /\ Knows(Atoms(r, n), D) /\ Knows(Numbers(r, n), D)
         /\ \A least, most : Knows(Count(r, least, most), D)
<1>1. \A record : Knows([r EXCEPT !.used = record.used, !.slots = record.slots], D)
  BY DEF Knows, Parts
<1>2. Knows(Slots(r, n), D) /\ \A k : Knows(Atoms(r, k), D)
  BY <1>1, KnowsChecked DEF Slots, Atoms, FetchSlots, FetchAtoms, Fetch
<1>3. \A s : Knows(s, D) => Knows(Numeric(s), D)
  BY KnowsChecked DEF Numeric
<1>4. \A k : Knows(Numbers(r, k), D)
  BY <1>2, <1>3 DEF Numbers
<1>5. \A least, most : Knows(Count(r, least, most), D)
  BY <1>4, KnowsChecked DEF Count, Between
<1> QED
  BY <1>2, <1>4, <1>5

(* The defaults of a medium stay integers.                                  *)
LEMMA KnowsApplied ==
  ASSUME NEW D, NEW r, Knows(r, D), NEW required
  PROVE  Knows(ApplyMedium(r, required), D)
<1> DEFINE s == Check(r, required => 1 \in Supplied(r), "depth")
           t == Check(s, \A i \in Supplied(r) : IsNumber(r.slots[i]), "number")
<1>1. Knows(s, D) /\ Knows(t, D)
  BY KnowsChecked
<1>2. ApplyMedium(r, required) = Apply(t)
  BY DEF ApplyMedium
<1>3. t.ok => t = r /\ \A i \in Supplied(r) : IsNumber(r.slots[i])
  <2>1. \A x, holds, what : Check(x, holds, what).ok /\ DOMAIN x = Parts => Check(x, holds, what) = x /\ holds
    BY DEF Check, Fail, Parts
  <2>2. DOMAIN r = Parts /\ DOMAIN s = Parts
    BY <1>1 DEF Knows
  <2> HIDE DEF s
  <2>3. t.ok => t = s /\ \A i \in Supplied(r) : IsNumber(r.slots[i])
    BY <2>1, <2>2
  <2>4. s.ok => s = r
    BY <2>1, <2>2 DEF s
  <2> HIDE DEF t
  <2> QED
    BY <2>3, <2>4
<1>4. CASE ~t.ok
  <2> HIDE DEF t
  <2> QED
    BY <1>1, <1>2, <1>4 DEF Apply
<1>5. CASE t.ok
  <2>1. t = r /\ \A i \in Supplied(r) : r.slots[i].number \in Int
    BY <1>3, <1>5 DEF IsNumber
  <2>2. \A i \in Supplied(r) : Num(r, i) \in Int
    BY <2>1 DEF Num
  <2>3. Supplement(r) \in Samples
    BY <2>2 DEF Supplement, Samples, Knows
  <2>4. Apply(t) = [r EXCEPT !.defaults = Supplement(r)]
    <3> HIDE DEF t
    <3> QED
      BY <1>5, <2>1 DEF Apply
  <2>5. Knows([r EXCEPT !.defaults = Supplement(r)], D)
    BY <2>3 DEF Knows, Parts
  <2> QED
    BY <1>2, <2>4, <2>5
<1> QED
  BY <1>4, <1>5

(* The heading.                                                             *)
LEMMA HeadingKnown ==
  ASSUME NEW D, NEW r, Knows(r, D)
  PROVE  Knows(ReadHeading(r), D \cup {"frequency"})
<1>1. \A s : Knows(s, D) => Knows(KeepFrequency(s), D \cup {"frequency"})
  BY KnowsMore DEF KeepFrequency
<1>2. \A s, E : Knows(s, E) => Knows(OneMedium(s), E)
  BY KnowsChecked DEF OneMedium
<1> QED
  BY <1>1, <1>2, KnowsRead DEF ReadHeading

(* The layers of biological loss.                                           *)
LEMMA LayersKnown ==
  ASSUME NEW D, NEW n \in Nat, NEW b, Knows(b, D), "volume" \in D, NEW q, DOMAIN q = 1 .. n
  PROVE  Knows(FoldLeft(ReadLayer, b, q), D)
<1>0. PICK g : LayersSolved(g, n, b, q, FoldLeft(ReadLayer, b, q))
  BY LayersFolded
<1>1. /\ g[{}] = b
      /\ \A k \in 0 .. n - 1 : g[1 .. k + 1] = ReadLayer(g[1 .. k], q[k + 1])
      /\ FoldLeft(ReadLayer, b, q) = g[1 .. n]
  BY <1>0 DEF LayersSolved
<1> DEFINE S == {k \in Nat : k <= n => Knows(g[1 .. k], D)}
<1>2. 0 \in S
  <2>1. 1 .. 0 = {}
    OBVIOUS
  <2> QED
    BY <1>1, <2>1
<1>3. \A s : Knows(s, D) => Knows(AddLayer(s), D)
  <2>1. ASSUME NEW s, Knows(s, D) PROVE Knows(AddLayer(s), D)
    <3> DEFINE part == [volume |-> Append(s.value.volume, <<Num(s, 1), Num(s, 2)>>)]
    <3>1. DOMAIN part = {"volume"}
      OBVIOUS
    <3>2. AddLayer(s) = Keep(s, part)
      BY DEF AddLayer
    <3> HIDE DEF part
    <3>3. Knows(Keep(s, part), D \cup {"volume"})
      BY <2>1, <3>1, KnowsMore
    <3>4. D \cup {"volume"} = D
      OBVIOUS
    <3> QED
      BY <3>2, <3>3, <3>4
  <2> QED
    BY <2>1
<1>4. \A s, i : Knows(s, D) => Knows(ReadLayer(s, i), D)
  BY <1>3, KnowsRead DEF ReadLayer
<1>5. ASSUME NEW k \in Nat, k \in S PROVE k + 1 \in S
  <2> SUFFICES ASSUME k + 1 <= n PROVE Knows(g[1 .. k + 1], D)
    OBVIOUS
  <2>1. Knows(g[1 .. k], D) /\ k \in 0 .. n - 1
    BY <1>5
  <2> QED
    BY <1>1, <1>4, <2>1
<1>6. n \in S
  <2> HIDE DEF S
  <2> QED
    BY <1>2, <1>5, SetInduction
<1> QED
  BY <1>1, <1>6

(* The volume attenuation.                                                  *)
LEMMA VolumeKnown ==
  ASSUME NEW D, NEW N, NEW r, Reading(r, N), Knows(r, D), NEW option
  PROVE  Knows(ReadVolume(r, option), D \cup {"volume"})
<1> DEFINE E == D \cup {"volume"}
<1>1. \A s, value : Knows(s, D) => Knows(Keep(s, [volume |-> value]), E)
  <2>1. ASSUME NEW s, Knows(s, D), NEW value PROVE Knows(Keep(s, [volume |-> value]), E)
    <3> DEFINE part == [volume |-> value]
    <3>1. DOMAIN part = {"volume"}
      OBVIOUS
    <3> HIDE DEF part
    <3>2. Knows(Keep(s, part), D \cup {"volume"})
      BY <2>1, <3>1, KnowsMore
    <3> QED
      BY <3>2 DEF part
  <2> QED
    BY <2>1
<1>2. "volume" \in E
  OBVIOUS
<1> HIDE DEF E
<1>3. ASSUME NEW s, Knows(s, D), s.ok => Num(s, 1) \in 1 .. MaxVector
      PROVE  Knows(ReadLayers(s), E)
  <2>1. Knows(Keep(s, [volume |-> <<>>]), E)
    BY <1>1, <1>3
  <2>2. \E n \in Nat : DOMAIN Counting(s) = 1 .. n
    <3>1. CASE s.ok
      <4>1. Num(s, 1) \in Nat
        BY <1>3, <3>1, InputAssumption
      <4>2. DOMAIN Counting(s) = 1 .. Num(s, 1)
        BY <3>1 DEF Counting, Upto
      <4> QED
        BY <4>1, <4>2
    <3>2. CASE ~s.ok
      <4>1. DOMAIN Counting(s) = 1 .. 0
        BY <3>2 DEF Counting
      <4> QED
        BY <4>1
    <3> QED
      BY <3>1, <3>2
  <2> QED
    BY <1>2, <2>1, <2>2, LayersKnown DEF ReadLayers
<1>4. Knows(ReadLayers(Count(r, 1, MaxVector)), E)
  BY <1>3, Counts, KnowsRead
<1>5. CASE option \in {" ", "T"}
  BY <1>1, <1>5 DEF ReadVolume, E
<1>6. CASE option = "F"
  <2>1. \A s : Knows(s, D) => Knows(KeepTypical(s), E)
    BY <1>1 DEF KeepTypical
  <2> QED
    BY <1>6, <2>1, KnowsRead DEF ReadVolume, E
<1>7. CASE option = "B"
  BY <1>4, <1>7 DEF ReadVolume, E
<1>8. CASE option \notin {" ", "T", "F", "B"}
  BY <1>8, KnowsChecked DEF ReadVolume
<1> QED
  BY <1>5, <1>6, <1>7, <1>8 DEF E

(* A boundary with its half-space or grain size.                            *)
LEMMA BoundaryKnown ==
  ASSUME NEW D, NEW r, Knows(r, D), NEW side \in {"top", "bottom"},
         NEW condition, NEW roughness, NEW shaped
  PROVE  Knows(ReadBoundary(r, side, condition, roughness, shaped), D \cup {side})
<1>1. Knows(ReadHalfSpace(r, condition), D)
  BY KnowsChecked, KnowsRead, KnowsApplied DEF ReadHalfSpace
<1>2. ASSUME NEW s, Knows(s, D)
      PROVE  Knows(KeepBoundary(s, side, condition, roughness, shaped), D \cup {side})
  <2> DEFINE b == [condition |-> condition, roughness |-> roughness, shaped |-> shaped,
                   material |-> IF condition = "A" THEN <<s.defaults>> ELSE <<>>,
                   grain |-> IF condition = "G" THEN <<Num(s, 1), Num(s, 2)>> ELSE <<>>]
             part == [x \in {side} |-> b]
  <2>1. s.defaults \in Samples
    BY <1>2 DEF Knows
  <2>2. b.material \in Seq(Samples)
    BY <2>1
  <2>3. Bounds(b)
    BY <2>2 DEF Bounds
  <2> HIDE DEF b
  <2>4. DOMAIN part = {side} /\ part[side] = b
    OBVIOUS
  <2>5. KeepBoundary(s, side, condition, roughness, shaped) = Keep(s, part)
    BY DEF KeepBoundary, b
  <2> HIDE DEF part
  <2>6. Content(part)
    BY <2>3, <2>4 DEF Content
  <2> QED
    BY <1>2, <2>4, <2>5, <2>6, KnowsKept
<1> QED
  BY <1>1, <1>2 DEF ReadBoundary

(* What the top and its options are understood to be.                       *)
TopFields == {"volume", "interpolation", "altimetry", "development", "top"}

(* The top, with the options of its record.                                 *)
LEMMA TopKnown ==
  ASSUME NEW D, NEW N, NEW r, Reading(r, N), Knows(r, D)
  PROVE  Knows(ReadTopOptions(r), D \cup TopFields)
<1> DEFINE V == D \cup {"volume"}
           O == V \cup {"interpolation", "altimetry", "development"}
<1>1. Reading(Atoms(r, 1), N) /\ Knows(Atoms(r, 1), D)
  BY Reads, KnowsRead
<1>2. ASSUME NEW o, Reading(o, N), Knows(o, D) PROVE Knows(TopOptions(o), D \cup TopFields)
  <2>1. CASE ~o.ok
    BY <1>2, <2>1 DEF TopOptions, Knows
  <2>2. CASE o.ok
    <3>1. Reading(TopMedium(o), N) /\ Knows(TopMedium(o), D)
      BY <1>2, Failing, KnowsChecked DEF TopMedium, Check
    <3>2. \A option : Knows(ReadVolume(TopMedium(o), option), V)
      BY <3>1, VolumeKnown
    <3>3. ASSUME NEW s, Knows(s, V) PROVE Knows(TopShape(s, o), O)
      <4> DEFINE part == [interpolation |-> Option(o, 1), altimetry |-> Shaped(Option(o, 5)),
                          development |-> Option(o, 6) = "I"]
                 t == Check(s, ShapeOption(Option(o, 5)) /\ Option(o, 6) \in {"I", " "}, "option")
      <4>1. DOMAIN part = {"interpolation", "altimetry", "development"}
        OBVIOUS
      <4>2. TopShape(s, o) = Keep(t, part)
        BY DEF TopShape
      <4> HIDE DEF V
      <4>3. Knows(t, V)
        BY <3>3, KnowsChecked
      <4> HIDE DEF part, t
      <4> QED
        BY <4>1, <4>2, <4>3, KnowsMore
    <3>4. \A s : Knows(s, O) => Knows(TopBoundary(s, o), O \cup {"top"})
      <4> HIDE DEF O
      <4> QED
        BY BoundaryKnown DEF TopBoundary
    <3>5. O \cup {"top"} = D \cup TopFields
      BY DEF TopFields
    <3> HIDE DEF O, V
    <3> QED
      BY <2>2, <3>2, <3>3, <3>4, <3>5 DEF TopOptions
  <2> QED
    BY <2>1, <2>2
<1> QED
  BY <1>1, <1>2 DEF ReadTopOptions

(* One point of the profile.                                                *)
LEMMA PointKnown ==
  ASSUME NEW D, {"points", "atBottom"} \subseteq D, NEW r, Knows(r, D), NEW i
  PROVE  Knows(ReadPoint(r, i), D)
<1>1. ASSUME NEW s, Knows(s, D) PROVE Knows(AddPoint(s), D)
  <2> DEFINE part == [points |-> Append(s.value.points, s.defaults),
                      atBottom |-> Finite(s.defaults.depth) /\ s.defaults.depth = s.value.bottomDepth]
             t == Check(s, ~AtMost(s.defaults.depth, LastOf(s.value.points, [depth |-> NaN]).depth), "increasing")
  <2>1. Knows(t, D) /\ (t.ok => s.ok)
    BY <1>1, KnowsChecked DEF Check, Fail, Knows, Parts
  <2>2. DOMAIN part = {"points", "atBottom"} /\ part.points = Append(s.value.points, s.defaults)
    OBVIOUS
  <2>3. AddPoint(s) = Keep(t, part)
    BY DEF AddPoint
  <2> HIDE DEF t, part
  <2>4. ASSUME t.ok PROVE Content(part)
    <3>1. s.value.points \in Seq(Samples) /\ s.defaults \in Samples
      BY <1>1, <2>1, <2>4 DEF Knows, Content
    <3>2. part.points \in Seq(Samples)
      BY <2>2, <3>1
    <3> QED
      BY <2>2, <3>2 DEF Content
  <2>5. Knows(Keep(t, part), D \cup DOMAIN part)
    BY <2>1, <2>4, KnowsKept
  <2>6. D \cup DOMAIN part = D
    BY <2>2
  <2> QED
    BY <2>3, <2>5, <2>6
<1>2. \A s : Knows(s, D) => Knows(TwoPoints(s), D)
  BY KnowsChecked DEF TwoPoints
<1>3. Knows(ApplyMedium(Slots(r, 3), TRUE), D)
  BY KnowsRead, KnowsApplied
<1> QED
  BY <1>1, <1>2, <1>3 DEF ReadPoint

(* And all of them.                                                         *)
LEMMA PointsKnown ==
  ASSUME NEW D, {"points", "atBottom"} \subseteq D, NEW n \in Nat, NEW b, Knows(b, D), NEW q, DOMAIN q = 1 .. n
  PROVE  Knows(FoldLeft(ReadPoint, b, q), D)
<1>0. PICK g : PointsSolved(g, n, b, q, FoldLeft(ReadPoint, b, q))
  BY PointsFolded
<1>1. /\ g[{}] = b
      /\ \A k \in 0 .. n - 1 : g[1 .. k + 1] = ReadPoint(g[1 .. k], q[k + 1])
      /\ FoldLeft(ReadPoint, b, q) = g[1 .. n]
  BY <1>0 DEF PointsSolved
<1> DEFINE S == {k \in Nat : k <= n => Knows(g[1 .. k], D)}
<1>2. 0 \in S
  <2>1. 1 .. 0 = {}
    OBVIOUS
  <2> QED
    BY <1>1, <2>1
<1>3. ASSUME NEW k \in Nat, k \in S PROVE k + 1 \in S
  <2> SUFFICES ASSUME k + 1 <= n PROVE Knows(g[1 .. k + 1], D)
    OBVIOUS
  <2>1. Knows(g[1 .. k], D) /\ k \in 0 .. n - 1
    BY <1>3
  <2> QED
    BY <1>1, <2>1, PointKnown
<1>4. n \in S
  <2> HIDE DEF S
  <2> QED
    BY <1>2, <1>3, SetInduction
<1> QED
  BY <1>1, <1>4

(* The profile, whose header has the roughness of the top.                  *)
LEMMA ProfileKnown ==
  ASSUME NEW D, "top" \in D, NEW r, Knows(r, D)
  PROVE  Knows(ReadProfile(r), D \cup {"bottomDepth", "points", "atBottom", "topDepth"})
<1> DEFINE E == D \cup {"top", "bottomDepth", "points", "atBottom"}
<1>1. ASSUME NEW s, Knows(s, D) PROVE Knows(StartProfile(s), E)
  <2> DEFINE top == [s.value.top EXCEPT !.roughness = Num(s, 2)]
             part == [top |-> top, bottomDepth |-> Num(s, 3), points |-> <<>>, atBottom |-> FALSE]
  <2>1. s.ok => Bounds(top)
    <3>1. s.ok => Bounds(s.value.top)
      BY <1>1 DEF Knows, Content
    <3>2. \A b, n : Bounds(b) => Bounds([b EXCEPT !.roughness = n])
      BY DEF Bounds
    <3> QED
      BY <3>1, <3>2
  <2>2. StartProfile(s) = Keep(s, part)
    BY DEF StartProfile
  <2> HIDE DEF top
  <2>3. /\ DOMAIN part = {"top", "bottomDepth", "points", "atBottom"}
        /\ part["top"] = top /\ part["points"] = <<>>
    OBVIOUS
  <2> HIDE DEF part
  <2>4. s.ok => Content(part)
    BY <2>1, <2>3 DEF Content
  <2> QED
    BY <1>1, <2>2, <2>3, <2>4, KnowsKept
<1>2. {"points", "atBottom"} \subseteq E
  OBVIOUS
<1>3. E \cup {"topDepth"} = D \cup {"bottomDepth", "points", "atBottom", "topDepth"}
  OBVIOUS
<1> HIDE DEF E
<1>4. ASSUME NEW s, Knows(s, E) PROVE Knows(Points(s), E)
  <2>1. MaxPoints \in Nat /\ DOMAIN Upto(MaxPoints) = 1 .. MaxPoints
    BY InputAssumption DEF Upto
  <2>2. Knows(FoldLeft(ReadPoint, s, Upto(MaxPoints)), E)
    BY <1>2, <1>4, <2>1, PointsKnown
  <2> QED
    BY <1>4, <2>2 DEF Points
<1>5. ASSUME NEW s, Knows(s, E) PROVE Knows(EndProfile(s), E \cup {"topDepth"})
  <2> DEFINE part == [topDepth |-> FirstOf(s.value.points, [depth |-> 0]).depth]
             t == Check(s, Analytic(s) \/ s.value.atBottom, "points")
  <2>1. Knows(t, E)
    BY <1>5, KnowsChecked
  <2>2. DOMAIN part = {"topDepth"}
    OBVIOUS
  <2>3. EndProfile(s) = Keep(t, part)
    BY DEF EndProfile
  <2> HIDE DEF part, t
  <2> QED
    BY <2>1, <2>2, <2>3, KnowsMore
<1> QED
  BY <1>1, <1>3, <1>4, <1>5, KnowsRead DEF ReadProfile

(* The bottom.                                                              *)
LEMMA BottomKnown ==
  ASSUME NEW D, NEW r, Knows(r, D)
  PROVE  Knows(ReadBottomOptions(r), D \cup {"bottom"})
<1>1. ASSUME NEW s, Knows(s, D) PROVE Knows(BottomOptions(s), D \cup {"bottom"})
  <2>1. \A holds, what : Knows(Check(s, holds, what), D)
    BY <1>1, KnowsChecked
  <2>2. Knows(Check(s, FALSE, "option"), D \cup {"bottom"})
    BY <1>1, KnowsChecked
  <2> QED
    BY <2>1, <2>2, BoundaryKnown DEF BottomOptions
<1> QED
  BY <1>1, KnowsRead DEF ReadBottomOptions

(* The values of a record are a list, and stay one when they are sorted.    *)
LEMMA SortedListed ==
  ASSUME NEW values, Listed(values)
  PROVE  Listed(Sorted(values)) /\ Len(Sorted(values)) = Len(values)
<1> DEFINE q == Sorted(values)
           n == Len(values)
<1>1. n \in Nat /\ DOMAIN values = 1 .. n
  BY ListedType DEF Listed
<1>2. \E sorted : q = [i \in DOMAIN values |-> sorted[i]]
  BY DEF Sorted
<1> HIDE DEF q, n
<1>3. DOMAIN q = 1 .. n /\ q = [i \in 1 .. n |-> q[i]]
  BY <1>1, <1>2
<1> QED
  BY <1>1, <1>3, FunctionListed DEF q, n

LEMMA ExpandedListed ==
  ASSUME NEW r, NEW count \in Nat
  PROVE  Listed(Expanded(r, count))
<1>1. Listed(<<>>)
  BY EmptyListed
<1>2. \A f : Listed([i \in 1 .. count |-> f[i]])
  <2> SUFFICES ASSUME NEW f PROVE Listed([i \in 1 .. count |-> f[i]])
    OBVIOUS
  <2> DEFINE q == [i \in 1 .. count |-> f[i]]
  <2>1. DOMAIN q = 1 .. count /\ q = [i \in 1 .. count |-> q[i]]
    OBVIOUS
  <2> HIDE DEF q
  <2>2. Listed(q)
    BY <2>1, FunctionListed
  <2> QED
    BY <2>2 DEF q
<1>3. \A e : Expand(e, count) = <<>> \/ \E f : Expand(e, count) = [i \in 1 .. count |-> f[i]]
  <2> SUFFICES ASSUME NEW e PROVE Expand(e, count) = <<>> \/ \E f : Expand(e, count) = [i \in 1 .. count |-> f[i]]
    OBVIOUS
  <2> DEFINE last == e[IF Len(e) < 2 THEN 1 ELSE 2].number
             f == [i \in 1 .. count |-> e[i].number]
             g == [i \in 1 .. count |->
                     IF NaN \in {e[1].number, last} THEN NaN
                     ELSE e[1].number + ((i - 1) * (last - e[1].number)) \div (count - 1)]
  <2>1. Expand(e, count) \in {<<>>, f, g}
    BY DEF Expand
  <2>2. f = [i \in 1 .. count |-> f[i]] /\ g = [i \in 1 .. count |-> g[i]]
    OBVIOUS
  <2> HIDE DEF f, g
  <2> QED
    BY <2>1, <2>2
<1>4. Expanded(r, count) = <<>> \/ \E e : Expanded(r, count) = Expand(e, count)
  BY DEF Expanded, ExpandVector
<1> QED
  BY <1>1, <1>2, <1>3, <1>4

(* A count that is accepted.                                                *)
LEMMA KnownCount ==
  ASSUME NEW D, NEW r, Knows(r, D), NEW least, NEW most
  PROVE  Count(r, least, most).ok => Num(Count(r, least, most), 1) \in least .. most
<1>1. Knows(Numbers(r, 1), D)
  BY KnowsRead
<1>2. \A s : Knows(s, D) /\ Between(s, least, most).ok => Num(Between(s, least, most), 1) \in least .. most
  BY DEF Between, Check, Fail, Knows, Parts
<1> QED
  BY <1>1, <1>2 DEF Count

(* A counted vector of positions.                                           *)
LEMMA VectorKnown ==
  ASSUME NEW D, NEW r, Knows(r, D), NEW name \in {"sources", "depths", "ranges"}
  PROVE  Knows(ReadVector(r, name), D \cup {name})
<1>1. ASSUME NEW s, Knows(s, D), NEW values, Listed(values)
      PROVE  Knows(KeepVector(s, values, name), D \cup {name})
  <2> DEFINE part == [x \in {name} |-> Sorted(values)]
             t == Check(s, values # <<>>, "vector")
  <2>1. DOMAIN part = {name} /\ Listed(part[name])
    BY <1>1, SortedListed
  <2>2. Knows(t, D)
    BY <1>1, KnowsChecked
  <2>3. \E warned : KeepVector(s, values, name) = Warn(Keep(t, part), warned, name)
    BY DEF KeepVector
  <2> HIDE DEF part, t
  <2>4. Knows(Keep(t, part), D \cup {name})
    <3>1. Content(part)
      BY <2>1 DEF Content
    <3> QED
      BY <2>1, <2>2, <3>1, KnowsKept
  <2> DEFINE E == D \cup {name}
  <2> HIDE DEF E
  <2>5. \A warned : Knows(Warn(Keep(t, part), warned, name), E)
    BY <2>4, KnowsChecked DEF E
  <2> QED
    BY <2>3, <2>5 DEF E
<1>2. ASSUME NEW s, Knows(s, D), s.ok => Num(s, 1) \in 1 .. MaxVector
      PROVE  Knows(CountedVector(s, name), D \cup {name})
  <2>1. CASE s.ok
    <3>1. Num(s, 1) \in Nat
      BY <1>2, <2>1, InputAssumption
    <3> QED
      BY <1>1, <1>2, <2>1, <3>1, KnowsRead, ExpandedListed DEF CountedVector, Vector
  <2>2. CASE ~s.ok
    BY <1>2, <2>2 DEF CountedVector, Knows
  <2> QED
    BY <2>1, <2>2
<1> QED
  BY <1>2, KnowsRead, KnownCount DEF ReadVector

(* The run.                                                                 *)
LEMMA RunKnown ==
  ASSUME NEW D, NEW r, Knows(r, D)
  PROVE  Knows(ReadRunOptions(r), D \cup {"run"})
<1>1. \A s : Knows(s, D) => Knows(RunKind(s), D)
  BY KnowsChecked DEF RunKind
<1>2. \A s : Knows(s, D) => Knows(RunFamily(s), D)
  BY KnowsChecked DEF RunFamily
<1>3. \A s : Knows(s, D) => Knows(RunGeometry(s), D)
  BY KnowsChecked DEF RunGeometry
<1>4. \A s : Knows(s, D) => Knows(RunPaired(s), D)
  BY KnowsChecked DEF RunPaired
<1>5. \A s : Knows(s, D) => Knows(RunPlane(s), D)
  BY KnowsChecked DEF RunPlane
<1>6. ASSUME NEW s, Knows(s, D) PROVE Knows(KeepRun(s), D \cup {"run"})
  <2> DEFINE part == [run |-> RunOf(s)]
  <2>1. RunLike(RunOf(s))
    BY DEF RunLike, RunOf, RunFields
  <2>2. DOMAIN part = {"run"} /\ part["run"] = RunOf(s)
    OBVIOUS
  <2>3. KeepRun(s) = Keep(s, part)
    BY DEF KeepRun
  <2> HIDE DEF part
  <2>4. Content(part)
    BY <2>1, <2>2 DEF Content
  <2> QED
    BY <1>6, <2>2, <2>3, <2>4, KnowsKept
<1>7. Knows(Atoms(r, 1), D)
  BY KnowsRead
<1> QED
  BY <1>1, <1>2, <1>3, <1>4, <1>5, <1>6, <1>7 DEF ReadRunOptions

(* The launch angles.                                                       *)
LEMMA AnglesKnown ==
  ASSUME NEW D, NEW r, Knows(r, D)
  PROVE  Knows(ReadLaunchAngles(r), D \cup {"angles", "selected"})
<1> DEFINE E == D \cup {"angles", "selected"}
<1>1. ASSUME NEW s, Knows(s, D), NEW angles, Listed(angles), NEW selected
      PROVE  Knows(KeepAngles(s, angles, selected), E)
  <2> DEFINE part == [angles |-> angles, selected |-> selected]
             t == Check(Check(s, angles # <<>>, "vector"), Range(selected) \subseteq DOMAIN angles, "selected")
  <2>1. Knows(t, D)
    BY <1>1, KnowsChecked
  <2>2. DOMAIN part = {"angles", "selected"} /\ part["angles"] = angles
    OBVIOUS
  <2>3. KeepAngles(s, angles, selected) = Keep(t, part)
    BY DEF KeepAngles
  <2> HIDE DEF part, t
  <2>4. Content(part)
    BY <1>1, <2>2 DEF Content
  <2> QED
    BY <2>1, <2>2, <2>3, <2>4, KnowsKept
<1> HIDE DEF E
<1>2. \A s : Knows(s, D) /\ ~s.ok => Knows(s, E)
  BY DEF Knows
<1>3. ASSUME NEW values, Listed(values) PROVE Listed(WithoutRepeated(Sorted(values)))
  <2> DEFINE v == Sorted(values)
  <2>1. Listed(v)
    BY <1>3, SortedListed
  <2> HIDE DEF v
  <2>2. ASSUME Len(v) > 1 PROVE Listed(Front(v))
    <3> DEFINE n == Len(v) - 1
               q == Front(v)
    <3>1. n \in Nat
      BY <2>1, <2>2 DEF Listed
    <3>2. v \in Seq({v[i] : i \in DOMAIN v}) /\ DOMAIN v = 1 .. Len(v)
      BY <2>1, ListedType
    <3>3. q = [i \in 1 .. n |-> v[i]]
      <4> DEFINE T == {v[i] : i \in DOMAIN v}
      <4> HIDE DEF T
      <4> QED
        BY <3>1, <3>2 DEF Front, T
    <3>4. DOMAIN q = 1 .. n /\ q = [i \in 1 .. n |-> q[i]]
      BY <3>3
    <3> HIDE DEF q, n
    <3> QED
      BY <3>1, <3>4, FunctionListed DEF q
  <2> QED
    BY <2>1, <2>2 DEF WithoutRepeated, v
<1>4. ASSUME NEW s, Knows(s, D) PROVE Knows(LaunchAngles(s), E)
  <2> DEFINE c == LaunchCount(s)
             u == Check(s, c \in 1 .. MaxVector, "count")
             t == Slots(u, c)
  <2>1. Knows(t, D) /\ (t.ok => u.ok)
    <3>1. Knows(u, D)
      BY <1>4, KnowsChecked
    <3> HIDE DEF u, c
    <3>2. t.ok => u.ok
      BY DEF Slots
    <3> HIDE DEF t
    <3> QED
      BY <3>1, <3>2, KnowsRead DEF t
  <2>2. u.ok => c \in Nat
    <3>1. u.ok => c \in 1 .. MaxVector
      <4> HIDE DEF c
      <4> QED
        BY <1>4 DEF Check, Fail, Knows, Parts
    <3> HIDE DEF c, u
    <3> QED
      BY <3>1, InputAssumption
  <2>3. Listed(Expanded(t, c))
    <3> HIDE DEF c, t, u
    <3>1. CASE t.ok
      BY <2>1, <2>2, <3>1, ExpandedListed
    <3>2. CASE ~t.ok
      BY <3>2, EmptyListed DEF Expanded
    <3> QED
      BY <3>1, <3>2
  <2>4. \A selected : Knows(Angles(t, c, selected), E)
    <3> HIDE DEF c, t, u
    <3> QED
      BY <1>1, <1>3, <2>1, <2>3 DEF Angles
  <2>5. LaunchAngles(s) = IF s.ok THEN Angles(t, c, SelectedAngle(s)) ELSE s
    BY DEF LaunchAngles
  <2> HIDE DEF c, t, u
  <2> QED
    BY <1>2, <1>4, <2>4, <2>5
<1>5. \A n : Knows(Numbers(r, n), D)
  BY KnowsRead
<1> QED
  BY <1>2, <1>4, <1>5 DEF ReadLaunchAngles, E

(* The limits of a trace and the Cerveny records.                           *)
LEMMA TraceKnown ==
  ASSUME NEW D, NEW r, Knows(r, D)
  PROVE  Knows(ReadTrace(r), D \cup {"trace", "cerveny"})
<1> DEFINE E == D \cup {"trace", "cerveny"}
<1>1. ASSUME NEW s, Knows(s, D) PROVE Knows(KeepLimits(s), E)
  <2> DEFINE part == [trace |-> [step |-> Num(s, 1), depth |-> Num(s, 2), range |-> Num(s, 3)], cerveny |-> <<>>]
  <2>1. DOMAIN part = {"trace", "cerveny"}
    OBVIOUS
  <2>2. KeepLimits(s) = Keep(s, part)
    BY DEF KeepLimits
  <2> HIDE DEF part
  <2> QED
    BY <1>1, <2>1, <2>2, KnowsMore
<1>2. E \cup {"cerveny"} = E
  OBVIOUS
<1> HIDE DEF E
<1>3. ASSUME NEW s, Knows(s, E) PROVE Knows(BeamWidth(s), E)
  <2> DEFINE part == [cerveny |-> <<Num(s, 2), Num(s, 3)>>]
  <2>1. DOMAIN part = {"cerveny"}
    OBVIOUS
  <2>2. \E holds : BeamWidth(s) = Keep(Check(s, holds, "option"), part)
    BY DEF BeamWidth
  <2> HIDE DEF part
  <2>3. \A t : Knows(t, E) => Knows(Keep(t, part), E \cup {"cerveny"})
    BY <2>1, KnowsMore
  <2> QED
    BY <1>2, <1>3, <2>2, <2>3, KnowsChecked
<1>4. \A s : Knows(s, E) => Knows(BeamImages(s), E)
  BY KnowsChecked DEF BeamImages
<1>5. \A s : Knows(s, E) => Knows(Atoms(s, 3), E)
  BY KnowsRead
<1>6. \A s : Knows(s, E) => Knows(ReadCerveny(s), E)
  BY <1>3, <1>4, <1>5 DEF ReadCerveny
<1> QED
  BY <1>1, <1>6, KnowsRead DEF ReadTrace, E

(* What an environment is made of.                                          *)
Fields ==
  {"frequency", "volume", "interpolation", "altimetry", "development", "top", "bottomDepth", "points",
   "topDepth", "bottom", "sources", "depths", "ranges", "run", "angles", "selected", "trace", "cerveny"}

(* An environment, from a file or a document.                               *)
Formed(e) == Content(e) /\ e = [x \in Fields |-> e[x]]

(* An environment that is understood is one.                                *)
LEMMA EnvironmentKnown ==
  ASSUME NEW lines, ParseEnvironment(lines).ok
  PROVE  Formed(Understanding(ParseEnvironment(lines)))
<1> DEFINE r == ParseEnvironment(lines)
           A == {"frequency"}
           B == A \cup TopFields
           C == B \cup {"bottomDepth", "points", "atBottom", "topDepth"}
           E == C \cup {"bottom"}
           F == ((E \cup {"sources"}) \cup {"depths"}) \cup {"ranges"}
           G == ((F \cup {"run"}) \cup {"angles", "selected"}) \cup {"trace", "cerveny"}
           s == ReadHeading(Open(lines))
<1>1. Knows(Open(lines), {})
  <2>1. Medium \in Samples
    BY DEF Medium, Samples
  <2>2. DOMAIN <<>> = {}
    OBVIOUS
  <2> QED
    BY <2>1, <2>2 DEF Open, Knows, Parts, Content
<1>2. {} \cup {"frequency"} = A
  OBVIOUS
<1>3. Reading(s, {}) /\ Knows(s, A)
  <2>1. Reading(Open(lines), {})
    BY EmptyListed DEF Open, Reading, Warnings, Distinct, Parts
  <2> QED
    BY <1>1, <1>2, <2>1, HeadingRead, HeadingKnown
<1>4. "top" \in B
  BY DEF TopFields
<1>5. G \ {"atBottom", "isTop", "limit", "width"} = Fields
  BY DEF TopFields, Fields
<1>6. Knows(ReadTopOptions(s), B)
  <2> HIDE DEF A
  <2> QED
    BY <1>3, TopKnown
<1> HIDE DEF A, B
<1>7. Knows(ReadProfile(ReadTopOptions(s)), C)
  BY <1>4, <1>6, ProfileKnown
<1> HIDE DEF C
<1>8. Knows(ReadBottomOptions(ReadProfile(ReadTopOptions(s))), E)
  BY <1>7, BottomKnown
<1> HIDE DEF E
<1>9. \A t : Knows(t, E) => Knows(ReadPositions(t), F)
  BY VectorKnown DEF ReadPositions
<1> HIDE DEF F
<1>10. \A t : Knows(t, F) => Knows(ReadTrace(ReadLaunchAngles(ReadRunOptions(t))), G)
  BY RunKnown, AnglesKnown, TraceKnown
<1>11. Knows(r, G)
  BY <1>8, <1>9, <1>10 DEF ParseEnvironment
<1> HIDE DEF r, G
<1>12. DOMAIN r.value = G /\ Content(r.value)
  BY <1>11 DEF Knows, r
<1> DEFINE e == Understanding(r)
<1>13. e = [x \in Fields |-> r.value[x]]
  BY <1>5, <1>12 DEF Understanding
<1>14. \A x \in {"points", "top", "bottom", "run", "sources", "depths", "ranges", "angles"} :
         x \in Fields /\ x \in G
  BY <1>5 DEF Fields
<1>15. Content(e)
  BY <1>12, <1>13, <1>14 DEF Content
<1>16. e = [x \in Fields |-> e[x]]
  BY <1>13
<1> QED
  BY <1>15, <1>16 DEF Formed, r

-----------------------------------------------------------------------------
(* What an exported document is read as.                                    *)

(* A definition, from files or from a document.                             *)
Whole(d) ==
  /\ Options(d) /\ Formed(d.environment)
  /\ d = [environment |-> d.environment, soundSpeed |-> d.soundSpeed, altimetry |-> d.altimetry,
          bathymetry |-> d.bathymetry, topReflection |-> d.topReflection,
          bottomReflection |-> d.bottomReflection, internalReflection |-> d.internalReflection,
          pattern |-> d.pattern]

(* All that is found of it, and what it has when none of that is an error:  *)
(* every part that it marks, and no other.                                  *)
Found(d) == ValidateEnvironment(d.environment) \cup ValidateDefinition(d)
Clean(d) == \A n \in Found(d) : n.severity # "error"
Marked(d) ==
  LET e == d.environment IN
  /\ e.altimetry = Present(d.altimetry) /\ e.top.shaped = Present(d.altimetry)
  /\ e.bottom.shaped = Present(d.bathymetry) /\ e.development = Present(e.selected)
  /\ e.run.pattern = Present(d.pattern)
  /\ (e.top.condition = "F") = Present(d.topReflection)
  /\ (e.bottom.condition = "F") = Present(d.bottomReflection)
  /\ (e.bottom.condition = "P") = Present(d.internalReflection)

(* A definition without errors has what it marks.                           *)
LEMMA CleanMarked ==
  ASSUME NEW d, Clean(d)
  PROVE  Marked(d)
<1> DEFINE e == d.environment
           S == Found(d)
<1>1. ASSUME NEW holds \in BOOLEAN, NEW what, Unless(holds, what) \subseteq S PROVE holds
  <2>1. Error(what).severity = "error"
    BY DEF Error, ErrorOf
  <2>2. \A n \in S : n.severity # "error"
    BY DEF Clean
  <2> HIDE DEF S
  <2> QED
    BY <1>1, <2>1, <2>2 DEF Unless
<1>2. ValidateRunConfiguration(e) \subseteq S /\ ValidateReflectionPresence(d) \subseteq S
  BY DEF Found, ValidateEnvironment, ValidateDefinition
<1>3. Unless(e.development = Present(e.selected), "development") \subseteq S
  BY <1>2 DEF ValidateRunConfiguration
<1>4. /\ Unless((e.top.condition = "F") = Present(d.topReflection), "top table") \subseteq S
      /\ Unless((e.bottom.condition = "F") = Present(d.bottomReflection), "bottom table") \subseteq S
      /\ Unless((e.bottom.condition = "P") = Present(d.internalReflection), "internal table") \subseteq S
  BY <1>2 DEF ValidateReflectionPresence
<1>5. /\ Unless(e.altimetry = e.top.shaped, "top markers") \subseteq S
      /\ Unless(e.altimetry = Present(d.altimetry), "altimetry presence") \subseteq S
      /\ Unless(e.bottom.shaped = Present(d.bathymetry), "bathymetry presence") \subseteq S
      /\ Unless(e.run.pattern = Present(d.pattern), "pattern presence") \subseteq S
  BY DEF Found, ValidateDefinition
<1> HIDE DEF S, e
<1>6. e.development = Present(e.selected)
  BY <1>1, <1>3
<1>7. /\ (e.top.condition = "F") = Present(d.topReflection)
      /\ (e.bottom.condition = "F") = Present(d.bottomReflection)
      /\ (e.bottom.condition = "P") = Present(d.internalReflection)
  BY <1>1, <1>4
<1>8. /\ e.altimetry = e.top.shaped /\ e.altimetry = Present(d.altimetry)
      /\ e.bottom.shaped = Present(d.bathymetry) /\ e.run.pattern = Present(d.pattern)
  BY <1>1, <1>5
<1> QED
  BY <1>6, <1>7, <1>8 DEF Marked, e

(* A density that is printed and read again.                                *)
Back(x) == (Thousandfold(x) + 500) \div 1000

(* It is a last place away at most, stays positive, and from then on is     *)
(* printed as the same.                                                    *)
LEMMA DensityReturned ==
  ASSUME NEW x \in Int, Finite(Thousandfold(x))
  PROVE  /\ Back(x) \in Int /\ Back(x) - x \in -1 .. 1
         /\ Thousandfold(Back(x)) = Thousandfold(x)
         /\ Positive(x) => Positive(Back(x))
<1>1. NaN \in Int /\ Overflow \in Int /\ Overflow <= NaN /\ Spacing \in {512, 1024}
  BY InputAssumption, DensityAssumption
<1> DEFINE n == Nearest(x)
<1>2. Thousandfold(x) = n /\ n < Overflow
  BY DEF Thousandfold, Finite
<1>3. n \in Int
  BY <1>1 DEF Nearest
<1> DEFINE b == (n + 500) \div 1000
<1>4. Back(x) = b
  BY <1>2 DEF Back
<1>5. b \in Int /\ b - x \in -1 .. 1 /\ Nearest(b) = n
  <2>1. CASE Spacing = 1024
    <3> DEFINE q == (2 * 1000 * x + 1024) \div (2 * 1024)
    <3>1. n = 1024 * q /\ q \in Int
      BY <2>1 DEF Nearest
    <3>2. 1024 * q - 512 <= 1000 * x /\ 1000 * x < 1024 * q + 512
      OBVIOUS
    <3> HIDE DEF q, n
    <3>3. b \in Int /\ 1000 * b <= 1024 * q + 500 /\ 1024 * q - 500 < 1000 * b
      BY <3>1
    <3> HIDE DEF b
    <3>4. b - x \in -1 .. 1
      BY <3>1, <3>2, <3>3
    <3>5. (2 * 1000 * b + 1024) \div (2 * 1024) = q
      BY <3>1, <3>3
    <3>6. Nearest(b) = n
      BY <2>1, <3>1, <3>5 DEF Nearest
    <3> QED
      BY <3>3, <3>4, <3>6
  <2>2. CASE Spacing = 512
    <3> DEFINE q == (2 * 1000 * x + 512) \div (2 * 512)
    <3>1. n = 512 * q /\ q \in Int
      BY <2>2 DEF Nearest
    <3>2. 512 * q - 256 <= 1000 * x /\ 1000 * x < 512 * q + 256
      OBVIOUS
    <3> HIDE DEF q, n
    <3>3. b \in Int /\ 1000 * b <= 512 * q + 500 /\ 512 * q - 500 < 1000 * b
      BY <3>1
    <3> HIDE DEF b
    <3>4. b = x
      BY <3>1, <3>2, <3>3
    <3> QED
      BY <3>3, <3>4 DEF n
  <2> QED
    BY <1>1, <2>1, <2>2
<1>6. ASSUME Positive(x) PROVE Positive(b)
  <2>1. x >= 1
    BY <1>6, <1>1 DEF Positive, Less, Finite
  <2>2. n >= 1000
    <3>1. CASE Spacing = 1024
      BY <2>1, <3>1 DEF Nearest
    <3>2. CASE Spacing = 512
      BY <2>1, <3>2 DEF Nearest
    <3> QED
      BY <1>1, <3>1, <3>2
  <2> HIDE DEF n
  <2>3. 0 < b /\ b <= n
    BY <1>3, <2>2
  <2> HIDE DEF b
  <2>4. 0 # NaN /\ b # NaN
    BY <1>1, <1>2, <1>3, <1>5, <2>3
  <2> QED
    BY <2>3, <2>4 DEF Positive, Less, Finite
<1> HIDE DEF b
<1>7. Thousandfold(b) = n
  BY <1>2, <1>5 DEF Thousandfold
<1> QED
  BY <1>2, <1>4, <1>5, <1>6, <1>7

(* Media in a document and back, and those that can be printed.             *)
Again(s) == ForEach(ForEach(s, DocumentPoint), CasePoint)
Printed(s) == \A i \in DOMAIN s : Finite(Thousandfold(s[i].density))

(* They are alike, and from then on are printed as the same.                *)
LEMMA MediaReturned ==
  ASSUME NEW s \in Seq(Samples), Printed(s)
  PROVE  /\ Alike(s, Again(s)) /\ Len(Again(s)) = Len(s)
         /\ ForEach(Again(s), DocumentPoint) = ForEach(s, DocumentPoint)
         /\ \A i \in DOMAIN s : /\ Again(s)[i].depth = s[i].depth /\ Again(s)[i].speed = s[i].speed
                                /\ Positive(s[i].density) => Positive(Again(s)[i].density)
<1> DEFINE Fresh(p) == CasePoint(DocumentPoint(p))
<1>1. ASSUME NEW p \in Samples, Finite(Thousandfold(p.density))
      PROVE  /\ Fresh(p) = [p EXCEPT !.density = Fresh(p).density]
             /\ Fresh(p).density - p.density \in -1 .. 1
             /\ Fresh(p).depth = p.depth /\ Fresh(p).speed = p.speed
             /\ Positive(p.density) => Positive(Fresh(p).density)
             /\ DocumentPoint(Fresh(p)) = DocumentPoint(p)
  <2> DEFINE D == {"depth", "speed", "density"}
             x == p["density"]
  <2>1. x \in Int /\ p = [y \in D |-> p[y]]
    BY DEF Samples
  <2>2. DocumentPoint(p) = [y \in D |-> IF y = "density" THEN Thousandfold(x) ELSE p[y]]
    BY <2>1 DEF DocumentPoint
  <2>3. Fresh(p) = [y \in D |-> IF y = "density" THEN Back(x) ELSE p[y]]
    BY <2>2 DEF CasePoint, Back
  <2>4. DocumentPoint(Fresh(p)) = [y \in D |-> IF y = "density" THEN Thousandfold(Back(x)) ELSE p[y]]
    BY <2>3 DEF DocumentPoint
  <2>5. Finite(Thousandfold(x))
    BY <1>1
  <2> HIDE DEF x, Fresh
  <2>6. /\ Back(x) - x \in -1 .. 1 /\ Thousandfold(Back(x)) = Thousandfold(x)
        /\ Positive(x) => Positive(Back(x))
    BY <2>1, <2>5, DensityReturned
  <2>7. DocumentPoint(Fresh(p)) = DocumentPoint(p)
    BY <2>2, <2>4, <2>6
  <2>8. Fresh(p).density = Back(x) /\ Fresh(p).depth = p.depth /\ Fresh(p).speed = p.speed
    BY <2>3
  <2>9. Fresh(p) = [p EXCEPT !.density = Back(x)]
    BY <2>1, <2>3
  <2> QED
    BY <2>6, <2>7, <2>8, <2>9 DEF x
<1>2. \A i \in DOMAIN s : s[i] \in Samples /\ Finite(Thousandfold(s[i].density))
  BY DEF Printed
<1>3. Again(s) = [i \in DOMAIN s |-> Fresh(s[i])]
  BY DEF Again, ForEach
<1>4. Len(Again(s)) = Len(s) /\ DOMAIN Again(s) = DOMAIN s
  BY <1>3
<1> HIDE DEF Fresh
<1>5. \A i \in DOMAIN s : Again(s)[i] = Fresh(s[i])
  BY <1>3
<1>6. ForEach(Again(s), DocumentPoint) = [i \in DOMAIN s |-> DocumentPoint(Fresh(s[i]))]
  BY <1>3 DEF ForEach
<1>7. ForEach(s, DocumentPoint) = [i \in DOMAIN s |-> DocumentPoint(s[i])]
  BY DEF ForEach
<1>8. ForEach(Again(s), DocumentPoint) = ForEach(s, DocumentPoint)
  BY <1>1, <1>2, <1>6, <1>7
<1>9. Alike(s, Again(s))
  BY <1>1, <1>2, <1>4, <1>5 DEF Alike
<1> QED
  BY <1>1, <1>2, <1>4, <1>5, <1>8, <1>9

(* And so is a boundary, with its shape and its tables.                     *)
AgainBoundary(b) == [b EXCEPT !.material = Again(@)]

(* A boundary that is exported is read again with its media as they become. *)
LEMMA BoundaryReturned ==
  ASSUME NEW b, Bounds(b), NEW shape, b.shaped = Present(shape), NEW reflection, NEW internal,
         (b.condition = "F") = Present(reflection), (b.condition = "P") = Present(internal)
  PROVE  ImportBoundary(ExportBoundary(b, shape, reflection, internal)) =
           [boundary |-> AgainBoundary(b), shape |-> shape, reflection |-> reflection, internal |-> internal]
<1> DEFINE x == ExportBoundary(b, shape, reflection, internal)
<1>1. /\ x.condition = b.condition /\ x.roughness = b.roughness /\ x.grain = b.grain
      /\ x.material = ForEach(b.material, DocumentPoint) /\ x.shape = shape
      /\ b.condition = "F" => x.table = reflection
      /\ b.condition = "P" => x.table = internal
  BY DEF ExportBoundary
<1>2. b = [condition |-> b.condition, roughness |-> b.roughness, shaped |-> b.shaped,
           material |-> b.material, grain |-> b.grain]
  BY DEF Bounds
<1>5. AgainBoundary(b) = [condition |-> b.condition, roughness |-> b.roughness, shaped |-> b.shaped,
                          material |-> Again(b.material), grain |-> b.grain]
  BY <1>2 DEF AgainBoundary
<1> HIDE DEF x
<1>3. ImportBoundary(x) =
        [boundary |-> [condition |-> b.condition, roughness |-> b.roughness, shaped |-> b.shaped,
                       material |-> Again(b.material), grain |-> b.grain],
         shape |-> shape,
         reflection |-> IF b.condition = "F" THEN reflection ELSE <<>>,
         internal |-> IF b.condition = "P" THEN internal ELSE <<>>]
  BY <1>1 DEF ImportBoundary, Again
<1>4. (b.condition # "F" => reflection = <<>>) /\ (b.condition # "P" => internal = <<>>)
  BY DEF Present
<1> QED
  BY <1>3, <1>4, <1>5 DEF x

(* What is kept of a definition: all but the encoding of its arrivals and   *)
(* the last places of its densities.                                       *)
Encoding(e) == IF e.run.kind = "A" THEN "ascii" ELSE "none"
KeptRun(e) == [e.run EXCEPT !.encoding = Encoding(e)]
KeptEnvironment(e) ==
  [e EXCEPT !.run = KeptRun(e), !.points = Again(@),
            !.top = AgainBoundary(@), !.bottom = AgainBoundary(@)]
Kept(d) == [d EXCEPT !.environment = KeptEnvironment(d.environment)]

KeptField(e, x) ==
  CASE x = "run" -> KeptRun(e)
    [] x = "points" -> Again(e.points)
    [] x \in {"top", "bottom"} -> AgainBoundary(e[x])
    [] OTHER -> e[x]

(* Its environment is the same but for the run, which is but for that, and  *)
(* the media.                                                              *)
LEMMA RunKept ==
  ASSUME NEW e, Formed(e)
  PROVE  /\ KeptEnvironment(e) = [x \in Fields |-> KeptField(e, x)]
         /\ KeptEnvironment(e).run = KeptRun(e)
         /\ KeptRun(e) = [x \in RunFields |-> IF x = "encoding" THEN Encoding(e) ELSE e.run[x]]
         /\ KeptRun(e).kind = e.run.kind /\ KeptRun(e).family = e.run.family
         /\ KeptRun(e).pattern = e.run.pattern /\ KeptRun(e).irregular = e.run.irregular
         /\ KeptRun(e).encoding = Encoding(e)
<1>1. e = [x \in Fields |-> e[x]] /\ "run" \in Fields
  BY DEF Formed, Fields
<1>6. KeptField(e, "run") = KeptRun(e)
  BY DEF KeptField
<1>2. e.run = [x \in RunFields |-> e.run[x]]
  <2>1. "run" \in DOMAIN e
    BY <1>1
  <2> QED
    BY <2>1 DEF Formed, Content, RunLike
<1>3. KeptEnvironment(e) = [x \in Fields |-> KeptField(e, x)]
  <2>1. {"run", "points", "top", "bottom"} \subseteq Fields
    BY DEF Fields
  <2>2. KeptEnvironment(e) =
          [x \in Fields |-> IF x = "bottom" THEN AgainBoundary(e["bottom"])
                            ELSE IF x = "top" THEN AgainBoundary(e["top"])
                            ELSE IF x = "points" THEN Again(e["points"])
                            ELSE IF x = "run" THEN KeptRun(e) ELSE e[x]]
    BY <1>1, <2>1 DEF KeptEnvironment
  <2> QED
    BY <2>2 DEF KeptField
<1>4. KeptRun(e) = [x \in RunFields |-> IF x = "encoding" THEN Encoding(e) ELSE e.run[x]]
  BY <1>2 DEF KeptRun
<1>5. {"kind", "encoding", "family", "pattern", "irregular", "line"} \subseteq RunFields
  BY DEF RunFields
<1> QED
  BY <1>1, <1>3, <1>4, <1>5, <1>6

(* A half-space is kept as sound as it was.                                 *)
LEMMA BoundaryKept ==
  ASSUME NEW b, Bounds(b), Printed(b.material), NEW side,
         \A m \in Range(b.material) : ValidMaterial(m)
  PROVE  ValidateBoundary(AgainBoundary(b), side) \subseteq ValidateBoundary(b, side)
<1> DEFINE s == b.material
           c == AgainBoundary(b)
<1>1. s \in Seq(Samples) /\ c.material = Again(s) /\ c.roughness = b.roughness /\ c.grain = b.grain
  BY DEF Bounds, AgainBoundary
<1> HIDE DEF s, c
<1>2. /\ DOMAIN Again(s) = DOMAIN s
      /\ \A i \in DOMAIN s : /\ Again(s)[i].speed = s[i].speed
                             /\ Positive(s[i].density) => Positive(Again(s)[i].density)
  BY <1>1, MediaReturned DEF s, Alike
<1>3. \A i \in DOMAIN s : Positive(s[i].speed) /\ Positive(s[i].density)
  BY DEF ValidMaterial, Range, s
<1>4. \A m \in Range(c.material) : ValidMaterial(m)
  BY <1>1, <1>2, <1>3 DEF ValidMaterial, Range
<1>5. Unless(\A m \in Range(c.material) : ValidMaterial(m), side \o " half-space") = {}
  BY <1>4 DEF Unless
<1> QED
  BY <1>1, <1>5 DEF ValidateBoundary, c

(* What is found of it, then, was found before.                             *)
LEMMA KeptFound ==
  ASSUME NEW d, Whole(d), Clean(d), Readable(d)
  PROVE  Found(Kept(d)) \subseteq Found(d)
<1> DEFINE e == d.environment
           k == KeptEnvironment(e)
           c == Kept(d)
<1>1. /\ c.environment = k /\ c.soundSpeed = d.soundSpeed /\ c.altimetry = d.altimetry
      /\ c.bathymetry = d.bathymetry /\ c.topReflection = d.topReflection
      /\ c.bottomReflection = d.bottomReflection /\ c.internalReflection = d.internalReflection
      /\ c.pattern = d.pattern
  BY DEF Whole, Kept
<1>2. Formed(e)
  BY DEF Whole
<1>3. \A x \in Fields : k[x] = KeptField(e, x)
  BY <1>2, RunKept
<1>4. /\ k.run.kind = e.run.kind /\ k.run.family = e.run.family /\ k.run.pattern = e.run.pattern
      /\ k.run.irregular = e.run.irregular /\ k.run.encoding = Encoding(e)
  BY <1>2, RunKept
<1>5. /\ k.frequency = e.frequency /\ k.volume = e.volume /\ k.interpolation = e.interpolation
      /\ k.altimetry = e.altimetry /\ k.development = e.development /\ k.top = AgainBoundary(e.top)
      /\ k.bottomDepth = e.bottomDepth /\ k.points = Again(e.points) /\ k.topDepth = e.topDepth
      /\ k.bottom = AgainBoundary(e.bottom)
      /\ k.sources = e.sources /\ k.depths = e.depths /\ k.ranges = e.ranges
      /\ k.angles = e.angles /\ k.selected = e.selected /\ k.trace = e.trace /\ k.cerveny = e.cerveny
  BY <1>3 DEF Fields, KeptField
<1>12. Bounds(e.top) /\ Bounds(e.bottom) /\ e.points \in Seq(Samples)
  <2>1. {"top", "bottom", "points"} \subseteq DOMAIN e
    BY <1>2 DEF Formed, Fields
  <2> QED
    BY <1>2, <2>1 DEF Formed, Content
<1>13. Printed(e.top.material) /\ Printed(e.bottom.material) /\ Printed(e.points)
  BY DEF Readable, Printed
<1>14. /\ k.top.condition = e.top.condition /\ k.top.shaped = e.top.shaped
       /\ k.bottom.condition = e.bottom.condition /\ k.bottom.shaped = e.bottom.shaped
  BY <1>5, <1>12 DEF AgainBoundary, Bounds
<1>15. ASSUME NEW holds \in BOOLEAN, NEW what, Unless(holds, what) \subseteq Found(d) PROVE holds
  <2>1. Error(what).severity = "error"
    BY DEF Error, ErrorOf
  <2> QED
    BY <1>15, <2>1 DEF Unless, Clean
<1>16. /\ \A m \in Range(e.top.material) : ValidMaterial(m)
       /\ \A m \in Range(e.bottom.material) : ValidMaterial(m)
       /\ \A m \in Range(e.points) : Finite(m.depth) /\ ValidMaterial(m)
  <2>1. /\ ValidateBoundary(e.top, "top") \subseteq Found(d)
        /\ ValidateBoundary(e.bottom, "bottom") \subseteq Found(d)
        /\ Unless(\A m \in Range(e.points) : Finite(m.depth) /\ ValidMaterial(m), "points") \subseteq Found(d)
    BY DEF Found, ValidateEnvironment
  <2>2. /\ Unless(\A m \in Range(e.top.material) : ValidMaterial(m), "top" \o " half-space") \subseteq Found(d)
        /\ Unless(\A m \in Range(e.bottom.material) : ValidMaterial(m), "bottom" \o " half-space") \subseteq Found(d)
    BY <2>1 DEF ValidateBoundary
  <2> HIDE DEF e
  <2> QED
    BY <1>15, <2>1, <2>2
<1>17. /\ Len(k.points) = Len(e.points) /\ Column(k.points, "depth") = Column(e.points, "depth")
       /\ \A m \in Range(k.points) : Finite(m.depth) /\ ValidMaterial(m)
  <2> DEFINE s == e.points
             t == Again(s)
  <2>1. /\ Alike(s, t) /\ Len(t) = Len(s)
        /\ \A i \in DOMAIN s : /\ t[i].depth = s[i].depth /\ t[i].speed = s[i].speed
                               /\ Positive(s[i].density) => Positive(t[i].density)
    BY <1>12, <1>13, MediaReturned
  <2>2. DOMAIN t = DOMAIN s
    BY <2>1 DEF Alike
  <2>3. \A i \in DOMAIN s : Finite(s[i].depth) /\ Positive(s[i].speed) /\ Positive(s[i].density)
    BY <1>16 DEF Range, ValidMaterial
  <2>4. k.points = t
    BY <1>5
  <2> HIDE DEF t
  <2>5. Column(t, "depth") = Column(s, "depth")
    BY <2>1, <2>2 DEF Column
  <2>6. \A m \in Range(t) : Finite(m.depth) /\ ValidMaterial(m)
    BY <2>1, <2>2, <2>3 DEF Range, ValidMaterial
  <2> QED
    BY <2>1, <2>4, <2>5, <2>6
<1> HIDE DEF c, k, e
<1>6. ValidatePositions(k) = ValidatePositions(e)
  <2> DEFINE U(x) == UNION {Unless(Present(x[v]), v \o " empty") \cup Unless(AllFinite(x[v]), v \o " finite")
                              : v \in {"sources", "depths", "ranges", "angles"}}
  <2>1. \A v \in {"sources", "depths", "ranges", "angles"} : k[v] = e[v]
    BY <1>5
  <2>2. U(k) = U(e)
    BY <2>1
  <2>3. InColumn(k, k.sources) = InColumn(e, e.sources) /\ InColumn(k, k.depths) = InColumn(e, e.depths)
    BY <1>5 DEF InColumn
  <2>4. \A x : ValidatePositions(x) =
                  Unless(Positive(x.frequency), "frequency") \cup
                  Unless(Less(x.topDepth, x.bottomDepth), "bottom depth") \cup U(x) \cup
                  Unless(InColumn(x, x.sources), "source depths") \cup
                  Unless(InColumn(x, x.depths), "receiver depths") \cup
                  Unless(Increasing(x.ranges), "receiver ranges") \cup
                  Unless(x.run.irregular => Len(x.depths) = Len(x.ranges), "irregular")
    BY DEF ValidatePositions
  <2> HIDE DEF U
  <2>5. (k.run.irregular => Len(k.depths) = Len(k.ranges)) = (e.run.irregular => Len(e.depths) = Len(e.ranges))
    BY <1>4, <1>5
  <2> QED
    BY <1>5, <2>2, <2>3, <2>4, <2>5
<1>7. ValidateRunConfiguration(k) \subseteq ValidateRunConfiguration(e)
  <2>1. Unless((k.run.kind = "A") = (k.run.encoding # "none"), "run.encoding") = {}
    BY <1>4 DEF Unless, Encoding
  <2> QED
    BY <1>4, <1>5, <2>1 DEF ValidateRunConfiguration
<1>8. /\ ValidateVolume(k) = ValidateVolume(e)
      /\ ValidateCoherentBeamCount(k) = ValidateCoherentBeamCount(e)
      /\ ValidateBoundary(k.top, "top") \subseteq ValidateBoundary(e.top, "top")
      /\ ValidateBoundary(k.bottom, "bottom") \subseteq ValidateBoundary(e.bottom, "bottom")
  <2>1. /\ ValidateVolume(k) = ValidateVolume(e)
        /\ ValidateCoherentBeamCount(k) = ValidateCoherentBeamCount(e)
    BY <1>4, <1>5 DEF ValidateVolume, ValidateCoherentBeamCount
  <2>2. /\ ValidateBoundary(k.top, "top") \subseteq ValidateBoundary(e.top, "top")
        /\ ValidateBoundary(k.bottom, "bottom") \subseteq ValidateBoundary(e.bottom, "bottom")
    BY <1>5, <1>12, <1>13, <1>16, BoundaryKept
  <2> QED
    BY <2>1, <2>2
<1>9. ValidateEnvironment(k) \subseteq ValidateEnvironment(e)
  <2> DEFINE R(x) ==
               Unless(x.interpolation # "A" => Len(x.points) >= 2, "two points") \cup
               Unless(Increasing(Column(x.points, "depth")), "point depths") \cup
               Unless(\A p \in Range(x.points) : Finite(p.depth) /\ ValidMaterial(p), "points") \cup
               Unless(Range(x.selected) \subseteq DOMAIN x.angles, "selected") \cup
               Unless(AtMost(0, x.trace.step), "trace.step") \cup
               Unless(Positive(x.trace.depth), "trace.depth") \cup
               Unless(Positive(x.trace.range), "trace.range") \cup
               Unless(AllFinite(x.cerveny), "trace.cerveny")
  <2>1. \A x : ValidateEnvironment(x) =
                  ValidatePositions(x) \cup R(x) \cup ValidateRunConfiguration(x) \cup
                  ValidateBoundary(x.top, "top") \cup ValidateBoundary(x.bottom, "bottom") \cup
                  ValidateVolume(x) \cup ValidateCoherentBeamCount(x)
    BY DEF ValidateEnvironment
  <2>2. R(k) \subseteq R(e)
    <3>1. Unless(\A p \in Range(k.points) : Finite(p.depth) /\ ValidMaterial(p), "points") = {}
      BY <1>17 DEF Unless
    <3>2. (k.interpolation # "A" => Len(k.points) >= 2) = (e.interpolation # "A" => Len(e.points) >= 2)
      BY <1>5, <1>17
    <3>3. /\ Column(k.points, "depth") = Column(e.points, "depth")
          /\ (Range(k.selected) \subseteq DOMAIN k.angles) = (Range(e.selected) \subseteq DOMAIN e.angles)
          /\ k.trace = e.trace /\ k.cerveny = e.cerveny
      BY <1>5, <1>17
    <3> QED
      BY <3>1, <3>2, <3>3
  <2> HIDE DEF R
  <2> QED
    BY <1>6, <1>7, <1>8, <2>1, <2>2
<1>10. ValidateReflectionPresence(c) = ValidateReflectionPresence(d)
  <2>1. /\ c.environment["top"].condition = d.environment["top"].condition
        /\ c.environment["bottom"].condition = d.environment["bottom"].condition
    BY <1>1, <1>14 DEF e
  <2> QED
    BY <1>1, <2>1 DEF ValidateReflectionPresence
<1>11. ValidateDefinition(c) = ValidateDefinition(d)
  <2> DEFINE A == UNION {ValidateRangeDependentSoundSpeed(f, k) : f \in Range(d.soundSpeed)}
             A2 == UNION {ValidateRangeDependentSoundSpeed(f, e) : f \in Range(d.soundSpeed)}
             B == UNION {ValidateInternalReflection(t, k) : t \in Range(d.internalReflection)}
             B2 == UNION {ValidateInternalReflection(t, e) : t \in Range(d.internalReflection)}
             P(x, y, a, b) ==
               Unless((x.interpolation = "Q") = Present(y.soundSpeed), "matrix presence") \cup
               a \cup
               Unless(x.altimetry = x.top.shaped, "top markers") \cup
               Unless(x.altimetry = Present(y.altimetry), "altimetry presence") \cup
               Unless(x.bottom.shaped = Present(y.bathymetry), "bathymetry presence") \cup
               (UNION {ValidateBoundaryShape(s, "top", TRUE, x.topDepth) : s \in Range(y.altimetry)}) \cup
               (UNION {ValidateBoundaryShape(s, "bottom", FALSE, x.bottomDepth) : s \in Range(y.bathymetry)}) \cup
               ValidateReflectionPresence(y) \cup
               (UNION {ValidateReflectionTable(t, "top") : t \in Range(y.topReflection)}) \cup
               (UNION {ValidateReflectionTable(t, "bottom") : t \in Range(y.bottomReflection)}) \cup
               b \cup
               Unless(x.run.pattern = Present(y.pattern), "pattern presence") \cup
               (UNION {ValidateSourceBeamPattern(t) : t \in Range(y.pattern)})
  <2>1. \A f : ValidateRangeDependentSoundSpeed(f, k) = ValidateRangeDependentSoundSpeed(f, e)
    BY <1>17 DEF ValidateRangeDependentSoundSpeed
  <2>2. \A t : ValidateInternalReflection(t, k) = ValidateInternalReflection(t, e)
    BY <1>5 DEF ValidateInternalReflection
  <2>3. A = A2 /\ B = B2
    BY <2>1, <2>2
  <2>4. ValidateDefinition(c) = P(k, c, A, B)
    BY <1>1 DEF ValidateDefinition, Each
  <2>5. ValidateDefinition(d) = P(e, d, A2, B2)
    BY DEF ValidateDefinition, Each, e
  <2> HIDE DEF A, A2, B, B2
  <2>6. P(k, c, A, B) = P(e, d, A2, B2)
    BY <1>1, <1>4, <1>5, <1>10, <1>14, <2>3
  <2> QED
    BY <2>4, <2>5, <2>6
<1> QED
  BY <1>1, <1>9, <1>11 DEF Found, e, c

(* An exported case is read as what is kept of it, and exported as itself.  *)
LEMMA Returned ==
  ASSUME NEW d, Whole(d), Marked(d), Exportable(d), Readable(d)
  PROVE  /\ IntoCase(Export(d)) = Kept(d) /\ Exportable(Kept(d))
         /\ Export(Kept(d)) = [Export(d) EXCEPT !.run = KeptRun(d.environment)]
<1> DEFINE e == d.environment
           x == Export(d)
           a == IntoCase(x)
           k == KeptEnvironment(e)
<1>1. Formed(e) /\ Fields \subseteq DOMAIN e
  BY DEF Whole, Formed
<1>2. Bounds(e.top) /\ Bounds(e.bottom) /\ e.points \in Seq(Samples)
  BY <1>1 DEF Formed, Content, Fields
<1>3. e.top.condition # "P"
  BY DEF Exportable
<1>4. ImportBoundary(x.top) =
        [boundary |-> AgainBoundary(e.top), shape |-> d.altimetry, reflection |-> d.topReflection, internal |-> <<>>]
  <2>1. e.top.shaped = Present(d.altimetry) /\ (e.top.condition = "F") = Present(d.topReflection)
    BY DEF Marked
  <2>2. (e.top.condition = "P") = Present(<<>>)
    BY <1>3 DEF Present
  <2>3. x.top = ExportBoundary(e.top, d.altimetry, d.topReflection, <<>>)
    BY DEF Export
  <2> HIDE DEF x, e
  <2> QED
    BY <1>2, <2>1, <2>2, <2>3, BoundaryReturned
<1>5. ImportBoundary(x.bottom) =
        [boundary |-> AgainBoundary(e.bottom), shape |-> d.bathymetry, reflection |-> d.bottomReflection,
         internal |-> d.internalReflection]
  <2>1. /\ e.bottom.shaped = Present(d.bathymetry) /\ (e.bottom.condition = "F") = Present(d.bottomReflection)
        /\ (e.bottom.condition = "P") = Present(d.internalReflection)
    BY DEF Marked
  <2>2. x.bottom = ExportBoundary(e.bottom, d.bathymetry, d.bottomReflection, d.internalReflection)
    BY DEF Export
  <2> HIDE DEF x, e
  <2> QED
    BY <1>2, <2>1, <2>2, BoundaryReturned
<1>6. ForEach(x.points, CasePoint) = Again(e.points)
  BY DEF Export, Again
<1>7. [x.run EXCEPT !.pattern = Present(x.pattern),
                    !.encoding = IF x.run.kind = "A" THEN "ascii" ELSE "none"] = KeptRun(e)
  <2>1. x.run = e.run /\ x.pattern = d.pattern
    BY DEF Export
  <2>2. KeptRun(e) = [y \in RunFields |-> IF y = "encoding" THEN Encoding(e) ELSE e.run[y]]
    BY <1>1, RunKept
  <2>3. e.run = [y \in RunFields |-> e.run[y]]
    BY <1>1 DEF Formed, Content, RunLike, Fields
  <2>4. e.run["pattern"] = Present(d.pattern)
    BY DEF Marked
  <2> HIDE DEF x, e
  <2>5. [x.run EXCEPT !.pattern = Present(x.pattern),
                      !.encoding = IF x.run.kind = "A" THEN "ascii" ELSE "none"] =
          [y \in RunFields |-> IF y = "encoding" THEN Encoding(e)
                               ELSE IF y = "pattern" THEN Present(d.pattern) ELSE e.run[y]]
    BY <2>1, <2>3 DEF Encoding
  <2> QED
    BY <2>2, <2>4, <2>5
<1>8. /\ x.frequency = e.frequency /\ x.interpolation = e.interpolation /\ x.volume = e.volume
      /\ x.topDepth = e.topDepth /\ x.bottomDepth = e.bottomDepth /\ x.rangeDependent = d.soundSpeed
      /\ x.sources = e.sources /\ x.depths = e.depths /\ x.ranges = e.ranges
      /\ x.angles = e.angles /\ x.selected = e.selected /\ x.trace = e.trace
      /\ x.cerveny = e.cerveny /\ x.pattern = d.pattern
  BY DEF Export
<1>9. Present(d.altimetry) = e.altimetry /\ Present(e.selected) = e.development
  BY DEF Marked
<1> HIDE DEF x, e
<1>10. a.environment =
         [frequency |-> e.frequency, interpolation |-> e.interpolation, volume |-> e.volume,
          altimetry |-> e.altimetry, development |-> e.development,
          top |-> AgainBoundary(e.top), bottom |-> AgainBoundary(e.bottom),
          topDepth |-> e.topDepth, bottomDepth |-> e.bottomDepth, points |-> Again(e.points),
          sources |-> e.sources, depths |-> e.depths, ranges |-> e.ranges, run |-> KeptRun(e),
          angles |-> e.angles, selected |-> e.selected, trace |-> e.trace, cerveny |-> e.cerveny]
  BY <1>4, <1>5, <1>6, <1>7, <1>8, <1>9 DEF IntoCase
<1>11. /\ a.soundSpeed = d.soundSpeed /\ a.altimetry = d.altimetry /\ a.bathymetry = d.bathymetry
       /\ a.topReflection = d.topReflection /\ a.bottomReflection = d.bottomReflection
       /\ a.internalReflection = d.internalReflection /\ a.pattern = d.pattern
  BY <1>4, <1>5, <1>8 DEF IntoCase
<1>12. a = [environment |-> a.environment, soundSpeed |-> a.soundSpeed, altimetry |-> a.altimetry,
            bathymetry |-> a.bathymetry, topReflection |-> a.topReflection,
            bottomReflection |-> a.bottomReflection, internalReflection |-> a.internalReflection,
            pattern |-> a.pattern]
  BY DEF IntoCase
<1> HIDE DEF a
<1>13. a.environment = k
  <2>1. k = [y \in Fields |-> KeptField(e, y)]
    BY <1>1, RunKept
  <2> DEFINE f == a.environment
  <2>2. f = [y \in Fields |-> f[y]]
    BY <1>10 DEF Fields
  <2>3. \A y \in Fields : f[y] = KeptField(e, y)
    BY <1>10 DEF Fields, KeptField
  <2> HIDE DEF f
  <2>4. f = k
    BY <2>1, <2>2, <2>3
  <2> QED
    BY <2>4 DEF f
<1> HIDE DEF k
<1>14. Kept(d) = [environment |-> k, soundSpeed |-> d.soundSpeed, altimetry |-> d.altimetry,
                  bathymetry |-> d.bathymetry, topReflection |-> d.topReflection,
                  bottomReflection |-> d.bottomReflection, internalReflection |-> d.internalReflection,
                  pattern |-> d.pattern]
  BY DEF Kept, Whole, k, e
<1>15. a = Kept(d)
  BY <1>11, <1>12, <1>13, <1>14
<1>16. k.top = AgainBoundary(e.top) /\ k.bottom = AgainBoundary(e.bottom)
  BY <1>1, RunKept DEF Fields, k, KeptField
<1>20. ASSUME NEW b, Bounds(b), Printed(b.material)
       PROVE  /\ AgainBoundary(b).condition = b.condition /\ AgainBoundary(b).roughness = b.roughness
              /\ AgainBoundary(b).grain = b.grain
              /\ ForEach(AgainBoundary(b).material, DocumentPoint) = ForEach(b.material, DocumentPoint)
  <2>1. /\ AgainBoundary(b).condition = b.condition /\ AgainBoundary(b).roughness = b.roughness
        /\ AgainBoundary(b).grain = b.grain /\ AgainBoundary(b).material = Again(b.material)
    BY <1>20 DEF AgainBoundary, Bounds
  <2>2. b.material \in Seq(Samples)
    BY <1>20 DEF Bounds
  <2> QED
    BY <1>20, <2>1, <2>2, MediaReturned
<1>21. Printed(e.top.material) /\ Printed(e.bottom.material) /\ Printed(e.points)
  BY DEF Readable, Printed, e
<1>22. k.top.condition = e.top.condition /\ k.bottom.condition = e.bottom.condition
  BY <1>2, <1>16, <1>20, <1>21
<1>17. Exportable(Kept(d))
  BY <1>14, <1>22 DEF Exportable, e
<1>18. /\ k.frequency = e.frequency /\ k.volume = e.volume /\ k.interpolation = e.interpolation
       /\ k.bottomDepth = e.bottomDepth /\ k.points = Again(e.points) /\ k.topDepth = e.topDepth
       /\ k.sources = e.sources /\ k.depths = e.depths /\ k.ranges = e.ranges /\ k.run = KeptRun(e)
       /\ k.angles = e.angles /\ k.selected = e.selected /\ k.trace = e.trace /\ k.cerveny = e.cerveny
  BY <1>1, RunKept DEF Fields, k, KeptField
<1>23. /\ \A s, r, i : ExportBoundary(k.top, s, r, i) = ExportBoundary(e.top, s, r, i)
       /\ \A s, r, i : ExportBoundary(k.bottom, s, r, i) = ExportBoundary(e.bottom, s, r, i)
       /\ ForEach(k.points, DocumentPoint) = ForEach(e.points, DocumentPoint)
  <2>1. ForEach(k.points, DocumentPoint) = ForEach(e.points, DocumentPoint)
    BY <1>2, <1>18, <1>21, MediaReturned
  <2>2. \A s, r, i : ExportBoundary(k.top, s, r, i) = ExportBoundary(e.top, s, r, i)
    BY <1>2, <1>16, <1>20, <1>21 DEF ExportBoundary
  <2>3. \A s, r, i : ExportBoundary(k.bottom, s, r, i) = ExportBoundary(e.bottom, s, r, i)
    BY <1>2, <1>16, <1>20, <1>21 DEF ExportBoundary
  <2> QED
    BY <2>1, <2>2, <2>3
<1>19. Export(Kept(d)) = [x EXCEPT !.run = KeptRun(e)]
  BY <1>14, <1>18, <1>23 DEF Export, x, e
<1> QED
  BY <1>15, <1>17, <1>19 DEF a, x, e

(* What is exported of a case without errors has no number that is not      *)
(* finite, but for those of its media.                                     *)
LEMMA LegibleExport ==
  ASSUME NEW d, Whole(d), Clean(d)
  PROVE  (Decoded(Export(d)) # Malformed) = Readable(d)
<1> DEFINE e == d.environment
           x == Export(d)
           S == Found(d)
<1>1. ASSUME NEW holds \in BOOLEAN, NEW what, Unless(holds, what) \subseteq S PROVE holds
  <2>1. Error(what).severity = "error"
    BY DEF Error, ErrorOf
  <2>2. \A n \in S : n.severity # "error"
    BY DEF Clean
  <2> HIDE DEF S
  <2> QED
    BY <1>1, <2>1, <2>2 DEF Unless
<1>2. Finite(e.frequency) /\ Finite(e.topDepth) /\ Finite(e.bottomDepth)
  <2>1. /\ Unless(Positive(e.frequency), "frequency") \subseteq S
        /\ Unless(Less(e.topDepth, e.bottomDepth), "bottom depth") \subseteq S
    BY DEF Found, ValidateEnvironment, ValidatePositions
  <2> HIDE DEF S, e
  <2>2. Positive(e.frequency) /\ Less(e.topDepth, e.bottomDepth)
    BY <1>1, <2>1 DEF Positive, Less
  <2> QED
    BY <2>2 DEF Positive, Less
<1>3. AllFinite(e.sources) /\ AllFinite(e.depths) /\ AllFinite(e.ranges) /\ AllFinite(e.angles)
  <2> DEFINE V == {"sources", "depths", "ranges", "angles"}
  <2>1. (UNION {Unless(Present(e[v]), v \o " empty") \cup Unless(AllFinite(e[v]), v \o " finite") : v \in V})
          \subseteq S
    BY DEF Found, ValidateEnvironment, ValidatePositions
  <2> HIDE DEF S, e
  <2>2. ASSUME NEW v \in V PROVE Unless(AllFinite(e[v]), v \o " finite") \subseteq S
    <3> DEFINE P(y) == Unless(Present(e[y]), y \o " empty")
               Q(y) == Unless(AllFinite(e[y]), y \o " finite")
    <3>1. (UNION {P(y) \cup Q(y) : y \in V}) \subseteq S
      BY <2>1
    <3> HIDE DEF P, Q, V
    <3>2. Q(v) \subseteq S
      BY <2>2, <3>1
    <3> QED
      BY <3>2 DEF Q
  <2>3. \A v \in V : AllFinite(e[v])
    BY <1>1, <2>2 DEF AllFinite
  <2> QED
    BY <2>3
<1>4. Finite(e.trace.step) /\ Finite(e.trace.depth) /\ Finite(e.trace.range) /\ AllFinite(e.cerveny)
  <2>1. /\ Unless(AtMost(0, e.trace.step), "trace.step") \subseteq S
        /\ Unless(Positive(e.trace.depth), "trace.depth") \subseteq S
        /\ Unless(Positive(e.trace.range), "trace.range") \subseteq S
        /\ Unless(AllFinite(e.cerveny), "trace.cerveny") \subseteq S
    BY DEF Found, ValidateEnvironment
  <2> HIDE DEF S, e
  <2>2. AtMost(0, e.trace.step) /\ Positive(e.trace.depth) /\ Positive(e.trace.range) /\ AllFinite(e.cerveny)
    BY <1>1, <2>1 DEF AtMost, Positive, Less, AllFinite
  <2> QED
    BY <2>2 DEF AtMost, Positive, Less
<1>5. \A layer \in Range(e.volume) : Finite(layer[1]) /\ Finite(layer[2])
  <2>1. Unless(\A layer \in Range(e.volume) : AtMost(layer[1], layer[2]), "volume") \subseteq S
    BY DEF Found, ValidateEnvironment, ValidateVolume
  <2> HIDE DEF S, e
  <2>2. \A layer \in Range(e.volume) : AtMost(layer[1], layer[2])
    BY <1>1, <2>1
  <2> QED
    BY <2>2 DEF AtMost
<1>6. \A m \in Range(e.points) : Finite(m.depth) /\ Finite(m.speed)
  <2>1. Unless(\A m \in Range(e.points) : Finite(m.depth) /\ ValidMaterial(m), "points") \subseteq S
    BY DEF Found, ValidateEnvironment
  <2> HIDE DEF S, e
  <2>2. \A m \in Range(e.points) : Finite(m.depth) /\ ValidMaterial(m)
    BY <1>1, <2>1
  <2> QED
    BY <2>2 DEF ValidMaterial, Positive, Less
<1>7. ASSUME NEW b, NEW side, ValidateBoundary(b, side) \subseteq S
      PROVE  /\ Finite(b.roughness) /\ AllFinite(b.grain)
             /\ \A m \in Range(b.material) : Finite(m.speed)
  <2>1. /\ Unless(AtMost(0, b.roughness), side \o " roughness") \subseteq S
        /\ Unless(\A m \in Range(b.material) : ValidMaterial(m), side \o " half-space") \subseteq S
        /\ Unless(AllFinite(b.grain), side \o " grain size") \subseteq S
    BY <1>7 DEF ValidateBoundary
  <2> HIDE DEF S
  <2>2. AtMost(0, b.roughness) /\ AllFinite(b.grain) /\ \A m \in Range(b.material) : ValidMaterial(m)
    BY <1>1, <2>1 DEF AtMost, AllFinite
  <2> QED
    BY <2>2 DEF AtMost, ValidMaterial, Positive, Less
<1>8. ValidateBoundary(e.top, "top") \subseteq S /\ ValidateBoundary(e.bottom, "bottom") \subseteq S
  BY DEF Found, ValidateEnvironment
<1>9. /\ \A f \in Range(d.soundSpeed) : ValidateRangeDependentSoundSpeed(f, e) \subseteq S
      /\ \A t \in Range(d.altimetry) : ValidateBoundaryShape(t, "top", TRUE, e.topDepth) \subseteq S
      /\ \A t \in Range(d.bathymetry) : ValidateBoundaryShape(t, "bottom", FALSE, e.bottomDepth) \subseteq S
      /\ \A t \in Range(d.topReflection) : ValidateReflectionTable(t, "top") \subseteq S
      /\ \A t \in Range(d.bottomReflection) : ValidateReflectionTable(t, "bottom") \subseteq S
      /\ \A t \in Range(d.internalReflection) : ValidateInternalReflection(t, e) \subseteq S
      /\ \A t \in Range(d.pattern) : ValidateSourceBeamPattern(t) \subseteq S
  <2> DEFINE U1 == UNION {ValidateRangeDependentSoundSpeed(f, e) : f \in Range(d.soundSpeed)}
             U2 == UNION {ValidateBoundaryShape(t, "top", TRUE, e.topDepth) : t \in Range(d.altimetry)}
             U3 == UNION {ValidateBoundaryShape(t, "bottom", FALSE, e.bottomDepth) : t \in Range(d.bathymetry)}
             U4 == UNION {ValidateReflectionTable(t, "top") : t \in Range(d.topReflection)}
             U5 == UNION {ValidateReflectionTable(t, "bottom") : t \in Range(d.bottomReflection)}
             U6 == UNION {ValidateInternalReflection(t, e) : t \in Range(d.internalReflection)}
             U7 == UNION {ValidateSourceBeamPattern(t) : t \in Range(d.pattern)}
             A == Unless((e.interpolation = "Q") = Present(d.soundSpeed), "matrix presence")
             B == Unless(e.altimetry = e.top.shaped, "top markers") \cup
                  Unless(e.altimetry = Present(d.altimetry), "altimetry presence") \cup
                  Unless(e.bottom.shaped = Present(d.bathymetry), "bathymetry presence")
             C == Unless(e.run.pattern = Present(d.pattern), "pattern presence")
  <2>1. ValidateDefinition(d) = A \cup U1 \cup B \cup U2 \cup U3 \cup ValidateReflectionPresence(d) \cup
                                U4 \cup U5 \cup U6 \cup C \cup U7
    <3>1. ValidateDefinition(d) =
            A \cup U1 \cup
            Unless(e.altimetry = e.top.shaped, "top markers") \cup
            Unless(e.altimetry = Present(d.altimetry), "altimetry presence") \cup
            Unless(e.bottom.shaped = Present(d.bathymetry), "bathymetry presence") \cup
            U2 \cup U3 \cup ValidateReflectionPresence(d) \cup U4 \cup U5 \cup U6 \cup C \cup U7
      BY DEF ValidateDefinition, Each
    <3> HIDE DEF A, C, U1, U2, U3, U4, U5, U6, U7, e
    <3> QED
      BY <3>1
  <2>2. ValidateDefinition(d) \subseteq S
    BY DEF Found
  <2> HIDE DEF A, B, C, U1, U2, U3, U4, U5, U6, U7, S, e
  <2>3. /\ U1 \subseteq S /\ U2 \subseteq S /\ U3 \subseteq S /\ U4 \subseteq S
        /\ U5 \subseteq S /\ U6 \subseteq S /\ U7 \subseteq S
    BY <2>1, <2>2
  <2>4. /\ \A f \in Range(d.soundSpeed) : ValidateRangeDependentSoundSpeed(f, e) \subseteq U1
        /\ \A t \in Range(d.altimetry) : ValidateBoundaryShape(t, "top", TRUE, e.topDepth) \subseteq U2
        /\ \A t \in Range(d.bathymetry) : ValidateBoundaryShape(t, "bottom", FALSE, e.bottomDepth) \subseteq U3
        /\ \A t \in Range(d.topReflection) : ValidateReflectionTable(t, "top") \subseteq U4
        /\ \A t \in Range(d.bottomReflection) : ValidateReflectionTable(t, "bottom") \subseteq U5
        /\ \A t \in Range(d.internalReflection) : ValidateInternalReflection(t, e) \subseteq U6
        /\ \A t \in Range(d.pattern) : ValidateSourceBeamPattern(t) \subseteq U7
    BY DEF U1, U2, U3, U4, U5, U6, U7
  <2> QED
    BY <2>3, <2>4
<1> HIDE DEF S, e
<1>10. ASSUME NEW f \in Range(d.soundSpeed) PROVE LegibleMatrix(f)
  <2> DEFINE A == /\ AllFinite(f.ranges) /\ AllFinite(f.depths)
                  /\ Increasing(f.ranges) /\ Increasing(f.depths)
             B == \A row \in Range(f.speeds) : \A v \in Range(row) : Positive(v)
  <2>1. Unless(A, "matrix axes") \subseteq S /\ Unless(B, "matrix speeds") \subseteq S
    BY <1>9 DEF ValidateRangeDependentSoundSpeed
  <2>2. A /\ B
    BY <1>1, <2>1 DEF AllFinite
  <2> QED
    BY <2>2 DEF LegibleMatrix, Positive, Less
<1>11. ASSUME NEW t, NEW side, NEW isTop, NEW depth, ValidateBoundaryShape(t, side, isTop, depth) \subseteq S
       PROVE  LegibleShape(t)
  <2> DEFINE Sound(p) == /\ Finite(p.range) /\ Finite(p.depth)
                         /\ IF isTop THEN ~Less(p.depth, depth) ELSE ~Less(depth, p.depth)
             A == /\ Present(t.points) /\ Increasing(Column(t.points, "range"))
                  /\ \A p \in Range(t.points) : Sound(p)
             B == \A p \in Range(t.points) : \A speed \in Range(p.material) : Positive(speed)
  <2>1. Unless(A, side \o " shape") \subseteq S /\ Unless(B, side \o " shape material") \subseteq S
    BY <1>11 DEF ValidateBoundaryShape
  <2>2. A /\ B
    BY <1>1, <2>1 DEF Present
  <2> QED
    BY <2>2 DEF LegibleShape, Positive, Less
<1>12. ASSUME NEW t, NEW side, ValidateReflectionTable(t, side) \subseteq S PROVE LegibleReflection(t)
  <2> DEFINE A == /\ Len(t.points) >= 2 /\ Increasing(Column(t.points, "angle"))
                  /\ \A p \in Range(t.points) : Finite(p.angle) /\ AtMost(0, p.magnitude) /\ Finite(p.phase)
  <2>1. Unless(A, side \o " reflection") \subseteq S
    BY <1>12 DEF ValidateReflectionTable
  <2>2. A
    BY <1>1, <2>1
  <2> QED
    BY <2>2 DEF LegibleReflection, AtMost
<1>13. ASSUME NEW t \in Range(d.internalReflection) PROVE LegibleInternal(t)
  <2> DEFINE A == /\ Positive(t.frequency)
                  /\ Len(t.points) >= 2 /\ Increasing(Column(t.points, "wavenumber"))
                  /\ \A p \in Range(t.points) : AtMost(0, p.wavenumber) /\ Finite(p.f)
  <2>1. Unless(A, "internal") \subseteq S
    BY <1>9 DEF ValidateInternalReflection
  <2>2. A
    BY <1>1, <2>1
  <2> QED
    BY <2>2 DEF LegibleInternal, AtMost, Positive, Less
<1>14. ASSUME NEW t \in Range(d.pattern) PROVE LegiblePattern(t)
  <2> DEFINE A == /\ Len(t.points) >= 2 /\ Increasing(Column(t.points, "angle"))
                  /\ \A p \in Range(t.points) : Finite(p.angle) /\ Less(p.level, LoudLevel)
  <2>1. Unless(A, "pattern") \subseteq S
    BY <1>9 DEF ValidateSourceBeamPattern
  <2>2. A
    BY <1>1, <2>1
  <2> QED
    BY <2>2 DEF LegiblePattern, Less
<1>15. ASSUME NEW s \in Seq(Samples), \A m \in Range(s) : Finite(m.speed)
       PROVE  (\A m \in Range(ForEach(s, DocumentPoint)) : LegibleMedium(m)) =
                (\A i \in DOMAIN s : Finite(s[i].depth) /\ Finite(Thousandfold(s[i].density)))
  <2>1. ASSUME NEW i \in DOMAIN s
        PROVE  LegibleMedium(DocumentPoint(s[i])) = (Finite(s[i].depth) /\ Finite(Thousandfold(s[i].density)))
    <3>1. s[i] \in Samples /\ Finite(s[i].speed)
      BY <1>15 DEF Range
    <3>2. DocumentPoint(s[i]).depth = s[i].depth /\ DocumentPoint(s[i]).speed = s[i].speed
          /\ DocumentPoint(s[i]).density = Thousandfold(s[i].density)
      BY <3>1 DEF DocumentPoint, Samples
    <3> QED
      BY <3>1, <3>2 DEF LegibleMedium
  <2>2. Range(ForEach(s, DocumentPoint)) = {DocumentPoint(s[i]) : i \in DOMAIN s}
    BY DEF ForEach, Range
  <2> QED
    BY <2>1, <2>2
<1>16. e.points \in Seq(Samples) /\ Bounds(e.top) /\ Bounds(e.bottom)
  <2>1. {"top", "bottom", "points"} \subseteq DOMAIN e
    BY DEF Whole, Formed, Fields, e
  <2> QED
    BY <2>1 DEF Whole, Formed, Content, e
<1> DEFINE Fine(s) == \A i \in DOMAIN s : Finite(s[i].depth) /\ Finite(Thousandfold(s[i].density))
<1>17. ASSUME NEW b, Bounds(b), Finite(b.roughness), AllFinite(b.grain),
              \A m \in Range(b.material) : Finite(m.speed), NEW shape, NEW reflection, NEW internal,
              \A t \in Range(shape) : LegibleShape(t), \A t \in Range(reflection) : LegibleReflection(t),
              \A t \in Range(internal) : LegibleInternal(t)
       PROVE  LegibleBoundary(ExportBoundary(b, shape, reflection, internal)) = Fine(b.material)
  <2> DEFINE y == ExportBoundary(b, shape, reflection, internal)
  <2>1. /\ y.condition = b.condition /\ y.roughness = b.roughness /\ y.grain = b.grain
        /\ y.material = ForEach(b.material, DocumentPoint) /\ y.shape = shape
        /\ b.condition = "F" => y.table = reflection
        /\ b.condition = "P" => y.table = internal
    BY DEF ExportBoundary
  <2> HIDE DEF y
  <2>2. Finite(b.roughness) /\ AllFinite(b.grain) /\ \A m \in Range(b.material) : Finite(m.speed)
    BY <1>17
  <2>3. b.material \in Seq(Samples)
    BY <1>17 DEF Bounds
  <2>4. (\A m \in Range(y.material) : LegibleMedium(m)) = Fine(b.material)
    BY <1>15, <2>1, <2>2, <2>3
  <2> HIDE DEF Fine
  <2>5. LegibleBoundary(y) = \A m \in Range(y.material) : LegibleMedium(m)
    BY <1>17, <2>1, <2>2 DEF LegibleBoundary
  <2> QED
    BY <2>4, <2>5 DEF y
<1>18. /\ x.top = ExportBoundary(e.top, d.altimetry, d.topReflection, <<>>)
       /\ x.bottom = ExportBoundary(e.bottom, d.bathymetry, d.bottomReflection, d.internalReflection)
       /\ x.points = ForEach(e.points, DocumentPoint)
       /\ x.frequency = e.frequency /\ x.volume = e.volume
       /\ x.topDepth = e.topDepth /\ x.bottomDepth = e.bottomDepth /\ x.rangeDependent = d.soundSpeed
       /\ x.sources = e.sources /\ x.depths = e.depths /\ x.ranges = e.ranges
       /\ x.angles = e.angles /\ x.trace = e.trace /\ x.cerveny = e.cerveny /\ x.pattern = d.pattern
  BY DEF Export, e
<1>19. x # Malformed
  <2>1. "version" \in DOMAIN x
    BY DEF Export
  <2>2. "version" \notin DOMAIN Malformed
    BY DEF Malformed
  <2> HIDE DEF x
  <2> QED
    BY <2>1, <2>2
<1> HIDE DEF x
<1>20. \A t \in Range(<<>>) : LegibleInternal(t)
  BY DEF Range
<1>28. /\ Finite(e.top.roughness) /\ AllFinite(e.top.grain) /\ \A m \in Range(e.top.material) : Finite(m.speed)
       /\ Finite(e.bottom.roughness) /\ AllFinite(e.bottom.grain)
       /\ \A m \in Range(e.bottom.material) : Finite(m.speed)
  BY <1>7, <1>8
<1>21. LegibleBoundary(x.top) = Fine(e.top.material)
  <2>1. /\ \A t \in Range(d.altimetry) : LegibleShape(t)
        /\ \A t \in Range(d.topReflection) : LegibleReflection(t)
    BY <1>9, <1>11, <1>12
  <2> HIDE DEF Fine
  <2> QED
    BY <1>16, <1>17, <1>18, <1>20, <1>28, <2>1
<1>22. LegibleBoundary(x.bottom) = Fine(e.bottom.material)
  <2>1. /\ \A t \in Range(d.bathymetry) : LegibleShape(t)
        /\ \A t \in Range(d.bottomReflection) : LegibleReflection(t)
        /\ \A t \in Range(d.internalReflection) : LegibleInternal(t)
    BY <1>9, <1>11, <1>12, <1>13
  <2> HIDE DEF Fine
  <2> QED
    BY <1>16, <1>17, <1>18, <1>28, <2>1
<1>23. (\A m \in Range(x.points) : LegibleMedium(m)) = Fine(e.points)
  BY <1>6, <1>15, <1>16, <1>18
<1>24. Readable(d) = (Fine(e.points) /\ Fine(e.top.material) /\ Fine(e.bottom.material))
  BY DEF Readable, e
<1> HIDE DEF Fine
<1>25. Legible(x) = (/\ \A m \in Range(x.points) : LegibleMedium(m)
                     /\ LegibleBoundary(x.top) /\ LegibleBoundary(x.bottom))
  BY <1>2, <1>3, <1>4, <1>5, <1>10, <1>14, <1>18 DEF Legible
<1>26. Legible(x) = Readable(d)
  BY <1>21, <1>22, <1>23, <1>24, <1>25
<1>27. (Decoded(x) # Malformed) = Legible(x)
  BY <1>19 DEF Decoded, Legible
<1> QED
  BY <1>26, <1>27 DEF x

(* A document is read as a definition.                                      *)
LEMMA Imported ==
  ASSUME NEW r \in Requests, "document" \in DOMAIN r.input, r.input.document # <<>>,
         r.input.document[1] # Malformed
  PROVE  Whole(IntoCase(r.input.document[1]))
<1> DEFINE doc == r.input.document[1]
           a == IntoCase(doc)
           e == a.environment
<1>1. Options(a)
  BY DocumentOptions
<1>2. doc \in Range(r.input.document) \ {Malformed}
  <2>1. Optional(r.input.document)
    BY RequestsAssumption
  <2>2. r.input.document = <<doc>>
    BY <2>1 DEF Optional
  <2>3. doc \in Range(r.input.document)
    BY <2>2, OptionRange
  <2> QED
    BY <2>3
<1>3. /\ \A list \in {doc.points, doc.top.material, doc.bottom.material} : list \in Seq(Samples)
      /\ DOMAIN doc.run = RunFields
      /\ \A list \in {doc.sources, doc.depths, doc.ranges, doc.angles} : Listed(list)
  BY <1>2, RequestsAssumption, TypeListed DEF Samples, RunFields
<1> HIDE DEF doc
<1>4. ASSUME NEW s \in Seq(Samples) PROVE ForEach(s, CasePoint) \in Seq(Samples)
  <2>1. ASSUME NEW p \in Samples PROVE CasePoint(p) \in Samples
    <3>1. \A n \in Int : (n + 500) \div 1000 \in Int
      OBVIOUS
    <3>2. p["density"] \in Int /\ p \in [{"depth", "speed", "density"} -> Int]
      BY DEF Samples
    <3>3. CasePoint(p) = [x \in {"depth", "speed", "density"} |->
                            IF x = "density" THEN (p["density"] + 500) \div 1000 ELSE p[x]]
      BY <3>2 DEF CasePoint
    <3> QED
      BY <3>1, <3>2, <3>3 DEF Samples
  <2>2. Len(s) \in Nat /\ DOMAIN s = 1 .. Len(s) /\ \A i \in 1 .. Len(s) : s[i] \in Samples
    OBVIOUS
  <2>3. ForEach(s, CasePoint) = [i \in 1 .. Len(s) |-> CasePoint(s[i])]
    BY <2>2 DEF ForEach
  <2>4. ForEach(s, CasePoint) \in [1 .. Len(s) -> Samples]
    BY <2>1, <2>2, <2>3
  <2> QED
    BY <2>2, <2>4
<1>5. \A b : b.material \in Seq(Samples) => Bounds(ImportBoundary(b).boundary)
  BY <1>4 DEF Bounds, ImportBoundary
<1>6. /\ e.points \in Seq(Samples) /\ Bounds(e.top) /\ Bounds(e.bottom)
      /\ \A name \in {"sources", "depths", "ranges", "angles"} : Listed(e[name])
  BY <1>3, <1>4, <1>5 DEF IntoCase
<1>7. RunLike(e.run)
  <2>1. e.run = [doc.run EXCEPT !.pattern = Present(doc.pattern),
                                !.encoding = IF doc.run.kind = "A" THEN "ascii" ELSE "none"]
    BY DEF IntoCase
  <2> QED
    BY <1>3, <2>1 DEF RunLike
<1>8. e = [x \in Fields |-> e[x]]
  BY DEF IntoCase, Fields
<1>9. a = [environment |-> e, soundSpeed |-> a.soundSpeed, altimetry |-> a.altimetry,
           bathymetry |-> a.bathymetry, topReflection |-> a.topReflection,
           bottomReflection |-> a.bottomReflection, internalReflection |-> a.internalReflection,
           pattern |-> a.pattern]
  BY DEF IntoCase
<1> HIDE DEF a
<1>10. Formed(e)
  BY <1>6, <1>7, <1>8 DEF Formed, Content
<1> QED
  BY <1>1, <1>9, <1>10 DEF Whole, a, doc

(* What two lists hold when they are joined.                                *)
LEMMA JoinedRange ==
  ASSUME NEW s, Listed(s), NEW t, Listed(t)
  PROVE  Listed(s \o t) /\ Range(s \o t) = Range(s) \cup Range(t)
<1> DEFINE u == s \o t
           m == Len(s)
           n == Len(t)
<1>1. /\ Listed(u) /\ Len(u) = m + n
      /\ (\A i \in 1 .. m : u[i] = s[i]) /\ \A i \in 1 .. n : u[m + i] = t[i]
  BY Joint
<1>2. m \in Nat /\ n \in Nat
  BY DEF Listed
<1>3. DOMAIN u = 1 .. m + n /\ DOMAIN s = 1 .. m /\ DOMAIN t = 1 .. n
  BY <1>1, ListedType
<1> HIDE DEF u, m, n
<1>4. \A i \in 1 .. m + n : i \in 1 .. m \/ (i - m \in 1 .. n /\ i = m + (i - m))
  BY <1>2
<1>5. \A i \in 1 .. n : m + i \in 1 .. m + n
  BY <1>2
<1>6. \A i \in 1 .. m : i \in 1 .. m + n
  BY <1>2
<1>7. ASSUME NEW x \in Range(u) PROVE x \in Range(s) \cup Range(t)
  <2>1. PICK i \in 1 .. m + n : x = u[i]
    BY <1>3, <1>7 DEF Range
  <2>2. CASE i \in 1 .. m
    BY <1>1, <1>3, <2>1, <2>2 DEF Range
  <2>3. CASE i - m \in 1 .. n /\ i = m + (i - m)
    <3>1. x = t[i - m]
      BY <1>1, <2>1, <2>3
    <3> QED
      BY <1>3, <2>3, <3>1 DEF Range
  <2> QED
    BY <1>4, <2>1, <2>2, <2>3
<1>8. \A x \in Range(s) : x \in Range(u)
  BY <1>1, <1>3, <1>6 DEF Range
<1>9. \A x \in Range(t) : x \in Range(u)
  BY <1>1, <1>3, <1>5 DEF Range
<1> QED
  BY <1>1, <1>7, <1>8, <1>9 DEF u

(* What is said of a definition is what was said and what is found.         *)
LEMMA CheckedRange ==
  ASSUME NEW d, Options(d), NEW said, Listed(said)
  PROVE  Listed(Checked(d, said)) /\ Range(Checked(d, said)) = Range(said) \cup Found(d)
<1> DEFINE S == Found(d)
           t == SetToSeq(S)
<1>1. IsFiniteSet(S)
  BY EnvironmentFinite, DefinitionFinite, Both DEF Found
<1>2. Listed(t) /\ Range(t) = S
  BY <1>1, SetListed, SetSaid
<1>3. Checked(d, said) = said \o t
  BY DEF Checked, Found
<1> HIDE DEF S, t
<1> QED
  BY <1>2, <1>3, JoinedRange DEF S

(* What an accepted case is, and what is exported of it.                    *)
Accepting(d, said) == Whole(d) /\ Clean(d) /\ Listed(said) /\ Found(d) \subseteq Range(said)
Carrying ==
  /\ stage = "auxiliary" => Formed(environment)
  /\ stage = "loaded" => definition # <<>>
  /\ definition = <<>> \/ \E d : definition = <<d>> /\ Accepting(d, report)
  /\ document # <<>> => Accepted /\ Exportable(Case) /\ document = <<Export(Case)>>

(* Nothing is exported at first.                                            *)
LEMMA CarryingInit == Init => Carrying
BY DEF Init, Carrying

(* What is accepted is a definition without errors.                         *)
LEMMA JudgedWhole ==
  ASSUME NEW d, Whole(d), NEW said, Listed(said), Judge(d, Checked(d, said))
  PROVE  definition' = definition \/ \E x : definition' = <<x>> /\ Accepting(x, report')
<1>1. Listed(Checked(d, said)) /\ Range(Checked(d, said)) = Range(said) \cup Found(d)
  BY CheckedRange DEF Whole
<1>2. CASE HasErrors(Checked(d, said))
  BY <1>2 DEF Judge, Rejected
<1>3. CASE ~HasErrors(Checked(d, said))
  <2>1. \A n \in Range(Checked(d, said)) : n.severity # "error"
    BY <1>3 DEF HasErrors, Range
  <2>2. Clean(d)
    BY <1>1, <2>1 DEF Clean
  <2>3. definition' = <<d>> /\ report' = Checked(d, said)
    BY <1>3 DEF Judge
  <2>4. Accepting(d, report')
    BY <1>1, <2>2, <2>3 DEF Accepting
  <2> QED
    BY <2>3, <2>4
<1> QED
  BY <1>2, <1>3

(* Every step accepts definitions without errors, and exports no other.     *)
LEMMA CarryingStep == Consumption /\ Soundness /\ Carrying /\ [Next]_vars => Carrying'
<1> SUFFICES ASSUME Consumption, Soundness, Carrying, [Next]_vars PROVE Carrying'
  OBVIOUS
<1>1. ASSUME stage \in {"read", "auxiliary"}, document' = document, stage' = "auxiliary" => Formed(environment'),
             stage' = "loaded" => definition' # <<>>, definition' = <<>> \/ \E d : definition' = <<d>> /\ Accepting(d, report')
      PROVE  Carrying'
  <2>1. definition = <<>>
    BY <1>1 DEF Consumption
  <2>2. document = <<>>
    BY <2>1 DEF Carrying, Accepted
  <2> QED
    BY <1>1, <2>2 DEF Carrying
<1>2. CASE ReadEnvironment
  <2>1. stage = "read" /\ document' = document /\ definition' = definition
    BY <1>2 DEF ReadEnvironment, Keeping, Rejected
  <2>2. definition' = <<>>
    BY <2>1 DEF Consumption
  <2>3. stage' # "loaded"
    BY <1>2 DEF ReadEnvironment, Rejected, Exits
  <2>4. ASSUME stage' = "auxiliary" PROVE Formed(environment')
    <3> DEFINE r == ParseEnvironment(Lines("env")[1])
    <3>1. r.ok /\ environment' = Understanding(r)
      BY <1>2, <2>4 DEF ReadEnvironment, Rejected, Exits
    <3> QED
      BY <3>1, EnvironmentKnown
  <2> QED
    BY <1>1, <2>1, <2>2, <2>3, <2>4
<1>3. CASE ReadAuxiliary
  <2>1. stage = "auxiliary" /\ UNCHANGED <<stage, environment, document, definition>>
    BY <1>3 DEF ReadAuxiliary, Keeping
  <2>2. definition' = <<>>
    BY <2>1 DEF Consumption
  <2> QED
    BY <1>1, <2>1, <2>2 DEF Carrying
<1>4. CASE Define
  <2> DEFINE d == Definition(environment, parts)
  <2>1. stage = "auxiliary" /\ document' = document /\ stage' # "auxiliary" /\ definition = <<>>
        /\ (stage' = "loaded" => definition' # <<>>)
    BY <1>4 DEF Define, Keeping, Judge, Rejected, Exits, Consumption
  <2>2. Options(d) /\ Listed(report)
    <3>1. {"ssp", "ati", "bty", "brc", "trc", "irc", "sbp"} \subseteq Extensions
      BY DEF Extensions, Nothing
    <3> QED
      BY <2>1, <3>1 DEF Soundness, Options, Definition
  <2>3. Whole(d)
    <3>1. d.environment = environment /\ Formed(environment)
      BY <2>1 DEF Definition, Carrying
    <3>2. d = [environment |-> d.environment, soundSpeed |-> d.soundSpeed, altimetry |-> d.altimetry,
               bathymetry |-> d.bathymetry, topReflection |-> d.topReflection,
               bottomReflection |-> d.bottomReflection, internalReflection |-> d.internalReflection,
               pattern |-> d.pattern]
      BY DEF Definition
    <3> HIDE DEF d
    <3> QED
      BY <2>2, <3>1, <3>2 DEF Whole
  <2>4. definition' = definition \/ Judge(d, Checked(d, report))
    BY <1>4 DEF Define, Rejected
  <2> HIDE DEF d
  <2>5. definition' = definition \/ \E x : definition' = <<x>> /\ Accepting(x, report')
    BY <2>2, <2>3, <2>4, JudgedWhole
  <2> QED
    BY <1>1, <2>1, <2>5
<1>5. CASE ReadDocument
  <2>1. stage = "read" /\ document' = document /\ stage' # "auxiliary" /\ (stage' = "loaded" => definition' # <<>>)
    BY <1>5 DEF ReadDocument, Keeping, Judge, Rejected, Exits
  <2>2. definition = <<>>
    BY <2>1 DEF Consumption
  <2>3. CASE definition' = definition
    BY <1>1, <2>1, <2>2, <2>3
  <2>4. CASE definition' # definition
    <3> DEFINE doc == input.document[1]
               said == IF doc.version = 1 THEN <<>> ELSE <<Error("schema")>>
    <3> DEFINE heard == Decoded(doc)
    <3>6. /\ "files" \notin DOMAIN input /\ input.document # <<>> /\ heard # Malformed
          /\ Judge(IntoCase(heard), LoadDocument(heard))
      BY <1>5, <2>4 DEF ReadDocument, Rejected, Legacy
    <3>7. heard = doc /\ doc # Malformed
      BY <3>6, DecodedSame
    <3> HIDE DEF heard
    <3>1. /\ "files" \notin DOMAIN input /\ input.document # <<>> /\ doc # Malformed
          /\ Judge(IntoCase(doc), Checked(IntoCase(doc), said))
      BY <3>6, <3>7 DEF LoadDocument
    <3>2. PICK r \in Requests : input = r.input
      BY DEF Soundness
    <3>3. Whole(IntoCase(doc))
      BY <3>1, <3>2, RequestsAssumption, Imported
    <3>4. Listed(said)
      BY EmptyListed
    <3> HIDE DEF doc, said
    <3>5. definition' = definition \/ \E x : definition' = <<x>> /\ Accepting(x, report')
      BY <3>1, <3>3, <3>4, JudgedWhole
    <3> QED
      BY <1>1, <2>1, <2>2, <3>5
  <2> QED
    BY <2>3, <2>4
<1>6. CASE ExportCase
  <2>1. stage = "loaded" /\ stage' = "over" /\ definition' = definition
    BY <1>6 DEF ExportCase, Exits
  <2>2. PICK d : definition = <<d>> /\ Accepting(d, report)
    BY <2>1 DEF Carrying
  <2>3. Case = d /\ Case' = d /\ Accepted'
    BY <2>1, <2>2 DEF Case, Accepted
  <2>4. Accepting(d, report')
    <3>1. CASE report' = report
      BY <2>2, <3>1
    <3>2. CASE report' = Append(report, Unwritable)
      <4>1. Listed(report')
        BY <2>2, <3>2, Appended DEF Accepting
      <4>2. \A i \in 1 .. Len(report) : report'[i] = report[i] /\ i \in 1 .. Len(report')
        BY <2>2, <3>2, Appended DEF Accepting, Listed
      <4>3. Range(report) \subseteq Range(report')
        BY <2>2, <4>1, <4>2, ListedType DEF Accepting, Range
      <4> QED
        BY <2>2, <4>1, <4>3 DEF Accepting
    <3> QED
      BY <1>6, <3>1, <3>2 DEF ExportCase
  <2>5. document' # <<>> => Exportable(d) /\ document' = <<Export(d)>>
    <3>1. CASE document' = document
      BY <2>3, <3>1 DEF Carrying
    <3>2. CASE document' # document
      BY <1>6, <2>3, <3>2 DEF ExportCase
    <3> QED
      BY <3>1, <3>2
  <2> QED
    BY <2>1, <2>3, <2>2, <2>4, <2>5 DEF Carrying
<1>7. CASE UNCHANGED <<report, definition, document>> /\ stage' \notin {"auxiliary", "loaded"}
  BY <1>7 DEF Carrying, Accepted, Case
<1>8. CASE UNCHANGED vars
  BY <1>8 DEF Carrying, Accepted, Case, vars, loadVars
<1>9. CASE Validate
  BY <1>7, <1>9 DEF Validate, Exits, loadVars
<1>10. CASE Run
  BY <1>7, <1>10 DEF Run, loadVars
<1>11. CASE Step
  BY <1>7, <1>11 DEF Step, loadVars
<1>12. CASE Write
  BY <1>7, <1>12 DEF Write, Exits, loadVars
<1>13. CASE Over
  BY <1>8, <1>13 DEF Over
<1> QED
  BY <1>2, <1>3, <1>4, <1>5, <1>6, <1>8, <1>9, <1>10, <1>11, <1>12, <1>13 DEF Next

(* What is exported is read again as it was.                                *)
LEMMA CarriedBack == Carrying => RoundTrip
<1> SUFFICES ASSUME Carrying, document # <<>> PROVE RoundTrip
  BY DEF RoundTrip
<1>1. PICK d : definition = <<d>> /\ Accepting(d, report)
  BY DEF Carrying, Accepted
<1>2. Case = d /\ Exportable(d) /\ document = <<Export(d)>>
  BY <1>1 DEF Carrying, Case
<1> DEFINE x == Export(d)
           k == Kept(d)
           e == d.environment
           f == k.environment
           said == LoadDocument(x)
<1>3. Whole(d) /\ Clean(d) /\ Found(d) \subseteq Range(report)
  BY <1>1 DEF Accepting
<1>4. (Decoded(x) # Malformed) = Readable(d)
  BY <1>3, LegibleExport
<1>5. ASSUME Readable(d)
      PROVE  /\ IntoCase(x) = k
             /\ k = [d EXCEPT !.environment =
                  [e EXCEPT !.run.encoding = IF e.run.kind = "A" THEN "ascii" ELSE "none",
                            !.points = f.points, !.top.material = f.top.material,
                            !.bottom.material = f.bottom.material]]
             /\ Alike(e.points, f.points)
             /\ Alike(e.top.material, f.top.material) /\ Alike(e.bottom.material, f.bottom.material)
             /\ ~HasErrors(said) /\ Range(said) \subseteq Range(report)
             /\ Exportable(k) /\ Export(k) = [x EXCEPT !.run = f.run]
  <2>1. IntoCase(x) = k /\ Exportable(k) /\ Export(k) = [x EXCEPT !.run = KeptRun(e)]
    BY <1>2, <1>3, <1>5, CleanMarked, Returned
  <2>2. x.version = 1
    BY DEF Export
  <2>3. Found(k) \subseteq Found(d)
    BY <1>3, <1>5, KeptFound
  <2>4. Formed(e)
    BY <1>3 DEF Whole
  <2>5. Options(k) /\ f = KeptEnvironment(e)
    BY <1>3 DEF Options, Whole, Kept
  <2>6. /\ {"run", "points", "top", "bottom"} \subseteq DOMAIN e
        /\ Bounds(e.top) /\ Bounds(e.bottom) /\ e.points \in Seq(Samples)
    <3>1. {"run", "points", "top", "bottom"} \subseteq DOMAIN e
      BY <2>4 DEF Formed, Fields
    <3> QED
      BY <2>4, <3>1 DEF Formed, Content
  <2>7. f.run = KeptRun(e) /\ f.points = Again(e.points)
        /\ f.top = AgainBoundary(e.top) /\ f.bottom = AgainBoundary(e.bottom)
    <3>1. f = [y \in Fields |-> KeptField(e, y)]
      BY <2>4, <2>5, RunKept
    <3> HIDE DEF f
    <3> QED
      BY <3>1 DEF Fields, KeptField
  <2>8. f.top.material = Again(e.top.material) /\ f.bottom.material = Again(e.bottom.material)
    <3>1. \A b : Bounds(b) => AgainBoundary(b).material = Again(b.material)
      BY DEF AgainBoundary, Bounds
    <3> QED
      BY <2>6, <2>7, <3>1
  <2>9. /\ Alike(e.points, f.points) /\ Alike(e.top.material, f.top.material)
        /\ Alike(e.bottom.material, f.bottom.material)
    <3>1. Printed(e.top.material) /\ Printed(e.bottom.material) /\ Printed(e.points)
      BY <1>5 DEF Readable, Printed
    <3>2. e.top.material \in Seq(Samples) /\ e.bottom.material \in Seq(Samples)
      BY <2>6 DEF Bounds
    <3> QED
      BY <2>6, <2>7, <2>8, <3>1, <3>2, MediaReturned
  <2>10. f = [e EXCEPT !.run.encoding = IF e.run.kind = "A" THEN "ascii" ELSE "none",
                       !.points = f.points, !.top.material = f.top.material,
                       !.bottom.material = f.bottom.material]
    <3> DEFINE g == [e EXCEPT !.run = [@ EXCEPT !.encoding = Encoding(e)], !.points = Again(e.points),
                              !.top = [@ EXCEPT !.material = Again(e.top.material)],
                              !.bottom = [@ EXCEPT !.material = Again(e.bottom.material)]]
    <3>1. f = g
      BY <2>5 DEF KeptEnvironment, KeptRun, AgainBoundary
    <3>2. g = [e EXCEPT !.run.encoding = Encoding(e), !.points = Again(e.points),
                        !.top.material = Again(e.top.material),
                        !.bottom.material = Again(e.bottom.material)]
      OBVIOUS
    <3> HIDE DEF f, g
    <3> QED
      BY <2>7, <2>8, <3>1, <3>2 DEF Encoding
  <2>11. k = [d EXCEPT !.environment = f]
    BY <2>5 DEF Kept
  <2> HIDE DEF x, k, f
  <2>12. said = Checked(k, <<>>)
    BY <2>1, <2>2 DEF LoadDocument
  <2> HIDE DEF said
  <2>13. Range(said) = Found(k)
    <3>1. Range(Checked(k, <<>>)) = Range(<<>>) \cup Found(k)
      BY <2>5, CheckedRange, EmptyListed
    <3> QED
      BY <2>12, <3>1, OptionRange
  <2>14. ~HasErrors(said)
    BY <1>3, <2>3, <2>13 DEF Clean, HasErrors, Range
  <2> QED
    BY <1>3, <2>1, <2>3, <2>7, <2>9, <2>10, <2>11, <2>13, <2>14
<1>6. document[1] = x
  BY <1>2 DEF x
<1> HIDE DEF x, k
<1> QED
  BY <1>2, <1>4, <1>5, <1>6 DEF RoundTrip

(* An exported document is read again exactly when the half-space depths    *)
(* and densities of its case are finite numbers as they are printed: as the *)
(* case that it is of, but for the encoding of arrivals and last places of  *)
(* densities, with no finding that the case did not have, and exported from *)
(* then on as itself (bellhop/src/input/json.rs).                           *)
THEOREM ExportsReturn == Spec => []RoundTrip
<1> QED
  BY ConsumptionInit, ConsumptionStep, SoundnessInit, SoundnessStep, CarryingInit, CarryingStep, CarriedBack,
     PTL DEF Spec

-----------------------------------------------------------------------------
(* Totals.                                                                  *)

ArrivalsSolved(g, n, b, q, folded) ==
  /\ g[{}] = b
  /\ \A k \in 0 .. n - 1 : g[1 .. k + 1] = Storing(g[1 .. k], q[k + 1])
  /\ folded = g[1 .. n]

(* The same of the lists that are counted.                                  *)
LEMMA ArrivalsFolded ==
  ASSUME NEW n \in Nat, NEW b, NEW q, DOMAIN q = 1 .. n
  PROVE  \E g : ArrivalsSolved(g, n, b, q, FoldLeft(Storing, b, q))
<1> DEFINE Go(a, i) == Storing(a, q[i])
           After(g, s) == IF s = {} THEN b ELSE Go(g[s \ {Max(s)}], Max(s))
           Solves(g, k) == g = [s \in SUBSET (1 .. k) |-> After(g, s)]
           S == {k \in Nat : \E g : Solves(g, k)}
           fold == CHOOSE g : Solves(g, n)
<1>1. FoldLeft(Storing, b, q) = fold[1 .. n]
  BY DEF FoldLeft, MapThenFoldSet
<1> HIDE DEF Go, fold
<1>2. 0 \in S
  <2> DEFINE g == [s \in SUBSET (1 .. 0) |-> b]
  <2>1. \A s \in SUBSET (1 .. 0) : s = {}
    OBVIOUS
  <2>2. Solves(g, 0)
    BY <2>1
  <2> QED
    BY <2>2
<1>3. ASSUME NEW k \in Nat, k \in S PROVE k + 1 \in S
  <2>1. PICK g : Solves(g, k)
    BY <1>3
  <2> DEFINE h == [s \in SUBSET (1 .. k + 1) |-> IF k + 1 \in s THEN Go(g[s \ {k + 1}], k + 1) ELSE g[s]]
  <2>2. \A s \in SUBSET (1 .. k) : h[s] = g[s] /\ g[s] = After(g, s)
    <3>1. \A s \in SUBSET (1 .. k) : s \in SUBSET (1 .. k + 1) /\ k + 1 \notin s
      OBVIOUS
    <3> HIDE DEF After
    <3> QED
      BY <2>1, <3>1
  <2>3. \A s \in SUBSET (1 .. k + 1) : h[s] = IF k + 1 \in s THEN Go(g[s \ {k + 1}], k + 1) ELSE g[s]
    OBVIOUS
  <2>4. h = [s \in SUBSET (1 .. k + 1) |-> h[s]]
    OBVIOUS
  <2> HIDE DEF h
  <2>5. ASSUME NEW s \in SUBSET (1 .. k + 1) PROVE h[s] = After(h, s)
    <3>1. CASE k + 1 \in s
      <4>1. Max(s) = k + 1 /\ s \ {k + 1} \in SUBSET (1 .. k) /\ s # {}
        BY <3>1, Peeled
      <4> QED
        BY <2>2, <2>3, <3>1, <4>1
    <3>2. CASE k + 1 \notin s
      <4>1. s \in SUBSET (1 .. k) /\ (s # {} => s \ {Max(s)} \in SUBSET (1 .. k))
        BY <3>2, Peeled
      <4> QED
        BY <2>2, <4>1
    <3> QED
      BY <3>1, <3>2
  <2>6. h = [s \in SUBSET (1 .. k + 1) |-> After(h, s)]
    <3> HIDE DEF After
    <3> QED
      BY <2>4, <2>5
  <2>7. Solves(h, k + 1)
    BY <2>6
  <2> HIDE DEF Solves
  <2> QED
    BY <2>7
<1>4. n \in S
  <2> HIDE DEF S
  <2> QED
    BY <1>2, <1>3, SetInduction
<1>5. Solves(fold, n)
  <2>1. \E g : Solves(g, n)
    BY <1>4
  <2> HIDE DEF Solves
  <2> QED
    BY <2>1 DEF fold
<1>6. \A s \in SUBSET (1 .. n) : fold[s] = After(fold, s)
  <2> HIDE DEF After
  <2> QED
    BY <1>5
<1>7. fold[{}] = b
  BY <1>6
<1>8. ASSUME NEW k \in 0 .. n - 1
      PROVE  fold[1 .. k + 1] = Go(fold[1 .. k], k + 1)
  <2>1. k \in Nat /\ 1 .. k + 1 \in SUBSET (1 .. n)
    OBVIOUS
  <2>2. 1 .. k + 1 # {} /\ Max(1 .. k + 1) = k + 1 /\ (1 .. k + 1) \ {k + 1} = 1 .. k
    BY <2>1, Prefix
  <2>3. fold[1 .. k + 1] = After(fold, 1 .. k + 1)
    BY <1>6, <2>1
  <2> QED
    BY <2>2, <2>3
<1> QED
  BY <1>1, <1>7, <1>8 DEF Go, ArrivalsSolved

(* Lists of lists, and their running totals.                                *)
Measured(q) == Listed(q) /\ \A i \in 1 .. Len(q) : Len(q[i]) \in Nat
Totals(f, q) == f[0] = 0 /\ \A k \in 0 .. Len(q) - 1 : f[k + 1] = f[k] + Len(q[k + 1])

(* The running totals of the lengths of lists.                              *)
LEMMA TotalsExist ==
  ASSUME NEW q, Measured(q)
  PROVE  \E f : Totals(f, q) /\ Stored(q) = f[Len(q)]
<1> DEFINE n == Len(q)
<1>1. n \in Nat /\ DOMAIN q = 1 .. n
  BY ListedType DEF Measured, Listed
<1>2. PICK g : ArrivalsSolved(g, n, 0, q, FoldLeft(Storing, 0, q))
  BY <1>1, ArrivalsFolded
<1> DEFINE f == [k \in 0 .. n |-> g[1 .. k]]
<1>3. 1 .. 0 = {}
  OBVIOUS
<1>4. /\ g[{}] = 0 /\ \A k \in 0 .. n - 1 : g[1 .. k + 1] = g[1 .. k] + Len(q[k + 1])
      /\ Stored(q) = g[1 .. n]
  BY <1>2 DEF ArrivalsSolved, Stored, Storing
<1> HIDE DEF n
<1>5. f[0] = 0 /\ f[n] = g[1 .. n]
  BY <1>1, <1>3, <1>4
<1>6. ASSUME NEW k \in 0 .. n - 1 PROVE f[k + 1] = f[k] + Len(q[k + 1])
  <2>1. k \in 0 .. n /\ k + 1 \in 0 .. n
    BY <1>1
  <2> QED
    BY <1>4, <2>1
<1>7. Totals(f, q) /\ Stored(q) = f[n]
  BY <1>4, <1>5, <1>6 DEF Totals, n
<1> QED
  BY <1>7 DEF n

(* There is one way to total them.                                          *)
LEMMA TotalsUnique ==
  ASSUME NEW q, Measured(q), NEW f, Totals(f, q)
  PROVE  /\ Stored(q) = f[Len(q)] /\ Stored(q) \in Nat
         /\ \A k \in 0 .. Len(q) : f[k] \in Nat
<1>1. PICK g : Totals(g, q) /\ Stored(q) = g[Len(q)]
  BY TotalsExist
<1> DEFINE S == {k \in Nat : k <= Len(q) => f[k] = g[k] /\ f[k] \in Nat}
<1>2. 0 \in S
  BY <1>1 DEF Totals
<1>3. ASSUME NEW k \in Nat, k \in S PROVE k + 1 \in S
  <2> SUFFICES ASSUME k + 1 <= Len(q) PROVE f[k + 1] = g[k + 1] /\ f[k + 1] \in Nat
    OBVIOUS
  <2>0. Len(q) \in Nat
    BY DEF Measured, Listed
  <2>1. f[k] = g[k] /\ f[k] \in Nat /\ k \in 0 .. Len(q) - 1 /\ k + 1 \in 1 .. Len(q)
    BY <1>3, <2>0
  <2>2. f[k + 1] = f[k] + Len(q[k + 1]) /\ g[k + 1] = g[k] + Len(q[k + 1]) /\ Len(q[k + 1]) \in Nat
    BY <1>1, <2>1 DEF Totals, Measured
  <2> QED
    BY <2>1, <2>2
<1>4. Nat \subseteq S
  <2> HIDE DEF S
  <2> QED
    BY <1>2, <1>3, SetInduction
<1>5. Len(q) \in Nat
  BY DEF Measured, Listed
<1> QED
  BY <1>1, <1>4, <1>5

(* What is stored is counted by a number.                                   *)
LEMMA StoredType ==
  ASSUME NEW q, Measured(q)
  PROVE  Stored(q) \in Nat
BY TotalsExist, TotalsUnique

(* Nothing is stored in empty lists.                                        *)
LEMMA StoredNone ==
  ASSUME NEW q, Listed(q), \A i \in 1 .. Len(q) : q[i] = <<>>
  PROVE  Measured(q) /\ Stored(q) = 0
<1>1. Measured(q) /\ \A i \in 1 .. Len(q) : Len(q[i]) = 0
  BY DEF Measured
<1> DEFINE f == [k \in 0 .. Len(q) |-> 0]
<1>2. Len(q) \in Nat
  BY DEF Listed
<1>3. Totals(f, q) /\ f[Len(q)] = 0
  BY <1>1, <1>2 DEF Totals
<1> HIDE DEF f
<1> QED
  BY <1>1, <1>3, TotalsUnique

(* Lists of the same lengths store as much.                                 *)
LEMMA StoredAlike ==
  ASSUME NEW q, Measured(q), NEW p, Listed(p), Len(p) = Len(q),
         \A i \in 1 .. Len(q) : Len(p[i]) = Len(q[i])
  PROVE  Measured(p) /\ Stored(p) = Stored(q)
<1>1. Measured(p)
  BY DEF Measured
<1>2. PICK f : Totals(f, q) /\ Stored(q) = f[Len(q)]
  BY TotalsExist
<1>3. Len(q) \in Nat
  BY DEF Measured, Listed
<1>4. Totals(f, p)
  <2>1. \A k \in 0 .. Len(q) - 1 : k + 1 \in 1 .. Len(q)
    BY <1>3
  <2> QED
    BY <1>2, <2>1 DEF Totals
<1> QED
  BY <1>1, <1>2, <1>4, TotalsUnique

(* One list has changed.                                                    *)
LEMMA StoredChanged ==
  ASSUME NEW q, Measured(q), NEW i \in 1 .. Len(q), NEW s, Len(s) \in Nat
  PROVE  /\ Measured([q EXCEPT ![i] = s])
         /\ Stored([q EXCEPT ![i] = s]) = Stored(q) + Len(s) - Len(q[i])
<1> DEFINE p == [q EXCEPT ![i] = s]
           n == Len(q)
<1>1. n \in Nat /\ q = [j \in 1 .. n |-> q[j]] /\ DOMAIN q = 1 .. n
  BY ListedType DEF Measured, Listed
<1>2. p = [j \in 1 .. n |-> IF j = i THEN s ELSE q[j]]
  BY <1>1
<1>3. DOMAIN p = 1 .. n /\ p = [j \in 1 .. n |-> p[j]] /\ \A j \in 1 .. n : p[j] = IF j = i THEN s ELSE q[j]
  BY <1>2
<1> HIDE DEF p, n
<1>4. Listed(p) /\ Len(p) = n
  BY <1>1, <1>3, FunctionListed
<1>5. Measured(p)
  BY <1>3, <1>4 DEF Measured, n
<1>6. PICK f : Totals(f, q) /\ Stored(q) = f[n]
  BY TotalsExist DEF n
<1>7. \A k \in 0 .. n : f[k] \in Nat
  BY <1>6, TotalsUnique DEF n
<1>8. Len(q[i]) \in Nat /\ i \in 1 .. n
  BY DEF Measured, n
<1> DEFINE d == Len(s) - Len(q[i])
           h == [k \in 0 .. n |-> IF k < i THEN f[k] ELSE f[k] + d]
<1>9. d \in Int
  BY <1>8
<1>10. h[0] = 0
  BY <1>1, <1>6, <1>8 DEF Totals
<1>11. ASSUME NEW k \in 0 .. n - 1 PROVE h[k + 1] = h[k] + Len(p[k + 1])
  <2>1. k \in 0 .. n /\ k + 1 \in 0 .. n /\ k + 1 \in 1 .. n /\ k \in Nat
    BY <1>1
  <2>2. f[k + 1] = f[k] + Len(q[k + 1]) /\ f[k] \in Nat /\ f[k + 1] \in Nat /\ Len(q[k + 1]) \in Nat
    BY <1>6, <1>7, <2>1 DEF Totals, n, Measured
  <2>3. h[k] = IF k < i THEN f[k] ELSE f[k] + d
    BY <2>1
  <2>4. h[k + 1] = IF k + 1 < i THEN f[k + 1] ELSE f[k + 1] + d
    BY <2>1
  <2>5. CASE k + 1 = i
    <3>1. p[k + 1] = s /\ k < i /\ ~(k + 1 < i)
      BY <1>3, <1>8, <2>1, <2>5
    <3>2. h[k] = f[k] /\ h[k + 1] = f[k + 1] + (Len(s) - Len(q[k + 1]))
      BY <2>3, <2>4, <2>5, <3>1
    <3> HIDE DEF h
    <3> QED
      BY <2>2, <3>1, <3>2
  <2>6. CASE k + 1 # i
    <3>1. p[k + 1] = q[k + 1] /\ (k < i <=> k + 1 < i)
      BY <1>3, <1>8, <2>1, <2>6
    <3> HIDE DEF h, d
    <3> QED
      BY <1>9, <2>2, <2>3, <2>4, <3>1
  <2> QED
    BY <2>5, <2>6
<1>12. Totals(h, p)
  BY <1>4, <1>10, <1>11 DEF Totals
<1>13. h[n] = f[n] + d
  BY <1>1, <1>8
<1> HIDE DEF h
<1>14. Stored(p) = Stored(q) + d
  BY <1>4, <1>5, <1>6, <1>12, <1>13, TotalsUnique
<1>15. Stored(q) \in Nat
  BY StoredType
<1> QED
  BY <1>5, <1>8, <1>14, <1>15 DEF p

(* What is stored in the lists of two parts.                                *)
LEMMA StoredJoined ==
  ASSUME NEW q, Measured(q), NEW p, Measured(p)
  PROVE  Measured(q \o p) /\ Stored(q \o p) = Stored(q) + Stored(p)
<1> DEFINE m == Len(q)
           n == Len(p)
           t == q \o p
<1>1. m \in Nat /\ n \in Nat
  BY DEF Measured, Listed
<1>2. /\ Listed(t) /\ Len(t) = m + n
      /\ \A i \in 1 .. m : t[i] = q[i]
      /\ \A i \in 1 .. n : t[m + i] = p[i]
  BY Joint DEF Measured
<1>3. PICK f : Totals(f, q) /\ Stored(q) = f[m]
  BY TotalsExist
<1>4. PICK g : Totals(g, p) /\ Stored(p) = g[n]
  BY TotalsExist
<1>5. (\A k \in 0 .. m : f[k] \in Nat) /\ (\A k \in 0 .. n : g[k] \in Nat)
  BY <1>3, <1>4, TotalsUnique
<1> HIDE DEF m, n, t
<1>6. \A i \in 1 .. m + n : i \notin 1 .. m => i - m \in 1 .. n /\ t[i] = p[i - m]
  <2> SUFFICES ASSUME NEW i \in 1 .. m + n, i \notin 1 .. m PROVE i - m \in 1 .. n /\ t[i] = p[i - m]
    OBVIOUS
  <2>1. i - m \in 1 .. n /\ m + (i - m) = i
    BY <1>1
  <2> QED
    BY <1>2, <2>1
<1>7. Measured(t)
  BY <1>2, <1>6 DEF Measured, m, n
<1> DEFINE h == [k \in 0 .. m + n |-> IF k <= m THEN f[k] ELSE f[m] + g[k - m]]
<1>8. h[0] = 0
  BY <1>1, <1>3 DEF Totals
<1>0. \A x \in 0 .. m + n : h[x] = IF x <= m THEN f[x] ELSE f[m] + g[x - m]
  OBVIOUS
<1> HIDE DEF h
<1>9. ASSUME NEW k \in 0 .. m + n - 1 PROVE h[k + 1] = h[k] + Len(t[k + 1])
  <2>1. k \in 0 .. m + n /\ k + 1 \in 0 .. m + n /\ k + 1 \in 1 .. m + n /\ k \in Nat
    BY <1>1
  <2>2. h[k] = IF k <= m THEN f[k] ELSE f[m] + g[k - m]
    BY <1>0, <2>1
  <2>3. h[k + 1] = IF k + 1 <= m THEN f[k + 1] ELSE f[m] + g[k + 1 - m]
    <3>1. PICK c : c = k + 1
      OBVIOUS
    <3>2. h[c] = IF c <= m THEN f[c] ELSE f[m] + g[c - m]
      BY <1>0, <2>1, <3>1
    <3> QED
      BY <3>1, <3>2, <2>1, <1>1
  <2>4. CASE k + 1 <= m
    <3>1. k + 1 \in 1 .. m /\ k <= m /\ k \in 0 .. m - 1
      BY <1>1, <2>1, <2>4
    <3> QED
      BY <1>2, <1>3, <2>2, <2>3, <2>4, <3>1 DEF Totals, m
  <2>5. CASE k = m
    <3>1. 0 \in 0 .. n - 1 /\ k + 1 - m = 0 + 1 /\ ~(k + 1 <= m) /\ 1 \in 1 .. n /\ 1 \in 0 .. n /\ k <= m /\ m \in 0 .. m
      BY <1>1, <2>1, <2>5
    <3>2. g[0 + 1] = g[0] + Len(p[0 + 1]) /\ g[0] = 0
      BY <1>4, <3>1 DEF Totals, n
    <3>3. t[k + 1] = p[1] /\ Len(p[1]) \in Nat
      BY <1>2, <2>5, <3>1 DEF Measured, n
    <3>4. h[k] = f[m] /\ h[k + 1] = f[m] + g[1] /\ f[m] \in Nat /\ g[1] = Len(p[1])
      BY <1>5, <2>2, <2>3, <2>5, <3>1, <3>2, <3>3
    <3> QED
      BY <3>3, <3>4
  <2>6. CASE k > m
    <3>1. /\ ~(k + 1 <= m) /\ ~(k <= m) /\ k - m \in 0 .. n - 1 /\ k + 1 - m = (k - m) + 1
          /\ k - m \in 0 .. n /\ m \in 0 .. m /\ (k - m) + 1 \in 1 .. n /\ k + 1 \notin 1 .. m
      BY <1>1, <2>1, <2>6
    <3>2. g[(k - m) + 1] = g[k - m] + Len(p[(k - m) + 1])
      BY <1>4, <3>1 DEF Totals, n
    <3>3. t[k + 1] = p[(k - m) + 1] /\ Len(p[(k - m) + 1]) \in Nat
      BY <1>6, <2>1, <3>1 DEF Measured, n
    <3>4. f[m] \in Nat /\ g[k - m] \in Nat
      BY <1>5, <3>1
    <3>5. h[k] = f[m] + g[k - m] /\ h[k + 1] = f[m] + g[(k - m) + 1]
      BY <2>2, <2>3, <3>1
    <3> QED
      BY <3>2, <3>3, <3>4, <3>5
  <2> QED
    BY <1>1, <2>1, <2>4, <2>5, <2>6
<1>10. Totals(h, t)
  <2>1. Len(t) = m + n
    BY <1>2
  <2>2. \A k \in 0 .. m + n - 1 : h[k + 1] = h[k] + Len(t[k + 1])
    BY <1>9
  <2>3. ASSUME NEW k \in 0 .. Len(t) - 1 PROVE h[k + 1] = h[k] + Len(t[k + 1])
    <3>1. k \in 0 .. m + n - 1
      BY <1>1, <2>1
    <3> QED
      BY <2>2, <3>1
  <2> QED
    BY <1>8, <2>3 DEF Totals
<1>11. h[m + n] = f[m] + g[n]
  <2>1. h[m + n] = IF m + n <= m THEN f[m + n] ELSE f[m] + g[m + n - m]
    BY <1>0, <1>1
  <2>2. CASE n = 0
    <3>1. g[0] = 0 /\ f[m] \in Nat /\ m + n = m /\ m <= m
      BY <1>1, <1>4, <1>5, <2>2 DEF Totals
    <3> QED
      BY <2>1, <2>2, <3>1
  <2>3. CASE n # 0
    <3>1. ~(m + n <= m) /\ m + n - m = n
      BY <1>1, <2>3
    <3> QED
      BY <2>1, <3>1
  <2> QED
    BY <2>2, <2>3
<1>12. Stored(t) = Stored(q) + Stored(p)
  BY <1>2, <1>3, <1>4, <1>7, <1>10, <1>11, TotalsUnique
<1> QED
  BY <1>7, <1>12 DEF t

(* The solutions of the recursion of FlattenSeq.                            *)
Joins(g, q) == g[1] = q[1] /\ \A k \in 1 .. Len(q) - 1 : g[k + 1] = g[k] \o q[k + 1]

(* The recursion of FlattenSeq has a solution.                              *)
LEMMA FlatJoined ==
  ASSUME NEW q, Len(q) \in Nat \ {0}
  PROVE  \E g : Joins(g, q) /\ FlattenSeq(q) = g[Len(q)]
<1> DEFINE n == Len(q)
           After(g, i) == IF i = 1 THEN q[i] ELSE g[i - 1] \o q[i]
           Solves(g, k) == g = [i \in 1 .. k |-> After(g, i)]
           S == {k \in Nat : \E g : Solves(g, k)}
           flat == CHOOSE g : Solves(g, n)
<1>1. FlattenSeq(q) = flat[n]
  BY DEF FlattenSeq
<1> HIDE DEF flat
<1>2. 0 \in S
  <2> DEFINE g == [i \in 1 .. 0 |-> 0]
  <2>1. \A i \in 1 .. 0 : FALSE
    OBVIOUS
  <2>2. Solves(g, 0)
    BY <2>1
  <2> QED
    BY <2>2
<1>3. ASSUME NEW k \in Nat, k \in S PROVE k + 1 \in S
  <2>1. PICK g : Solves(g, k)
    BY <1>3
  <2> DEFINE h == [i \in 1 .. k + 1 |-> IF i = k + 1 THEN After(g, k + 1) ELSE g[i]]
  <2>2. \A i \in 1 .. k : h[i] = g[i] /\ g[i] = After(g, i)
    <3>1. \A i \in 1 .. k : i \in 1 .. k + 1 /\ i # k + 1
      OBVIOUS
    <3> HIDE DEF After
    <3> QED
      BY <2>1, <3>1
  <2>3. \A i \in 1 .. k + 1 : h[i] = IF i = k + 1 THEN After(g, k + 1) ELSE g[i]
    OBVIOUS
  <2>4. h = [i \in 1 .. k + 1 |-> h[i]]
    OBVIOUS
  <2> HIDE DEF h
  <2>5. ASSUME NEW i \in 1 .. k + 1 PROVE h[i] = After(h, i)
    <3>1. i = 1 \/ i - 1 \in 1 .. k
      OBVIOUS
    <3>2. After(h, i) = After(g, i)
      BY <2>2, <3>1
    <3>3. CASE i = k + 1
      BY <2>3, <3>2, <3>3
    <3>4. CASE i # k + 1
      <4>1. i \in 1 .. k
        BY <3>4
      <4> QED
        BY <2>2, <3>2, <4>1
    <3> QED
      BY <3>3, <3>4
  <2>6. h = [i \in 1 .. k + 1 |-> After(h, i)]
    <3> HIDE DEF After
    <3> QED
      BY <2>4, <2>5
  <2>7. Solves(h, k + 1)
    BY <2>6
  <2> HIDE DEF Solves
  <2> QED
    BY <2>7
<1>4. n \in S
  <2> HIDE DEF S
  <2> QED
    BY <1>2, <1>3, SetInduction
<1>5. Solves(flat, n)
  <2>1. \E g : Solves(g, n)
    BY <1>4
  <2> HIDE DEF Solves
  <2> QED
    BY <2>1 DEF flat
<1>6. \A i \in 1 .. n : flat[i] = After(flat, i)
  <2> HIDE DEF After
  <2> QED
    BY <1>5
<1>7. flat[1] = q[1]
  BY <1>6
<1>8. ASSUME NEW k \in 1 .. n - 1 PROVE flat[k + 1] = flat[k] \o q[k + 1]
  <2>1. k + 1 \in 1 .. n /\ k + 1 # 1 /\ (k + 1) - 1 = k
    OBVIOUS
  <2> QED
    BY <1>6, <2>1
<1> QED
  BY <1>1, <1>7, <1>8 DEF Joins

(* One list more is joined at the end.                                      *)
LEMMA FlatAppended ==
  ASSUME NEW q, Listed(q), NEW l, Listed(l)
  PROVE  Flat(Append(q, l)) = Flat(q) \o l
<1> DEFINE n == Len(q)
           p == Append(q, l)
<1>1. /\ n \in Nat /\ Len(p) = n + 1
      /\ \A i \in 1 .. n : p[i] = q[i]
      /\ p[n + 1] = l
  BY Appended DEF Listed
<1> HIDE DEF p
<1>2. PICK h : Joins(h, p) /\ FlattenSeq(p) = h[n + 1]
  BY <1>1, FlatJoined
<1>3. CASE n = 0
  <2>1. FlattenSeq(p) = l
    BY <1>1, <1>2, <1>3 DEF Joins
  <2>2. Flat(q) = <<>>
    BY <1>3 DEF Flat, FlattenSeq, Listed
  <2>3. <<>> \o l = l
    BY ListedType
  <2> QED
    BY <2>1, <2>2, <2>3 DEF Flat, p
<1>4. CASE n # 0
  <2>1. PICK g : Joins(g, q) /\ FlattenSeq(q) = g[n]
    BY <1>1, <1>4, FlatJoined
  <2> HIDE DEF n
  <2> DEFINE S == {k \in Nat : k + 1 <= n => h[k + 1] = g[k + 1]}
  <2>2. 0 \in S
    <3>1. h[1] = p[1] /\ g[1] = q[1] /\ 1 \in 1 .. n
      BY <1>1, <1>2, <1>4, <2>1 DEF Joins
    <3> QED
      BY <1>1, <3>1
  <2>3. ASSUME NEW k \in Nat, k \in S PROVE k + 1 \in S
    <3> SUFFICES ASSUME k + 1 + 1 <= n PROVE h[k + 1 + 1] = g[k + 1 + 1]
      OBVIOUS
    <3>1. h[k + 1] = g[k + 1] /\ k + 1 \in 1 .. n - 1 /\ k + 1 + 1 \in 1 .. n
      BY <1>1, <2>3
    <3>2. n - 1 = Len(q) - 1 /\ k + 1 \in 1 .. Len(p) - 1
      BY <1>1, <3>1 DEF n
    <3>3. g[k + 1 + 1] = g[k + 1] \o q[k + 1 + 1]
      BY <2>1, <3>1, <3>2 DEF Joins
    <3>4. h[k + 1 + 1] = h[k + 1] \o p[k + 1 + 1]
      BY <1>2, <3>2 DEF Joins
    <3> QED
      BY <1>1, <3>1, <3>3, <3>4
  <2>4. Nat \subseteq S
    <3> HIDE DEF S
    <3> QED
      BY <2>2, <2>3, SetInduction
  <2>5. n - 1 \in Nat /\ (n - 1) + 1 <= n /\ (n - 1) + 1 = n /\ n \in 1 .. Len(p) - 1
    BY <1>1, <1>4
  <2>6. h[n] = g[n]
    BY <2>4, <2>5
  <2>7. h[n + 1] = h[n] \o p[n + 1]
    BY <1>2, <2>5 DEF Joins
  <2> QED
    BY <1>1, <1>2, <2>1, <2>6, <2>7 DEF Flat, p
<1> QED
  BY <1>3, <1>4

(* The lists of a result with one source more.                              *)
LEMMA EveryListAppended ==
  ASSUME NEW results, Listed(results), NEW last, Listed(Lists(last))
  PROVE  /\ Listed(Append(results, last))
         /\ EveryList(Append(results, last)) = EveryList(results) \o Lists(last)
<1> DEFINE n == Len(results)
           all == Append(results, last)
           q == [s \in DOMAIN results |-> Lists(results[s])]
           p == [s \in DOMAIN all |-> Lists(all[s])]
<1>1. /\ n \in Nat /\ DOMAIN results = 1 .. n /\ Listed(all) /\ DOMAIN all = 1 .. n + 1
      /\ \A i \in 1 .. n : all[i] = results[i]
      /\ all[n + 1] = last
  <2>1. Listed(all) /\ Len(all) = n + 1
    BY Appended
  <2> QED
    BY <2>1, Appended, ListedType DEF Listed
<1>2. DOMAIN q = 1 .. n /\ q = [i \in 1 .. n |-> q[i]]
  BY <1>1
<1>3. Listed(q) /\ Len(q) = n
  <2> HIDE DEF q, n
  <2> QED
    BY <1>1, <1>2, FunctionListed
<1> DEFINE t == Append(q, Lists(last))
<1>4. /\ Listed(t) /\ Len(t) = n + 1 /\ t[n + 1] = Lists(last)
      /\ \A i \in 1 .. n : t[i] = Lists(results[i])
  <2>1. \A i \in 1 .. n : q[i] = Lists(results[i])
    BY <1>1
  <2> HIDE DEF q, n
  <2> QED
    BY <1>3, <2>1, Appended
<1>5. p = t
  <2>1. t = [i \in 1 .. n + 1 |-> t[i]]
    BY <1>4 DEF Listed
  <2>2. ASSUME NEW i \in 1 .. n + 1 PROVE t[i] = Lists(all[i])
    <3>1. i = n + 1 \/ i \in 1 .. n
      BY <1>1
    <3> HIDE DEF t, all, n, q
    <3> QED
      BY <1>1, <1>4, <3>1
  <2>3. p = [i \in 1 .. n + 1 |-> Lists(all[i])]
    BY <1>1
  <2> HIDE DEF t, all, p, n
  <2> QED
    BY <2>1, <2>2, <2>3
<1>6. Flat(t) = Flat(q) \o Lists(last)
  <2> HIDE DEF q
  <2> QED
    BY <1>3, FlatAppended
<1> QED
  BY <1>1, <1>5, <1>6 DEF EveryList

-----------------------------------------------------------------------------
(* A simulation.                                                            *)

(* A simulation of some job.                                               *)
JobOK(j) ==
  /\ \A list \in {j.sources, j.angles, j.ranges, j.depths} : Listed(list)
  /\ Len(j.sources) >= 1 /\ Len(j.angles) >= 1
RunSpec == JobOK(job) /\ RunInit /\ [][Simulate]_runVars

Amplitudes == 1 .. Loudest

Progress ==
  /\ JobOK(job)
  /\ phase \in {"idle", "tracing", "influence", "done", "failed"}
  /\ phase \in {"tracing", "influence"} =>
       source \in 1 .. Len(job.sources) /\ ray \in 1 .. Len(job.angles)
  /\ DOMAIN receivers = DOMAIN dropped

(* A receiver with the arrivals s that turned d away, and a share of n.     *)
KeepsStrongest(s, d, n) ==
  /\ s \in Seq(Amplitudes) /\ d \in 0 .. Loudest
  /\ Len(s) <= n
  /\ d > 0 => Len(s) = n
  /\ \A k \in DOMAIN s : d <= s[k]

-----------------------------------------------------------------------------
(* The share of a receiver is a number.                                     *)
LEMMA ShareType ==
  ASSUME NEW j, JobOK(j)
  PROVE  PerReceiver(j) \in Nat
<1>1. Len(j.ranges) \in Nat /\ DepthCount(j) \in Nat
  BY DEF JobOK, Listed, DepthCount
<1>2. ReceiverCount(j) \in Nat
  BY <1>1 DEF ReceiverCount
<1>3. Limits.arrivals \in Nat /\ Limits.receiver \in Nat /\ ReferenceArrivals \in Nat
  BY RunAssumption DEF LimitNames
<1> DEFINE n == IF ReceiverCount(j) = 0 THEN 1 ELSE ReceiverCount(j)
<1>4. n \in Nat \ {0}
  BY <1>2
<1> HIDE DEF n
<1>5. Limits.arrivals \div n \in Nat
  BY <1>3, <1>4
<1> QED
  BY <1>3, <1>5 DEF PerReceiver, n

(* What a receiver keeps are amplitudes.                                    *)
LEMMA KeptTypes ==
  ASSUME NEW s, NEW d, NEW n, KeepsStrongest(s, d, n)
  PROVE  d \in Int /\ \A k \in DOMAIN s : s[k] \in Amplitudes /\ s[k] \in Int
<1>1. s \in Seq(Amplitudes) /\ d \in 0 .. Loudest
  BY DEF KeepsStrongest
<1>2. \A k \in DOMAIN s : s[k] \in Amplitudes
  BY <1>1
<1> QED
  BY <1>1, <1>2 DEF Amplitudes

(* One receiver: an arrival is added to a list that turned nothing away.    *)
LEMMA AddedKeeps ==
  ASSUME NEW s, NEW d, NEW n \in Nat, KeepsStrongest(s, d, n),
         NEW a \in Amplitudes, Len(s) < n
  PROVE  KeepsStrongest(Append(s, a), d, n)
<1>1. Append(s, a) \in Seq(Amplitudes) /\ Len(Append(s, a)) = Len(s) + 1
  BY DEF KeepsStrongest
<1>2. d = 0
  BY DEF KeepsStrongest
<1>3. \A k \in DOMAIN Append(s, a) : Append(s, a)[k] \in Amplitudes
  BY <1>1
<1>4. \A k \in DOMAIN Append(s, a) : d <= Append(s, a)[k]
  BY <1>2, <1>3, RunAssumption DEF Amplitudes
<1> QED
  BY <1>1, <1>2, <1>4, RunAssumption DEF KeepsStrongest

(* One receiver: an arrival is made stronger in its place.                  *)
LEMMA RaisedKeeps ==
  ASSUME NEW s, NEW d, NEW n \in Nat, KeepsStrongest(s, d, n),
         NEW w \in DOMAIN s, NEW a \in Amplitudes, s[w] <= a
  PROVE  KeepsStrongest([s EXCEPT ![w] = a], d, n)
<1> DEFINE t == [s EXCEPT ![w] = a]
<1>1. t \in Seq(Amplitudes) /\ Len(t) = Len(s) /\ DOMAIN t = DOMAIN s
  BY DEF KeepsStrongest
<1>2. ASSUME NEW k \in DOMAIN s
      PROVE  d <= t[k]
  <2>1. d \in Int /\ a \in Int /\ s[w] \in Int /\ s[k] \in Int /\ d <= s[k] /\ d <= s[w]
    <3>1. d \in Int /\ \A i \in DOMAIN s : s[i] \in Amplitudes /\ s[i] \in Int
      BY KeptTypes
    <3>2. \A i \in DOMAIN s : d <= s[i]
      BY DEF KeepsStrongest
    <3>3. a \in Int
      BY DEF Amplitudes
    <3> QED
      BY <3>1, <3>2, <3>3
  <2>2. t[k] = IF k = w THEN a ELSE s[k]
    BY DEF KeepsStrongest
  <2> HIDE DEF t
  <2> QED
    BY <2>1, <2>2
<1> HIDE DEF t
<1>3. KeepsStrongest(t, d, n)
  BY <1>1, <1>2 DEF KeepsStrongest
<1> QED
  BY <1>3 DEF t

(* One receiver: the weakest arrival of a full list gives way, or the new   *)
(* one is turned away.                                                     *)
LEMMA ReplacedKeeps ==
  ASSUME NEW s, NEW d, NEW n \in Nat, KeepsStrongest(s, d, n), Len(s) = n,
         NEW w \in DOMAIN s, \A k \in DOMAIN s : s[w] <= s[k],
         NEW a \in Amplitudes
  PROVE  /\ a > s[w] =>
              KeepsStrongest([s EXCEPT ![w] = a], IF s[w] > d THEN s[w] ELSE d, n)
         /\ ~(a > s[w]) => KeepsStrongest(s, IF a > d THEN a ELSE d, n)
<1>1. /\ a \in Int /\ d \in Int /\ s[w] \in Amplitudes /\ s \in Seq(Amplitudes)
      /\ \A k \in DOMAIN s : s[k] \in Int
  <2>1. d \in Int /\ \A i \in DOMAIN s : s[i] \in Amplitudes /\ s[i] \in Int
    BY KeptTypes
  <2>2. s \in Seq(Amplitudes)
    BY DEF KeepsStrongest
  <2>3. a \in Int
    BY DEF Amplitudes
  <2> QED
    BY <2>1, <2>2, <2>3
<1>2. KeepsStrongest(s, IF s[w] > d THEN s[w] ELSE d, n)
  BY <1>1, RunAssumption DEF KeepsStrongest, Amplitudes
<1>3. ASSUME a > s[w]
      PROVE  KeepsStrongest([s EXCEPT ![w] = a], IF s[w] > d THEN s[w] ELSE d, n)
  <2>1. s[w] <= a
    BY <1>1, <1>3 DEF Amplitudes
  <2> QED
    BY <1>2, <2>1, RaisedKeeps
<1>4. ASSUME ~(a > s[w])
      PROVE  KeepsStrongest(s, IF a > d THEN a ELSE d, n)
  <2>1. \A k \in DOMAIN s : a <= s[k]
    BY <1>1, <1>4 DEF Amplitudes
  <2> QED
    BY <1>1, <2>1, RunAssumption DEF KeepsStrongest, Amplitudes
<1> QED
  BY <1>3, <1>4

(* Every receiver of an arrival run.                                       *)
Receivers ==
  job.kind = "A" =>
    /\ receivers = [i \in DOMAIN receivers |-> receivers[i]]
    /\ dropped = [i \in DOMAIN receivers |-> dropped[i]]
    /\ \A i \in DOMAIN receivers : KeepsStrongest(receivers[i], dropped[i], PerReceiver(job))

RunInv == Progress /\ Receivers

(* It is so at every receiver.                                              *)
LEMMA StrongestEverywhere == Receivers => Strongest
BY DEF Receivers, Strongest, KeepsStrongest

-----------------------------------------------------------------------------
(* No receiver has anything at first.                                       *)
LEMMA RunInitInv == JobOK(job) /\ RunInit => RunInv
BY DEF RunInit, RunInv, Progress, Receivers

(* What no step of a ray touches.                                          *)
LEMMA Undisturbed ==
  ASSUME Receivers, UNCHANGED <<job, receivers, dropped>>
  PROVE  Receivers'
<1>1. PerReceiver(job)' = PerReceiver(job)
  BY DEF PerReceiver, ReceiverCount, DepthCount
<1> QED
  BY <1>1 DEF Receivers

(* A source that is begun has left nothing anywhere.                        *)
LEMMA FreshReceivers ==
  ASSUME JobOK(job), UNCHANGED job,
         receivers' = Untouched(job), dropped' = NothingDropped(job)
  PROVE  Receivers' /\ DOMAIN receivers' = DOMAIN dropped'
<1>1. PerReceiver(job)' = PerReceiver(job)
  BY DEF PerReceiver, ReceiverCount, DepthCount
<1>2. PerReceiver(job) \in Nat
  BY ShareType
<1>3. DOMAIN receivers' = 1 .. ReceiverCount(job) /\ DOMAIN dropped' = 1 .. ReceiverCount(job)
  BY DEF Untouched, NothingDropped
<1>4. job.kind = "A" =>
        \A i \in 1 .. ReceiverCount(job) : receivers'[i] = <<>> /\ dropped'[i] = 0
  BY DEF Untouched, NothingDropped, FieldRun
<1>5. KeepsStrongest(<<>>, 0, PerReceiver(job))
  BY <1>2, RunAssumption DEF KeepsStrongest
<1>6. /\ receivers' = [i \in DOMAIN receivers' |-> receivers'[i]]
      /\ dropped' = [i \in DOMAIN receivers' |-> dropped'[i]]
  BY DEF Untouched, NothingDropped
<1>7. Receivers'
  BY <1>1, <1>3, <1>4, <1>5, <1>6 DEF Receivers
<1> QED
  BY <1>3, <1>7

(* One receiver has changed, and is as it should be.                       *)
LEMMA OneReceiver ==
  ASSUME Receivers, job.kind = "A", UNCHANGED job, NEW i \in DOMAIN receivers, NEW s, NEW d,
         receivers' = [receivers EXCEPT ![i] = s], dropped' = [dropped EXCEPT ![i] = d],
         KeepsStrongest(s, d, PerReceiver(job))
  PROVE  Receivers'
<1>1. PerReceiver(job)' = PerReceiver(job)
  BY DEF PerReceiver, ReceiverCount, DepthCount
<1>2. /\ receivers = [j \in DOMAIN receivers |-> receivers[j]]
      /\ dropped = [j \in DOMAIN receivers |-> dropped[j]]
      /\ \A j \in DOMAIN receivers : KeepsStrongest(receivers[j], dropped[j], PerReceiver(job))
  BY DEF Receivers
<1>3. /\ receivers' = [j \in DOMAIN receivers |-> IF j = i THEN s ELSE receivers[j]]
      /\ dropped' = [j \in DOMAIN receivers |-> IF j = i THEN d ELSE dropped[j]]
  BY <1>2
<1>4. DOMAIN receivers' = DOMAIN receivers
  BY <1>3
<1>5. \A j \in DOMAIN receivers : KeepsStrongest(receivers'[j], dropped'[j], PerReceiver(job))
  BY <1>2, <1>3
<1>6. /\ receivers' = [j \in DOMAIN receivers' |-> receivers'[j]]
      /\ dropped' = [j \in DOMAIN receivers' |-> dropped'[j]]
  BY <1>3, <1>4
<1> QED
  BY <1>1, <1>4, <1>5, <1>6 DEF Receivers

-----------------------------------------------------------------------------
(* What the actions at a receiver do to it.                                *)
LEMMA AddInv ==
  ASSUME RunInv, NEW i \in DOMAIN receivers, NEW a \in 1 .. Loudest, AddArrival(i, a)
  PROVE  Receivers'
<1>1. PerReceiver(job) \in Nat
  BY ShareType DEF RunInv, Progress
<1>2. /\ job.kind = "A" /\ ~(Len(receivers[i]) >= PerReceiver(job))
      /\ receivers' = [receivers EXCEPT ![i] = Append(receivers[i], a)]
      /\ UNCHANGED <<job, dropped>>
  BY DEF AddArrival, Receives, Elsewhere, Full
<1>3. /\ KeepsStrongest(receivers[i], dropped[i], PerReceiver(job))
      /\ dropped = [j \in DOMAIN receivers |-> dropped[j]]
  BY <1>2 DEF RunInv, Receivers
<1>4. Len(receivers[i]) \in Nat
  BY <1>3 DEF KeepsStrongest
<1>5. Len(receivers[i]) < PerReceiver(job)
  BY <1>1, <1>2, <1>4
<1>6. KeepsStrongest(Append(receivers[i], a), dropped[i], PerReceiver(job))
  BY <1>1, <1>3, <1>5, AddedKeeps DEF Amplitudes
<1>7. dropped' = [dropped EXCEPT ![i] = dropped[i]]
  BY <1>2, <1>3
<1> QED
  BY <1>2, <1>6, <1>7, OneReceiver DEF RunInv

(* What is added to the last arrival.                                       *)
LEMMA CombineInv ==
  ASSUME RunInv, NEW i \in DOMAIN receivers, NEW a \in 1 .. Loudest, CombineArrival(i, a)
  PROVE  Receivers'
<1> DEFINE s == receivers[i]
           w == Len(s)
<1>1. PerReceiver(job) \in Nat
  BY ShareType DEF RunInv, Progress
<1>2. /\ job.kind = "A" /\ s # <<>> /\ s[w] + a <= Loudest
      /\ receivers' = [receivers EXCEPT ![i] = [s EXCEPT ![w] = s[w] + a]]
      /\ UNCHANGED <<job, dropped>>
  BY DEF CombineArrival, Receives, Elsewhere
<1>3. /\ KeepsStrongest(s, dropped[i], PerReceiver(job))
      /\ dropped = [j \in DOMAIN receivers |-> dropped[j]]
  BY <1>2 DEF RunInv, Receivers
<1>4. s \in Seq(Amplitudes)
  BY <1>3 DEF KeepsStrongest
<1> HIDE DEF s
<1>5. w \in DOMAIN s
  BY <1>2, <1>4
<1>6. s[w] \in Amplitudes
  BY <1>4, <1>5
<1> HIDE DEF w
<1>7. s[w] + a \in Amplitudes /\ s[w] <= s[w] + a
  BY <1>2, <1>6, RunAssumption DEF Amplitudes
<1>8. KeepsStrongest([s EXCEPT ![w] = s[w] + a], dropped[i], PerReceiver(job))
  BY <1>1, <1>3, <1>5, <1>7, RaisedKeeps
<1>9. dropped' = [dropped EXCEPT ![i] = dropped[i]]
  BY <1>2, <1>3
<1> QED
  BY <1>2, <1>8, <1>9, OneReceiver DEF RunInv

(* What takes the place of the weakest.                                     *)
LEMMA ReplaceInv ==
  ASSUME RunInv, NEW i \in DOMAIN receivers, NEW a \in 1 .. Loudest, ReplaceWeakest(i, a)
  PROVE  Receivers'
<1> DEFINE s == receivers[i]
           d == dropped[i]
           n == PerReceiver(job)
<1>1. n \in Nat
  BY ShareType DEF RunInv, Progress
<1>2. job.kind = "A" /\ Len(s) >= n /\ UNCHANGED job
  BY DEF ReplaceWeakest, Elsewhere, Full
<1>3. PICK w \in DOMAIN s :
        /\ \A k \in DOMAIN s : s[w] <= s[k]
        /\ IF a > s[w] THEN receivers' = [receivers EXCEPT ![i] = [s EXCEPT ![w] = a]]
                       ELSE UNCHANGED receivers
        /\ dropped' = [dropped EXCEPT ![i] =
             IF (IF a > s[w] THEN s[w] ELSE a) > d THEN IF a > s[w] THEN s[w] ELSE a ELSE d]
  BY DEF ReplaceWeakest, FirstWeakest, Receives
<1>4. /\ KeepsStrongest(s, d, n)
      /\ receivers = [j \in DOMAIN receivers |-> receivers[j]]
  BY <1>2 DEF RunInv, Receivers
<1>5. Len(s) = n
  <2>1. Len(s) \in Nat /\ Len(s) <= n
    BY <1>4 DEF KeepsStrongest
  <2> QED
    BY <1>1, <1>2, <2>1
<1>6. CASE a > s[w]
  <2>1. KeepsStrongest([s EXCEPT ![w] = a], IF s[w] > d THEN s[w] ELSE d, n)
    BY <1>1, <1>3, <1>4, <1>5, <1>6, ReplacedKeeps DEF Amplitudes
  <2>2. /\ receivers' = [receivers EXCEPT ![i] = [s EXCEPT ![w] = a]]
        /\ dropped' = [dropped EXCEPT ![i] = IF s[w] > d THEN s[w] ELSE d]
    BY <1>3, <1>6
  <2> QED
    BY <1>2, <2>1, <2>2, OneReceiver DEF RunInv
<1>7. CASE ~(a > s[w])
  <2>1. KeepsStrongest(s, IF a > d THEN a ELSE d, n)
    BY <1>1, <1>3, <1>4, <1>5, <1>7, ReplacedKeeps DEF Amplitudes
  <2>2. /\ receivers' = [receivers EXCEPT ![i] = s]
        /\ dropped' = [dropped EXCEPT ![i] = IF a > d THEN a ELSE d]
    BY <1>3, <1>4, <1>7
  <2> QED
    BY <1>2, <2>1, <2>2, OneReceiver DEF RunInv
<1> QED
  BY <1>6, <1>7

-----------------------------------------------------------------------------
(* Every step of a simulation keeps to the shares.                          *)
LEMMA SimulateInv == RunInv /\ [Simulate]_runVars => RunInv'
<1> SUFFICES ASSUME RunInv, [Simulate]_runVars
             PROVE  RunInv'
  OBVIOUS
<1>1. UNCHANGED job /\ JobOK(job)'
  BY DEF RunInv, Progress, JobOK, Simulate, Begin, Refuse, TraceFails, Trace, TooManyPoints, Fails,
         AddEigenray, EigenrayLimit, AddPressure, CombineArrival, ReplaceWeakest, AddArrival,
         ArrivalLimit, NextRay, NextSource, Complete, Elsewhere, runVars
<1>2. /\ Len(job.sources) >= 1 /\ Len(job.sources) \in Nat
      /\ Len(job.angles) >= 1 /\ Len(job.angles) \in Nat
  BY DEF RunInv, Progress, JobOK, Listed
<1>3. CASE Begin \/ NextSource
  <2>1. receivers' = Untouched(job) /\ dropped' = NothingDropped(job)
    BY <1>3 DEF Begin, NextSource
  <2>2. Receivers' /\ DOMAIN receivers' = DOMAIN dropped'
    BY <1>1, <2>1, FreshReceivers DEF RunInv, Progress
  <2>3. phase' = "tracing" /\ source' \in 1 .. Len(job.sources) /\ ray' = 1
    BY <1>2, <1>3 DEF RunInv, Progress, Begin, NextSource
  <2> QED
    BY <1>1, <1>2, <2>2, <2>3 DEF RunInv, Progress
<1>4. ASSUME Fails PROVE RunInv'
  <2>1. UNCHANGED <<job, receivers, dropped>> /\ phase' = "failed"
    BY <1>4 DEF Fails
  <2> QED
    BY <1>1, <2>1, Undisturbed DEF RunInv, Progress
<1>5. CASE Refuse \/ TraceFails
  BY <1>4, <1>5 DEF Refuse, TraceFails
<1>6. ASSUME NEW n, TooManyPoints(n) PROVE RunInv'
  BY <1>4, <1>6 DEF TooManyPoints
<1>7. ASSUME NEW n, Trace(n) PROVE RunInv'
  <2>1. phase = "tracing" /\ phase' = "influence" /\ UNCHANGED <<job, source, ray, receivers, dropped>>
    BY <1>7 DEF Trace
  <2> QED
    BY <1>1, <2>1, Undisturbed DEF RunInv, Progress
<1>8. CASE NextRay \/ Complete
  <2>1. UNCHANGED <<job, source, receivers, dropped>>
    BY <1>8 DEF NextRay, Complete
  <2>2. \/ phase' = "tracing" /\ source \in 1 .. Len(job.sources) /\ ray' \in 1 .. Len(job.angles)
        \/ phase' = "done"
    BY <1>2, <1>8 DEF NextRay, Complete, RunInv, Progress
  <2> QED
    BY <1>1, <2>1, <2>2, Undisturbed DEF RunInv, Progress
<1>9. ASSUME NEW i \in DOMAIN receivers, NEW k, AddEigenray(i, k) \/ EigenrayLimit(i, k)
      PROVE  RunInv'
  <2>1. CASE EigenrayLimit(i, k)
    BY <1>4, <2>1 DEF EigenrayLimit
  <2>2. CASE AddEigenray(i, k)
    <3>1. job.kind = "E" /\ UNCHANGED <<job, phase, source, ray, dropped>> /\ DOMAIN receivers' = DOMAIN receivers
      BY <2>2 DEF AddEigenray, Receives, Elsewhere
    <3> QED
      BY <1>1, <3>1 DEF RunInv, Progress, Receivers
  <2> QED
    BY <1>9, <2>1, <2>2
<1>10. ASSUME NEW i \in DOMAIN receivers, NEW a \in 1 .. Loudest,
              AddPressure(i, a) \/ CombineArrival(i, a) \/ ReplaceWeakest(i, a) \/ AddArrival(i, a)
       PROVE  RunInv'
  <2>1. UNCHANGED <<job, phase, source, ray>>
    BY <1>10 DEF AddPressure, CombineArrival, ReplaceWeakest, AddArrival, Elsewhere
  <2>2. DOMAIN receivers' = DOMAIN receivers /\ DOMAIN dropped' = DOMAIN dropped
    BY <1>10 DEF AddPressure, CombineArrival, ReplaceWeakest, AddArrival, Receives
  <2>3. Receivers'
    <3>1. CASE AddPressure(i, a)
      BY <1>1, <3>1 DEF AddPressure, FieldRun, Receivers
    <3> QED
      BY <1>10, <3>1, AddInv, CombineInv, ReplaceInv
  <2> QED
    BY <1>1, <2>1, <2>2, <2>3 DEF RunInv, Progress
<1>11. ASSUME NEW i \in DOMAIN receivers, ArrivalLimit(i) PROVE RunInv'
  BY <1>4, <1>11 DEF ArrivalLimit
<1>12. CASE UNCHANGED runVars
  <2>1. UNCHANGED <<job, phase, source, ray, receivers, dropped>>
    BY <1>12 DEF runVars
  <2> QED
    BY <1>1, <2>1, Undisturbed DEF RunInv, Progress
<1> QED
  BY <1>3, <1>5, <1>6, <1>7, <1>8, <1>9, <1>10, <1>11, <1>12 DEF Simulate

-----------------------------------------------------------------------------
(* A run that is being traced has a source and an angle to trace, and every *)
(* receiver has its record of what it turned away (solver/mod.rs, run).     *)
THEOREM RunTypeCorrect == RunSpec => []RunTypeOK
<1>1. RunInv => RunTypeOK
  <2>1. JobOK(job) => DOMAIN job.sources = 1 .. Len(job.sources) /\ DOMAIN job.angles = 1 .. Len(job.angles)
    BY ListedType DEF JobOK
  <2> QED
    BY <2>1 DEF RunInv, Progress, RunTypeOK
<1> QED
  BY RunInitInv, SimulateInv, <1>1, PTL DEF RunSpec

(* No receiver keeps more than its share of the arrivals, and none that it  *)
(* turned away is stronger than any it kept, for every job, all limits and  *)
(* every order of arrivals (solver/influence.rs, add_arrival).             *)
THEOREM StrongestArrivalsKept == RunSpec => []Strongest
<1>1. RunInv => Strongest
  BY StrongestEverywhere DEF RunInv
<1> QED
  BY RunInitInv, SimulateInv, <1>1, PTL DEF RunSpec

-----------------------------------------------------------------------------
(* What is counted.                                                         *)

(* The arrivals that are counted are those of the finished sources and      *)
(* those of the source at hand.                                            *)
Tallied(recs, res, n, over) ==
  /\ Measured(recs) /\ Measured(EveryList(res))
  /\ n = Stored(EveryList(res)) + (IF over THEN 0 ELSE Stored(recs))
  /\ n <= Limits.arrivals

Held ==
  /\ "arrivals" \in DOMAIN counts
  /\ phase = "idle" => receivers = <<>>
  /\ Listed(result)
  /\ job.kind = "A" => Tallied(receivers, result, counts.arrivals, phase = "done")

(* Nothing is at no receiver.                                               *)
LEMMA Nothings ==
  /\ Listed(<<>>) /\ Measured(<<>>) /\ Stored(<<>>) = 0 /\ EveryList(<<>>) = <<>>
  /\ Limits.arrivals \in Nat
<1>1. Listed(<<>>) /\ Len(<<>>) = 0
  BY EmptyListed
<1>2. Measured(<<>>) /\ Stored(<<>>) = 0
  BY <1>1, StoredNone
<1>3. EveryList(<<>>) = <<>>
  BY DEF EveryList, Flat, FlattenSeq
<1>4. Limits.arrivals \in Nat
  BY RunAssumption DEF LimitNames
<1> QED
  BY <1>1, <1>2, <1>3, <1>4

(* Nothing is counted at first.                                             *)
LEMMA HeldInit == RunInit => Held
BY Nothings DEF RunInit, Held, Tallied

(* Nothing of it has changed.                                              *)
LEMMA StillHeld ==
  ASSUME Held, UNCHANGED <<job, receivers, result>>, counts'.arrivals = counts.arrivals,
         "arrivals" \in DOMAIN counts', phase # "done", phase' # "done", phase' # "idle"
  PROVE  Held'
BY DEF Held

(* A source is begun: nothing is at any receiver.                           *)
LEMMA FreshMeasured ==
  ASSUME JobOK(job), job.kind = "A"
  PROVE  Measured(Untouched(job)) /\ Stored(Untouched(job)) = 0
<1>1. ReceiverCount(job) \in Nat
  <2>1. Len(job.ranges) \in Nat /\ DepthCount(job) \in Nat
    BY DEF JobOK, Listed, DepthCount
  <2> QED
    BY <2>1 DEF ReceiverCount
<1> DEFINE q == Untouched(job)
<1>2. /\ DOMAIN q = 1 .. ReceiverCount(job) /\ q = [i \in 1 .. ReceiverCount(job) |-> q[i]]
      /\ \A i \in 1 .. ReceiverCount(job) : q[i] = <<>>
  BY DEF Untouched, FieldRun
<1> HIDE DEF q
<1>3. Listed(q) /\ Len(q) = ReceiverCount(job)
  BY <1>1, <1>2, FunctionListed
<1>4. Measured(q) /\ Stored(q) = 0
  BY <1>2, <1>3, StoredNone
<1> QED
  BY <1>4 DEF q

(* A source is finished: what was at its receivers is in the result.        *)
LEMMA FinishedMeasured ==
  ASSUME RunInv, Held, job.kind = "A"
  PROVE  /\ Listed(Append(result, Finished))
         /\ Measured(EveryList(Append(result, Finished)))
         /\ Stored(EveryList(Append(result, Finished))) = Stored(EveryList(result)) + Stored(receivers)
<1> DEFINE l == Lists(Finished)
           n == Len(receivers)
<1>1. Measured(receivers) /\ Measured(EveryList(result)) /\ Listed(result)
  BY DEF Held, Tallied
<1>2. n \in Nat /\ DOMAIN receivers = 1 .. n /\ Listed(receivers)
  BY <1>1, ListedType DEF Measured, Listed
<1>3. l = [i \in 1 .. n |-> Scaled(i)]
  BY <1>2 DEF Lists, Finished
<1>4. DOMAIN l = 1 .. n /\ l = [i \in 1 .. n |-> l[i]] /\ \A i \in 1 .. n : l[i] = Scaled(i)
  BY <1>3
<1> HIDE DEF l, n
<1>5. Listed(l) /\ Len(l) = n
  BY <1>2, <1>4, FunctionListed
<1>6. ASSUME NEW i \in 1 .. n PROVE Len(l[i]) = Len(receivers[i])
  <2>1. receivers[i] \in Seq(Amplitudes)
    BY <1>2 DEF RunInv, Receivers, KeepsStrongest
  <2> DEFINE m == Len(receivers[i])
             z == [k \in DOMAIN receivers[i] |-> NotFinite]
  <2>2. m \in Nat /\ DOMAIN receivers[i] = 1 .. m
    BY <2>1
  <2>3. DOMAIN z = 1 .. m /\ z = [k \in 1 .. m |-> z[k]]
    BY <2>2
  <2>4. Scaled(i) = receivers[i] \/ Scaled(i) = z
    BY DEF Scaled, FieldRun
  <2> HIDE DEF m, z
  <2>5. Len(z) = m
    BY <2>2, <2>3, FunctionListed
  <2> QED
    BY <1>4, <2>4, <2>5 DEF m
<1>7. Measured(l) /\ Stored(l) = Stored(receivers)
  BY <1>1, <1>5, <1>6, StoredAlike DEF n
<1>8. /\ Listed(Append(result, Finished))
      /\ EveryList(Append(result, Finished)) = EveryList(result) \o l
  BY <1>1, <1>5, EveryListAppended DEF l
<1> QED
  BY <1>1, <1>7, <1>8, StoredJoined

(* Every step of a simulation counts what it stores.                        *)
LEMMA HeldStep == RunInv /\ Held /\ [Simulate]_runVars => Held'
<1> SUFFICES ASSUME RunInv, Held, [Simulate]_runVars
             PROVE  Held'
  OBVIOUS
<1>0. UNCHANGED job
  BY DEF Simulate, Begin, Refuse, TraceFails, Trace, TooManyPoints, Fails,
         AddEigenray, EigenrayLimit, AddPressure, CombineArrival, ReplaceWeakest, AddArrival,
         ArrivalLimit, NextRay, NextSource, Complete, Elsewhere, runVars
<1>1. CASE job.kind # "A"
  <2>1. "arrivals" \in DOMAIN counts'
    BY <1>1 DEF Held, Simulate, Begin, Refuse, TraceFails, Trace, TooManyPoints, Fails,
         AddEigenray, EigenrayLimit, AddPressure, CombineArrival, ReplaceWeakest, AddArrival,
         ArrivalLimit, NextRay, NextSource, Complete, Elsewhere, runVars
  <2>2. phase' = "idle" => receivers' = <<>>
    BY <1>1 DEF Held, Simulate, Begin, Refuse, TraceFails, Trace, TooManyPoints, Fails, At,
         AddEigenray, EigenrayLimit, AddPressure, CombineArrival, ReplaceWeakest, AddArrival,
         ArrivalLimit, NextRay, NextSource, Complete, Elsewhere, runVars
  <2>3. result' = result \/ result' = Append(result, Finished)
    BY <1>1 DEF Held, Simulate, Begin, Refuse, TraceFails, Trace, TooManyPoints, Fails,
         AddEigenray, EigenrayLimit, AddPressure, CombineArrival, ReplaceWeakest, AddArrival,
         ArrivalLimit, NextRay, NextSource, Complete, Elsewhere, runVars
  <2>4. Listed(result')
    <3>1. Listed(result)
      BY DEF Held
    <3>2. Listed(Append(result, Finished))
      BY <3>1, Appended
    <3> QED
      BY <2>3, <3>1, <3>2
  <2> QED
    BY <1>0, <1>1, <2>1, <2>2, <2>4 DEF Held
<1>2. CASE job.kind = "A"
  <2> DEFINE n == counts.arrivals
  <2>0. /\ Measured(receivers) /\ Measured(EveryList(result)) /\ Listed(result) /\ n <= Limits.arrivals
        /\ n = Stored(EveryList(result)) + (IF phase = "done" THEN 0 ELSE Stored(receivers))
        /\ Stored(EveryList(result)) \in Nat /\ Stored(receivers) \in Nat
        /\ Limits.arrivals \in Nat /\ "arrivals" \in DOMAIN counts
    BY <1>2, StoredType, RunAssumption DEF Held, Tallied, LimitNames
  <2>1. CASE Begin
    <3>1. Measured(receivers') /\ Stored(receivers') = 0
      BY <1>2, <2>1, FreshMeasured DEF Begin, RunInv, Progress
    <3>2. Stored(receivers) = 0
      BY <2>1, EmptyListed, StoredNone DEF Begin, Held
    <3>3. UNCHANGED <<job, result, counts>> /\ phase' = "tracing" /\ phase = "idle"
      BY <2>1 DEF Begin
    <3> QED
      BY <2>0, <3>1, <3>2, <3>3 DEF Held, Tallied
  <2>2. ASSUME Fails, phase # "done" PROVE Held'
    BY <2>0, <2>2, StillHeld DEF Fails
  <2>3. CASE Refuse \/ TraceFails
    BY <2>2, <2>3 DEF Refuse, TraceFails
  <2>4. ASSUME NEW k, TooManyPoints(k) PROVE Held'
    BY <2>2, <2>4 DEF TooManyPoints
  <2>5. ASSUME NEW k, Trace(k) PROVE Held'
    BY <2>0, <2>5, StillHeld DEF Trace
  <2>6. ASSUME NEW i, NEW k, AddEigenray(i, k) \/ EigenrayLimit(i, k) PROVE Held'
    BY <1>2, <2>6 DEF AddEigenray, EigenrayLimit
  <2>7. ASSUME NEW i, ArrivalLimit(i) PROVE Held'
    BY <2>2, <2>7 DEF ArrivalLimit, At
  <2>8. ASSUME NEW i \in DOMAIN receivers, NEW s, Receives(i, s), Len(s) \in Nat, phase = "influence",
               UNCHANGED <<job, result, phase>>, "arrivals" \in DOMAIN counts',
               counts'.arrivals = n + (Len(s) - Len(receivers[i])), counts'.arrivals <= Limits.arrivals
        PROVE  Held'
    <3>1. DOMAIN receivers = 1 .. Len(receivers)
      BY <2>0, ListedType DEF Measured
    <3>2. /\ Measured(receivers') /\ Stored(receivers') = Stored(receivers) + Len(s) - Len(receivers[i])
          /\ Len(receivers[i]) \in Nat
      BY <2>0, <2>8, <3>1, StoredChanged DEF Receives, Measured
    <3>3. counts'.arrivals = Stored(EveryList(result)) + Stored(receivers')
      BY <2>0, <2>8, <3>2
    <3> HIDE DEF n
    <3> QED
      BY <2>0, <2>8, <3>2, <3>3 DEF Held, Tallied
  <2>9. ASSUME NEW i \in DOMAIN receivers, NEW a \in 1 .. Loudest,
               AddPressure(i, a) \/ CombineArrival(i, a) \/ ReplaceWeakest(i, a) \/ AddArrival(i, a)
        PROVE  Held'
    <3>1. receivers[i] \in Seq(Amplitudes)
      BY <1>2 DEF RunInv, Receivers, KeepsStrongest
    <3>2. ~AddPressure(i, a)
      BY <1>2 DEF AddPressure, FieldRun
    <3>3. CASE UNCHANGED receivers /\ ReplaceWeakest(i, a)
      BY <2>0, <3>3, StillHeld DEF ReplaceWeakest, Elsewhere, At
    <3>4. ASSUME NEW w \in DOMAIN receivers[i], NEW x, Receives(i, [receivers[i] EXCEPT ![w] = x]),
                 phase = "influence", UNCHANGED <<job, result, phase, counts>>
          PROVE  Held'
      <4>1. Len([receivers[i] EXCEPT ![w] = x]) = Len(receivers[i]) /\ Len(receivers[i]) \in Nat
        BY <3>1
      <4>2. n \in Nat /\ counts'.arrivals = n
        BY <2>0, <3>4
      <4>3. n = n + (Len([receivers[i] EXCEPT ![w] = x]) - Len(receivers[i]))
        BY <4>1, <4>2
      <4> HIDE DEF n
      <4> QED
        BY <2>0, <2>8, <3>4, <4>1, <4>2, <4>3
    <3>5. CASE CombineArrival(i, a)
      <4>1. Len(receivers[i]) \in DOMAIN receivers[i]
        BY <3>1, <3>5 DEF CombineArrival
      <4> QED
        BY <3>4, <3>5, <4>1 DEF CombineArrival, Elsewhere, At
    <3>6. CASE ReplaceWeakest(i, a) /\ receivers' # receivers
      BY <3>4, <3>6 DEF ReplaceWeakest, Elsewhere, At
    <3>7. CASE AddArrival(i, a)
      <4>1. Len(Append(receivers[i], a)) = Len(receivers[i]) + 1 /\ Len(receivers[i]) \in Nat
        BY <3>1 DEF Amplitudes
      <4>2. /\ Receives(i, Append(receivers[i], a)) /\ phase = "influence" /\ UNCHANGED <<job, result, phase>>
            /\ counts' = [counts EXCEPT !.arrivals = n + 1] /\ n < Limits.arrivals
        BY <3>7 DEF AddArrival, Elsewhere, At
      <4>3. n \in Nat
        BY <2>0
      <4>4. "arrivals" \in DOMAIN counts' /\ counts'.arrivals = n + 1 /\ n + 1 <= Limits.arrivals
        BY <2>0, <4>2, <4>3
      <4>5. n + 1 = n + (Len(Append(receivers[i], a)) - Len(receivers[i])) /\ Len(Append(receivers[i], a)) \in Nat
        BY <4>1, <4>3
      <4> HIDE DEF n
      <4> QED
        BY <2>8, <4>2, <4>4, <4>5
    <3> QED
      BY <2>9, <3>2, <3>3, <3>5, <3>6, <3>7
  <2>10. CASE NextRay
    BY <2>0, <2>10, StillHeld DEF NextRay
  <2>11. CASE NextSource \/ Complete
    <3>1. /\ Listed(result') /\ Measured(EveryList(result'))
          /\ Stored(EveryList(result')) = Stored(EveryList(result)) + Stored(receivers)
      BY <1>2, <2>11, FinishedMeasured DEF NextSource, Complete
    <3>2. phase = "influence" /\ UNCHANGED <<job, counts>>
      BY <2>11 DEF NextSource, Complete
    <3>3. CASE NextSource
      <4>1. Measured(receivers') /\ Stored(receivers') = 0
        BY <1>2, <3>3, FreshMeasured DEF NextSource, RunInv, Progress
      <4>2. phase' = "tracing"
        BY <3>3 DEF NextSource
      <4> QED
        BY <2>0, <3>1, <3>2, <4>1, <4>2 DEF Held, Tallied
    <3>4. CASE Complete
      <4>1. phase' = "done" /\ UNCHANGED receivers
        BY <3>4 DEF Complete
      <4> QED
        BY <2>0, <3>1, <3>2, <4>1 DEF Held, Tallied
    <3> QED
      BY <2>11, <3>3, <3>4
  <2>12. CASE UNCHANGED runVars
    <3>1. UNCHANGED <<job, receivers, result, counts, phase>>
      BY <2>12 DEF runVars
    <3> QED
      BY <3>1 DEF Held
  <2> QED
    BY <2>1, <2>3, <2>4, <2>5, <2>6, <2>7, <2>9, <2>10, <2>11, <2>12 DEF Simulate
<1> QED
  BY <1>1, <1>2

(* What is held is what is to be retained.                                  *)
LEMMA HeldRetained == RunInv /\ Held => Retained
<1>1. RunInv => Strongest
  BY StrongestEverywhere DEF RunInv
<1> QED
  BY <1>1 DEF Held, Tallied, Retained

(* For every job, all limits and every order of arrivals, the count that    *)
(* bounds a run is that of the arrivals that are there, in the finished     *)
(* sources and at the receivers of this one, and is never above its limit   *)
(* (solver/influence.rs, InfluenceCounts and apply_contribution).           *)
THEOREM ArrivalsRetained == RunSpec => []Retained
BY HeldRetained, RunInitInv, SimulateInv, HeldInit, HeldStep, PTL DEF RunSpec

-----------------------------------------------------------------------------
(* What a reader finds in the files of a result: places in a file.          *)

(* Where the things stand that a reader walks over.                         *)
LEMMA WalkSteps ==
  ASSUME NEW next, NEW from, NEW n \in Nat
  PROVE  /\ Walk(next, from, n)[0] = from
         /\ \A k \in 1 .. n : Walk(next, from, n)[k] = next[Walk(next, from, n)[k - 1]]
<1> DEFINE After(g, i) == IF i = 0 THEN from ELSE next[g[i - 1]]
           Solves(g, k) == g = [i \in 0 .. k |-> After(g, i)]
           S == {k \in Nat : \E g : Solves(g, k)}
           place == CHOOSE g : Solves(g, n)
<1>1. Walk(next, from, n) = place
  BY DEF Walk
<1> HIDE DEF place
<1>2. 0 \in S
  <2> DEFINE g == [i \in 0 .. 0 |-> from]
  <2>1. Solves(g, 0)
    OBVIOUS
  <2> QED
    BY <2>1
<1>3. ASSUME NEW k \in Nat, k \in S PROVE k + 1 \in S
  <2>1. PICK g : Solves(g, k)
    BY <1>3
  <2> DEFINE h == [i \in 0 .. k + 1 |-> IF i = k + 1 THEN next[g[k]] ELSE g[i]]
  <2>2. \A i \in 0 .. k : h[i] = g[i] /\ g[i] = After(g, i)
    <3> HIDE DEF After
    <3>1. \A i \in 0 .. k : g[i] = After(g, i)
      BY <2>1
    <3>2. \A i \in 0 .. k : i \in 0 .. k + 1 /\ i # k + 1
      OBVIOUS
    <3> QED
      BY <3>1, <3>2
  <2>3. h[k + 1] = next[g[k]] /\ h = [i \in 0 .. k + 1 |-> h[i]]
    OBVIOUS
  <2> HIDE DEF h
  <2>4. ASSUME NEW i \in 0 .. k + 1 PROVE h[i] = After(h, i)
    <3>1. CASE i = k + 1
      <4>1. i # 0 /\ i - 1 = k /\ k \in 0 .. k
        BY <3>1
      <4>2. h[k] = g[k]
        BY <2>2, <4>1
      <4> QED
        BY <2>3, <3>1, <4>1, <4>2
    <3>2. CASE i # k + 1
      <4>1. i \in 0 .. k /\ (i # 0 => i - 1 \in 0 .. k)
        BY <3>2
      <4>2. h[i] = g[i] /\ g[i] = After(g, i) /\ (i # 0 => h[i - 1] = g[i - 1])
        BY <2>2, <4>1
      <4> QED
        BY <4>2
    <3> QED
      BY <3>1, <3>2
  <2>5. h = [i \in 0 .. k + 1 |-> After(h, i)]
    <3> HIDE DEF After
    <3> QED
      BY <2>3, <2>4
  <2>6. Solves(h, k + 1)
    BY <2>5
  <2> HIDE DEF Solves
  <2> QED
    BY <2>6
<1>4. Nat \subseteq S
  <2> HIDE DEF S
  <2> QED
    BY <1>2, <1>3, SetInduction
<1>5. Solves(place, n)
  <2>1. \E g : Solves(g, n)
    BY <1>4
  <2> HIDE DEF Solves
  <2> QED
    BY <2>1 DEF place
<1>6. \A i \in 0 .. n : place[i] = After(place, i)
  <2> HIDE DEF After
  <2> QED
    BY <1>5
<1>7. place[0] = from
  BY <1>6
<1>8. \A i \in 1 .. n : place[i] = next[place[i - 1]]
  BY <1>6
<1> QED
  BY <1>1, <1>7, <1>8

(* A walk that is known: it begins there, and goes on as the file says.     *)
Goes(o, next, n) == \A k \in 1 .. n : o[k] = next[o[k - 1]]
Agree(w, o, n) == \A k \in 0 .. n : w[k] = o[k]
(* A walk is the one that begins where it does and goes on as it does.      *)
LEMMA WalkKnown ==
  ASSUME NEW next, NEW n \in Nat, NEW o, Goes(o, next, n)
  PROVE  Agree(Walk(next, o[0], n), o, n)
<1> DEFINE w == Walk(next, o[0], n)
           S == {k \in Nat : k <= n => w[k] = o[k]}
<1>1. w[0] = o[0] /\ \A k \in 1 .. n : w[k] = next[w[k - 1]]
  BY WalkSteps
<1> HIDE DEF w
<1>2. 0 \in S
  BY <1>1
<1>3. ASSUME NEW k \in Nat, k \in S PROVE k + 1 \in S
  <2>1. k + 1 <= n => k + 1 \in 1 .. n /\ (k + 1) - 1 = k /\ k <= n
    OBVIOUS
  <2> QED
    BY <1>1, <1>3, <2>1 DEF Goes
<1>4. Nat \subseteq S
  <2> HIDE DEF S
  <2> QED
    BY <1>2, <1>3, SetInduction
<1> QED
  BY <1>4 DEF w, Agree

(* The offsets of lists, which are where each of them begins.               *)
LEMMA OffsetSteps ==
  ASSUME NEW q, Listed(q)
  PROVE  /\ Listed(Offsets(q)) /\ Len(Offsets(q)) = Len(q) + 1
         /\ Offsets(q)[1] = 0
         /\ \A k \in 1 .. Len(q) : Offsets(q)[k + 1] = Offsets(q)[k] + Len(q[k])
<1> DEFINE n == Len(q)
           After(g, i) == IF i = 0 THEN 0 ELSE g[i - 1] + Len(q[i])
           Solves(g, k) == g = [i \in 0 .. k |-> After(g, i)]
           S == {k \in Nat : \E g : Solves(g, k)}
           begun == CHOOSE g : Solves(g, n)
           o == [k \in 1 .. n + 1 |-> begun[k - 1]]
<1>0. n \in Nat
  BY DEF Listed
<1>1. Offsets(q) = o
  BY DEF Offsets
<1> HIDE DEF begun
<1>2. 0 \in S
  <2> DEFINE g == [i \in 0 .. 0 |-> 0]
  <2>1. Solves(g, 0)
    OBVIOUS
  <2> QED
    BY <2>1
<1>3. ASSUME NEW k \in Nat, k \in S PROVE k + 1 \in S
  <2>1. PICK g : Solves(g, k)
    BY <1>3
  <2> DEFINE h == [i \in 0 .. k + 1 |-> IF i = k + 1 THEN g[k] + Len(q[k + 1]) ELSE g[i]]
  <2>2. \A i \in 0 .. k : h[i] = g[i] /\ g[i] = After(g, i)
    <3> HIDE DEF After
    <3>1. \A i \in 0 .. k : g[i] = After(g, i)
      BY <2>1
    <3>2. \A i \in 0 .. k : i \in 0 .. k + 1 /\ i # k + 1
      OBVIOUS
    <3> QED
      BY <3>1, <3>2
  <2>3. h[k + 1] = g[k] + Len(q[k + 1]) /\ h = [i \in 0 .. k + 1 |-> h[i]]
    OBVIOUS
  <2> HIDE DEF h
  <2>4. ASSUME NEW i \in 0 .. k + 1 PROVE h[i] = After(h, i)
    <3>1. CASE i = k + 1
      <4>1. i # 0 /\ i - 1 = k /\ k \in 0 .. k
        BY <3>1
      <4>2. h[k] = g[k]
        BY <2>2, <4>1
      <4> QED
        BY <2>3, <3>1, <4>1, <4>2
    <3>2. CASE i # k + 1
      <4>1. i \in 0 .. k /\ (i # 0 => i - 1 \in 0 .. k)
        BY <3>2
      <4>2. h[i] = g[i] /\ g[i] = After(g, i) /\ (i # 0 => h[i - 1] = g[i - 1])
        BY <2>2, <4>1
      <4> QED
        BY <4>2
    <3> QED
      BY <3>1, <3>2
  <2>5. h = [i \in 0 .. k + 1 |-> After(h, i)]
    <3> HIDE DEF After
    <3> QED
      BY <2>3, <2>4
  <2>6. Solves(h, k + 1)
    BY <2>5
  <2> HIDE DEF Solves
  <2> QED
    BY <2>6
<1>4. Nat \subseteq S
  <2> HIDE DEF S
  <2> QED
    BY <1>2, <1>3, SetInduction
<1>5. Solves(begun, n)
  <2>1. \E g : Solves(g, n)
    BY <1>0, <1>4
  <2> HIDE DEF Solves
  <2> QED
    BY <2>1 DEF begun
<1> HIDE DEF n
<1>6. \A i \in 0 .. n : begun[i] = After(begun, i)
  <2> HIDE DEF After
  <2> QED
    BY <1>5
<1>7. o[1] = 0
  BY <1>0, <1>6
<1>8. ASSUME NEW k \in 1 .. n PROVE o[k + 1] = o[k] + Len(q[k])
  <2>1. k \in 1 .. n + 1 /\ k + 1 \in 1 .. n + 1 /\ (k + 1) - 1 = k /\ k \in 0 .. n /\ k # 0
    BY <1>0
  <2>2. o[k + 1] = begun[k] /\ o[k] = begun[k - 1]
    BY <2>1
  <2> QED
    BY <1>6, <2>1, <2>2
<1>9. Listed(o) /\ Len(o) = n + 1
  <2>1. DOMAIN o = 1 .. n + 1 /\ o = [k \in 1 .. n + 1 |-> o[k]]
    OBVIOUS
  <2> HIDE DEF o
  <2> QED
    BY <1>0, <2>1, FunctionListed
<1> HIDE DEF o
<1> QED
  BY <1>1, <1>7, <1>8, <1>9 DEF n

(* Lists strung together, with the place at which each of them begins.      *)
Strung(q) == Listed(q) /\ \A i \in 1 .. Len(q) : Listed(q[i])
Placed(o, q, flat) ==
  /\ o[1] = 0 /\ o[Len(q) + 1] = Len(flat)
  /\ \A k \in 1 .. Len(q) :
       /\ o[k] \in Nat /\ o[k + 1] = o[k] + Len(q[k]) /\ o[k + 1] <= Len(flat)
       /\ \A j \in 1 .. Len(q[k]) : flat[o[k] + j] = q[k][j]
LEMMA FlatPlaces ==
  ASSUME NEW q, Strung(q)
  PROVE  Listed(Flat(q)) /\ Placed(Offsets(q), q, Flat(q))
<1> DEFINE n == Len(q)
           o == Offsets(q)
<1>0. n \in Nat /\ o[1] = 0 /\ \A k \in 1 .. n : o[k + 1] = o[k] + Len(q[k])
  BY OffsetSteps DEF Strung, Listed
<1>1. \A k \in 1 .. n : Listed(q[k]) /\ Len(q[k]) \in Nat
  BY DEF Strung, Listed
<1> HIDE DEF o
<1>2. CASE n = 0
  <2>1. Flat(q) = <<>> /\ Len(<<>>) = 0
    BY <1>2 DEF Flat, FlattenSeq, Strung, Listed
  <2>2. \A k : k \notin 1 .. Len(q)
    BY <1>2
  <2> QED
    BY <1>0, <1>2, <2>1, <2>2, EmptyListed DEF Placed, o
<1>3. CASE n # 0
  <2>1. PICK g : Joins(g, q) /\ FlattenSeq(q) = g[n]
    BY <1>0, <1>3, FlatJoined
  <2> DEFINE Right(k) == /\ Listed(g[k]) /\ Len(g[k]) = o[k + 1]
                         /\ \A i \in 1 .. k : /\ o[i] \in Nat /\ o[i + 1] <= Len(g[k])
                                              /\ \A j \in 1 .. Len(q[i]) : g[k][o[i] + j] = q[i][j]
             S == {k \in Nat : k + 1 <= n => Right(k + 1)}
  <2>2. 0 \in S
    <3>1. 1 \in 1 .. n /\ g[1] = q[1]
      BY <1>0, <1>3, <2>1 DEF Joins
    <3>2. o[1] = 0 /\ o[1 + 1] = Len(q[1]) /\ Listed(q[1]) /\ Len(q[1]) \in Nat
      BY <1>0, <1>1, <3>1
    <3>3. \A i \in 1 .. 0 + 1 : i = 1
      OBVIOUS
    <3>4. \A j \in 1 .. Len(q[1]) : g[1][o[1] + j] = q[1][j]
      BY <3>1, <3>2
    <3>5. o[1 + 1] <= Len(g[1]) /\ o[1] \in Nat
      BY <3>1, <3>2
    <3>6. Right(1)
      BY <3>1, <3>2, <3>3, <3>4, <3>5
    <3> HIDE DEF Right
    <3> QED
      BY <3>6
  <2>3. ASSUME NEW k \in Nat, k \in S PROVE k + 1 \in S
    <3>1. CASE k + 1 + 1 <= n
      <4>1. k + 1 \in 1 .. n - 1 /\ k + 1 + 1 \in 1 .. n /\ k + 1 <= n /\ k + 1 \in 1 .. n
        BY <1>0, <3>1
      <4> DEFINE a == g[k + 1]
                 b == q[k + 1 + 1]
                 c == g[k + 1 + 1]
      <4>2. c = a \o b
        BY <2>1, <4>1 DEF Joins
      <4>3. Right(k + 1) /\ Listed(a) /\ Listed(b)
        BY <1>1, <2>3, <4>1
      <4>4. Len(a) \in Nat /\ Len(b) \in Nat /\ Len(a) = o[k + 1 + 1] /\ o[k + 1 + 1 + 1] = o[k + 1 + 1] + Len(b)
        BY <1>0, <4>1, <4>3 DEF Listed
      <4> HIDE DEF a, b, c, Right
      <4>5. /\ Listed(c) /\ Len(c) = Len(a) + Len(b)
            /\ \A i \in 1 .. Len(a) : c[i] = a[i]
            /\ \A i \in 1 .. Len(b) : c[Len(a) + i] = b[i]
        BY <4>2, <4>3, Joint
      <4>6. ASSUME NEW i \in 1 .. k + 1
            PROVE  o[i] \in Nat /\ o[i + 1] <= Len(c) /\ \A j \in 1 .. Len(q[i]) : c[o[i] + j] = q[i][j]
        <5>1. o[i] \in Nat /\ o[i + 1] <= Len(a) /\ \A j \in 1 .. Len(q[i]) : a[o[i] + j] = q[i][j]
          BY <4>3 DEF Right, a
        <5>2. i \in 1 .. n
          BY <1>0, <4>1
        <5>3. Len(q[i]) \in Nat /\ o[i + 1] = o[i] + Len(q[i])
          BY <1>0, <1>1, <5>2
        <5>4. o[i + 1] <= Len(c)
          BY <4>4, <4>5, <5>1, <5>3
        <5>5. \A j \in 1 .. Len(q[i]) : o[i] + j \in 1 .. Len(a)
          <6>1. \A x, l, t \in Nat : x + l <= t => \A j \in 1 .. l : x + j \in 1 .. t
            OBVIOUS
          <6> QED
            BY <4>4, <5>1, <5>3, <6>1
        <5> QED
          BY <4>5, <5>1, <5>4, <5>5
      <4>7. /\ o[k + 1 + 1] \in Nat /\ o[k + 1 + 1 + 1] <= Len(c)
            /\ \A j \in 1 .. Len(b) : c[o[k + 1 + 1] + j] = b[j]
        <5> DEFINE x == o[k + 1 + 1]
                   y == o[k + 1 + 1 + 1]
        <5>1. x = Len(a) /\ y = x + Len(b) /\ Len(a) \in Nat /\ Len(b) \in Nat
          BY <4>4
        <5> HIDE DEF x, y
        <5>2. x \in Nat /\ y <= Len(c)
          BY <4>5, <5>1
        <5>3. \A j \in 1 .. Len(b) : c[x + j] = b[j]
          BY <4>5, <5>1
        <5> QED
          BY <5>2, <5>3 DEF x, y
      <4>8. \A i \in 1 .. k + 1 + 1 : i = k + 1 + 1 \/ i \in 1 .. k + 1
        OBVIOUS
      <4>9. ASSUME NEW i \in 1 .. k + 1 + 1
            PROVE  o[i] \in Nat /\ o[i + 1] <= Len(c) /\ \A j \in 1 .. Len(q[i]) : c[o[i] + j] = q[i][j]
        <5>1. CASE i \in 1 .. k + 1
          BY <4>6, <5>1
        <5>2. CASE i = k + 1 + 1
          BY <4>7, <5>2 DEF b
        <5> QED
          BY <4>8, <5>1, <5>2
      <4>10. Len(c) = o[k + 1 + 1 + 1]
        BY <4>4, <4>5
      <4>11. Right(k + 1 + 1)
        BY <4>5, <4>9, <4>10 DEF Right, c
      <4> QED
        BY <4>11
    <3>2. CASE ~(k + 1 + 1 <= n)
      BY <3>2
    <3> QED
      BY <3>1, <3>2
  <2>4. n - 1 \in S
    <3> HIDE DEF S
    <3>1. n - 1 \in Nat
      BY <1>0, <1>3
    <3> QED
      BY <2>2, <2>3, <3>1, SetInduction
  <2>5. Right(n)
    <3> HIDE DEF Right
    <3>1. (n - 1) + 1 <= n /\ (n - 1) + 1 = n
      BY <1>0
    <3> QED
      BY <2>4, <3>1
  <2>6. Placed(o, q, g[n])
    BY <1>0, <2>5 DEF Placed
  <2> QED
    BY <2>1, <2>5, <2>6 DEF Flat, o
<1> QED
  BY <1>2, <1>3

(* So many values of a list from a place on.                                *)
LEMMA StretchOf ==
  ASSUME NEW s, Listed(s), NEW a \in Nat, NEW n \in Nat, a + n <= Len(s)
  PROVE  SubSeq(s, a + 1, a + n) = [j \in 1 .. n |-> s[a + j]]
<1> DEFINE T == {s[i] : i \in DOMAIN s}
<1>1. s \in Seq(T) /\ Len(s) \in Nat
  BY ListedType DEF Listed
<1> HIDE DEF T
<1> DEFINE t == SubSeq(s, a + 1, a + n)
<1>2. /\ t \in Seq(T) /\ Len(t) = IF a + 1 <= a + n THEN (a + n) - (a + 1) + 1 ELSE 0
      /\ \A j \in 1 .. (a + n) - (a + 1) + 1 : t[j] = s[(a + 1) + j - 1]
  <2> DEFINE x == a + 1
             y == a + n
  <2>1. x \in 1 .. Len(s) + 1 /\ y \in x - 1 .. Len(s)
    BY <1>1
  <2> HIDE DEF x, y
  <2>2. /\ SubSeq(s, x, y) \in Seq(T) /\ Len(SubSeq(s, x, y)) = IF x <= y THEN y - x + 1 ELSE 0
        /\ \A j \in 1 .. y - x + 1 : SubSeq(s, x, y)[j] = s[x + j - 1]
    BY <1>1, <2>1, SubSeqProperties
  <2> QED
    BY <2>2 DEF t, x, y
<1> HIDE DEF t
<1>3. (a + n) - (a + 1) + 1 = n /\ (IF a + 1 <= a + n THEN n ELSE 0) = n /\ \A j \in 1 .. n : (a + 1) + j - 1 = a + j
  OBVIOUS
<1>4. Len(t) = n /\ \A j \in 1 .. n : t[j] = s[a + j]
  BY <1>2, <1>3
<1>5. t = [j \in 1 .. n |-> t[j]]
  BY <1>2, <1>4
<1>6. t = [j \in 1 .. n |-> s[a + j]]
  BY <1>4, <1>5
<1> QED
  BY <1>6 DEF t

(* A list among those that are strung together is found by its offsets.     *)
LEMMA SliceOf ==
  ASSUME NEW q, Strung(q), NEW k \in 1 .. Len(q)
  PROVE  Slice(Flat(q), Offsets(q), k) = q[k]
<1> DEFINE o == Offsets(q)
           f == Flat(q)
           n == Len(q[k])
<1>1. /\ Listed(f) /\ o[k] \in Nat /\ o[k + 1] = o[k] + n /\ o[k + 1] <= Len(f)
      /\ \A j \in 1 .. n : f[o[k] + j] = q[k][j]
  BY FlatPlaces DEF Placed
<1>2. n \in Nat /\ q[k] = [j \in 1 .. n |-> q[k][j]]
  BY DEF Strung, Listed
<1> HIDE DEF o, f, n
<1> DEFINE a == o[k]
<1>3. a \in Nat /\ a + n <= Len(f) /\ o[k + 1] = a + n /\ \A j \in 1 .. n : f[a + j] = q[k][j]
  BY <1>1
<1> HIDE DEF a
<1>4. SubSeq(f, a + 1, a + n) = [j \in 1 .. n |-> f[a + j]]
  BY <1>1, <1>2, <1>3, StretchOf
<1>5. SubSeq(f, a + 1, a + n) = q[k]
  BY <1>2, <1>3, <1>4
<1> QED
  BY <1>3, <1>5 DEF Slice, o, f, a

(* Lists of the same length stand at multiples of it.                       *)
LEMMA EvenOffsets ==
  ASSUME NEW q, Listed(q), NEW w \in Nat, \A k \in 1 .. Len(q) : Len(q[k]) = w
  PROVE  \A k \in 1 .. Len(q) + 1 : Offsets(q)[k] = (k - 1) * w
<1> DEFINE n == Len(q)
           o == Offsets(q)
           S == {k \in Nat : k <= n => o[k + 1] = k * w}
<1>1. n \in Nat /\ o[1] = 0 /\ \A k \in 1 .. n : o[k + 1] = o[k] + w
  BY OffsetSteps DEF Listed
<1> HIDE DEF o
<1>2. 0 \in S
  BY <1>1
<1>3. ASSUME NEW k \in Nat, k \in S PROVE k + 1 \in S
  <2>1. k + 1 <= n => k + 1 \in 1 .. n /\ k <= n
    OBVIOUS
  <2>2. (k + 1) * w = k * w + w
    OBVIOUS
  <2> DEFINE x == (k + 1) * w
             y == k * w
  <2>3. x = y + w
    BY <2>2
  <2> HIDE DEF x, y
  <2>4. k + 1 <= n => o[k + 1 + 1] = x
    <3>1. k <= n => o[k + 1] = y
      BY <1>3 DEF y
    <3> QED
      BY <1>1, <2>1, <2>3, <3>1
  <2> QED
    BY <2>4 DEF x
<1>4. Nat \subseteq S
  <2> HIDE DEF S
  <2> QED
    BY <1>2, <1>3, SetInduction
<1>5. ASSUME NEW k \in 1 .. n + 1 PROVE o[k] = (k - 1) * w
  <2>1. k - 1 \in Nat /\ k - 1 <= n /\ (k - 1) + 1 = k
    BY <1>1
  <2> QED
    BY <1>4, <2>1
<1> QED
  BY <1>5 DEF o

(* What stands in a file from a place on.                                   *)
Part(numbers, b, s) ==
  b \in Nat /\ b + Len(s) <= Len(numbers) /\ \A j \in 1 .. Len(s) : numbers[b + j] = s[j]

(* A part of a part, the parts of two lists that are joined, and those of   *)
(* lists that are strung together.                                         *)
LEMMA PartOf ==
  ASSUME NEW a, Listed(a), NEW b, Listed(b), NEW c, Listed(c), NEW m, NEW n, Part(a, m, b), Part(b, n, c)
  PROVE  Part(a, m + n, c)
<1>1. Len(a) \in Nat /\ Len(b) \in Nat /\ Len(c) \in Nat /\ m \in Nat /\ n \in Nat
  BY DEF Listed, Part
<1>2. m + Len(b) <= Len(a) /\ n + Len(c) <= Len(b)
  BY DEF Part
<1>3. m + n \in Nat /\ (m + n) + Len(c) <= Len(a)
  BY <1>1, <1>2
<1>4. ASSUME NEW j \in 1 .. Len(c) PROVE a[(m + n) + j] = c[j]
  <2>1. n + j \in 1 .. Len(b) /\ m + (n + j) = (m + n) + j
    BY <1>1, <1>2
  <2>2. b[n + j] = c[j] /\ a[m + (n + j)] = b[n + j]
    BY <2>1 DEF Part
  <2> QED
    BY <2>1, <2>2
<1> QED
  BY <1>3, <1>4 DEF Part

(* Of two lists joined, each is a part.                                     *)
LEMMA PartsJoined ==
  ASSUME NEW s, Listed(s), NEW t, Listed(t)
  PROVE  Part(s \o t, 0, s) /\ Part(s \o t, Len(s), t)
<1>1. Len(s) \in Nat /\ Len(t) \in Nat
  BY DEF Listed
<1>2. /\ Len(s \o t) = Len(s) + Len(t)
      /\ \A i \in 1 .. Len(s) : (s \o t)[i] = s[i]
      /\ \A i \in 1 .. Len(t) : (s \o t)[Len(s) + i] = t[i]
  BY Joint
<1>3. \A i \in 1 .. Len(s) : 0 + i = i
  BY <1>1
<1> QED
  BY <1>1, <1>2, <1>3 DEF Part

(* Of lists strung together, each is a part, at its offset.                 *)
LEMMA PartsStrung ==
  ASSUME NEW q, Strung(q), NEW k \in 1 .. Len(q)
  PROVE  Part(Flat(q), Offsets(q)[k], q[k])
<1>1. Placed(Offsets(q), q, Flat(q))
  BY FlatPlaces
<1> QED
  BY <1>1 DEF Placed, Part

(* A list after the number of its values.                                   *)
LEMMA CountedList ==
  ASSUME NEW s, Listed(s)
  PROVE  Listed(Counted(s)) /\ Len(Counted(s)) = Len(s) + 1 /\ Counted(s)[1] = Len(s) /\ Part(Counted(s), 1, s)
<1>1. Listed(<<Len(s)>>) /\ Len(<<Len(s)>>) = 1 /\ Len(s) \in Nat
  BY EmptyListed DEF Listed
<1>2. /\ Listed(Counted(s)) /\ Len(Counted(s)) = 1 + Len(s)
      /\ \A i \in 1 .. 1 : Counted(s)[i] = <<Len(s)>>[i]
  BY <1>1, Joint DEF Counted
<1>3. Part(Counted(s), 1, s)
  BY <1>1, PartsJoined DEF Counted
<1> QED
  BY <1>1, <1>2, <1>3

(* The lists that are counted one after the other.                          *)
LEMMA CountedStrung ==
  ASSUME NEW q, Strung(q)
  PROVE  LET c == [k \in DOMAIN q |-> Counted(q[k])] IN
         /\ Strung(c) /\ Len(c) = Len(q) /\ CountedAll(q) = Flat(c) /\ Listed(CountedAll(q))
         /\ \A k \in 1 .. Len(q) : c[k] = Counted(q[k])
<1> DEFINE c == [k \in DOMAIN q |-> Counted(q[k])]
           n == Len(q)
<1>1. DOMAIN q = 1 .. n /\ n \in Nat /\ \A k \in 1 .. n : Listed(q[k])
  BY ListedType DEF Strung, Listed
<1>2. DOMAIN c = 1 .. n /\ c = [k \in 1 .. n |-> c[k]] /\ \A k \in 1 .. n : c[k] = Counted(q[k])
  BY <1>1
<1>3. CountedAll(q) = Flat(c)
  BY DEF CountedAll
<1> HIDE DEF c, n
<1>4. Listed(c) /\ Len(c) = n
  BY <1>1, <1>2, FunctionListed
<1>5. Strung(c)
  BY <1>1, <1>2, <1>4, CountedList DEF Strung
<1>6. Listed(Flat(c))
  BY <1>5, FlatPlaces
<1> QED
  BY <1>2, <1>3, <1>4, <1>5, <1>6 DEF c, n

(* A reader finds them where they are, and stops after them.                *)
LEMMA ListsRead ==
  ASSUME NEW numbers, Listed(numbers), NEW q, Strung(q), NEW b, Part(numbers, b, CountedAll(q))
  PROVE  ReadLists(numbers, b + 1, Len(q)) = [lists |-> q, next |-> (b + Len(CountedAll(q))) + 1]
<1> DEFINE n == Len(q)
           c == [k \in DOMAIN q |-> Counted(q[k])]
           f == CountedAll(q)
           p == Offsets(c)
           o == [k \in 0 .. n |-> (b + p[k + 1]) + 1]
           next == [at \in DOMAIN numbers |-> (at + 1) + numbers[at]]
           place == Walk(next, b + 1, n)
<1>1. /\ Strung(c) /\ Len(c) = n /\ f = Flat(c) /\ Listed(f)
      /\ \A k \in 1 .. n : c[k] = Counted(q[k])
  BY CountedStrung
<1>2. n \in Nat /\ q = [k \in 1 .. n |-> q[k]] /\ \A k \in 1 .. n : Listed(q[k]) /\ Len(q[k]) \in Nat
  BY DEF Strung, Listed
<1>3. DOMAIN numbers = 1 .. Len(numbers) /\ Len(numbers) \in Nat /\ b \in Nat /\ Len(f) \in Nat
  BY <1>1, ListedType DEF Listed, Part
<1>4. ReadLists(numbers, b + 1, n) =
        [lists |-> [k \in 1 .. n |-> SubSeq(numbers, place[k - 1] + 1, place[k - 1] + numbers[place[k - 1]])],
         next |-> place[n]]
  BY DEF ReadLists
<1>5. /\ Placed(p, c, f) /\ \A k \in 1 .. n : Part(f, p[k], c[k])
  BY <1>1, FlatPlaces, PartsStrung
<1>6. \A k \in 0 .. n : o[k] = (b + p[k + 1]) + 1
  OBVIOUS
<1> HIDE DEF c, f, p, o, n
<1>7. p[1] = 0 /\ p[n + 1] = Len(f) /\ \A k \in 1 .. n : p[k] \in Nat /\ p[k + 1] = p[k] + (Len(q[k]) + 1)
  <2>1. \A k \in 1 .. n : Len(c[k]) = Len(q[k]) + 1
    BY <1>1, <1>2, CountedList
  <2> QED
    BY <1>1, <1>5, <2>1 DEF Placed
<1>8. ASSUME NEW k \in 1 .. n
      PROVE  /\ o[k - 1] \in DOMAIN numbers /\ numbers[o[k - 1]] = Len(q[k])
             /\ o[k - 1] + Len(q[k]) <= Len(numbers) /\ o[k] = (o[k - 1] + 1) + Len(q[k])
             /\ \A j \in 1 .. Len(q[k]) : numbers[o[k - 1] + j] = q[k][j]
  <2> DEFINE l == q[k]
             d == Counted(l)
             a == b + p[k]
             z == o[k - 1]
  <2>1. k - 1 \in 0 .. n /\ (k - 1) + 1 = k /\ k \in 0 .. n
    BY <1>2
  <2>2. /\ Listed(d) /\ Len(d) = Len(l) + 1 /\ d[1] = Len(l) /\ Part(d, 1, l)
    BY <1>2, CountedList
  <2>3. c[k] = d /\ Listed(l) /\ Len(l) \in Nat
    BY <1>1, <1>2
  <2>4. z = a + 1 /\ o[k] = (b + p[k + 1]) + 1 /\ a \in Nat
    BY <1>3, <1>6, <1>7, <2>1
  <2>5. p[k + 1] = p[k] + (Len(l) + 1) /\ p[k] \in Nat
    BY <1>7
  <2>6. Part(numbers, a, d)
    <3>1. Part(f, p[k], d) /\ Part(numbers, b, f) /\ Listed(f)
      BY <1>1, <1>5, <2>3 DEF f
    <3> HIDE DEF d, l
    <3> QED
      BY <2>2, <3>1, PartOf
  <2>7. o[k] = (z + 1) + Len(l)
    <3>1. \A x, y, m \in Nat : (x + (y + (m + 1))) + 1 = (((x + y) + 1) + 1) + m
      OBVIOUS
    <3>2. (b + (p[k] + (Len(l) + 1))) + 1 = (((b + p[k]) + 1) + 1) + Len(l)
      <4>1. b \in Nat /\ p[k] \in Nat /\ Len(l) \in Nat
        BY <1>3, <2>3, <2>5
      <4> HIDE DEF l
      <4> QED
        BY <3>1, <4>1
    <3> HIDE DEF l, z
    <3> QED
      BY <2>4, <2>5, <3>2
  <2> HIDE DEF a, d, l, z
  <2>8. a + Len(d) <= Len(numbers) /\ numbers[a + 1] = d[1]
    BY <2>2, <2>3, <2>6 DEF Part
  <2>9. z \in 1 .. Len(numbers) /\ z + Len(l) <= Len(numbers)
    BY <1>3, <2>2, <2>3, <2>4, <2>8
  <2>10. Part(numbers, a + 1, l)
    BY <2>2, <2>3, <2>6, PartOf
  <2>11. \A j \in 1 .. Len(l) : numbers[z + j] = l[j]
    BY <2>4, <2>10 DEF Part
  <2> QED
    BY <1>3, <2>2, <2>4, <2>7, <2>8, <2>9, <2>11 DEF l, z
<1>9. \A k \in 1 .. n : o[k] = next[o[k - 1]]
  BY <1>8
<1> HIDE DEF next
<1>10. o[0] = b + 1
  BY <1>2, <1>3, <1>6, <1>7
<1>11. \A k \in 0 .. n : place[k] = o[k]
  <2>1. Goes(o, next, n)
    BY <1>9 DEF Goes
  <2>2. Agree(Walk(next, o[0], n), o, n)
    BY <1>2, <2>1, WalkKnown
  <2> QED
    BY <1>10, <2>2 DEF Agree
<1> HIDE DEF place
<1>12. place[n] = (b + Len(f)) + 1
  BY <1>2, <1>6, <1>7, <1>11
<1>13. ASSUME NEW k \in 1 .. n
       PROVE  SubSeq(numbers, place[k - 1] + 1, place[k - 1] + numbers[place[k - 1]]) = q[k]
  <2> DEFINE z == o[k - 1]
             m == Len(q[k])
  <2>1. place[k - 1] = z
    BY <1>2, <1>11
  <2>2. z \in Nat /\ numbers[z] = m /\ z + m <= Len(numbers) /\ m \in Nat /\ \A j \in 1 .. m : numbers[z + j] = q[k][j]
    BY <1>2, <1>3, <1>8
  <2> HIDE DEF z, m
  <2>3. SubSeq(numbers, z + 1, z + m) = [j \in 1 .. m |-> numbers[z + j]]
    BY <2>2, StretchOf
  <2>4. q[k] = [j \in 1 .. m |-> q[k][j]]
    BY <1>2 DEF m, Listed
  <2> QED
    BY <2>1, <2>2, <2>3, <2>4
<1>14. [k \in 1 .. n |-> SubSeq(numbers, place[k - 1] + 1, place[k - 1] + numbers[place[k - 1]])] = q
  BY <1>2, <1>13
<1> QED
  BY <1>4, <1>12, <1>14 DEF f, n

(* The lists of each source after a number of its own, and those of all     *)
(* after the axes.                                                         *)
Blocks(sources, most, lists) == [s \in 1 .. Len(sources) |-> <<most[s]>> \o CountedAll(lists[s])]
AxisLists(sources, depths, ranges) == CountedAll(<<sources, depths, ranges>>)
Gathered(lists, sources, count) ==
  \A s \in 1 .. Len(sources) : Strung(lists[s]) /\ Len(lists[s]) = count
Recounts(numbers, sources, depths, ranges, most, lists) ==
  numbers = AxisLists(sources, depths, ranges) \o Flat(Blocks(sources, most, lists))
Recovery(sources, depths, ranges, lists, next) ==
  [sources |-> sources, depths |-> depths, ranges |-> ranges, next |-> next,
   arrivals |-> [s \in DOMAIN sources |-> [d \in DOMAIN depths |-> [r \in DOMAIN ranges |->
                  lists[s][(d - 1) * Len(ranges) + r]]]]]
(* A reader of such numbers finds the axes and the lists, and comes to the end.*)
LEMMA ArrivalsRead ==
  ASSUME NEW sources, Listed(sources), NEW depths, Listed(depths), NEW ranges, Listed(ranges), NEW most,
         NEW lists, Gathered(lists, sources, Len(depths) * Len(ranges)), NEW numbers,
         Recounts(numbers, sources, depths, ranges, most, lists)
  PROVE  ReadArrivals(numbers) = Recovery(sources, depths, ranges, lists, Len(numbers) + 1)
<1> DEFINE n == Len(sources)
           count == Len(depths) * Len(ranges)
           three == <<sources, depths, ranges>>
           h == AxisLists(sources, depths, ranges)
           q == Blocks(sources, most, lists)
           f == Flat(q)
           p == Offsets(q)
           l == Len(h)
           o == [s \in 0 .. n |-> (l + p[s + 1]) + 1]
           axes == ReadLists(numbers, 1, 3)
           next == [at \in DOMAIN numbers |-> ReadLists(numbers, at + 1, count).next]
<1>1. n \in Nat /\ Strung(three) /\ Len(three) = 3 /\ three[1] = sources /\ three[2] = depths /\ three[3] = ranges
  <2>1. three \in Seq({sources, depths, ranges}) /\ Len(three) = 3
    OBVIOUS
  <2>2. Listed(three)
    BY <2>1, TypeListed
  <2>3. \A i \in 1 .. 3 : Listed(three[i])
    OBVIOUS
  <2> HIDE DEF three
  <2>4. Strung(three)
    BY <2>1, <2>2, <2>3 DEF Strung
  <2> QED
    BY <2>1, <2>4 DEF Listed, three
<1>2. Listed(h) /\ l \in Nat
  BY <1>1, CountedStrung DEF AxisLists, Listed
<1>3. ASSUME NEW s \in 1 .. n
      PROVE  /\ q[s] = <<most[s]>> \o CountedAll(lists[s]) /\ Listed(q[s]) /\ Listed(CountedAll(lists[s]))
             /\ Len(q[s]) = 1 + Len(CountedAll(lists[s])) /\ Part(q[s], 1, CountedAll(lists[s]))
             /\ Len(CountedAll(lists[s])) \in Nat
  <2>1. Strung(lists[s])
    BY DEF Gathered
  <2> DEFINE c == CountedAll(lists[s])
             m == <<most[s]>>
  <2>2. Listed(c) /\ Listed(m) /\ Len(m) = 1
    BY <2>1, CountedStrung, EmptyListed
  <2>3. q[s] = m \o c
    BY DEF Blocks
  <2> HIDE DEF c, m, q
  <2>4. Listed(m \o c) /\ Len(m \o c) = 1 + Len(c) /\ Part(m \o c, 1, c)
    <3>1. Part(m \o c, Len(m), c)
      BY <2>2, PartsJoined
    <3>2. Listed(m \o c) /\ Len(m \o c) = Len(m) + Len(c)
      BY <2>2, Joint
    <3> QED
      BY <2>2, <3>1, <3>2
  <2> QED
    BY <2>2, <2>3, <2>4 DEF c, m, Listed
<1>4. Strung(q) /\ Len(q) = n
  <2>1. DOMAIN q = 1 .. n /\ q = [s \in 1 .. n |-> q[s]]
    BY DEF Blocks
  <2> HIDE DEF q
  <2>2. Listed(q) /\ Len(q) = n
    BY <1>1, <2>1, FunctionListed
  <2> QED
    BY <1>3, <2>2 DEF Strung
<1> HIDE DEF q, h, three
<1>5. Listed(f) /\ Placed(p, q, f) /\ (\A s \in 1 .. n : Part(f, p[s], q[s])) /\ Len(f) \in Nat
  BY <1>4, FlatPlaces, PartsStrung DEF Listed
<1>6. Listed(numbers) /\ Len(numbers) = l + Len(f) /\ Part(numbers, 0, h) /\ Part(numbers, l, f)
  <2>1. numbers = h \o f
    BY DEF Recounts, h, q
  <2> HIDE DEF f
  <2> QED
    BY <1>2, <1>5, <2>1, Joint, PartsJoined
<1> HIDE DEF l, f, p
<1>7. axes = [lists |-> three, next |-> l + 1]
  <2>1. h = CountedAll(three)
    BY DEF h, AxisLists, three
  <2>2. ReadLists(numbers, 0 + 1, Len(three)) = [lists |-> three, next |-> (0 + Len(CountedAll(three))) + 1]
    BY <1>1, <1>6, <2>1, ListsRead
  <2>3. 0 + 1 = 1 /\ 0 + Len(CountedAll(three)) = l
    BY <1>2, <2>1 DEF l
  <2> QED
    BY <1>1, <2>2, <2>3
<1>8. p[1] = 0 /\ p[n + 1] = Len(f) /\ \A s \in 1 .. n : p[s] \in Nat /\ p[s + 1] = p[s] + Len(q[s])
  BY <1>4, <1>5 DEF Placed
<1>9. \A s \in 0 .. n : o[s] = (l + p[s + 1]) + 1
  OBVIOUS
<1>10. DOMAIN numbers = 1 .. Len(numbers)
  BY <1>6, ListedType
<1> HIDE DEF o, axes, n, count
<1>11. ASSUME NEW s \in 1 .. n
       PROVE  /\ o[s - 1] \in DOMAIN numbers
              /\ ReadLists(numbers, o[s - 1] + 1, count) = [lists |-> lists[s], next |-> o[s]]
  <2> DEFINE c == CountedAll(lists[s])
             a == l + p[s]
  <2>1. /\ Listed(q[s]) /\ Listed(c) /\ Len(q[s]) = 1 + Len(c) /\ Part(q[s], 1, c) /\ Len(c) \in Nat
        /\ Strung(lists[s]) /\ Len(lists[s]) = count
    BY <1>3 DEF n, Gathered, count
  <2> HIDE DEF c
  <2>2. Part(numbers, a, q[s])
    BY <1>5, <1>6, <2>1, PartOf
  <2>3. Part(numbers, a + 1, c)
    BY <1>6, <2>1, <2>2, PartOf
  <2>4. s - 1 \in 0 .. n /\ (s - 1) + 1 = s /\ s \in 0 .. n
    BY <1>1 DEF n
  <2>5. o[s - 1] = a + 1 /\ o[s] = (l + p[s + 1]) + 1 /\ p[s + 1] = p[s] + (1 + Len(c)) /\ p[s] \in Nat
    BY <1>8, <1>9, <2>1, <2>4
  <2>6. o[s] = ((a + 1) + Len(c)) + 1
    <3>1. \A x, y, m \in Nat : (x + (y + (1 + m))) + 1 = (((x + y) + 1) + m) + 1
      OBVIOUS
    <3>2. (l + (p[s] + (1 + Len(c)))) + 1 = (((l + p[s]) + 1) + Len(c)) + 1
      BY <1>2, <2>1, <2>5, <3>1 DEF l
    <3> QED
      BY <2>5, <3>2
  <2>7. a + Len(q[s]) <= Len(numbers) /\ a \in Nat
    BY <2>2 DEF Part
  <2> HIDE DEF a
  <2>8. o[s - 1] \in 1 .. Len(numbers)
    <3>1. \A x, y, m \in Nat : x + (1 + m) <= y => x + 1 \in 1 .. y
      OBVIOUS
    <3> QED
      BY <1>2, <1>5, <1>6, <2>1, <2>5, <2>7, <3>1 DEF l
  <2>9. ReadLists(numbers, (a + 1) + 1, Len(lists[s])) = [lists |-> lists[s], next |-> ((a + 1) + Len(c)) + 1]
    BY <1>6, <2>1, <2>3, ListsRead DEF c
  <2> QED
    BY <1>10, <2>1, <2>5, <2>6, <2>8, <2>9
<1>12. ASSUME NEW s \in 1 .. n PROVE o[s] = next[o[s - 1]]
  <2> DEFINE z == o[s - 1]
  <2>0. z \in DOMAIN numbers /\ ReadLists(numbers, z + 1, count) = [lists |-> lists[s], next |-> o[s]]
    BY <1>11
  <2> HIDE DEF z
  <2>1. z \in DOMAIN numbers /\ ReadLists(numbers, z + 1, count).next = o[s]
    BY <2>0
  <2>2. next[z] = ReadLists(numbers, z + 1, count).next
    BY <2>1
  <2> HIDE DEF next
  <2> QED
    BY <2>1, <2>2 DEF z
<1> HIDE DEF next
<1>13. o[0] = l + 1 /\ o[n] = Len(numbers) + 1
  <2>1. 0 \in 0 .. n /\ n \in 0 .. n /\ 0 + 1 = 1
    BY <1>1 DEF n
  <2>2. o[0] = (l + 0) + 1 /\ o[n] = (l + Len(f)) + 1
    BY <1>8, <1>9, <2>1
  <2> QED
    BY <1>2, <1>6, <2>2 DEF l
<1>14. \A s \in 0 .. n : Walk(next, l + 1, n)[s] = o[s]
  <2>1. Goes(o, next, n) /\ n \in Nat
    BY <1>1, <1>12 DEF Goes, n
  <2>2. Agree(Walk(next, o[0], n), o, n)
    BY <2>1, WalkKnown
  <2> QED
    BY <1>13, <2>2 DEF Agree
<1> DEFINE block == Walk(next, axes.next, n)
           of(s) == ReadLists(numbers, block[s - 1] + 1, count).lists
<1>15. axes.next = l + 1 /\ axes.lists[1] = sources /\ axes.lists[2] = depths /\ axes.lists[3] = ranges
  BY <1>1, <1>7
<1>16. ReadArrivals(numbers) =
         [sources |-> sources, depths |-> depths, ranges |-> ranges, next |-> block[n],
          arrivals |-> [s \in DOMAIN sources |-> [d \in DOMAIN depths |-> [r \in DOMAIN ranges |->
                         of(s)[(d - 1) * Len(ranges) + r]]]]]
  <2> DEFINE count0 == Len(axes.lists[2]) * Len(axes.lists[3])
             next0 == [at \in DOMAIN numbers |-> ReadLists(numbers, at + 1, count0).next]
             block0 == Walk(next0, axes.next, Len(axes.lists[1]))
             of0(s) == ReadLists(numbers, block0[s - 1] + 1, count0).lists
  <2>1. ReadArrivals(numbers) =
          [sources |-> axes.lists[1], depths |-> axes.lists[2], ranges |-> axes.lists[3],
           next |-> block0[Len(axes.lists[1])],
           arrivals |-> [s \in DOMAIN axes.lists[1] |-> [d \in DOMAIN axes.lists[2] |-> [r \in DOMAIN axes.lists[3] |->
                          of0(s)[(d - 1) * Len(axes.lists[3]) + r]]]]]
    BY DEF ReadArrivals, axes
  <2>2. count0 = count /\ next0 = next /\ block0 = block /\ \A s : of0(s) = of(s)
    <3>1. count0 = count
      BY <1>15 DEF count
    <3>2. next0 = next
      <4> HIDE DEF count0
      <4> QED
        BY <3>1 DEF next
    <3>3. block0 = block
      <4> HIDE DEF next0
      <4> QED
        BY <1>15, <3>2 DEF n
    <3> HIDE DEF count0, block0, block
    <3> QED
      BY <3>1, <3>2, <3>3
  <2> HIDE DEF block0, of0, of, block
  <2> QED
    BY <1>15, <2>1, <2>2 DEF n
<1>17. block[n] = Len(numbers) + 1
  <2>1. n \in 0 .. n
    BY <1>1 DEF n
  <2> QED
    BY <1>13, <1>14, <1>15, <2>1
<1>18. \A s \in DOMAIN sources : of(s) = lists[s]
  <2> SUFFICES ASSUME NEW s \in DOMAIN sources PROVE of(s) = lists[s]
    OBVIOUS
  <2>1. s \in 1 .. n /\ s - 1 \in 0 .. n
    BY <1>1, ListedType DEF n
  <2>2. block[s - 1] = o[s - 1]
    BY <1>14, <1>15, <2>1
  <2> HIDE DEF block
  <2>3. ReadLists(numbers, o[s - 1] + 1, count) = [lists |-> lists[s], next |-> o[s]]
    BY <1>11, <2>1
  <2> QED
    BY <2>2, <2>3
<1> HIDE DEF of, block
<1> QED
  BY <1>16, <1>17, <1>18 DEF Recovery

(* Rays, each with its launch angle and its number of points.               *)
Traced(l) ==
  Listed(l) /\ \A k \in 1 .. Len(l) : l[k].points \in Nat /\ l[k] = [angle |-> l[k].angle, points |-> l[k].points]
RayText(all) == [k \in DOMAIN all |-> RayLines(all[k])]

(* What the lines of a ray are.                                             *)
LEMMA LinesOf ==
  ASSUME NEW r, r.points \in Nat
  PROVE  /\ Listed(RayLines(r)) /\ Len(RayLines(r)) = 2 + r.points
         /\ RayLines(r)[1] = r.angle /\ RayLines(r)[2] = r.points
<1> DEFINE head == <<r.angle, r.points>>
           points == [k \in 1 .. r.points |-> k]
<1>1. head \in Seq({r.angle, r.points}) /\ Len(head) = 2 /\ head[1] = r.angle /\ head[2] = r.points
  OBVIOUS
<1>2. DOMAIN points = 1 .. r.points /\ points = [k \in 1 .. r.points |-> points[k]]
  OBVIOUS
<1> HIDE DEF head, points
<1>3. Listed(head) /\ Listed(points) /\ Len(points) = r.points
  BY <1>1, <1>2, TypeListed, FunctionListed
<1>4. /\ Listed(head \o points) /\ Len(head \o points) = Len(head) + Len(points)
      /\ \A i \in 1 .. Len(head) : (head \o points)[i] = head[i]
  BY <1>3, Joint
<1>5. 1 \in 1 .. 2 /\ 2 \in 1 .. 2
  OBVIOUS
<1> QED
  BY <1>1, <1>3, <1>4, <1>5 DEF RayLines, head, points

(* The rays of a file are found, and nothing else is.                       *)
LEMMA RaysRead ==
  ASSUME NEW all, Traced(all), NEW x, NEW y, NEW numbers, numbers = <<x, y>> \o Flat(RayText(all))
  PROVE  ReadRays(numbers) = all
<1> DEFINE n == Len(all)
           q == RayText(all)
           f == Flat(q)
           p == Offsets(q)
           l == Len(numbers)
           over(at) == at > Len(numbers)
           next == [at \in 1 .. Len(numbers) + 1 |-> IF over(at) THEN at ELSE at + 2 + numbers[at + 1]]
           o == [k \in 0 .. l |-> IF k <= n THEN (2 + p[k + 1]) + 1 ELSE l + 1]
           place == Walk(next, 3, Len(numbers))
           ends == {k \in 0 .. Len(numbers) : over(place[k])}
           count == Min(ends)
<1>1. n \in Nat /\ DOMAIN all = 1 .. n /\ all = [k \in 1 .. n |-> all[k]] /\ \A k \in 1 .. n : all[k].points \in Nat
  BY ListedType DEF Traced, Listed
<1>2. \A k \in 1 .. n : q[k] = RayLines(all[k])
  BY <1>1 DEF RayText
<1>3. Strung(q) /\ Len(q) = n
  <2>1. DOMAIN q = 1 .. n /\ q = [k \in 1 .. n |-> q[k]]
    BY <1>1 DEF RayText
  <2> HIDE DEF q, n
  <2>2. Listed(q) /\ Len(q) = n
    BY <1>1, <2>1, FunctionListed
  <2> QED
    BY <1>1, <1>2, <2>2, LinesOf DEF Strung
<1> HIDE DEF q, n
<1>4. /\ Listed(f) /\ Placed(p, q, f) /\ \A k \in 1 .. n : Part(f, p[k], q[k])
  BY <1>3, FlatPlaces, PartsStrung
<1>5. Listed(numbers) /\ l = 2 + Len(f) /\ Part(numbers, 2, f) /\ Len(f) \in Nat
  <2> DEFINE head == <<x, y>>
  <2>1. head \in Seq({x, y}) /\ Len(head) = 2
    OBVIOUS
  <2>2. numbers = head \o f
    BY DEF q
  <2> HIDE DEF head, f
  <2>3. Listed(head)
    BY <2>1, TypeListed
  <2>4. Part(head \o f, Len(head), f) /\ Listed(head \o f) /\ Len(head \o f) = Len(head) + Len(f)
    BY <1>4, <2>3, PartsJoined, Joint
  <2> QED
    BY <1>4, <2>1, <2>2, <2>4 DEF Listed
<1> HIDE DEF f, p
<1>6. p[1] = 0 /\ p[n + 1] = Len(f) /\ \A k \in 1 .. n : p[k] \in Nat /\ p[k + 1] = p[k] + (2 + all[k].points)
  <2>1. \A k \in 1 .. n : Len(q[k]) = 2 + all[k].points
    BY <1>1, <1>2, LinesOf
  <2> QED
    BY <1>3, <1>4, <2>1 DEF Placed
<1>7. l \in Nat /\ \A k \in 0 .. l : o[k] = IF k <= n THEN (2 + p[k + 1]) + 1 ELSE l + 1
  BY <1>5
<1> HIDE DEF l, o
<1>8. ASSUME NEW k \in 1 .. n
      PROVE  LET z == (2 + p[k]) + 1 IN
             /\ z \in 1 .. l /\ z + 1 <= l /\ numbers[z] = all[k].angle /\ numbers[z + 1] = all[k].points
             /\ (2 + p[k + 1]) + 1 = z + 2 + all[k].points
  <2> DEFINE d == q[k]
             m == all[k].points
             a == 2 + p[k]
  <2>1. Listed(d) /\ Len(d) = 2 + m /\ d[1] = all[k].angle /\ d[2] = m /\ m \in Nat
    BY <1>1, <1>2, LinesOf
  <2>2. p[k] \in Nat /\ p[k + 1] = p[k] + (2 + m)
    BY <1>6
  <2>3. Part(numbers, a, d)
    <3>1. Part(f, p[k], d) /\ Part(numbers, 2, f)
      BY <1>4, <1>5
    <3> HIDE DEF d
    <3> QED
      BY <1>4, <1>5, <2>1, <3>1, PartOf
  <2> HIDE DEF d, m
  <2>4. a \in Nat /\ a + (2 + m) <= l /\ \A j \in 1 .. 2 + m : numbers[a + j] = d[j]
    BY <2>1, <2>3 DEF Part, l
  <2>5. (2 + p[k + 1]) + 1 = (a + 1) + 2 + m
    <3>1. \A u, v \in Nat : (2 + (u + (2 + v))) + 1 = ((2 + u) + 1) + 2 + v
      OBVIOUS
    <3>2. (2 + (p[k] + (2 + m))) + 1 = ((2 + p[k]) + 1) + 2 + m
      BY <2>1, <2>2, <3>1
    <3> HIDE DEF m
    <3> QED
      BY <2>2, <3>2
  <2> HIDE DEF a
  <2>6. 1 \in 1 .. 2 + m /\ 2 \in 1 .. 2 + m /\ a + 2 = (a + 1) + 1 /\ a + 1 \in 1 .. l /\ (a + 1) + 1 <= l
    BY <1>7, <2>1, <2>4
  <2>7. numbers[a + 1] = all[k].angle /\ numbers[(a + 1) + 1] = m
    BY <2>1, <2>4, <2>6
  <2> QED
    BY <2>5, <2>6, <2>7 DEF a, m
<1>9. n <= l
  <2> DEFINE S == {k \in Nat : k <= n => p[k + 1] >= k}
  <2>1. 0 \in S
    BY <1>6
  <2>2. ASSUME NEW k \in Nat, k \in S PROVE k + 1 \in S
    <3>1. ASSUME k + 1 <= n PROVE p[k + 1 + 1] >= k + 1
      <4>1. k + 1 \in 1 .. n /\ k <= n
        BY <1>1, <3>1
      <4>2. p[k + 1] >= k /\ p[k + 1] \in Nat /\ p[k + 1 + 1] = p[k + 1] + (2 + all[k + 1].points) /\ all[k + 1].points \in Nat
        BY <1>1, <1>6, <2>2, <4>1
      <4> QED
        BY <4>2
    <3> QED
      BY <3>1
  <2>3. Nat \subseteq S
    <3> HIDE DEF S
    <3> QED
      BY <2>1, <2>2, SetInduction
  <2>4. p[n + 1] >= n
    BY <1>1, <2>3
  <2> QED
    BY <1>1, <1>5, <1>6, <2>4
<1>10. ASSUME NEW k \in 1 .. l PROVE o[k] = next[o[k - 1]]
  <2>0. k - 1 \in 0 .. l /\ (k - 1) + 1 = k /\ k \in 0 .. l
    BY <1>7
  <2>1. CASE k <= n
    <3> DEFINE z == (2 + p[k]) + 1
    <3>1. k \in 1 .. n /\ k - 1 <= n
      BY <1>1, <1>7, <2>1
    <3>2. o[k - 1] = z /\ o[k] = (2 + p[k + 1]) + 1
      BY <1>7, <2>0, <2>1, <3>1
    <3>3. z \in 1 .. l /\ numbers[z + 1] = all[k].points /\ (2 + p[k + 1]) + 1 = z + 2 + all[k].points
      BY <1>8, <3>1
    <3> HIDE DEF z
    <3>4. ~over(z) /\ z \in 1 .. l + 1
      BY <1>7, <3>3 DEF l
    <3>5. next[z] = z + 2 + numbers[z + 1]
      BY <3>4 DEF l
    <3> HIDE DEF next
    <3> QED
      BY <3>2, <3>3, <3>5
  <2>2. CASE ~(k <= n)
    <3>1. o[k] = l + 1
      BY <1>7, <2>0, <2>2
    <3>2. o[k - 1] = l + 1
      <4>1. CASE k - 1 = n
        <5>1. o[k - 1] = (2 + p[n + 1]) + 1
          BY <1>1, <1>7, <2>0, <4>1
        <5> QED
          BY <1>5, <1>6, <5>1 DEF l
      <4>2. CASE k - 1 # n
        <5>0. n \in Nat /\ k \in Int
          BY <1>1, <1>7
        <5>1. ~(k - 1 <= n)
          BY <5>0, <2>2, <4>2
        <5> QED
          BY <1>7, <2>0, <5>1
      <4> QED
        BY <4>1, <4>2
    <3>3. over(l + 1) /\ l + 1 \in 1 .. Len(numbers) + 1
      BY <1>7 DEF l
    <3>4. next[l + 1] = l + 1
      BY <3>3
    <3> HIDE DEF next
    <3> QED
      BY <3>1, <3>2, <3>4
  <2> QED
    BY <2>1, <2>2
<1> HIDE DEF next
<1>11. \A k \in 0 .. l : place[k] = o[k]
  <2>1. Goes(o, next, l)
    BY <1>10 DEF Goes
  <2>2. Agree(Walk(next, o[0], l), o, l)
    BY <1>7, <2>1, WalkKnown
  <2>3. o[0] = 3
    <3>1. 0 \in 0 .. l /\ 0 <= n /\ 0 + 1 = 1
      BY <1>1, <1>7
    <3>2. o[0] = (2 + p[0 + 1]) + 1
      BY <1>7, <3>1
    <3> QED
      BY <1>6, <3>1, <3>2
  <2> QED
    BY <2>2, <2>3 DEF Agree, l
<1>12. \A k \in 1 .. n : place[k - 1] = (2 + p[k]) + 1
  <2> SUFFICES ASSUME NEW k \in 1 .. n PROVE place[k - 1] = (2 + p[k]) + 1
    OBVIOUS
  <2>1. k - 1 \in 0 .. l /\ (k - 1) + 1 = k /\ k - 1 <= n
    BY <1>1, <1>7, <1>9
  <2> QED
    BY <1>7, <1>11, <2>1
<1>13. place[n] = l + 1
  <2>1. n \in 0 .. l /\ n <= n
    BY <1>1, <1>7, <1>9
  <2>2. place[n] = (2 + p[n + 1]) + 1
    BY <1>7, <1>11, <2>1
  <2> QED
    BY <1>5, <1>6, <2>2 DEF l
<1> HIDE DEF place
<1>14. count = n
  <2>1. n \in ends
    BY <1>1, <1>7, <1>9, <1>13 DEF l
  <2>2. ASSUME NEW k \in ends PROVE n <= k
    <3> SUFFICES ASSUME k < n PROVE FALSE
      BY <1>1, <1>7 DEF l
    <3>1. k + 1 \in 1 .. n /\ (k + 1) - 1 = k
      BY <1>1, <1>7 DEF l
    <3>2. place[k] = (2 + p[k + 1]) + 1
      BY <1>12, <3>1
    <3>3. (2 + p[k + 1]) + 1 \in 1 .. l
      BY <1>8, <3>1
    <3> QED
      BY <1>7, <3>2, <3>3 DEF l
  <2> HIDE DEF ends
  <2>3. count \in ends /\ \A k \in ends : count <= k
    BY <2>1, <2>2 DEF Min
  <2>4. count \in 0 .. l
    BY <2>3 DEF ends, l
  <2> HIDE DEF count
  <2>5. count <= n /\ n <= count
    BY <2>1, <2>2, <2>3
  <2> QED
    BY <1>1, <1>7, <2>4, <2>5
<1>15. ReadRays(numbers) = [k \in 1 .. count |-> [angle |-> numbers[place[k - 1]], points |-> numbers[place[k - 1] + 1]]]
  BY DEF ReadRays, place, next
<1>16. ASSUME NEW k \in 1 .. n
       PROVE  [angle |-> numbers[place[k - 1]], points |-> numbers[place[k - 1] + 1]] = all[k]
  <2>1. numbers[place[k - 1]] = all[k].angle /\ numbers[place[k - 1] + 1] = all[k].points
    BY <1>8, <1>12
  <2> QED
    BY <2>1 DEF Traced, n
<1> HIDE DEF count
<1> QED
  BY <1>1, <1>14, <1>15, <1>16

(* The fold of records has a solution: one after the other.                 *)
RecordsSolved(g, n, b, q, folded) ==
  /\ g[{}] = b
  /\ \A k \in 0 .. n - 1 : g[1 .. k + 1] = Record(g[1 .. k], q[k + 1])
  /\ folded = g[1 .. n]
LEMMA RecordsFolded ==
  ASSUME NEW n \in Nat, NEW b, NEW q, DOMAIN q = 1 .. n
  PROVE  \E g : RecordsSolved(g, n, b, q, FoldLeft(Record, b, q))
<1> DEFINE Go(a, i) == Record(a, q[i])
           After(g, s) == IF s = {} THEN b ELSE Go(g[s \ {Max(s)}], Max(s))
           Solves(g, k) == g = [s \in SUBSET (1 .. k) |-> After(g, s)]
           S == {k \in Nat : \E g : Solves(g, k)}
           fold == CHOOSE g : Solves(g, n)
<1>1. FoldLeft(Record, b, q) = fold[1 .. n]
  BY DEF FoldLeft, MapThenFoldSet
<1> HIDE DEF Go, fold
<1>2. 0 \in S
  <2> DEFINE g == [s \in SUBSET (1 .. 0) |-> b]
  <2>1. \A s \in SUBSET (1 .. 0) : s = {}
    OBVIOUS
  <2>2. Solves(g, 0)
    BY <2>1
  <2> QED
    BY <2>2
<1>3. ASSUME NEW k \in Nat, k \in S PROVE k + 1 \in S
  <2>1. PICK g : Solves(g, k)
    BY <1>3
  <2> DEFINE h == [s \in SUBSET (1 .. k + 1) |-> IF k + 1 \in s THEN Go(g[s \ {k + 1}], k + 1) ELSE g[s]]
  <2>2. \A s \in SUBSET (1 .. k) : h[s] = g[s] /\ g[s] = After(g, s)
    <3>1. \A s \in SUBSET (1 .. k) : s \in SUBSET (1 .. k + 1) /\ k + 1 \notin s
      OBVIOUS
    <3> HIDE DEF After
    <3> QED
      BY <2>1, <3>1
  <2>3. \A s \in SUBSET (1 .. k + 1) : h[s] = IF k + 1 \in s THEN Go(g[s \ {k + 1}], k + 1) ELSE g[s]
    OBVIOUS
  <2>4. h = [s \in SUBSET (1 .. k + 1) |-> h[s]]
    OBVIOUS
  <2> HIDE DEF h
  <2>5. ASSUME NEW s \in SUBSET (1 .. k + 1) PROVE h[s] = After(h, s)
    <3>1. CASE k + 1 \in s
      <4>1. Max(s) = k + 1 /\ s \ {k + 1} \in SUBSET (1 .. k) /\ s # {}
        BY <3>1, Peeled
      <4> QED
        BY <2>2, <2>3, <3>1, <4>1
    <3>2. CASE k + 1 \notin s
      <4>1. s \in SUBSET (1 .. k) /\ (s # {} => s \ {Max(s)} \in SUBSET (1 .. k))
        BY <3>2, Peeled
      <4> QED
        BY <2>2, <4>1
    <3> QED
      BY <3>1, <3>2
  <2>6. h = [s \in SUBSET (1 .. k + 1) |-> After(h, s)]
    <3> HIDE DEF After
    <3> QED
      BY <2>4, <2>5
  <2>7. Solves(h, k + 1)
    BY <2>6
  <2> HIDE DEF Solves
  <2> QED
    BY <2>7
<1>4. n \in S
  <2> HIDE DEF S
  <2> QED
    BY <1>2, <1>3, SetInduction
<1>5. Solves(fold, n)
  <2>1. \E g : Solves(g, n)
    BY <1>4
  <2> HIDE DEF Solves
  <2> QED
    BY <2>1 DEF fold
<1>6. \A s \in SUBSET (1 .. n) : fold[s] = After(fold, s)
  <2> HIDE DEF After
  <2> QED
    BY <1>5
<1>7. fold[{}] = b
  BY <1>6
<1>8. ASSUME NEW k \in 0 .. n - 1
      PROVE  fold[1 .. k + 1] = Go(fold[1 .. k], k + 1)
  <2>1. k \in Nat /\ 1 .. k + 1 \in SUBSET (1 .. n)
    OBVIOUS
  <2>2. 1 .. k + 1 # {} /\ Max(1 .. k + 1) = k + 1 /\ (1 .. k + 1) \ {k + 1} = 1 .. k
    BY <2>1, Prefix
  <2>3. fold[1 .. k + 1] = After(fold, 1 .. k + 1)
    BY <1>6, <2>1
  <2> QED
    BY <2>2, <2>3
<1> QED
  BY <1>1, <1>7, <1>8 DEF Go, RecordsSolved


FileParts == {"words", "written", "maximum", "records", "ok"}

(* A file without a quota that has not failed.                              *)
Unfailed(file) ==
  DOMAIN file = FileParts /\ file.ok /\ file.maximum = NoQuota /\ Listed(file.records)

(* Such a file takes every record that is not too long, in order.           *)
Holding(all, file, q, n) ==
  /\ Unfailed(all) /\ all.words = file.words /\ Len(all.records) = Len(file.records) + n
  /\ \A i \in 1 .. Len(file.records) : all.records[i] = file.records[i]
  /\ \A k \in 1 .. n : all.records[Len(file.records) + k] = q[k].values
LEMMA RecordsKept ==
  ASSUME NEW file, Unfailed(file), NEW q, NEW n \in Nat, DOMAIN q = 1 .. n,
         \A k \in 1 .. n : ~(q[k].words > file.words)
  PROVE  Holding(FoldLeft(Record, file, q), file, q, n)
<1>1. PICK g : RecordsSolved(g, n, file, q, FoldLeft(Record, file, q))
  BY RecordsFolded
<1> DEFINE S == {k \in Nat : k <= n => Holding(g[1 .. k], file, q, k)}
           m == Len(file.records)
<1>2. m \in Nat
  BY ListedType DEF Unfailed
<1>3. 0 \in S
  <2>1. 1 .. 0 = {} /\ g[{}] = file
    BY <1>1 DEF RecordsSolved
  <2>2. Holding(file, file, q, 0)
    BY <1>2 DEF Holding
  <2> QED
    BY <2>1, <2>2
<1>4. ASSUME NEW k \in Nat, k \in S PROVE k + 1 \in S
  <2>1. CASE k + 1 <= n
    <3>1. k \in 0 .. n - 1 /\ k <= n /\ k + 1 \in 1 .. n
      BY <2>1
    <3> DEFINE old == g[1 .. k]
               p == q[k + 1]
               new == g[1 .. k + 1]
    <3>2. new = Record(old, p) /\ Holding(old, file, q, k) /\ ~(p.words > file.words)
      BY <1>1, <1>4, <3>1 DEF RecordsSolved
    <3> HIDE DEF old, p, new
    <3>3. new = [old EXCEPT !.written = @ + old.words, !.records = Append(@, p.values)]
      BY <3>2 DEF Record, Fits, Holding, Unfailed
    <3>4. /\ DOMAIN new = FileParts /\ new.ok /\ new.maximum = NoQuota /\ new.words = file.words
          /\ new.records = Append(old.records, p.values)
      BY <3>2, <3>3 DEF Holding, Unfailed, FileParts
    <3>5. /\ Listed(Append(old.records, p.values)) /\ Len(Append(old.records, p.values)) = Len(old.records) + 1
          /\ \A i \in 1 .. Len(old.records) : Append(old.records, p.values)[i] = old.records[i]
          /\ Append(old.records, p.values)[Len(old.records) + 1] = p.values
      <4>1. Listed(old.records)
        BY <3>2 DEF Holding, Unfailed
      <4> QED
        BY <4>1, Appended
    <3>6. Len(old.records) = m + k
      BY <3>2 DEF Holding
    <3>7. \A i \in 1 .. m : i \in 1 .. m + k
      BY <1>2
    <3>8. \A i \in 1 .. m : new.records[i] = file.records[i]
      BY <3>2, <3>4, <3>5, <3>6, <3>7 DEF Holding
    <3>9. ASSUME NEW i \in 1 .. k + 1 PROVE new.records[m + i] = q[i].values
      <4>1. CASE i = k + 1
        <5>1. m + i = (m + k) + 1 /\ (m + k) + 1 = Len(old.records) + 1
          <6> HIDE DEF m
          <6> QED
            BY <1>2, <3>6, <4>1
        <5> QED
          BY <3>4, <3>5, <4>1, <5>1 DEF p
      <4>2. CASE i # k + 1
        <5>1. i \in 1 .. k /\ m + i \in 1 .. m + k
          BY <1>2, <4>2
        <5> QED
          BY <3>2, <3>4, <3>5, <3>6, <5>1 DEF Holding
      <4> QED
        BY <4>1, <4>2
    <3>10. Len(new.records) = m + (k + 1)
      <4>1. Len(new.records) = (m + k) + 1
        BY <3>4, <3>5, <3>6
      <4>2. (m + k) + 1 = m + (k + 1)
        <5> HIDE DEF m
        <5> QED
          BY <1>2
      <4> QED
        BY <4>1, <4>2
    <3>11. Holding(new, file, q, k + 1)
      BY <3>4, <3>5, <3>8, <3>9, <3>10 DEF Holding, Unfailed
    <3> QED
      BY <3>11 DEF new
  <2> QED
    BY <2>1
<1>5. n \in S
  <2> HIDE DEF S
  <2> QED
    BY <1>3, <1>4, SetInduction
<1> QED
  BY <1>1, <1>5 DEF RecordsSolved

(* What a number of rows and a place in one are, from the number they make. *)
LEMMA RowAndPlace ==
  \A w \in Nat \ {0} : \A a \in Nat : \A b \in 0 .. w - 1 :
    w * a + b \in Nat /\ (w * a + b) \div w = a /\ (w * a + b) % w = b
OBVIOUS

(* The rows of a grid of pressures, source by source and depth by depth,    *)
(* and where the value of a range is among all.                             *)
Spotted(c, w, n, s, z, r) ==
  LET x == (s - 1) * w + (z - 1) IN
  /\ x \in Nat /\ x + 1 \in 1 .. c * w /\ x * n \in Nat /\ (x + 1) * n = x * n + n
  /\ (x + 1) * n <= (c * w) * n /\ (c * w) \in Nat
LEMMA PlaceSpotted ==
  ASSUME NEW c \in Nat \ {0}, NEW w \in Nat \ {0}, NEW n \in Nat \ {0},
         NEW s \in 1 .. c, NEW z \in 1 .. w, NEW r \in 1 .. n
  PROVE  Spotted(c, w, n, s, z, r)
<1> DEFINE x == (s - 1) * w + (z - 1)
<1>1. \A a, b \in Nat : a * b \in Nat
  OBVIOUS
<1>2. s - 1 \in Nat /\ c - 1 \in Nat /\ s - 1 <= c - 1 /\ z - 1 \in 0 .. w - 1
  OBVIOUS
<1>3. x \in Nat /\ x + 1 \in 1 .. c * w
  <2>1. c * w = (c - 1) * w + w /\ (s - 1) * w <= (c - 1) * w /\ (s - 1) * w \in Nat /\ (c - 1) * w \in Nat
    <3>1. \A a, e \in Nat : a <= e => a * w <= e * w
      OBVIOUS
    <3>2. \A a \in Nat \ {0} : a * w = (a - 1) * w + w
      OBVIOUS
    <3> QED
      BY <1>1, <1>2, <3>1, <3>2
  <2> DEFINE e == (c - 1) * w
             g == (s - 1) * w
             h == c * w
  <2>2. h = e + w /\ g <= e /\ g \in Nat /\ e \in Nat /\ x = g + (z - 1)
    BY <2>1
  <2> HIDE DEF e, g, h, x
  <2>3. x \in Nat /\ x + 1 \in 1 .. h
    BY <1>2, <2>2
  <2> QED
    BY <2>3 DEF h
<1> DEFINE h == c * w
<1>4. h \in Nat /\ x + 1 <= h
  <2>1. h \in Nat
    BY <1>1
  <2>2. x + 1 \in 1 .. h
    BY <1>3
  <2> HIDE DEF h, x
  <2> QED
    BY <2>1, <2>2
<1> HIDE DEF x, h
<1>5. x * n \in Nat /\ (x + 1) * n = x * n + n /\ (x + 1) * n <= h * n
  <2>1. \A a, b \in Nat : a <= b => a * n <= b * n
    OBVIOUS
  <2>2. \A a \in Nat : a * n \in Nat /\ (a + 1) * n = a * n + n
    OBVIOUS
  <2> QED
    BY <1>3, <1>4, <2>1, <2>2
<1> QED
  BY <1>3, <1>4, <1>5 DEF Spotted, x, h

(* A SHD file without a quota holds its header, and a record for each source*)
(* and depth: a reader finds every value of a whole grid.                   *)
ShdBack(file, sources, w, ranges, p) ==
  /\ file.ok /\ ReadShd(file).sources = sources
  /\ \A s \in 1 .. Len(sources) : \A z \in 1 .. w : \A r \in 1 .. Len(ranges) :
       ReadShd(file).pressure[s][z][r] = p[((s - 1) * w + (z - 1)) * Len(ranges) + r]
LEMMA ShdRead ==
  ASSUME NEW sources, Listed(sources), Len(sources) >= 1, NEW depths, Listed(depths), Len(depths) >= 1,
         NEW ranges, Listed(ranges), Len(ranges) >= 1, NEW irregular,
         NEW w, w = IF irregular THEN 1 ELSE Len(depths),
         NEW p, Listed(p), Len(p) = (Len(sources) * w) * Len(ranges)
  PROVE  ShdBack(Shd(sources, depths, ranges, irregular, p, NoQuota), sources, w, ranges, p)
<1> DEFINE c == Len(sources)
           m == Len(depths)
           n == Len(ranges)
           words == Max({HeaderWords, RowWords(ranges), m, c})
           rows == Rows(sources, depths, irregular)
           header == <<Payload(<<words>>, 21), Payload(<<irregular>>, 3),
                       Payload(<<c, m, n>>, LeastInteger),
                       Payload(<<"frequency">>, 2), Payload(<<0>>, 2), Payload(<<0>>, 2),
                       Payload(<<0>>, 2), Singles(sources), Singles(depths), Doubles(ranges)>>
           row(k) == Payload(SubSeq(p, (k - 1) * n + 1, k * n), RowWords(ranges))
           body == [k \in 1 .. rows |-> row(k)]
           new == NewDirect(words, NoQuota)
           full == FoldLeft(Record, new, header)
           file == FoldLeft(Record, full, body)
<1>1. c \in Nat \ {0} /\ m \in Nat \ {0} /\ n \in Nat \ {0} /\ w \in Nat \ {0}
  BY DEF Listed
<1>2. words \in Nat /\ HeaderWords <= words /\ 2 * n <= words /\ m <= words /\ c <= words /\ HeaderWords >= 21
  <2> HIDE DEF c, m
  <2>1. /\ HeaderWords \in Nat \ {0} /\ HeaderWords >= 21
        /\ RowWords(ranges) = 2 * n /\ RowWords(ranges) \in Nat \ {0}
    BY <1>1, NativeRecordsAssumption DEF RowWords
  <2> DEFINE k == HeaderWords + RowWords(ranges) + m + c
             all == {HeaderWords, RowWords(ranges), m, c}
  <2>2. k \in Nat /\ all \in SUBSET (1 .. k) /\ all # {}
    BY <1>1, <2>1
  <2>3. /\ HeaderWords \in all /\ RowWords(ranges) \in all /\ m \in all /\ c \in all
        /\ all \subseteq Nat
    BY <1>1, <2>1
  <2> HIDE DEF k, all
  <2>4. Max(all) \in all /\ \A x \in all : x <= Max(all)
    BY <2>2, Greatest
  <2> QED
    BY <2>1, <2>3, <2>4 DEF all
<1>3. rows = c * w /\ rows \in Nat
  <2>1. \A a, b \in Nat : a * b \in Nat
    OBVIOUS
  <2>2. rows = c * w
    BY DEF Rows
  <2> HIDE DEF rows, c
  <2> QED
    BY <1>1, <2>1, <2>2
<1>4. DOMAIN header = 1 .. 10
  OBVIOUS
<1>5. ASSUME NEW k \in 1 .. 10 PROVE ~(header[k].words > words)
  <2>1. /\ header[1].words = 21 /\ header[2].words = 3 /\ header[3].words = 11 /\ header[4].words = 2
        /\ header[5].words = 2 /\ header[6].words = 2 /\ header[7].words = 2
        /\ header[8].words = c /\ header[9].words = m /\ header[10].words = 2 * n
    BY DEF Payload, Singles, Doubles, LeastInteger
  <2> HIDE DEF header, words, c, m, n
  <2>2. /\ ~(21 > words) /\ ~(3 > words) /\ ~(11 > words) /\ ~(2 > words) /\ ~(c > words) /\ ~(m > words)
        /\ ~(2 * n > words)
    BY <1>1, <1>2, NativeRecordsAssumption
  <2>3. k \in {1, 2, 3, 4, 5, 6, 7, 8, 9, 10}
    OBVIOUS
  <2> QED
    BY <2>1, <2>2, <2>3
<1>6. header[2].values = <<irregular>> /\ header[3].values = <<c, m, n>> /\ header[8].values = sources
  BY DEF Payload, Singles
<1>7. Unfailed(new) /\ new.words = words /\ Len(new.records) = 0
  <2>1. Listed(<<>>) /\ Len(<<>>) = 0
    BY EmptyListed
  <2>2. new.records = <<>> /\ new.words = words /\ new.ok /\ new.maximum = NoQuota /\ DOMAIN new = FileParts
    BY DEF NewDirect, Fits, FileParts
  <2> HIDE DEF new
  <2> QED
    BY <2>1, <2>2 DEF Unfailed
<1>8. DOMAIN body = 1 .. rows /\ \A k \in 1 .. rows : body[k].words = 2 * n /\ body[k].values = row(k).values
  BY DEF Payload, RowWords
<1> HIDE DEF words, header, body, new, rows
<1>9. Holding(full, new, header, 10)
  BY <1>4, <1>5, <1>7, RecordsKept
<1>10. /\ Unfailed(full) /\ full.words = words /\ Len(full.records) = 10
       /\ \A k \in 1 .. 10 : full.records[k] = header[k].values
  <2>1. \A k \in 1 .. 10 : 0 + k = k
    OBVIOUS
  <2> HIDE DEF full
  <2> QED
    BY <1>7, <1>9, <2>1 DEF Holding
<1> HIDE DEF full
<1>11. Holding(file, full, body, rows)
  <2>1. \A k \in 1 .. rows : ~(body[k].words > full.words)
    <3>1. ~(2 * n > words)
      BY <1>1, <1>2
    <3>2. full.words = words /\ \A k \in 1 .. rows : body[k].words = 2 * n
      BY <1>8, <1>10
    <3> HIDE DEF n
    <3> QED
      BY <3>1, <3>2
  <2> QED
    BY <1>3, <1>8, <1>10, <2>1, RecordsKept
<1>12. /\ Unfailed(file) /\ \A k \in 1 .. 10 : file.records[k] = header[k].values
       /\ \A k \in 1 .. rows : file.records[10 + k] = row(k).values
  <2> HIDE DEF file
  <2> QED
    BY <1>8, <1>10, <1>11 DEF Holding
<1>13. Shd(sources, depths, ranges, irregular, p, NoQuota) = [file EXCEPT !.ok = @ /\ Len(p) = rows * n]
  BY DEF Shd, words, rows, header, body, new, full
<1> HIDE DEF file
<1> DEFINE shd == Shd(sources, depths, ranges, irregular, p, NoQuota)
<1>14. shd.records = file.records /\ shd.ok
  <2>1. DOMAIN file = FileParts /\ file.ok
    BY <1>12 DEF Unfailed
  <2>2. Len(p) = rows * n
    BY <1>3
  <2> QED
    BY <1>13, <2>1, <2>2 DEF FileParts
<1> HIDE DEF shd
<1>15. /\ shd.records[2][1] = irregular /\ shd.records[3][1] = c /\ shd.records[3][2] = m
       /\ shd.records[3][3] = n /\ shd.records[8] = sources
  <2>1. 2 \in 1 .. 10 /\ 3 \in 1 .. 10 /\ 8 \in 1 .. 10
    OBVIOUS
  <2>2. shd.records[2] = <<irregular>> /\ shd.records[3] = <<c, m, n>> /\ shd.records[8] = sources
    BY <1>6, <1>12, <1>14, <2>1
  <2> QED
    BY <2>2
<1>16. ASSUME NEW s \in 1 .. c, NEW z \in 1 .. w, NEW r \in 1 .. n
       PROVE  ReadShd(shd).pressure[s][z][r] = p[((s - 1) * w + (z - 1)) * n + r]
  <2> DEFINE k0 == (s - 1) * w + z
             x == (s - 1) * w + (z - 1)
  <2>1. ReadShd(shd).pressure[s][z][r] = shd.records[10 + (s - 1) * w + z][r]
    <3>1. w = IF shd.records[2][1] THEN 1 ELSE shd.records[3][2]
      BY <1>15
    <3> HIDE DEF c, m, n
    <3> QED
      BY <1>15, <3>1 DEF ReadShd
  <2>2. Spotted(c, w, n, s, z, r)
    BY <1>1, PlaceSpotted
  <2>3. /\ k0 \in 1 .. rows /\ 10 + (s - 1) * w + z = 10 + k0 /\ (k0 - 1) * n \in Nat
        /\ k0 * n = (k0 - 1) * n + n /\ (k0 - 1) * n + r = x * n + r /\ (k0 - 1) * n + n <= Len(p)
    <3>1. /\ x \in Nat /\ x + 1 \in 1 .. c * w /\ x * n \in Nat /\ (x + 1) * n = x * n + n
          /\ (x + 1) * n <= (c * w) * n /\ c * w \in Nat
      BY <2>2 DEF Spotted
    <3> DEFINE e == (s - 1) * w
    <3>2. e \in Nat
      <4>1. \A a, b \in Nat : a * b \in Nat
        OBVIOUS
      <4>2. s - 1 \in Nat
        BY <1>1
      <4> QED
        BY <1>1, <4>1, <4>2
    <3>3. x = e + (z - 1) /\ k0 = e + z /\ 10 + (s - 1) * w + z = (10 + e) + z
      BY <3>2
    <3>4. Len(p) = rows * n /\ rows = c * w
      BY <1>3
    <3> HIDE DEF e, k0, x, c, n
    <3>5. k0 = x + 1 /\ (10 + e) + z = 10 + k0 /\ x = k0 - 1
      BY <1>1, <3>2, <3>3
    <3> QED
      BY <3>1, <3>3, <3>4, <3>5
  <2> HIDE DEF k0, x
  <2>4. row(k0).values = [j \in 1 .. n |-> p[(k0 - 1) * n + j]]
    <3> DEFINE a == (k0 - 1) * n
    <3>1. a \in Nat /\ a + n <= Len(p) /\ k0 * n = a + n
      BY <2>3
    <3>2. row(k0).values = SubSeq(p, a + 1, k0 * n)
      BY DEF Payload
    <3> HIDE DEF a, n
    <3>3. SubSeq(p, a + 1, a + n) = [j \in 1 .. n |-> p[a + j]]
      BY <1>1, <3>1, StretchOf
    <3> QED
      BY <3>1, <3>2, <3>3 DEF a
  <2>5. shd.records[10 + k0][r] = p[(k0 - 1) * n + r]
    <3>1. shd.records[10 + k0] = row(k0).values
      BY <1>12, <1>14, <2>3
    <3> HIDE DEF row, n
    <3> QED
      BY <1>1, <2>4, <3>1
  <2> QED
    BY <2>1, <2>3, <2>5 DEF x
<1>17. ReadShd(shd).sources = sources
  BY <1>15 DEF ReadShd
<1> QED
  BY <1>14, <1>16, <1>17 DEF ShdBack, shd

-----------------------------------------------------------------------------
(* The grid of a simulation: every receiver of every source has a place in  *)
(* it, and what is there has the form that the kind of the run gives it.    *)
JobWide(j) == Len(j.ranges) >= 1 /\ Len(j.depths) >= 1

Filled(j, recs) ==
  DOMAIN recs = 1 .. ReceiverCount(j) /\ (j.kind = "E" => \A i \in 1 .. ReceiverCount(j) : Traced(recs[i]))

Remains(j, left) == (j.kind = "A" => Listed(left)) /\ (j.kind = "E" => Traced(left))
Stands(j, receiver, i) ==
  /\ receiver = [range |-> RangeAt(j, i), depth |-> DepthAt(j, i), left |-> receiver.left]
  /\ Remains(j, receiver.left)
Located(j, one, depth) ==
  /\ one.depth = depth /\ Traced(one.rays)
  /\ Listed(one.receivers) /\ Len(one.receivers) = ReceiverCount(j)
  /\ \A i \in 1 .. ReceiverCount(j) : Stands(j, one.receivers[i], i)

Gridded ==
  /\ JobWide(job)
  /\ phase = "idle" => result = <<>> /\ rays = <<>>
  /\ phase \in {"tracing", "influence"} =>
       Len(result) = source - 1 /\ Filled(job, receivers) /\ Traced(rays)
  /\ phase = "done" => Len(result) = Len(job.sources)
  /\ \A s \in 1 .. Len(result) : Located(job, result[s], job.sources[s])

(* A list of rays, and one more.                                            *)
LEMMA TracedMore ==
  ASSUME NEW l, Traced(l), NEW a, NEW n \in Nat
  PROVE  Traced(Append(l, [angle |-> a, points |-> n]))
<1> DEFINE e == [angle |-> a, points |-> n]
           t == Append(l, e)
<1>1. /\ Listed(t) /\ Len(t) = Len(l) + 1 /\ (\A i \in 1 .. Len(l) : t[i] = l[i]) /\ t[Len(l) + 1] = e
  BY Appended DEF Traced
<1>2. Len(l) \in Nat
  BY DEF Traced, Listed
<1>3. e.points \in Nat /\ e = [angle |-> e.angle, points |-> e.points]
  OBVIOUS
<1> HIDE DEF e, t
<1>4. \A k \in 1 .. Len(t) : k \in 1 .. Len(l) \/ k = Len(l) + 1
  BY <1>1, <1>2
<1>5. ASSUME NEW k \in 1 .. Len(t)
      PROVE  t[k].points \in Nat /\ t[k] = [angle |-> t[k].angle, points |-> t[k].points]
  BY <1>1, <1>3, <1>4 DEF Traced
<1> QED
  BY <1>1, <1>5 DEF Traced, t, e

(* No rays are rays.                                                        *)
LEMMA NoneTraced == Traced(<<>>)
BY EmptyListed DEF Traced

(* A job has its receivers.                                                 *)
LEMMA CountType ==
  ASSUME NEW j, JobOK(j)
  PROVE  ReceiverCount(j) \in Nat /\ DepthCount(j) \in Nat
<1>1. Len(j.ranges) \in Nat /\ DepthCount(j) \in Nat
  BY DEF JobOK, Listed, DepthCount
<1> QED
  BY <1>1 DEF ReceiverCount

(* A source is begun.                                                       *)
LEMMA FreshFilled ==
  ASSUME NEW j, JobOK(j)
  PROVE  Filled(j, Untouched(j))
<1>1. DOMAIN Untouched(j) = 1 .. ReceiverCount(j)
  BY DEF Untouched
<1>2. j.kind = "E" => \A i \in 1 .. ReceiverCount(j) : Untouched(j)[i] = <<>>
  BY DEF Untouched, FieldRun
<1> QED
  BY <1>1, <1>2, NoneTraced DEF Filled

(* What is left at a receiver, as the result keeps it.                      *)
LEMMA ScaledRemains ==
  ASSUME RunInv, Filled(job, receivers), NEW i \in 1 .. ReceiverCount(job)
  PROVE  Remains(job, Scaled(i))
<1>1. CASE job.kind = "A"
  <2>1. receivers[i] \in Seq(Amplitudes)
    BY <1>1 DEF RunInv, Receivers, KeepsStrongest, Filled
  <2> DEFINE m == Len(receivers[i])
             z == [k \in DOMAIN receivers[i] |-> NotFinite]
  <2>2. m \in Nat /\ DOMAIN receivers[i] = 1 .. m
    BY <2>1
  <2>3. DOMAIN z = 1 .. m /\ z = [k \in 1 .. m |-> z[k]]
    BY <2>2
  <2>4. Listed(z)
    <3> HIDE DEF z, m
    <3> QED
      BY <2>2, <2>3, FunctionListed
  <2>5. Listed(receivers[i])
    BY <2>1, TypeListed
  <2>6. Scaled(i) = receivers[i] \/ Scaled(i) = z
    BY <1>1 DEF Scaled, FieldRun
  <2> HIDE DEF z
  <2> QED
    BY <1>1, <2>4, <2>5, <2>6 DEF Remains
<1>2. CASE job.kind = "E"
  <2>1. Scaled(i) = receivers[i]
    BY <1>2 DEF Scaled, FieldRun
  <2> QED
    BY <1>2, <2>1 DEF Remains, Filled
<1> QED
  BY <1>1, <1>2 DEF Remains

(* A source is finished.                                                    *)
LEMMA FinishedLocated ==
  ASSUME RunInv, Filled(job, receivers), Traced(rays)
  PROVE  Located(job, Finished, job.sources[source])
<1> DEFINE n == ReceiverCount(job)
           all == Finished.receivers
<1>1. n \in Nat
  BY CountType DEF RunInv, Progress
<1>2. DOMAIN all = 1 .. n /\ all = [i \in 1 .. n |-> all[i]]
  BY DEF Finished, Filled
<1>3. \A i \in 1 .. n : all[i] = [range |-> RangeAt(job, i), depth |-> DepthAt(job, i), left |-> Scaled(i)]
  BY DEF Finished, Filled
<1>4. Finished.depth = job.sources[source] /\ Finished.rays = rays
  BY DEF Finished
<1> HIDE DEF all
<1>5. Listed(all) /\ Len(all) = n
  <2> HIDE DEF n
  <2> QED
    BY <1>1, <1>2, FunctionListed
<1>6. ASSUME NEW i \in 1 .. n PROVE Stands(job, all[i], i)
  <2>0. all[i] = [range |-> RangeAt(job, i), depth |-> DepthAt(job, i), left |-> Scaled(i)]
    BY <1>3
  <2>1. all[i].left = Scaled(i)
    BY <2>0
  <2>2. Remains(job, all[i].left)
    BY <2>1, ScaledRemains
  <2> QED
    BY <2>0, <2>1, <2>2 DEF Stands
<1> QED
  BY <1>4, <1>5, <1>6 DEF Located, all

(* It is in the result then.                                                *)
LEMMA FinishedJoins ==
  ASSUME RunInv, Held, Gridded, phase = "influence"
  PROVE  /\ Len(Append(result, Finished)) = source
         /\ \A s \in 1 .. Len(Append(result, Finished)) : Located(job, Append(result, Finished)[s], job.sources[s])
<1> DEFINE t == Append(result, Finished)
<1>1. /\ Len(t) = Len(result) + 1 /\ (\A i \in 1 .. Len(result) : t[i] = result[i])
      /\ t[Len(result) + 1] = Finished /\ Len(result) \in Nat
  <2>1. Listed(result)
    BY DEF Held
  <2> QED
    BY <2>1, Appended DEF Listed
<1>2. source \in Nat /\ Len(result) = source - 1
  BY DEF Gridded, RunInv, Progress
<1>3. Located(job, Finished, job.sources[source])
  BY FinishedLocated DEF Gridded
<1> HIDE DEF t
<1>4. Len(result) + 1 = source /\ \A s \in 1 .. Len(t) : s \in 1 .. Len(result) \/ s = source
  BY <1>1, <1>2
<1>5. ASSUME NEW s \in 1 .. Len(t) PROVE Located(job, t[s], job.sources[s])
  BY <1>1, <1>3, <1>4 DEF Gridded
<1> QED
  BY <1>1, <1>4, <1>5 DEF t

(* No step leaves the grid.                                                 *)
LEMMA GriddedStep == RunInv /\ Held /\ Gridded /\ [Simulate]_runVars => Gridded'
<1> SUFFICES ASSUME RunInv, Held, Gridded, [Simulate]_runVars
             PROVE  Gridded'
  OBVIOUS
<1>0. UNCHANGED job /\ JobOK(job) /\ JobWide(job)
  BY DEF RunInv, Progress, Gridded, Simulate, Begin, Refuse, TraceFails, Trace, TooManyPoints, Fails,
         AddEigenray, EigenrayLimit, AddPressure, CombineArrival, ReplaceWeakest, AddArrival,
         ArrivalLimit, NextRay, NextSource, Complete, Elsewhere, runVars
<1>1. CASE Begin
  <2>1. /\ phase' = "tracing" /\ source' = 1 /\ receivers' = Untouched(job) /\ rays' = <<>> /\ result' = <<>>
    BY <1>1 DEF Begin, Gridded
  <2>2. Len(<<>>) = 0 /\ 0 = 1 - 1 /\ 1 .. 0 = {}
    OBVIOUS
  <2>3. Filled(job, Untouched(job)) /\ Traced(<<>>)
    BY <1>0, FreshFilled, NoneTraced
  <2> QED
    BY <1>0, <2>1, <2>2, <2>3 DEF Gridded
<1>2. ASSUME Fails PROVE Gridded'
  BY <1>0, <1>2 DEF Gridded, Fails
<1>3. CASE Refuse \/ TraceFails
  BY <1>2, <1>3 DEF Refuse, TraceFails
<1>4. ASSUME NEW n \in 1 .. Limits.steps, TooManyPoints(n) PROVE Gridded'
  BY <1>2, <1>4 DEF TooManyPoints
<1>5. ASSUME NEW n \in 1 .. Limits.steps, Trace(n) PROVE Gridded'
  <2>1. /\ phase = "tracing" /\ phase' = "influence" /\ UNCHANGED <<source, receivers, result>>
        /\ rays' = rays \/ rays' = Append(rays, [angle |-> job.angles[ray], points |-> n])
    BY <1>5 DEF Trace
  <2>2. n \in Nat
    BY RunAssumption DEF LimitNames
  <2>3. Traced(rays')
    BY <2>1, <2>2, TracedMore DEF Gridded
  <2> QED
    BY <1>0, <2>1, <2>3 DEF Gridded
<1>6. ASSUME phase = "influence", UNCHANGED <<phase, source, rays, result>>, Filled(job, receivers')
      PROVE  Gridded'
  BY <1>0, <1>6 DEF Gridded
<1>7. ASSUME NEW i \in DOMAIN receivers, NEW k \in 1 .. Limits.steps, AddEigenray(i, k) \/ EigenrayLimit(i, k)
      PROVE  Gridded'
  <2>1. CASE AddEigenray(i, k)
    <3>1. /\ phase = "influence" /\ job.kind = "E" /\ UNCHANGED <<phase, source, rays, result>>
          /\ receivers' = [receivers EXCEPT ![i] = Append(receivers[i], [angle |-> job.angles[ray], points |-> k])]
      BY <2>1 DEF AddEigenray, At, Receives, Elsewhere
    <3>2. k \in Nat
      BY RunAssumption DEF LimitNames
    <3>3. Filled(job, receivers)
      BY <3>1 DEF Gridded
    <3>4. Traced(Append(receivers[i], [angle |-> job.angles[ray], points |-> k]))
      BY <3>1, <3>2, <3>3, TracedMore DEF Filled
    <3>5. Filled(job, receivers')
      BY <3>1, <3>3, <3>4 DEF Filled
    <3> QED
      BY <1>6, <3>1, <3>5
  <2> QED
    BY <1>2, <1>7, <2>1 DEF EigenrayLimit
<1>8. ASSUME NEW i \in DOMAIN receivers, NEW a \in 1 .. Loudest,
             AddPressure(i, a) \/ CombineArrival(i, a) \/ ReplaceWeakest(i, a) \/ AddArrival(i, a)
      PROVE  Gridded'
  <2>1. phase = "influence" /\ job.kind # "E" /\ UNCHANGED <<phase, source, rays, result>>
    BY <1>8 DEF AddPressure, CombineArrival, ReplaceWeakest, AddArrival, At, Elsewhere, FieldRun
  <2>2. DOMAIN receivers' = DOMAIN receivers
    BY <1>8 DEF AddPressure, CombineArrival, ReplaceWeakest, AddArrival, Receives
  <2>3. Filled(job, receivers')
    BY <2>1, <2>2 DEF Filled, Gridded
  <2> QED
    BY <1>6, <2>1, <2>3
<1>9. ASSUME NEW i \in DOMAIN receivers, ArrivalLimit(i) PROVE Gridded'
  BY <1>2, <1>9 DEF ArrivalLimit
<1>10. CASE NextRay
  BY <1>0, <1>10 DEF NextRay, Gridded
<1>11. CASE NextSource
  <2>1. /\ phase = "influence" /\ phase' = "tracing" /\ source' = source + 1 /\ receivers' = Untouched(job)
        /\ rays' = <<>> /\ result' = Append(result, Finished)
    BY <1>11 DEF NextSource
  <2>2. /\ Len(result') = source
        /\ \A s \in 1 .. Len(result') : Located(job, result'[s], job.sources[s])
    BY <2>1, FinishedJoins
  <2>3. source = (source + 1) - 1
    BY <2>1 DEF RunInv, Progress
  <2>4. Filled(job, Untouched(job)) /\ Traced(<<>>)
    BY <1>0, FreshFilled, NoneTraced
  <2> QED
    BY <1>0, <2>1, <2>2, <2>3, <2>4 DEF Gridded
<1>12. CASE Complete
  <2>1. /\ phase = "influence" /\ phase' = "done" /\ source = Len(job.sources)
        /\ result' = Append(result, Finished)
    BY <1>12 DEF Complete
  <2>2. /\ Len(result') = source
        /\ \A s \in 1 .. Len(result') : Located(job, result'[s], job.sources[s])
    BY <2>1, FinishedJoins
  <2> QED
    BY <1>0, <2>1, <2>2 DEF Gridded
<1>13. CASE UNCHANGED runVars
  BY <1>0, <1>13 DEF Gridded, runVars
<1> QED
  BY <1>1, <1>3, <1>4, <1>5, <1>7, <1>8, <1>9, <1>10, <1>11, <1>12, <1>13 DEF Simulate

(* What stands in lists strung together is in one of them.                  *)
Lies(q, n) == \E k \in 1 .. Len(q) : \E i \in 1 .. Len(q[k]) : n = Offsets(q)[k] + i /\ Flat(q)[n] = q[k][i]
(* Every place of the whole is one of a list.                               *)
LEMMA FlatFound ==
  ASSUME NEW q, Strung(q)
  PROVE  \A n \in 1 .. Len(Flat(q)) : Lies(q, n)
<1> DEFINE o == Offsets(q)
           f == Flat(q)
           m == Len(q)
           S == {k \in Nat : k <= m => \A n \in 1 .. o[k + 1] : Lies(q, n)}
<1>1. m \in Nat /\ \A k \in 1 .. m : Len(q[k]) \in Nat
  BY DEF Strung, Listed
<1>2. /\ o[1] = 0 /\ o[m + 1] = Len(f)
      /\ \A k \in 1 .. m : o[k] \in Nat /\ o[k + 1] = o[k] + Len(q[k])
      /\ \A k \in 1 .. m : \A j \in 1 .. Len(q[k]) : f[o[k] + j] = q[k][j]
  BY FlatPlaces DEF Placed
<1> HIDE DEF o, f, m
<1>3. 0 \in S
  <2>1. 0 + 1 = 1
    OBVIOUS
  <2> QED
    BY <1>2, <2>1
<1>4. ASSUME NEW k \in Nat, k \in S PROVE k + 1 \in S
  <2> SUFFICES ASSUME k + 1 <= m PROVE \A n \in 1 .. o[(k + 1) + 1] : Lies(q, n)
    OBVIOUS
  <2>1. k + 1 \in 1 .. m /\ k <= m
    BY <1>1
  <2>2. o[k + 1] \in Nat /\ o[(k + 1) + 1] = o[k + 1] + Len(q[k + 1]) /\ Len(q[k + 1]) \in Nat
    BY <1>1, <1>2, <2>1
  <2> DEFINE a == o[k + 1]
             b == Len(q[k + 1])
  <2>3. \A n \in 1 .. a : Lies(q, n)
    BY <1>4, <2>1
  <2>4. ASSUME NEW i \in 1 .. b PROVE Lies(q, a + i)
    <3>1. f[a + i] = q[k + 1][i]
      BY <1>2, <2>1
    <3> QED
      BY <2>1, <3>1 DEF Lies, o, f, m
  <2>5. a \in Nat /\ b \in Nat /\ o[(k + 1) + 1] = a + b
    BY <2>2
  <2> HIDE DEF a, b
  <2>6. ASSUME NEW n \in 1 .. a + b PROVE Lies(q, n)
    <3>1. n \in 1 .. a \/ (n - a \in 1 .. b /\ a + (n - a) = n)
      BY <2>5
    <3> QED
      BY <2>3, <2>4, <3>1
  <2> QED
    BY <2>5, <2>6
<1>5. m \in S
  <2> HIDE DEF S
  <2> QED
    BY <1>1, <1>3, <1>4, SetInduction
<1> QED
  BY <1>1, <1>2, <1>5 DEF f

(* Lists of one length: each place is known.                                *)
Even(q, w, f) ==
  /\ Listed(f) /\ Len(f) = Len(q) * w
  /\ \A k \in 1 .. Len(q) : \A i \in 1 .. w : (k - 1) * w + i \in 1 .. Len(f) /\ f[(k - 1) * w + i] = q[k][i]
  /\ \A n \in 1 .. Len(f) : \E k \in 1 .. Len(q) : \E i \in 1 .. w : n = (k - 1) * w + i /\ f[n] = q[k][i]
(* Lists of one length, strung together, are even.                          *)
LEMMA EvenFlat ==
  ASSUME NEW q, Strung(q), NEW w \in Nat, \A k \in 1 .. Len(q) : Len(q[k]) = w
  PROVE  Even(q, w, Flat(q))
<1> DEFINE o == Offsets(q)
           f == Flat(q)
           m == Len(q)
<1>1. m \in Nat /\ Listed(q)
  BY DEF Strung, Listed
<1>2. /\ Listed(f) /\ o[1] = 0 /\ o[m + 1] = Len(f)
      /\ \A k \in 1 .. m : o[k] \in Nat /\ o[k + 1] = o[k] + Len(q[k]) /\ o[k + 1] <= Len(f)
      /\ \A k \in 1 .. m : \A j \in 1 .. Len(q[k]) : f[o[k] + j] = q[k][j]
  BY FlatPlaces DEF Placed
<1>3. \A k \in 1 .. m + 1 : o[k] = (k - 1) * w
  BY <1>1, EvenOffsets
<1>4. \A n \in 1 .. Len(f) : Lies(q, n)
  BY FlatFound
<1>5. Len(f) \in Nat
  BY <1>2 DEF Listed
<1>6. \A n \in 1 .. Len(f) : \E k \in 1 .. m : \E i \in 1 .. w : n = (k - 1) * w + i /\ f[n] = q[k][i]
  <2> TAKE n \in 1 .. Len(f)
  <2>0. PICK k \in 1 .. m : \E i \in 1 .. Len(q[k]) : n = o[k] + i /\ f[n] = q[k][i]
    BY <1>4 DEF Lies
  <2>1. PICK i \in 1 .. Len(q[k]) : n = o[k] + i /\ f[n] = q[k][i]
    BY <2>0
  <2>2. Len(q[k]) = w /\ k \in 1 .. m + 1
    BY <1>1
  <2> QED
    BY <1>3, <2>1, <2>2
<1>7. ASSUME NEW k \in 1 .. m, NEW i \in 1 .. w
      PROVE  (k - 1) * w + i \in 1 .. Len(f) /\ f[(k - 1) * w + i] = q[k][i]
  <2>1. k \in 1 .. m + 1 /\ Len(q[k]) = w
    BY <1>1
  <2>2. o[k] = (k - 1) * w
    BY <1>3, <2>1
  <2>3. o[k] \in Nat /\ o[k] + w <= Len(f) /\ f[o[k] + i] = q[k][i]
    BY <1>2, <2>1
  <2> HIDE DEF o, f
  <2>4. o[k] + i \in 1 .. Len(f)
    BY <1>5, <2>3
  <2> QED
    BY <2>2, <2>3, <2>4
<1>8. Len(f) = m * w
  <2>1. m + 1 \in 1 .. m + 1 /\ (m + 1) - 1 = m
    BY <1>1
  <2> QED
    BY <1>2, <1>3, <2>1
<1> QED
  BY <1>2, <1>6, <1>7, <1>8 DEF Even

(* Rays of two lists, and of many.                                          *)
LEMMA TracedJoint ==
  ASSUME NEW s, Traced(s), NEW t, Traced(t)
  PROVE  Traced(s \o t)
<1> DEFINE f == s \o t
<1>1. /\ Listed(f) /\ Len(f) = Len(s) + Len(t)
      /\ \A i \in 1 .. Len(s) : f[i] = s[i]
      /\ \A i \in 1 .. Len(t) : f[Len(s) + i] = t[i]
  BY Joint DEF Traced
<1>2. Len(s) \in Nat /\ Len(t) \in Nat
  BY DEF Traced, Listed
<1> HIDE DEF f
<1>3. \A k \in 1 .. Len(f) : k \in 1 .. Len(s) \/ (k - Len(s) \in 1 .. Len(t) /\ Len(s) + (k - Len(s)) = k)
  BY <1>1, <1>2
<1>4. ASSUME NEW k \in 1 .. Len(f)
      PROVE  f[k].points \in Nat /\ f[k] = [angle |-> f[k].angle, points |-> f[k].points]
  <2>1. CASE k \in 1 .. Len(s)
    BY <1>1, <2>1 DEF Traced
  <2>2. CASE k - Len(s) \in 1 .. Len(t) /\ Len(s) + (k - Len(s)) = k
    <3>1. f[k] = t[k - Len(s)]
      BY <1>1, <2>2
    <3> QED
      BY <2>2, <3>1 DEF Traced
  <2> QED
    BY <1>3, <2>1, <2>2
<1> QED
  BY <1>1, <1>4 DEF Traced, f

(* Rays of several sources, strung together, are rays.                      *)
LEMMA TracedFlat ==
  ASSUME NEW q, Listed(q), \A k \in 1 .. Len(q) : Traced(q[k])
  PROVE  Strung(q) /\ Traced(Flat(q))
<1>1. Strung(q)
  BY DEF Strung, Traced
<1> DEFINE f == Flat(q)
<1>2. Listed(f)
  BY <1>1, FlatPlaces
<1>3. \A n \in 1 .. Len(f) : Lies(q, n)
  BY <1>1, FlatFound
<1>4. ASSUME NEW n \in 1 .. Len(f)
      PROVE  f[n].points \in Nat /\ f[n] = [angle |-> f[n].angle, points |-> f[n].points]
  <2>0. PICK k \in 1 .. Len(q) : \E i \in 1 .. Len(q[k]) : f[n] = q[k][i]
    BY <1>3 DEF Lies
  <2>1. PICK i \in 1 .. Len(q[k]) : f[n] = q[k][i]
    BY <2>0
  <2>2. Traced(q[k])
    OBVIOUS
  <2> HIDE DEF f
  <2> QED
    BY <2>1, <2>2 DEF Traced
<1> HIDE DEF f
<1> QED
  BY <1>1, <1>2, <1>4 DEF Traced, f

(* A ray of a group is found with its angle and the number of its points.   *)
LEMMA RayBack ==
  ASSUME NEW all, Traced(all), NEW group, group.angles = [k \in DOMAIN all |-> all[k].angle],
         group.points = PointsOf(all), group.pointOffset = PointOffsets(all), NEW k \in 1 .. Len(all)
  PROVE  RayAt(group, k) = all[k]
<1> DEFINE q == [h \in DOMAIN all |-> [i \in 1 .. all[h].points |-> i]]
           n == Len(all)
<1>1. n \in Nat /\ DOMAIN all = 1 .. n
  BY ListedType DEF Traced, Listed
<1>2. DOMAIN q = 1 .. n /\ q = [h \in 1 .. n |-> q[h]]
  BY <1>1
<1>3. \A h \in 1 .. n : q[h] = [i \in 1 .. all[h].points |-> i]
  BY <1>1
<1>4. PointsOf(all) = Flat(q) /\ PointOffsets(all) = Offsets(q)
  BY DEF PointsOf, PointOffsets
<1>5. group.angles[k] = all[k].angle
  BY <1>1
<1> HIDE DEF q
<1>6. Listed(q) /\ Len(q) = n
  BY <1>1, <1>2, FunctionListed
<1>7. ASSUME NEW h \in 1 .. n PROVE Listed(q[h]) /\ Len(q[h]) = all[h].points
  <2> DEFINE p == all[h].points
             l == [i \in 1 .. p |-> i]
  <2>1. p \in Nat
    BY DEF Traced
  <2>2. DOMAIN l = 1 .. p /\ l = [i \in 1 .. p |-> l[i]]
    OBVIOUS
  <2> HIDE DEF p, l
  <2>3. Listed(l) /\ Len(l) = p
    BY <2>1, <2>2, FunctionListed
  <2> QED
    BY <1>3, <2>3 DEF l, p
<1>8. Strung(q)
  BY <1>6, <1>7 DEF Strung
<1>9. Slice(group.points, group.pointOffset, k) = q[k]
  BY <1>4, <1>6, <1>8, SliceOf
<1>10. RayAt(group, k) = [angle |-> all[k].angle, points |-> all[k].points]
  BY <1>5, <1>7, <1>9 DEF RayAt
<1> QED
  BY <1>10 DEF Traced

(* The simulation of a job is done: the grid of every source is whole.      *)
Settled ==
  /\ JobOK(job) /\ JobWide(job) /\ Listed(result) /\ Len(result) = Len(job.sources)
  /\ \A s \in 1 .. Len(result) : Located(job, result[s], job.sources[s])

(* The receivers of all sources, and what is left at each.                  *)
Sets == [s \in DOMAIN result |-> result[s].receivers]
Lefts == [s \in DOMAIN result |-> Lists(result[s])]
Lined(q, n, w) == Strung(q) /\ Len(q) = n /\ \A s \in 1 .. n : Len(q[s]) = w
(* Both are as many as the sources, and each as long as a grid.             *)
LEMMA SetsLined ==
  ASSUME Settled
  PROVE  /\ Lined(Sets, Len(result), ReceiverCount(job)) /\ Lined(Lefts, Len(result), ReceiverCount(job))
         /\ ReceiverCount(job) \in Nat /\ Len(result) \in Nat /\ DOMAIN result = 1 .. Len(result)
         /\ \A s \in 1 .. Len(result) : Sets[s] = result[s].receivers
         /\ \A s \in 1 .. Len(result) : \A i \in 1 .. ReceiverCount(job) : Lefts[s][i] = result[s].receivers[i].left
<1> DEFINE w == ReceiverCount(job)
           n == Len(result)
           q == Sets
           t == Lefts
<1>1. w \in Nat /\ n \in Nat /\ DOMAIN result = 1 .. n
  BY CountType, ListedType DEF Settled, Listed
<1>2. /\ DOMAIN q = 1 .. n /\ q = [s \in 1 .. n |-> q[s]] /\ \A s \in 1 .. n : q[s] = result[s].receivers
      /\ DOMAIN t = 1 .. n /\ t = [s \in 1 .. n |-> t[s]] /\ \A s \in 1 .. n : t[s] = Lists(result[s])
  BY <1>1 DEF Sets, Lefts
<1> HIDE DEF n, w, q, t
<1>3. Listed(q) /\ Len(q) = n /\ Listed(t) /\ Len(t) = n
  BY <1>1, <1>2, FunctionListed
<1>4. ASSUME NEW s \in 1 .. n
      PROVE  /\ Listed(q[s]) /\ Len(q[s]) = w /\ Listed(t[s]) /\ Len(t[s]) = w
             /\ \A i \in 1 .. w : t[s][i] = result[s].receivers[i].left
  <2> DEFINE r == result[s].receivers
             l == Lists(result[s])
  <2>1. Listed(r) /\ Len(r) = w
    BY DEF Settled, Located, n, w
  <2>2. DOMAIN r = 1 .. w
    BY <2>1, ListedType
  <2>3. DOMAIN l = 1 .. w /\ l = [i \in 1 .. w |-> l[i]] /\ \A i \in 1 .. w : l[i] = r[i].left
    BY <2>2 DEF Lists
  <2> HIDE DEF l
  <2>4. Listed(l) /\ Len(l) = w
    BY <1>1, <2>3, FunctionListed
  <2> QED
    BY <1>2, <2>1, <2>3, <2>4 DEF l
<1> QED
  BY <1>1, <1>2, <1>3, <1>4 DEF Lined, Strung, q, t, n, w

(* The places of all receivers, and what is left there.                     *)
LEMMA AllReceivers ==
  ASSUME Settled
  PROVE  /\ Even(Sets, ReceiverCount(job), EveryReceiver(result))
         /\ Even(Lefts, ReceiverCount(job), EveryList(result))
         /\ Len(EveryList(result)) = Len(EveryReceiver(result))
         /\ \A s \in 1 .. Len(result) + 1 : ReceiverOffsets(result)[s] = (s - 1) * ReceiverCount(job)
<1>1. /\ Lined(Sets, Len(result), ReceiverCount(job)) /\ Lined(Lefts, Len(result), ReceiverCount(job))
      /\ ReceiverCount(job) \in Nat
  BY SetsLined
<1>2. EveryReceiver(result) = Flat(Sets) /\ EveryList(result) = Flat(Lefts) /\ ReceiverOffsets(result) = Offsets(Sets)
  BY DEF EveryReceiver, EveryList, ReceiverOffsets, Sets, Lefts
<1>3. Even(Sets, ReceiverCount(job), Flat(Sets)) /\ Even(Lefts, ReceiverCount(job), Flat(Lefts))
  BY <1>1, EvenFlat DEF Lined
<1>4. \A s \in 1 .. Len(Sets) + 1 : Offsets(Sets)[s] = (s - 1) * ReceiverCount(job)
  BY <1>1, EvenOffsets DEF Lined, Strung
<1>5. Len(Flat(Sets)) = Len(Flat(Lefts)) /\ Len(Sets) = Len(result)
  BY <1>1, <1>3 DEF Even, Lined
<1> QED
  BY <1>2, <1>3, <1>4, <1>5

(* A reader of a group finds the receivers of every source, when it finds   *)
(* what is left at each of them in all.                                    *)
LEMMA ReceiversBack ==
  ASSUME Settled, NEW left, \A n \in 1 .. Len(EveryList(result)) : left[n] = EveryList(result)[n]
  PROVE  SameReceivers(ReceiverGroup(result), left)
<1> DEFINE w == ReceiverCount(job)
           all == EveryReceiver(result)
           g == ReceiverGroup(result)
           o == ReceiverOffsets(result)
<1>1. /\ w \in Nat /\ Len(result) \in Nat /\ DOMAIN result = 1 .. Len(result)
      /\ \A s \in 1 .. Len(result) : Sets[s] = result[s].receivers
      /\ \A s \in 1 .. Len(result) : \A i \in 1 .. w : Lefts[s][i] = result[s].receivers[i].left
      /\ Len(Sets) = Len(result) /\ Len(Lefts) = Len(result)
  BY SetsLined DEF Lined
<1>2. /\ Listed(all) /\ Len(EveryList(result)) = Len(all)
      /\ \A s \in 1 .. Len(result) : \A i \in 1 .. w :
           /\ (s - 1) * w + i \in 1 .. Len(all) /\ all[(s - 1) * w + i] = Sets[s][i]
           /\ EveryList(result)[(s - 1) * w + i] = Lefts[s][i]
  BY <1>1, AllReceivers DEF Even
<1>3. \A s \in 1 .. Len(result) + 1 : o[s] = (s - 1) * w
  BY AllReceivers
<1>4. DOMAIN all = 1 .. Len(all)
  BY <1>2, ListedType
<1>5. /\ g.sources = [s \in DOMAIN result |-> result[s].depth] /\ g.receiverOffset = o
      /\ \A n \in 1 .. Len(all) : g.ranges[n] = all[n].range /\ g.depths[n] = all[n].depth
  BY <1>4 DEF ReceiverGroup
<1> HIDE DEF w, all, g, o
<1>6. ASSUME NEW s \in 1 .. Len(result)
      PROVE  [i \in 1 .. o[s + 1] - o[s] |->
                LET n == o[s] + i
                IN  [range |-> g.ranges[n], depth |-> g.depths[n], left |-> left[n]]]
              = result[s].receivers
  <2> DEFINE r == result[s].receivers
  <2>1. o[s] = (s - 1) * w /\ o[s + 1] - o[s] = w
    <3>1. s \in 1 .. Len(result) + 1 /\ s + 1 \in 1 .. Len(result) + 1 /\ (s + 1) - 1 = (s - 1) + 1 /\ s - 1 \in Nat
      BY <1>1
    <3>2. \A a, b \in Nat : (a + 1) * b - a * b = b
      OBVIOUS
    <3> DEFINE a == s - 1
    <3>3. a \in Nat /\ o[s] = a * w /\ o[s + 1] = (a + 1) * w
      BY <1>3, <3>1
    <3> HIDE DEF a
    <3>4. (a + 1) * w - a * w = w
      BY <1>1, <3>2, <3>3
    <3>5. o[s] = a * w /\ o[s + 1] - o[s] = w
      BY <3>3, <3>4
    <3> QED
      BY <3>5 DEF a
  <2>2. ASSUME NEW i \in 1 .. w
        PROVE  [range |-> g.ranges[o[s] + i], depth |-> g.depths[o[s] + i], left |-> left[o[s] + i]] = r[i]
    <3> DEFINE n == (s - 1) * w + i
    <3>0. n \in 1 .. Len(all) /\ all[n] = Sets[s][i] /\ EveryList(result)[n] = Lefts[s][i]
      BY <1>2
    <3>1. n \in 1 .. Len(all) /\ all[n] = r[i] /\ left[n] = r[i].left
      <4>1. Sets[s] = r /\ Lefts[s][i] = r[i].left
        BY <1>1
      <4> HIDE DEF n, r
      <4>2. left[n] = EveryList(result)[n]
        BY <1>2, <3>0
      <4> QED
        BY <3>0, <4>1, <4>2
    <3>2. r[i] = [range |-> RangeAt(job, i), depth |-> DepthAt(job, i), left |-> r[i].left]
      BY DEF Settled, Located, Stands, w
    <3> HIDE DEF n, r
    <3>3. g.ranges[n] = r[i].range /\ g.depths[n] = r[i].depth
      BY <1>5, <3>1
    <3>4. r[i] = [range |-> r[i].range, depth |-> r[i].depth, left |-> r[i].left]
      BY <3>2
    <3> QED
      BY <2>1, <3>1, <3>3, <3>4 DEF n
  <2>3. r = [i \in 1 .. w |-> r[i]]
    BY DEF Settled, Located, Listed, w
  <2> HIDE DEF r
  <2> QED
    BY <2>1, <2>2, <2>3 DEF r
<1>7. ReadReceivers(g, left) =
        [s \in DOMAIN result |-> [depth |-> result[s].depth, receivers |-> result[s].receivers]]
  <2> DEFINE each(s) == [i \in 1 .. o[s + 1] - o[s] |->
                LET n == o[s] + i
                IN  [range |-> g.ranges[n], depth |-> g.depths[n], left |-> left[n]]]
  <2>1. ReadReceivers(g, left) = [s \in DOMAIN g.sources |-> [depth |-> g.sources[s], receivers |-> each(s)]]
    BY <1>5 DEF ReadReceivers
  <2>2. \A s \in 1 .. Len(result) : each(s) = result[s].receivers
    BY <1>6
  <2> HIDE DEF each
  <2>3. DOMAIN g.sources = 1 .. Len(result) /\ \A s \in 1 .. Len(result) : g.sources[s] = result[s].depth
    BY <1>1, <1>5
  <2> QED
    BY <1>1, <2>1, <2>2, <2>3
<1> QED
  BY <1>7 DEF SameReceivers, g

(* What is left at each receiver of the result, by the kind of the run.     *)
LEMMA ListsRemain ==
  ASSUME Settled
  PROVE  /\ Listed(EveryList(result))
         /\ \A n \in 1 .. Len(EveryList(result)) : Remains(job, EveryList(result)[n])
<1> DEFINE f == EveryList(result)
           w == ReceiverCount(job)
<1>1. /\ Listed(f)
      /\ \A n \in 1 .. Len(f) : \E s \in 1 .. Len(Lefts) : \E i \in 1 .. w : n = (s - 1) * w + i /\ f[n] = Lefts[s][i]
  BY AllReceivers DEF Even
<1>2. /\ Len(Lefts) = Len(result)
      /\ \A s \in 1 .. Len(result) : \A i \in 1 .. w : Lefts[s][i] = result[s].receivers[i].left
  BY SetsLined DEF Lined
<1> HIDE DEF f, w
<1>3. ASSUME NEW n \in 1 .. Len(f) PROVE Remains(job, f[n])
  <2>1. PICK s \in 1 .. Len(result) : \E i \in 1 .. w : f[n] = result[s].receivers[i].left
    BY <1>1, <1>2
  <2>2. PICK i \in 1 .. w : f[n] = result[s].receivers[i].left
    BY <2>1
  <2>3. Remains(job, result[s].receivers[i].left)
    BY DEF Settled, Located, Stands, w
  <2> QED
    BY <2>2, <2>3
<1> QED
  BY <1>1, <1>3 DEF f

(* The rays of a source, and those of all.                                  *)
LEMMA RaysTraced ==
  ASSUME Settled
  PROVE  /\ Traced(Flat([s \in DOMAIN result |-> RaysOf(job, result[s])]))
         /\ Traced(Flat([s \in DOMAIN result |-> result[s].rays]))
<1> DEFINE n == Len(result)
           q == [s \in DOMAIN result |-> RaysOf(job, result[s])]
           t == [s \in DOMAIN result |-> result[s].rays]
<1>1. n \in Nat /\ DOMAIN result = 1 .. n
  BY SetsLined
<1>2. /\ DOMAIN q = 1 .. n /\ q = [s \in 1 .. n |-> q[s]] /\ \A s \in 1 .. n : q[s] = RaysOf(job, result[s])
      /\ DOMAIN t = 1 .. n /\ t = [s \in 1 .. n |-> t[s]] /\ \A s \in 1 .. n : t[s] = result[s].rays
  BY <1>1
<1> HIDE DEF n, q, t
<1>3. Listed(q) /\ Len(q) = n /\ Listed(t) /\ Len(t) = n
  BY <1>1, <1>2, FunctionListed
<1>4. ASSUME NEW s \in 1 .. n PROVE Traced(result[s].rays) /\ Traced(RaysOf(job, result[s]))
  <2> DEFINE one == result[s]
             w == ReceiverCount(job)
             l == [i \in DOMAIN one.receivers |-> one.receivers[i].left]
  <2>1. /\ Traced(one.rays) /\ Listed(one.receivers) /\ Len(one.receivers) = w
        /\ \A i \in 1 .. w : Remains(job, one.receivers[i].left)
    BY DEF Settled, Located, Stands, n
  <2>2. w \in Nat /\ DOMAIN one.receivers = 1 .. w
    BY <2>1, ListedType DEF Listed
  <2>3. DOMAIN l = 1 .. w /\ l = [i \in 1 .. w |-> l[i]] /\ \A i \in 1 .. w : l[i] = one.receivers[i].left
    BY <2>2
  <2>4. RaysOf(job, one) = one.rays \o (IF job.kind = "E" THEN Flat(l) ELSE <<>>)
    BY DEF RaysOf
  <2> HIDE DEF l, w, one
  <2>5. Listed(l) /\ Len(l) = w
    BY <2>2, <2>3, FunctionListed
  <2>6. job.kind = "E" => Traced(Flat(l))
    <3>1. job.kind = "E" => \A i \in 1 .. Len(l) : Traced(l[i])
      BY <2>1, <2>3, <2>5 DEF Remains
    <3> QED
      BY <2>5, <3>1, TracedFlat
  <2>7. Traced(IF job.kind = "E" THEN Flat(l) ELSE <<>>)
    BY <2>6, NoneTraced
  <2>8. Traced(RaysOf(job, one))
    BY <2>1, <2>4, <2>7, TracedJoint
  <2> QED
    BY <2>1, <2>8 DEF one
<1>5. Traced(Flat(q)) /\ Traced(Flat(t))
  BY <1>2, <1>3, <1>4, TracedFlat
<1> QED
  BY <1>5 DEF q, t

(* The rays of a file and of a group are those of the result.               *)
LEMMA RaysFound ==
  ASSUME Settled
  PROVE  RaysBack
<1> DEFINE all == Flat([s \in DOMAIN result |-> RaysOf(job, result[s])])
           traced == [s \in DOMAIN result |-> result[s].rays]
           left(s) == IF job.kind = "E" THEN Flat(Lists(result[s])) ELSE <<>>
           group == RayGroup(result)
           whole == Flat(traced)
<1>1. Traced(all) /\ Traced(whole)
  BY RaysTraced
<1>2. ReadRays(RayFile(job, result)) = all
  <2>1. RayFile(job, result) = <<Len(job.sources), Len(job.angles)>> \o Flat(RayText(all))
    BY DEF RayFile, RayText
  <2> HIDE DEF all
  <2> QED
    BY <1>1, <2>1, RaysRead
<1>3. all = Flat([s \in DOMAIN result |-> result[s].rays \o left(s)])
  <2>1. \A s \in DOMAIN result : RaysOf(job, result[s]) = result[s].rays \o left(s)
    BY DEF RaysOf, Lists
  <2> HIDE DEF left
  <2>2. [s \in DOMAIN result |-> RaysOf(job, result[s])] = [s \in DOMAIN result |-> result[s].rays \o left(s)]
    BY <2>1
  <2> QED
    BY <2>2
<1>4. /\ group.angles = [k \in DOMAIN whole |-> whole[k].angle] /\ group.points = PointsOf(whole)
      /\ group.pointOffset = PointOffsets(whole)
  BY DEF RayGroup
<1> HIDE DEF group, whole
<1>5. DOMAIN whole = 1 .. Len(whole) /\ whole = [k \in 1 .. Len(whole) |-> whole[k]]
  BY <1>1, ListedType DEF Traced, Listed
<1>6. \A k \in 1 .. Len(whole) : RayAt(group, k) = whole[k]
  BY <1>1, <1>4, RayBack
<1>7. [k \in DOMAIN group.angles |-> RayAt(group, k)] = whole
  <2>1. DOMAIN group.angles = 1 .. Len(whole)
    BY <1>4, <1>5
  <2> QED
    BY <1>5, <1>6, <2>1
<1> QED
  BY <1>2, <1>3, <1>7 DEF RaysBack, group, whole

(* The eigenrays of a group are found at their receivers.                   *)
LEMMA EigenraysFound ==
  ASSUME Settled, job.kind = "E"
  PROVE  EigenraysBack
<1> DEFINE group == EigenrayGroup(result)
           lists == EveryList(result)
           all == Flat(lists)
           o == Offsets(lists)
           eigenray(n, k) == RayAt(group, group.offset[n] + k)
           left == [n \in DOMAIN group.at.ranges |-> [k \in 1 .. group.offset[n + 1] - group.offset[n] |-> eigenray(n, k)]]
<1>1. Listed(lists) /\ \A n \in 1 .. Len(lists) : Traced(lists[n])
  BY ListsRemain DEF Remains
<1>2. /\ group.at = ReceiverGroup(result) /\ group.offset = o
      /\ group.angles = [k \in DOMAIN all |-> all[k].angle] /\ group.points = PointsOf(all)
      /\ group.pointOffset = PointOffsets(all)
  BY DEF EigenrayGroup
<1>3. DOMAIN group.at.ranges = 1 .. Len(lists)
  <2>1. Listed(EveryReceiver(result)) /\ Len(lists) = Len(EveryReceiver(result))
    BY AllReceivers DEF Even
  <2>2. DOMAIN EveryReceiver(result) = 1 .. Len(lists)
    BY <2>1, ListedType
  <2>3. DOMAIN ReceiverGroup(result).ranges = DOMAIN EveryReceiver(result)
    BY DEF ReceiverGroup
  <2> QED
    BY <1>2, <2>2, <2>3
<1>4. \A n \in 1 .. Len(lists) :
        left[n] = [k \in 1 .. group.offset[n + 1] - group.offset[n] |-> RayAt(group, group.offset[n] + k)]
  BY <1>3
<1> HIDE DEF group, lists, left
<1>5. Strung(lists) /\ Traced(all)
  BY <1>1, TracedFlat
<1>6. /\ \A n \in 1 .. Len(lists) : o[n] \in Nat /\ o[n + 1] = o[n] + Len(lists[n]) /\ o[n + 1] <= Len(all)
      /\ \A n \in 1 .. Len(lists) : \A k \in 1 .. Len(lists[n]) : all[o[n] + k] = lists[n][k]
  BY <1>5, FlatPlaces DEF Placed
<1> HIDE DEF all, o
<1>7. ASSUME NEW n \in 1 .. Len(lists) PROVE left[n] = lists[n]
  <2> DEFINE m == Len(lists[n])
  <2>1. m \in Nat /\ lists[n] = [k \in 1 .. m |-> lists[n][k]] /\ Len(all) \in Nat
    BY <1>1, <1>5 DEF Traced, Listed
  <2>2. o[n] \in Nat /\ o[n + 1] - o[n] = m /\ o[n] + m <= Len(all)
    <3>1. o[n] \in Nat /\ o[n + 1] = o[n] + m /\ o[n + 1] <= Len(all)
      BY <1>6
    <3> HIDE DEF m
    <3> QED
      BY <2>1, <3>1
  <2> HIDE DEF m
  <2>3. ASSUME NEW k \in 1 .. m PROVE RayAt(group, o[n] + k) = lists[n][k]
    <3>1. o[n] + k \in 1 .. Len(all)
      BY <2>1, <2>2
    <3>2. RayAt(group, o[n] + k) = all[o[n] + k]
      BY <1>2, <1>5, <3>1, RayBack
    <3> QED
      BY <1>6, <3>2 DEF m
  <2>4. left[n] = [k \in 1 .. m |-> RayAt(group, o[n] + k)]
    BY <1>2, <1>4, <2>2
  <2> QED
    BY <2>1, <2>3, <2>4
<1>8. SameReceivers(group.at, left)
  BY <1>2, <1>7, ReceiversBack DEF lists
<1> QED
  BY <1>8 DEF EigenraysBack, group, left

(* The rows of a field: a line for each depth of each source.               *)
LineOf(s, d) == [k \in DOMAIN job.ranges |-> result[s].receivers[(k - 1) * DepthCount(job) + d].left]
BlockOf(s) == [d \in 1 .. DepthCount(job) |-> LineOf(s, d)]

(* The rows of one source: the value of each depth and range has its place. *)
LEMMA BlockLined ==
  ASSUME Settled, NEW s
  PROVE  /\ Listed(Flat(BlockOf(s))) /\ Len(Flat(BlockOf(s))) = DepthCount(job) * Len(job.ranges)
         /\ \A d \in 1 .. DepthCount(job) : \A r \in 1 .. Len(job.ranges) :
              /\ (d - 1) * Len(job.ranges) + r \in 1 .. DepthCount(job) * Len(job.ranges)
              /\ Flat(BlockOf(s))[(d - 1) * Len(job.ranges) + r]
                   = result[s].receivers[(r - 1) * DepthCount(job) + d].left
<1> DEFINE n == Len(job.ranges)
           c == DepthCount(job)
           q == BlockOf(s)
<1>1. n \in Nat /\ c \in Nat /\ DOMAIN job.ranges = 1 .. n
  <2>1. Listed(job.ranges)
    BY DEF Settled, JobOK
  <2>2. c \in Nat
    BY CountType DEF Settled
  <2> QED
    BY <2>1, <2>2, ListedType DEF Listed
<1>2. DOMAIN q = 1 .. c /\ q = [d \in 1 .. c |-> q[d]] /\ \A d \in 1 .. c : q[d] = LineOf(s, d)
  BY DEF BlockOf
<1> HIDE DEF q, n, c
<1>3. Listed(q) /\ Len(q) = c
  BY <1>1, <1>2, FunctionListed
<1>4. ASSUME NEW d
      PROVE  /\ Listed(LineOf(s, d)) /\ Len(LineOf(s, d)) = n
             /\ \A r \in 1 .. n : LineOf(s, d)[r] = result[s].receivers[(r - 1) * c + d].left
  <2> DEFINE l == LineOf(s, d)
  <2>1. DOMAIN l = 1 .. n /\ l = [r \in 1 .. n |-> l[r]]
    BY <1>1 DEF LineOf
  <2>2. \A r \in 1 .. n : l[r] = result[s].receivers[(r - 1) * c + d].left
    BY <1>1 DEF LineOf, c
  <2> HIDE DEF l
  <2>3. Listed(l) /\ Len(l) = n
    BY <1>1, <2>1, FunctionListed
  <2> QED
    BY <2>2, <2>3 DEF l
<1>5. Even(q, n, Flat(q))
  <2>1. Strung(q) /\ \A d \in 1 .. Len(q) : Len(q[d]) = n
    BY <1>2, <1>3, <1>4 DEF Strung
  <2> QED
    BY <1>1, <2>1, EvenFlat
<1>6. ASSUME NEW d \in 1 .. c, NEW r \in 1 .. n
      PROVE  (d - 1) * n + r \in 1 .. c * n /\ Flat(q)[(d - 1) * n + r] = result[s].receivers[(r - 1) * c + d].left
  <2>1. (d - 1) * n + r \in 1 .. Len(Flat(q)) /\ Flat(q)[(d - 1) * n + r] = q[d][r] /\ Len(Flat(q)) = c * n
    BY <1>3, <1>5 DEF Even
  <2> QED
    BY <1>2, <1>4, <2>1
<1>7. Listed(Flat(q)) /\ Len(Flat(q)) = c * n
  BY <1>3, <1>5 DEF Even
<1> QED
  BY <1>6, <1>7 DEF q, c, n

(* The rows of all sources likewise.                                        *)
LEMMA RowsLined ==
  ASSUME Settled
  PROVE  /\ Listed(FieldRows(job, result))
         /\ Len(FieldRows(job, result)) = (Len(job.sources) * DepthCount(job)) * Len(job.ranges)
         /\ \A s \in 1 .. Len(job.sources) : \A d \in 1 .. DepthCount(job) : \A r \in 1 .. Len(job.ranges) :
              FieldRows(job, result)[((s - 1) * DepthCount(job) + (d - 1)) * Len(job.ranges) + r]
                = result[s].receivers[(r - 1) * DepthCount(job) + d].left
<1> DEFINE n == Len(job.ranges)
           c == DepthCount(job)
           m == Len(job.sources)
           q == [s \in DOMAIN result |-> Flat(BlockOf(s))]
           f == FieldRows(job, result)
<1>1. n \in Nat /\ c \in Nat /\ m \in Nat /\ DOMAIN result = 1 .. m
  <2>1. Listed(job.ranges) /\ Listed(job.sources) /\ Len(result) = m
    BY DEF Settled, JobOK
  <2>2. c \in Nat
    BY CountType DEF Settled
  <2> QED
    BY <2>1, <2>2, SetsLined DEF Listed
<1>2. DOMAIN q = 1 .. m /\ q = [s \in 1 .. m |-> q[s]] /\ \A s \in 1 .. m : q[s] = Flat(BlockOf(s))
  BY <1>1
<1>3. f = Flat(q)
  BY DEF FieldRows, BlockOf, LineOf
<1> HIDE DEF q, f, n, c, m
<1>4. Listed(q) /\ Len(q) = m
  BY <1>1, <1>2, FunctionListed
<1>5. ASSUME NEW s \in 1 .. m
      PROVE  /\ Listed(q[s]) /\ Len(q[s]) = c * n
             /\ \A d \in 1 .. c : \A r \in 1 .. n :
                  (d - 1) * n + r \in 1 .. c * n
                  /\ q[s][(d - 1) * n + r] = result[s].receivers[(r - 1) * c + d].left
  BY <1>2, BlockLined DEF c, n
<1>6. c * n \in Nat
  <2>1. \A a, b \in Nat : a * b \in Nat
    OBVIOUS
  <2> QED
    BY <1>1, <2>1
<1>7. Even(q, c * n, f)
  <2>1. Strung(q) /\ \A s \in 1 .. Len(q) : Len(q[s]) = c * n
    BY <1>4, <1>5 DEF Strung
  <2> QED
    BY <1>3, <1>6, <2>1, EvenFlat
<1>8. Listed(f) /\ Len(f) = (m * c) * n
  <2>1. m * (c * n) = (m * c) * n
    BY <1>1
  <2> QED
    BY <1>4, <1>7, <2>1 DEF Even
<1>9. ASSUME NEW s \in 1 .. m, NEW d \in 1 .. c, NEW r \in 1 .. n
      PROVE  f[((s - 1) * c + (d - 1)) * n + r] = result[s].receivers[(r - 1) * c + d].left
  <2> DEFINE i == (d - 1) * n + r
  <2>1. i \in 1 .. c * n /\ q[s][i] = result[s].receivers[(r - 1) * c + d].left
    BY <1>5
  <2>2. f[(s - 1) * (c * n) + i] = q[s][i]
    BY <1>4, <1>7, <2>1 DEF Even
  <2>3. ((s - 1) * c + (d - 1)) * n + r = (s - 1) * (c * n) + ((d - 1) * n + r)
    <3>1. \A a, b, e, g \in Nat : (a * g + b) * n + e = a * (g * n) + (b * n + e)
      BY <1>1
    <3>2. s - 1 \in Nat /\ d - 1 \in Nat /\ r \in Nat
      BY <1>1
    <3> QED
      BY <1>1, <3>1, <3>2
  <2> QED
    BY <2>1, <2>2, <2>3
<1> QED
  BY <1>8, <1>9 DEF f, n, c, m

(* The pressures of a file and of a group are those of the result.          *)
LEMMA FieldFound ==
  ASSUME Settled, FieldRun(job)
  PROVE  FieldBack
<1> DEFINE file == FieldFile(job, result)
           read == ReadShd(file)
           group == FieldGroup(result)
           c == DepthCount(job)
           p == FieldRows(job, result)
<1>1. /\ Listed(job.sources) /\ Len(job.sources) >= 1 /\ Listed(job.depths) /\ Len(job.depths) >= 1
      /\ Listed(job.ranges) /\ Len(job.ranges) >= 1
  BY DEF Settled, JobOK, JobWide
<1>2. file = Shd(job.sources, job.depths, job.ranges, job.irregular, p, NoQuota)
  BY DEF FieldFile
<1>3. /\ Listed(p) /\ Len(p) = (Len(job.sources) * c) * Len(job.ranges)
      /\ \A s \in 1 .. Len(job.sources) : \A d \in 1 .. c : \A r \in 1 .. Len(job.ranges) :
           p[((s - 1) * c + (d - 1)) * Len(job.ranges) + r] = result[s].receivers[(r - 1) * c + d].left
  BY RowsLined
<1>4. c = IF job.irregular THEN 1 ELSE Len(job.depths)
  BY DEF DepthCount
<1> HIDE DEF c, p, file
<1>5. ShdBack(file, job.sources, c, job.ranges, p)
  BY <1>1, <1>2, <1>3, <1>4, ShdRead
<1>6. Written
  BY <1>5 DEF Written, FieldRun, ShdBack, file
<1>7. DOMAIN job.sources = 1 .. Len(job.sources) /\ DOMAIN job.ranges = 1 .. Len(job.ranges)
  BY <1>1, ListedType
<1>8. \A s \in DOMAIN job.sources : \A d \in 1 .. c : \A r \in DOMAIN job.ranges :
        read.pressure[s][d][r] = result[s].receivers[Here(d, r)].left
  <2>1. \A d, r : Here(d, r) = (r - 1) * c + d
    BY DEF Here, c
  <2> QED
    BY <1>3, <1>5, <1>7, <2>1 DEF ShdBack
<1>9. SameReceivers(group.at, group.pressure)
  <2>1. group.at = ReceiverGroup(result) /\ group.pressure = EveryList(result)
    BY DEF FieldGroup
  <2> QED
    BY <2>1, ReceiversBack
<1>10. read.sources = job.sources
  BY <1>5 DEF ShdBack
<1> QED
  BY <1>6, <1>8, <1>9, <1>10 DEF FieldBack, file, c

(* The arrivals at the receivers of an order, source by source, and what    *)
(* a file of them is when it is whole.                                      *)
Ordered(s, order) == [i \in DOMAIN order |-> result[s].receivers[order[i]].left]
MostOf(lists) == Max({Len(list) : list \in Range(lists)} \cup {0})

(* The receivers that a file takes, and the values of an axis.              *)
Selecting(j, only) == IF only = 0 THEN [i \in 1 .. Len(j.ranges) * Len(j.depths) |-> ArrivalOrder(j, i)] ELSE <<only>>
AxisOf(s, only) == IF only = 0 THEN s ELSE Selected(s, only)

(* What the numbers of a whole file of arrivals are.                        *)
LEMMA ArrivalText ==
  ASSUME Settled, NEW only, ArrivalFile(job, result, only).ok
  PROVE  LET lists == [s \in 1 .. Len(job.sources) |-> Ordered(s, Selecting(job, only))]
             most == [s \in 1 .. Len(job.sources) |-> MostOf(lists[s])]
         IN  ArrivalFile(job, result, only).numbers
               = AxisLists(job.sources, AxisOf(job.depths, only), AxisOf(job.ranges, only))
                 \o Flat(Blocks(job.sources, most, lists))
<1> DEFINE order == Selecting(job, only)
           lists == [s \in 1 .. Len(job.sources) |-> Ordered(s, order)]
           most == [s \in 1 .. Len(job.sources) |-> MostOf(lists[s])]
           block(s) == <<MostOf(Ordered(s, order))>> \o CountedAll(Ordered(s, order))
<1>1. DOMAIN result = 1 .. Len(job.sources)
  BY SetsLined DEF Settled
<1>2. ArrivalFile(job, result, only).numbers
        = CountedAll(<<job.sources, AxisOf(job.depths, only), AxisOf(job.ranges, only)>>)
          \o Flat([s \in DOMAIN result |-> block(s)])
  <2> DEFINE axis(s) == IF only = 0 THEN s ELSE Selected(s, only)
             expected == Len(job.ranges) * (IF only = 0 THEN Len(job.depths) ELSE 1)
             order0 == IF only = 0 THEN [i \in 1 .. expected |-> ArrivalOrder(job, i)] ELSE <<only>>
             of(s) == [i \in DOMAIN order0 |-> result[s].receivers[order0[i]].left]
             most0(l) == Max({Len(list) : list \in Range(l)} \cup {0})
             block0(s) == <<most0(of(s))>> \o CountedAll(of(s))
             whole == \A s \in DOMAIN result : Len(result[s].receivers) = expected
             finite == \A s \in DOMAIN result : \A i \in DOMAIN order0 : NotFinite \notin Range(of(s)[i])
             text == CountedAll(<<job.sources, axis(job.depths), axis(job.ranges)>>) \o Flat([s \in DOMAIN result |-> block0(s)])
  <2>1. ArrivalFile(job, result, only) = IF whole /\ finite THEN [ok |-> TRUE, numbers |-> text] ELSE [ok |-> FALSE, numbers |-> <<>>]
    BY DEF ArrivalFile
  <2>2. order0 = order
    BY DEF Selecting
  <2>3. \A s : of(s) = Ordered(s, order)
    <3> HIDE DEF order0, order
    <3> QED
      BY <2>2 DEF Ordered
  <2>4. \A s : block0(s) = block(s)
    <3> HIDE DEF of, order
    <3> QED
      BY <2>3 DEF MostOf
  <2>5. text = CountedAll(<<job.sources, AxisOf(job.depths, only), AxisOf(job.ranges, only)>>)
               \o Flat([s \in DOMAIN result |-> block(s)])
    <3> HIDE DEF block0, block
    <3>1. axis(job.depths) = AxisOf(job.depths, only) /\ axis(job.ranges) = AxisOf(job.ranges, only)
      BY DEF AxisOf
    <3>2. [s \in DOMAIN result |-> block0(s)] = [s \in DOMAIN result |-> block(s)]
      BY <2>4
    <3> HIDE DEF axis
    <3> QED
      BY <3>1, <3>2
  <2> HIDE DEF whole, finite, text
  <2>6. ArrivalFile(job, result, only).numbers = text
    BY <2>1
  <2> QED
    BY <2>5, <2>6
<1> HIDE DEF order
<1>3. [s \in DOMAIN result |-> block(s)] = Blocks(job.sources, most, lists)
  <2>1. \A s \in 1 .. Len(job.sources) : lists[s] = Ordered(s, order) /\ most[s] = MostOf(Ordered(s, order))
    OBVIOUS
  <2> HIDE DEF lists, most
  <2> QED
    BY <1>1, <2>1 DEF Blocks
<1> QED
  BY <1>2, <1>3 DEF AxisLists, order

(* What a reader finds in such a file.                                      *)
Fitting(only, count) ==
  /\ count \in Nat
  /\ Listed(AxisOf(job.depths, only)) /\ Listed(AxisOf(job.ranges, only))
  /\ count = Len(AxisOf(job.depths, only)) * Len(AxisOf(job.ranges, only))
  /\ Listed(Selecting(job, only)) /\ Len(Selecting(job, only)) = count
  /\ \A s \in 1 .. Len(result) : \A i \in 1 .. count : Listed(result[s].receivers[Selecting(job, only)[i]].left)
ThereIs(only, count) ==
  LET depths == AxisOf(job.depths, only)
      ranges == AxisOf(job.ranges, only)
      numbers == ArrivalFile(job, result, only).numbers
      read == ReadArrivals(numbers)
  IN  /\ read.next = Len(numbers) + 1 /\ read.sources = job.sources /\ read.depths = depths /\ read.ranges = ranges
      /\ \A s \in DOMAIN job.sources : \A d \in DOMAIN depths : \A r \in DOMAIN ranges :
           (d - 1) * Len(ranges) + r \in 1 .. count =>
           read.arrivals[s][d][r] = result[s].receivers[Selecting(job, only)[(d - 1) * Len(ranges) + r]].left
(* A reader of a file of arrivals finds it all.                             *)
LEMMA ArrivalsThere ==
  ASSUME Settled, NEW only, ArrivalFile(job, result, only).ok, NEW count, Fitting(only, count)
  PROVE  ThereIs(only, count)
<1> DEFINE order == Selecting(job, only)
           m == Len(job.sources)
           depths == AxisOf(job.depths, only)
           ranges == AxisOf(job.ranges, only)
           lists == [s \in 1 .. m |-> Ordered(s, order)]
           most == [s \in 1 .. m |-> MostOf(lists[s])]
           numbers == ArrivalFile(job, result, only).numbers
<1>0. /\ count \in Nat /\ Listed(depths) /\ Listed(ranges) /\ count = Len(depths) * Len(ranges)
      /\ Listed(order) /\ Len(order) = count
      /\ \A s \in 1 .. Len(result) : \A i \in 1 .. count : Listed(result[s].receivers[order[i]].left)
  BY DEF Fitting
<1>1. Listed(job.sources) /\ DOMAIN job.sources = 1 .. m /\ Len(result) = m
  BY ListedType DEF Settled, JobOK
<1>2. DOMAIN order = 1 .. count
  BY <1>0, ListedType
<1>3. numbers = AxisLists(job.sources, depths, ranges) \o Flat(Blocks(job.sources, most, lists))
  BY ArrivalText
<1>4. ASSUME NEW s \in 1 .. m
      PROVE  /\ Strung(lists[s]) /\ Len(lists[s]) = count
             /\ \A i \in 1 .. count : lists[s][i] = result[s].receivers[order[i]].left
  <2> DEFINE l == Ordered(s, order)
  <2>0. lists[s] = l
    OBVIOUS
  <2>1. /\ DOMAIN l = 1 .. count /\ l = [i \in 1 .. count |-> l[i]]
        /\ \A i \in 1 .. count : l[i] = result[s].receivers[order[i]].left
    BY <1>2 DEF Ordered
  <2> HIDE DEF l, lists
  <2>2. Listed(l) /\ Len(l) = count
    BY <1>0, <2>1, FunctionListed
  <2>3. \A i \in 1 .. count : Listed(l[i])
    BY <1>0, <1>1, <2>1
  <2> QED
    BY <2>0, <2>1, <2>2, <2>3 DEF Strung
<1> HIDE DEF order, depths, ranges, lists, most, numbers
<1>5. Gathered(lists, job.sources, Len(depths) * Len(ranges))
  BY <1>0, <1>4 DEF Gathered, m
<1>6. ReadArrivals(numbers) =
           [sources |-> job.sources, depths |-> depths, ranges |-> ranges, next |-> Len(numbers) + 1,
            arrivals |-> [s \in DOMAIN job.sources |-> [d \in DOMAIN depths |-> [r \in DOMAIN ranges |->
                           lists[s][(d - 1) * Len(ranges) + r]]]]]
  <2>1. Listed(depths) /\ Listed(ranges)
    BY <1>0
  <2>2. ReadArrivals(numbers) = Recovery(job.sources, depths, ranges, lists, Len(numbers) + 1)
    <3>1. Recounts(numbers, job.sources, depths, ranges, most, lists)
      BY <1>3 DEF Recounts
    <3> QED
      BY <1>1, <1>5, <2>1, <3>1, ArrivalsRead
  <2> QED
    BY <2>2 DEF Recovery
<1> DEFINE read == ReadArrivals(numbers)
<1>7. /\ read.next = Len(numbers) + 1 /\ read.sources = job.sources /\ read.depths = depths /\ read.ranges = ranges
      /\ \A s \in DOMAIN job.sources : \A d \in DOMAIN depths : \A r \in DOMAIN ranges :
           read.arrivals[s][d][r] = lists[s][(d - 1) * Len(ranges) + r]
  BY <1>6
<1> HIDE DEF read
<1>8. ASSUME NEW s \in DOMAIN job.sources, NEW d \in DOMAIN depths, NEW r \in DOMAIN ranges,
             (d - 1) * Len(ranges) + r \in 1 .. count
      PROVE  read.arrivals[s][d][r] = result[s].receivers[order[(d - 1) * Len(ranges) + r]].left
  <2> DEFINE i == (d - 1) * Len(ranges) + r
  <2>1. i \in 1 .. count /\ s \in 1 .. m /\ read.arrivals[s][d][r] = lists[s][i]
    BY <1>1, <1>7, <1>8
  <2> HIDE DEF i
  <2>2. lists[s][i] = result[s].receivers[order[i]].left
    BY <1>4, <2>1
  <2> QED
    BY <2>1, <2>2 DEF i
<1> QED
  BY <1>7, <1>8 DEF ThereIs, order, depths, ranges, numbers, read

(* The places of a grid by depth and range, and by range and depth.         *)
LEMMA Transposed ==
  ASSUME NEW n \in Nat \ {0}, NEW c \in Nat \ {0}
  PROVE  /\ \A d \in 1 .. c : \A r \in 1 .. n :
              LET i == (d - 1) * n + r
                  k == (r - 1) * c + d
              IN  /\ i \in 1 .. n * c /\ (i - 1) % n = r - 1 /\ (i - 1) \div n = d - 1
                  /\ k \in 1 .. n * c /\ (k - 1) % c = d - 1 /\ (k - 1) \div c = r - 1
         /\ \A i \in 1 .. n * c : ((i - 1) % n) * c + (i - 1) \div n + 1 \in 1 .. n * c
<1>1. ASSUME NEW m \in Nat \ {0}, NEW w \in Nat \ {0}, NEW z \in 1 .. w, NEW r \in 1 .. m
      PROVE  LET i == (z - 1) * m + r IN
             i \in 1 .. w * m /\ (i - 1) % m = r - 1 /\ (i - 1) \div m = z - 1
  <2> DEFINE a == z - 1
             b == r - 1
             g == a * m
             h == w * m
  <2>1. a \in Nat /\ b \in 0 .. m - 1 /\ a + 1 <= w
    OBVIOUS
  <2>2. m * a + b \in Nat /\ (m * a + b) \div m = a /\ (m * a + b) % m = b
    <3> HIDE DEF a, b
    <3> QED
      BY <2>1, RowAndPlace
  <2>3. g \in Nat /\ h \in Nat /\ g + m <= h /\ m * a = g
    <3> HIDE DEF a
    <3>1. \A x, y \in Nat : x <= y => x * m <= y * m
      OBVIOUS
    <3>2. \A x \in Nat : x * m \in Nat /\ (x + 1) * m = x * m + m /\ m * x = x * m
      OBVIOUS
    <3> QED
      BY <2>1, <3>1, <3>2
  <2>4. (z - 1) * m + r = g + r
    OBVIOUS
  <2> HIDE DEF g, h
  <2>5. (g + r) - 1 = g + b /\ g + r \in 1 .. h
    BY <2>1, <2>3
  <2> QED
    BY <2>2, <2>3, <2>4, <2>5 DEF h
<1>2. n * c = c * n
  OBVIOUS
<1>3. ASSUME NEW d \in 1 .. c, NEW r \in 1 .. n
      PROVE  LET i == (d - 1) * n + r
                 k == (r - 1) * c + d
             IN  /\ i \in 1 .. n * c /\ (i - 1) % n = r - 1 /\ (i - 1) \div n = d - 1
                 /\ k \in 1 .. n * c /\ (k - 1) % c = d - 1 /\ (k - 1) \div c = r - 1
  BY <1>1, <1>2
<1>4. ASSUME NEW i \in 1 .. n * c
      PROVE  ((i - 1) % n) * c + (i - 1) \div n + 1 \in 1 .. n * c
  <2> DEFINE x == i - 1
             q == x \div n
             t == x % n
  <2>1. x \in Nat /\ x < n * c
    <3>1. n * c \in Nat
      OBVIOUS
    <3> DEFINE h == n * c
    <3> HIDE DEF h
    <3>2. i \in 1 .. h => i - 1 \in Nat /\ i - 1 < h
      BY <3>1 DEF h
    <3> QED
      BY <3>2 DEF h
  <2> HIDE DEF x
  <2>2. q \in Nat /\ t \in 0 .. n - 1 /\ x = n * q + t
    BY <2>1
  <2> HIDE DEF q, t
  <2>3. q < c
    <3> SUFFICES ASSUME c <= q PROVE FALSE
      BY <2>2
    <3>1. n * c <= n * q /\ n * q \in Nat
      <4>1. \A y, z \in Nat : y <= z => n * y <= n * z
        OBVIOUS
      <4>2. \A y \in Nat : n * y \in Nat
        OBVIOUS
      <4> QED
        BY <2>2, <4>1, <4>2
    <3> DEFINE g == n * c
               h == n * q
    <3>2. x < g /\ x = h + t /\ g <= h /\ h \in Nat /\ g \in Nat
      <4>1. n * c \in Nat
        OBVIOUS
      <4> QED
        BY <2>1, <2>2, <3>1, <4>1
    <3> HIDE DEF g, h
    <3> QED
      BY <2>2, <3>2
  <2>4. t + 1 \in 1 .. n /\ q + 1 \in 1 .. c /\ (t + 1) - 1 = t
    BY <2>2, <2>3
  <2>5. ((t + 1) - 1) * c + (q + 1) \in 1 .. n * c
    BY <1>1, <2>4
  <2>6. t * c + (q + 1) = t * c + q + 1
    <3>1. t * c \in Nat
      <4>1. \A y, z \in Nat : y * z \in Nat
        OBVIOUS
      <4> QED
        BY <2>2, <4>1
    <3> QED
      BY <2>2, <3>1
  <2> QED
    BY <2>4, <2>5, <2>6 DEF x, q, t
<1> QED
  BY <1>3, <1>4

(* The file of a whole grid, read depth by depth.                           *)
LEMMA RegularFound ==
  ASSUME Settled, job.kind = "A", ~job.irregular, ArrivalFile(job, result, 0).ok
  PROVE  SameArrivals(0)
<1> DEFINE n == Len(job.ranges)
           c == Len(job.depths)
           count == n * c
           order == Selecting(job, 0)
           numbers == ArrivalFile(job, result, 0).numbers
           read == ReadArrivals(numbers)
<1>1. /\ n \in Nat \ {0} /\ c \in Nat \ {0} /\ Listed(job.depths) /\ Listed(job.ranges)
      /\ DOMAIN job.depths = 1 .. c /\ DOMAIN job.ranges = 1 .. n
      /\ DOMAIN job.sources = 1 .. Len(job.sources) /\ Len(result) = Len(job.sources)
  BY ListedType DEF Settled, JobOK, JobWide, Listed
<1>2. DepthCount(job) = c /\ ReceiverCount(job) = count
  BY DEF DepthCount, ReceiverCount
<1>3. AxisOf(job.depths, 0) = job.depths /\ AxisOf(job.ranges, 0) = job.ranges
  BY DEF AxisOf
<1>4. /\ DOMAIN order = 1 .. count /\ order = [i \in 1 .. count |-> order[i]]
      /\ \A i \in 1 .. count : order[i] = ((i - 1) % n) * c + (i - 1) \div n + 1
  BY DEF Selecting, ArrivalOrder
<1>5. count \in Nat /\ c * n = count
  <2>1. \A a, b \in Nat : a * b \in Nat /\ a * b = b * a
    OBVIOUS
  <2> HIDE DEF n, c
  <2> QED
    BY <1>1, <2>1
<1> HIDE DEF n, c, order, numbers, read
<1>6. Listed(order) /\ Len(order) = count
  <2> HIDE DEF count
  <2> QED
    BY <1>4, <1>5, FunctionListed
<1>7. /\ \A d \in 1 .. c : \A r \in 1 .. n :
           LET i == (d - 1) * n + r
               k == (r - 1) * c + d
           IN  /\ i \in 1 .. count /\ (i - 1) % n = r - 1 /\ (i - 1) \div n = d - 1
               /\ k \in 1 .. count /\ (k - 1) % c = d - 1 /\ (k - 1) \div c = r - 1
      /\ \A i \in 1 .. count : ((i - 1) % n) * c + (i - 1) \div n + 1 \in 1 .. count
  BY <1>1, Transposed
<1> HIDE DEF count
<1>8. \A s \in 1 .. Len(result) : \A k \in 1 .. count : Stands(job, result[s].receivers[k], k)
  BY <1>2 DEF Settled, Located
<1>9. \A s \in 1 .. Len(result) : \A i \in 1 .. count : Listed(result[s].receivers[order[i]].left)
  <2>1. \A i \in 1 .. count : order[i] \in 1 .. count
    BY <1>4, <1>7
  <2> QED
    BY <1>8, <2>1 DEF Stands, Remains
<1>10. /\ read.next = Len(numbers) + 1 /\ read.sources = job.sources
       /\ read.depths = job.depths /\ read.ranges = job.ranges
       /\ \A s \in DOMAIN job.sources : \A d \in DOMAIN job.depths : \A r \in DOMAIN job.ranges :
            (d - 1) * n + r \in 1 .. count =>
            read.arrivals[s][d][r] = result[s].receivers[order[(d - 1) * n + r]].left
  <2>1. /\ Listed(AxisOf(job.depths, 0)) /\ Listed(AxisOf(job.ranges, 0))
        /\ count = Len(AxisOf(job.depths, 0)) * Len(AxisOf(job.ranges, 0))
        /\ Len(AxisOf(job.ranges, 0)) = n
    BY <1>1, <1>3, <1>5 DEF n, c
  <2>2. LET depths == AxisOf(job.depths, 0)
            ranges == AxisOf(job.ranges, 0)
        IN  /\ read.next = Len(numbers) + 1 /\ read.sources = job.sources /\ read.depths = depths /\ read.ranges = ranges
            /\ \A s \in DOMAIN job.sources : \A d \in DOMAIN depths : \A r \in DOMAIN ranges :
                 (d - 1) * Len(ranges) + r \in 1 .. count =>
                 read.arrivals[s][d][r] = result[s].receivers[order[(d - 1) * Len(ranges) + r]].left
    <3>1. Fitting(0, count)
      BY <1>5, <1>6, <1>9, <2>1 DEF Fitting, order
    <3>2. ThereIs(0, count)
      BY <3>1, ArrivalsThere
    <3> QED
      BY <3>2 DEF ThereIs, order, numbers, read
  <2> QED
    BY <1>3, <2>1, <2>2
<1>11. ASSUME NEW s \in DOMAIN job.sources, NEW d \in DOMAIN job.depths, NEW r \in DOMAIN job.ranges
       PROVE  /\ job.depths[d] = result[s].receivers[Here(d, r)].depth
              /\ job.ranges[r] = result[s].receivers[Here(d, r)].range
              /\ read.arrivals[s][d][r] = result[s].receivers[Here(d, r)].left
  <2> DEFINE i == (d - 1) * n + r
             k == (r - 1) * c + d
  <2>1. d \in 1 .. c /\ r \in 1 .. n /\ s \in 1 .. Len(result)
    BY <1>1
  <2>2. /\ i \in 1 .. count /\ (i - 1) % n = r - 1 /\ (i - 1) \div n = d - 1
        /\ k \in 1 .. count /\ (k - 1) % c = d - 1 /\ (k - 1) \div c = r - 1
    BY <1>7, <2>1
  <2>3. Here(d, r) = k
    BY <1>2 DEF Here
  <2>4. order[i] = k
    <3>1. order[i] = (r - 1) * c + (d - 1) + 1
      BY <1>4, <2>2
    <3>2. (r - 1) * c \in Int /\ d \in Int
      BY <1>1, <2>1
    <3>3. \A x \in Int : x + (d - 1) + 1 = x + d
      BY <3>2
    <3> QED
      BY <3>1, <3>2, <3>3
  <2>5. read.arrivals[s][d][r] = result[s].receivers[order[i]].left
    BY <1>10, <2>2
  <2>6. result[s].receivers[k] = [range |-> RangeAt(job, k), depth |-> DepthAt(job, k), left |-> result[s].receivers[k].left]
    BY <1>8, <2>1, <2>2 DEF Stands
  <2>7. RangeAt(job, k) = job.ranges[r] /\ DepthAt(job, k) = job.depths[d]
    <3> HIDE DEF k
    <3>1. (r - 1) + 1 = r /\ (d - 1) + 1 = d
      BY <1>1, <2>1
    <3> QED
      BY <1>2, <2>2, <3>1 DEF RangeAt, DepthAt
  <2> HIDE DEF i, k
  <2>8. result[s].receivers[k].range = job.ranges[r] /\ result[s].receivers[k].depth = job.depths[d]
    BY <2>6, <2>7
  <2> QED
    BY <2>3, <2>4, <2>5, <2>8
<1> QED
  BY <1>10, <1>11 DEF SameArrivals, numbers, read

(* The file of one receiver of an irregular grid.                           *)
LEMMA IrregularFound ==
  ASSUME Settled, job.kind = "A", job.irregular, NEW only \in DOMAIN job.ranges, ArrivalFile(job, result, only).ok
  PROVE  SameArrivals(only)
<1> DEFINE n == Len(job.ranges)
           order == Selecting(job, only)
           numbers == ArrivalFile(job, result, only).numbers
           read == ReadArrivals(numbers)
<1>1. /\ n \in Nat /\ DOMAIN job.ranges = 1 .. n
      /\ DOMAIN job.sources = 1 .. Len(job.sources) /\ Len(result) = Len(job.sources)
  BY ListedType DEF Settled, JobOK, Listed
<1>2. only \in 1 .. n /\ only # 0
  BY <1>1
<1>3. DepthCount(job) = 1 /\ ReceiverCount(job) = n
  BY <1>1 DEF DepthCount, ReceiverCount
<1>4. /\ AxisOf(job.depths, only) = <<job.depths[only]>> /\ AxisOf(job.ranges, only) = <<job.ranges[only]>>
      /\ order = <<only>>
  BY <1>2 DEF AxisOf, Selected, Selecting
<1>5. ASSUME NEW e PROVE Listed(<<e>>) /\ Len(<<e>>) = 1 /\ DOMAIN <<e>> = {1} /\ <<e>>[1] = e
  BY EmptyListed
<1>6. order[1] = only /\ Listed(order) /\ Len(order) = 1
  BY <1>4, <1>5
<1>7. \A s \in 1 .. Len(result) : Stands(job, result[s].receivers[only], only)
  BY <1>2, <1>3 DEF Settled, Located
<1> HIDE DEF order, numbers, read, n
<1>8. \A s \in 1 .. Len(result) : \A i \in 1 .. 1 : Listed(result[s].receivers[order[i]].left)
  <2>1. \A s \in 1 .. Len(result) : Listed(result[s].receivers[only].left)
    BY <1>7 DEF Stands, Remains
  <2>2. \A i \in 1 .. 1 : order[i] = only
    BY <1>6
  <2> QED
    BY <2>1, <2>2
<1> DEFINE depths == AxisOf(job.depths, only)
           ranges == AxisOf(job.ranges, only)
<1>9. /\ Listed(depths) /\ Listed(ranges) /\ Len(depths) = 1 /\ Len(ranges) = 1
      /\ DOMAIN depths = {1} /\ DOMAIN ranges = {1} /\ depths[1] = job.depths[only] /\ ranges[1] = job.ranges[only]
  BY <1>4, <1>5
<1>10. /\ read.next = Len(numbers) + 1 /\ read.sources = job.sources
       /\ read.depths = depths /\ read.ranges = ranges
       /\ \A s \in DOMAIN job.sources : \A d \in DOMAIN depths : \A r \in DOMAIN ranges :
            (d - 1) * Len(ranges) + r \in 1 .. 1 =>
            read.arrivals[s][d][r] = result[s].receivers[order[(d - 1) * Len(ranges) + r]].left
  <2>1. 1 \in Nat /\ 1 = Len(depths) * Len(ranges)
    BY <1>9
  <2>2. Listed(AxisOf(job.depths, only)) /\ Listed(AxisOf(job.ranges, only)) /\ 1 = Len(AxisOf(job.depths, only)) * Len(AxisOf(job.ranges, only))
    BY <1>9, <2>1
  <2>3. Listed(Selecting(job, only)) /\ Len(Selecting(job, only)) = 1
    BY <1>6 DEF order
  <2>4. \A s \in 1 .. Len(result) : \A i \in 1 .. 1 : Listed(result[s].receivers[Selecting(job, only)[i]].left)
    BY <1>8 DEF order
  <2> HIDE DEF depths, ranges
  <2>5. Fitting(only, 1)
    BY <2>1, <2>2, <2>3, <2>4 DEF Fitting
  <2>6. ThereIs(only, 1)
    BY <2>5, ArrivalsThere
  <2> QED
    BY <2>6 DEF ThereIs, order, numbers, read, depths, ranges
<1> HIDE DEF depths, ranges
<1>11. ASSUME NEW s \in DOMAIN job.sources
       PROVE  /\ depths[1] = result[s].receivers[only].depth
              /\ ranges[1] = result[s].receivers[only].range
              /\ read.arrivals[s][1][1] = result[s].receivers[only].left
  <2>1. (1 - 1) * Len(ranges) + 1 = 1 /\ 1 \in 1 .. 1
    BY <1>9
  <2>2. read.arrivals[s][1][1] = result[s].receivers[order[1]].left
    BY <1>9, <1>10, <2>1
  <2>3. result[s].receivers[only] = [range |-> RangeAt(job, only), depth |-> DepthAt(job, only), left |-> result[s].receivers[only].left]
    BY <1>1, <1>7 DEF Stands
  <2>4. RangeAt(job, only) = job.ranges[only] /\ DepthAt(job, only) = job.depths[only]
    <3>1. ((only - 1) \div 1) + 1 = only
      BY <1>1, <1>2
    <3> QED
      BY <1>3, <3>1 DEF RangeAt, DepthAt
  <2>5. result[s].receivers[only].range = job.ranges[only] /\ result[s].receivers[only].depth = job.depths[only]
    BY <2>3, <2>4
  <2> QED
    BY <1>6, <1>9, <2>2, <2>5
<1>12. ASSUME NEW d \in DOMAIN depths, NEW r \in DOMAIN ranges PROVE d = 1 /\ r = 1
  BY <1>9
<1> QED
  BY <1>2, <1>10, <1>11, <1>12 DEF SameArrivals, numbers, read

(* The arrivals of the files and of a group are those of the result.        *)
LEMMA ArrivalsFound ==
  ASSUME Settled, job.kind = "A"
  PROVE  ArrivalsBack
<1> DEFINE group == ArrivalGroup(result)
           lists == EveryList(result)
           left == [n \in DOMAIN group.at.ranges |-> Slice(group.amplitudes, group.offset, n)]
<1>1. Strung(lists)
  BY ListsRemain DEF Remains, Strung
<1>2. group.at = ReceiverGroup(result) /\ group.offset = Offsets(lists) /\ group.amplitudes = Flat(lists)
  BY DEF ArrivalGroup
<1>3. DOMAIN group.at.ranges = 1 .. Len(lists)
  <2>1. Listed(EveryReceiver(result)) /\ Len(lists) = Len(EveryReceiver(result))
    BY AllReceivers DEF Even
  <2>2. DOMAIN EveryReceiver(result) = 1 .. Len(lists)
    BY <2>1, ListedType
  <2>3. DOMAIN ReceiverGroup(result).ranges = DOMAIN EveryReceiver(result)
    BY DEF ReceiverGroup
  <2> QED
    BY <1>2, <2>2, <2>3
<1>4. \A n \in 1 .. Len(lists) : left[n] = lists[n]
  <2>1. \A n \in 1 .. Len(lists) : left[n] = Slice(Flat(lists), Offsets(lists), n)
    BY <1>2, <1>3
  <2>2. \A n \in 1 .. Len(lists) : Slice(Flat(lists), Offsets(lists), n) = lists[n]
    <3> HIDE DEF lists
    <3> QED
      BY <1>1, SliceOf
  <2> HIDE DEF left, lists
  <2> QED
    BY <2>1, <2>2
<1> HIDE DEF group, left
<1>5. SameReceivers(group.at, left)
  BY <1>2, <1>4, ReceiversBack DEF lists
<1>6. ASSUME Written, NEW only \in IF job.irregular THEN DOMAIN job.ranges ELSE {0}
      PROVE  SameArrivals(only)
  <2>1. \A f \in Range(ArrivalFiles(job, result)) : f.ok
    BY <1>6 DEF Written, FieldRun
  <2>2. CASE job.irregular
    <3>1. ArrivalFiles(job, result) = [i \in DOMAIN job.ranges |-> ArrivalFile(job, result, i)] /\ only \in DOMAIN job.ranges
      BY <1>6, <2>2 DEF ArrivalFiles
    <3>2. ArrivalFile(job, result, only) \in Range(ArrivalFiles(job, result))
      BY <3>1 DEF Range
    <3> QED
      BY <2>1, <2>2, <3>1, <3>2, IrregularFound
  <2>3. CASE ~job.irregular
    <3>1. ArrivalFiles(job, result) = <<ArrivalFile(job, result, 0)>> /\ only = 0
      BY <1>6, <2>3 DEF ArrivalFiles
    <3>2. \A x : x \in Range(<<x>>)
      <4>1. \A x : 1 \in DOMAIN <<x>> /\ <<x>>[1] = x
        OBVIOUS
      <4> QED
        BY <4>1 DEF Range
    <3>3. ArrivalFile(job, result, 0).ok
      BY <2>1, <3>1, <3>2
    <3> QED
      BY <2>3, <3>1, <3>3, RegularFound
  <2> QED
    BY <2>2, <2>3
<1> QED
  BY <1>5, <1>6 DEF ArrivalsBack, group, left

-----------------------------------------------------------------------------
(* The simulation of a case: what the solver takes from it is a job.        *)
LEMMA CaseJob ==
  ASSUME NEW d, Whole(d), Sufficient(d)
  PROVE  JobOK(Job(d)) /\ JobWide(Job(d))
<1> DEFINE e == d.environment
           j == Job(d)
<1>1. /\ Present(j.angles) /\ Present(j.sources) /\ Present(j.ranges) /\ Present(j.depths)
  BY DEF Sufficient
<1>2. /\ j.sources = e.sources /\ j.ranges = e.ranges /\ j.depths = e.depths
      /\ j.angles = e.angles \/ \E x : j.angles = <<x>>
  BY DEF Job
<1>3. \A name \in {"sources", "depths", "ranges", "angles"} : Listed(e[name])
  <2>1. Content(e) /\ \A name \in {"sources", "depths", "ranges", "angles"} : name \in DOMAIN e
    BY DEF Whole, Formed, Fields
  <2> QED
    BY <2>1 DEF Content
<1> HIDE DEF e, j
<1>4. Listed(j.angles)
  BY <1>2, <1>3, EmptyListed
<1>5. \A list \in {j.sources, j.angles, j.ranges, j.depths} : Listed(list)
  BY <1>2, <1>3, <1>4
<1>6. ASSUME NEW list, Listed(list), Present(list) PROVE Len(list) >= 1
  BY <1>6 DEF Listed, Present
<1> QED
  BY <1>1, <1>5, <1>6 DEF JobOK, JobWide, j

(* A simulation has not begun, or is that of a job.                         *)
Simulating ==
  \/ job = NoJob /\ RunInit /\ stage # "running"
  \/ RunInv /\ Held /\ Gridded /\ stage \in {"running", "over"}

(* None has begun at first.                                                 *)
LEMMA SimulatingInit == Init => Simulating
BY DEF Init, Simulating

(* The simulation of an accepted case is begun with its job, and no other   *)
(* step of the command touches it.                                         *)
LEMMA SimulatingStep == Soundness /\ Carrying /\ Simulating /\ [Next]_vars => Simulating'
<1> SUFFICES ASSUME Soundness, Carrying, Simulating, [Next]_vars PROVE Simulating'
  OBVIOUS
<1>1. ASSUME UNCHANGED runVars, stage \notin {"running", "over"}, stage' # "running"
      PROVE  Simulating'
  BY <1>1 DEF Simulating, RunInit, runVars
<1>2. ASSUME UNCHANGED runVars, stage \in {"running", "over"}, stage' \in {"over", stage}
      PROVE  Simulating'
  <2>1. CASE job = NoJob /\ RunInit /\ stage # "running"
    BY <1>2, <2>1 DEF Simulating, RunInit, runVars
  <2>2. CASE RunInv /\ Held /\ Gridded
    BY <1>2, <2>2, SimulateInv, HeldStep, GriddedStep DEF Simulating
  <2> QED
    BY <2>1, <2>2 DEF Simulating
<1>3. CASE ReadEnvironment
  BY <1>1, <1>3 DEF ReadEnvironment, Keeping, Rejected, Exits
<1>4. CASE ReadAuxiliary
  BY <1>1, <1>4 DEF ReadAuxiliary, Keeping
<1>5. CASE Define
  BY <1>1, <1>5 DEF Define, Keeping, Rejected, Exits, Judge
<1>6. CASE ReadDocument
  BY <1>1, <1>6 DEF ReadDocument, Keeping, Rejected, Exits, Judge
<1>7. CASE Validate
  BY <1>1, <1>7 DEF Validate, Exits
<1>8. CASE ExportCase
  BY <1>1, <1>8 DEF ExportCase, Exits
<1>9. CASE Run
  <2>1. RunInit /\ stage = "loaded"
    BY <1>9 DEF Run, Simulating
  <2>2. PICK d : definition = <<d>> /\ Whole(d) /\ Sufficient(d)
    <3>1. definition # <<>>
      BY <2>1 DEF Carrying
    <3>2. PICK x : definition = <<x>> /\ Accepting(x, report)
      BY <3>1 DEF Carrying
    <3>3. Whole(x)
      BY <3>2 DEF Accepting
    <3>4. PICK y : definition = <<y>> /\ Sufficient(y)
      BY <3>1 DEF Soundness
    <3>5. x = y
      BY <3>2, <3>4
    <3> QED
      BY <3>2, <3>3, <3>4, <3>5
  <2>3. JobOK(job') /\ JobWide(job')
    BY <1>9, <2>2, CaseJob DEF Run, Case
  <2>4. /\ phase' = "idle" /\ receivers' = <<>> /\ dropped' = <<>> /\ result' = <<>> /\ rays' = <<>>
        /\ counts' = [points |-> 0, arrivals |-> 0, eigenrays |-> 0, eigenrayPoints |-> 0]
    BY <1>9, <2>1 DEF Run, RunInit
  <2>5. RunInv'
    BY <2>3, <2>4 DEF RunInv, Progress, Receivers
  <2>6. Held'
    <3>1. /\ Listed(<<>>) /\ Measured(<<>>) /\ Stored(<<>>) = 0 /\ EveryList(<<>>) = <<>>
          /\ Limits.arrivals \in Nat
      BY Nothings
    <3> QED
      BY <2>4, <3>1 DEF Held, Tallied
  <2>7. Gridded'
    <3>1. Len(<<>>) = 0 /\ 1 .. 0 = {}
      OBVIOUS
    <3> QED
      BY <2>3, <2>4, <3>1 DEF Gridded
  <2> QED
    BY <1>9, <2>5, <2>6, <2>7 DEF Run, Simulating
<1>10. CASE Step
  <2>1. RunInv /\ Held /\ Gridded /\ stage = "running" /\ Simulate /\ stage' = stage
    BY <1>10 DEF Step, Simulating
  <2> QED
    BY <2>1, SimulateInv, HeldStep, GriddedStep DEF Simulating
<1>11. CASE Write
  BY <1>2, <1>11 DEF Write, Exits
<1>12. CASE Over \/ UNCHANGED vars
  <2>1. UNCHANGED <<runVars, stage>>
    BY <1>12 DEF Over, vars
  <2>2. CASE job = NoJob /\ RunInit /\ stage # "running"
    BY <2>1, <2>2 DEF Simulating, RunInit, runVars
  <2>3. CASE RunInv /\ Held /\ Gridded /\ stage \in {"running", "over"}
    BY <1>2, <2>1, <2>3
  <2> QED
    BY <2>2, <2>3 DEF Simulating
<1> QED
  BY <1>3, <1>4, <1>5, <1>6, <1>7, <1>8, <1>9, <1>10, <1>11, <1>12 DEF Next

(* Whatever case is accepted and simulated, from any files or document, the *)
(* arrivals that are counted are those that are there, no limit is passed,  *)
(* and what a receiver turned away was weaker than what it kept.            *)
THEOREM CasesRetain == Spec => []Retained
<1>1. Simulating => Retained
  <2>1. CASE job = NoJob
    BY <2>1 DEF NoJob, Retained
  <2>2. CASE RunInv /\ Held
    BY <2>2, HeldRetained
  <2> QED
    BY <2>1, <2>2 DEF Simulating
<1> QED
  BY <1>1, ConsumptionInit, ConsumptionStep, SoundnessInit, SoundnessStep, CarryingInit, CarryingStep,
     SimulatingInit, SimulatingStep, PTL DEF Spec

(* A simulation that is done has left its grid whole.                       *)
LEMMA DoneSettled ==
  ASSUME RunInv, Held, Gridded, phase = "done"
  PROVE  Settled
BY DEF RunInv, Progress, Held, Gridded, Settled

(* Whatever case is accepted and simulated, a reader of the files of its    *)
(* result finds what the solver has for every source, depth and range: the  *)
(* transposed arrivals and pressures, the rays, and the arrays of HDF5 that *)
(* offsets cut (output/src/bellhop.rs, bellhop_native.rs): ReadBack, for    *)
(* every case, on regular and irregular grids, with all limits.             *)
THEOREM ResultsReadBack == Spec => []ReadBack
<1>1. Simulating => ReadBack
  <2>1. CASE RunInit
    BY <2>1 DEF RunInit, ReadBack
  <2>2. CASE RunInv /\ Held /\ Gridded
    <3>1. phase = "done" => Settled
      BY <2>2, DoneSettled
    <3> QED
      BY <3>1, ArrivalsFound, FieldFound, RaysFound, EigenraysFound DEF ReadBack
  <2> QED
    BY <2>1, <2>2 DEF Simulating
<1> QED
  BY <1>1, ConsumptionInit, ConsumptionStep, SoundnessInit, SoundnessStep, CarryingInit, CarryingStep,
     SimulatingInit, SimulatingStep, PTL DEF Spec
=============================================================================
