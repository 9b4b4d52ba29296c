------------------------- MODULE KrakenModes_proofs -------------------------
(****************************************************************************)
(* Proofs about KrakenModes, for any number of eigenvalues, meshes and      *)
(* halvings: the brackets of all roots hold while any of them is searched,  *)
(* every step of a solve brings it nearer to its end, searches with counts  *)
(* miss no root, and the columns of all meshes stay aligned.                *)
(****************************************************************************)
EXTENDS KrakenModes, FiniteSetTheorems, SequenceTheorems, TLAPS

(* Counts as operators of the eigenvalues.                                 *)
CountOf(a, x) == Cardinality({i \in Modes : a[i] > x})
ZerosOf(a, x) == CountOf(a, x) - CountOf(a, High)
InsideOf(a) == ZerosOf(a, Low)

Root == [mode : 0 .. N, at : Int]
Searching == {"bisect", "brent", "secant"}
Isolating == {"isolate", "split"}

Types ==
  /\ limit \in 0 .. N + RootLimit /\ mesh \in 1 .. Meshes + 1
  /\ pc \in {"mesh", "accept", "done"} \cup Searching \cup Isolating
  /\ at \in [Modes -> Places]
  /\ mode \in Nat /\ steps \in Nat
  /\ pc = "bisect" => lo \in Int /\ hi \in Int
  /\ pc \in Isolating \cup {"brent"} =>
       /\ left = [i \in 1 .. InsideOf(at) + 1 |-> left[i]]
       /\ right = [i \in 1 .. InsideOf(at) + 1 |-> right[i]]
  /\ roots \in Seq(Root)

(* Where a search is, how much it has found, and what bounds it.           *)
Positions ==
  /\ pc \notin {"mesh", "done"} => mesh <= Meshes
  /\ pc \in {"mesh", "accept"} => mode = 0 /\ steps = 0
  /\ pc \in {"mesh"} \cup Isolating => roots = <<>>
  /\ pc \in Searching => mode >= 1 /\ Len(roots) = mode - 1
  /\ pc \in {"bisect", "brent"} => mode <= InsideOf(at) + 1
  /\ pc \in Isolating => mode \in 1 .. InsideOf(at)
  /\ pc = "split" => mode < InsideOf(at)
  /\ pc = "secant" => mode <= limit + 1
  /\ pc \in Searching \cup Isolating => steps <= Steps
  /\ pc = "accept" => Len(roots) <= N + RootLimit

(* Bracketing, with the counts as operators.                               *)
EachBracketed ==
  /\ pc = "bisect" /\ mode <= InsideOf(at) => ZerosOf(at, hi) < mode /\ mode <= ZerosOf(at, lo)
  /\ pc \in Isolating \cup {"brent"} =>
       \A i \in 1 .. InsideOf(at) : ZerosOf(at, right[i]) < i /\ i <= ZerosOf(at, left[i])

SolveInv == Types /\ Positions /\ EachBracketed

-----------------------------------------------------------------------------
(* A count is a number of modes, whatever the eigenvalues are.             *)
LEMMA CountBounds ==
  ASSUME NEW a, NEW x
  PROVE  CountOf(a, x) \in 0 .. N
<1>1. IsFiniteSet(Modes) /\ Cardinality(Modes) = N
  BY FS_Interval, ModesAssumption DEF Modes
<1>2. {i \in Modes : a[i] > x} \in SUBSET Modes
  OBVIOUS
<1>3. /\ IsFiniteSet({i \in Modes : a[i] > x})
      /\ Cardinality({i \in Modes : a[i] > x}) <= N
  BY <1>1, <1>2, FS_Subset
<1>4. Cardinality({i \in Modes : a[i] > x}) \in Nat
  BY <1>3, FS_CardinalityType
<1> QED
  BY <1>3, <1>4, ModesAssumption DEF CountOf

LEMMA ZerosBounds ==
  ASSUME NEW a, NEW x
  PROVE  /\ ZerosOf(a, x) \in Int /\ ZerosOf(a, x) <= N
         /\ InsideOf(a) \in Int /\ InsideOf(a) <= N
         /\ ZerosOf(a, High) = 0
<1>1. CountOf(a, x) \in 0 .. N /\ CountOf(a, High) \in 0 .. N /\ CountOf(a, Low) \in 0 .. N
  BY CountBounds
<1> QED
  BY <1>1, ModesAssumption DEF ZerosOf, InsideOf

LEMMA Counts ==
  /\ \A x : Zeros(x) = ZerosOf(at, x)
  /\ Inside = InsideOf(at)
BY DEF Zeros, Inside, Above, Count, ZerosOf, InsideOf, CountOf

LEMMA BracketingRestated == EachBracketed => Bracketing
BY Counts DEF EachBracketed, Bracketing, Isolating

(* However long a prefix is asked for, there is no more of it than of the   *)
(* whole.                                                                  *)
LEMMA TakeShort ==
  ASSUME NEW S, NEW s \in Seq(S), NEW n
  PROVE  Len(Take(s, n)) \in 0 .. Len(s)
<1> DEFINE k == IF n \in 0 .. Len(s) THEN n ELSE Len(s)
<1>1. k \in 0 .. Len(s)
  OBVIOUS
<1>2. \A i \in 1 .. k : s[i] \in S
  BY <1>1
<1>3. Len(SubSeq(s, 1, k)) = IF 1 <= k THEN k - 1 + 1 ELSE 0
  BY <1>1, <1>2, SubSeqProperties
<1> QED
  BY <1>1, <1>3 DEF Take

LEMMA KeptShort ==
  ASSUME roots \in Seq(Root), Elastic
  PROVE  Len(Kept) \in 0 .. Len(roots)
<1>1. CASE method = "elasticTop"
  <2>1. Kept = Take(roots, SelectedCount)
    BY <1>1 DEF Kept
  <2> QED
    BY <2>1, TakeShort
<1>2. CASE method = "layers"
  <2>1. Kept = roots
    BY <1>2 DEF Kept
  <2> QED
    BY <2>1
<1> QED
  BY <1>1, <1>2 DEF Elastic

(* A probe is a place, and so is the middle of two.                        *)
LEMMA ProbeType ==
  ASSUME NEW x \in Int, NEW y \in Int
  PROVE  Probe(x, y) \in Int /\ Middle(x, y) \in Int
BY DEF Probe, Middle

-----------------------------------------------------------------------------
(* What every action that ends a solve or a search establishes.            *)

Ended == /\ pc' = "done" /\ left' = <<>> /\ right' = <<>> /\ mode' = 0 /\ lo' = 0 /\ hi' = 0 /\ steps' = 0
         /\ roots' = <<>> /\ mesh' = 1 /\ limit' = RootLimit /\ UNCHANGED at

LEMMA FailEnds ==
  ASSUME NEW code, Fail(code)
  PROVE  Ended
BY DEF Fail, Cleared, Ended

LEMMA EndedInv ==
  ASSUME SolveInv, Ended
  PROVE  SolveInv'
<1>1. Types'
  BY ModesAssumption DEF SolveInv, Types, Ended, Searching, Isolating
<1>2. Positions'
  BY ModesAssumption DEF Positions, Ended, Searching, Isolating
<1>3. EachBracketed'
  BY DEF EachBracketed, Ended, Isolating
<1> QED
  BY <1>1, <1>2, <1>3 DEF SolveInv

(* A search whose roots are to be accepted.                                *)
Accepting == /\ pc' = "accept" /\ Cleared /\ UNCHANGED <<limit, mesh, at, roots>>

LEMMA FoundInv ==
  ASSUME SolveInv, Accepting, pc \in Searching
  PROVE  SolveInv'
<1>1. Types'
  BY DEF SolveInv, Types, Accepting, Cleared, Searching, Isolating
<1>2. Len(roots) <= N + RootLimit
  <2>1. mode \in Nat /\ Len(roots) = mode - 1
    BY DEF SolveInv, Types, Positions
  <2>2. InsideOf(at) \in Int /\ InsideOf(at) <= N
    BY ZerosBounds
  <2>3. N \in Nat /\ RootLimit \in Nat
    BY ModesAssumption
  <2>4. CASE pc = "secant"
    <3>1. limit \in 0 .. N + RootLimit /\ mode <= limit + 1
      BY <2>4 DEF SolveInv, Types, Positions
    <3> QED
      BY <2>1, <2>3, <3>1
  <2>5. CASE pc \in {"bisect", "brent"}
    <3>1. mode <= InsideOf(at) + 1
      BY <2>5 DEF SolveInv, Positions
    <3> QED
      BY <2>1, <2>2, <2>3, <3>1
  <2> QED
    BY <2>4, <2>5 DEF Searching
<1>3. Positions'
  BY <1>2 DEF SolveInv, Types, Positions, Accepting, Cleared, Searching, Isolating
<1>4. EachBracketed'
  BY DEF EachBracketed, Accepting, Isolating
<1> QED
  BY <1>1, <1>3, <1>4 DEF SolveInv

-----------------------------------------------------------------------------
LEMMA InitInv == Init => SolveInv
<1> SUFFICES ASSUME Init PROVE SolveInv
  OBVIOUS
<1>1. at \in [Modes -> Places]
  BY DEF Init, Spectra
<1>2. limit \in 0 .. N + RootLimit
  <2>1. limit \in 0 .. RootLimit
    BY ModesAssumption DEF Init
  <2> QED
    BY <2>1, ModesAssumption
<1>3. Types
  BY <1>1, <1>2, ModesAssumption DEF Init, Types, Searching, Isolating
<1>4. Positions
  BY ModesAssumption DEF Init, Positions, Searching, Isolating
<1>5. EachBracketed
  BY DEF Init, EachBracketed, Isolating
<1> QED
  BY <1>3, <1>4, <1>5 DEF SolveInv

(* Every search starts with the whole window as the bracket of all roots.  *)
LEMMA StartInv ==
  ASSUME SolveInv, StartBisection \/ StartBrackets \/ StartSecants
  PROVE  SolveInv'
<1>1. /\ InsideOf(at) \in Int /\ InsideOf(at) <= N
      /\ ZerosOf(at, High) = 0 /\ ZerosOf(at, Low) = InsideOf(at)
  BY ZerosBounds DEF InsideOf
<1>2. Inside = InsideOf(at)
  BY Counts
<1>3. UNCHANGED <<limit, mesh, at, roots>> /\ mode' = 1 /\ pc = "mesh" /\ mesh <= Meshes /\ steps' = 0
  BY DEF StartBisection, StartBrackets, StartSecants, SolveInv, Positions
<1>4. CASE StartBisection
  <2>1. Types'
    BY <1>3, <1>4, ModesAssumption DEF SolveInv, Types, StartBisection, Searching, Isolating, Low
  <2>2. Positions'
    BY <1>1, <1>2, <1>3, <1>4, ModesAssumption DEF SolveInv, Types, Positions, StartBisection, Searching, Isolating
  <2>3. EachBracketed'
    BY <1>1, <1>3, <1>4 DEF EachBracketed, StartBisection, Isolating
  <2> QED
    BY <2>1, <2>2, <2>3 DEF SolveInv
<1>5. CASE StartBrackets
  <2>1. Types'
    BY <1>1, <1>2, <1>3, <1>5, ModesAssumption DEF SolveInv, Types, StartBrackets, Searching, Isolating
  <2>2. Positions'
    BY <1>1, <1>2, <1>3, <1>5, ModesAssumption DEF SolveInv, Types, Positions, StartBrackets, Searching, Isolating
  <2>3. EachBracketed'
    BY <1>1, <1>2, <1>3, <1>5 DEF EachBracketed, StartBrackets, Isolating
  <2> QED
    BY <2>1, <2>2, <2>3 DEF SolveInv
<1>6. CASE StartSecants
  <2>1. Types'
    BY <1>3, <1>6, ModesAssumption DEF SolveInv, Types, StartSecants, Searching, Isolating
  <2>2. Positions'
    BY <1>3, <1>6, ModesAssumption DEF SolveInv, Types, Positions, StartSecants, Searching, Isolating
  <2>3. EachBracketed'
    BY <1>6 DEF EachBracketed, StartSecants, Isolating
  <2> QED
    BY <2>1, <2>2, <2>3 DEF SolveInv
<1> QED
  BY <1>4, <1>5, <1>6

LEMMA BisectInv ==
  ASSUME SolveInv, Bisect
  PROVE  SolveInv'
<1> DEFINE x == Probe(lo, hi)
<1>1. pc = "bisect" /\ mode <= InsideOf(at) /\ UNCHANGED <<limit, pc, mesh, at, left, right>>
  BY Counts DEF Bisect
<1>2. x \in Int /\ Middle(lo, hi) \in Int
  BY <1>1, ProbeType DEF SolveInv, Types
<1>3. ZerosOf(at, High) = 0 /\ ZerosOf(at, Low) = InsideOf(at) /\ InsideOf(at) \in Int /\ ZerosOf(at, x) \in Int
  BY ZerosBounds DEF InsideOf
<1>4. Zeros(x) = ZerosOf(at, x)
  BY Counts
<1>5. CASE steps = Steps \/ x = lo \/ x = hi
  <2>1. /\ roots' = Append(roots, [mode |-> Owner(mode, Middle(lo, hi)), at |-> Middle(lo, hi)])
        /\ mode' = mode + 1 /\ lo' = Low /\ hi' = High /\ steps' = 0
    BY <1>5 DEF Bisect, Push
  <2>2. Owner(mode, Middle(lo, hi)) \in 0 .. N
    BY ModesAssumption DEF Owner, Modes
  <2>3. roots' \in Seq(Root) /\ Len(roots') = Len(roots) + 1
    BY <1>2, <2>1, <2>2 DEF SolveInv, Types, Root
  <2>4. Types'
    BY <1>1, <2>1, <2>3, ModesAssumption DEF SolveInv, Types, Searching, Isolating, Low
  <2>5. Positions'
    <3>1. mode \in Nat /\ mode >= 1 /\ Len(roots) = mode - 1 /\ mesh <= Meshes
      BY <1>1 DEF SolveInv, Types, Positions, Searching
    <3>2. mode' >= 1 /\ Len(roots') = mode' - 1 /\ mode' <= InsideOf(at) + 1 /\ steps' <= Steps
      BY <1>1, <1>3, <2>1, <2>3, <3>1, ModesAssumption
    <3> QED
      BY <1>1, <3>1, <3>2 DEF Positions, Searching, Isolating
  <2>6. EachBracketed'
    BY <1>1, <1>3, <2>1 DEF SolveInv, Types, Positions, EachBracketed, Searching, Isolating
  <2> QED
    BY <2>4, <2>5, <2>6 DEF SolveInv
<1>6. CASE ~(steps = Steps \/ x = lo \/ x = hi)
  <2>1. /\ IF ZerosOf(at, x) >= mode THEN lo' = x /\ hi' = hi ELSE lo' = lo /\ hi' = x
        /\ steps' = steps + 1 /\ UNCHANGED <<mode, roots>>
    BY <1>4, <1>6 DEF Bisect
  <2>2. Types'
    BY <1>1, <1>2, <2>1 DEF SolveInv, Types, Searching, Isolating
  <2>3. Positions'
    BY <1>1, <1>6, <2>1, ModesAssumption DEF SolveInv, Types, Positions, Searching, Isolating
  <2>4. EachBracketed'
    BY <1>1, <1>3, <2>1 DEF SolveInv, Types, EachBracketed, Isolating
  <2> QED
    BY <2>2, <2>3, <2>4 DEF SolveInv
<1> QED
  BY <1>5, <1>6

LEMMA IsolateInv ==
  ASSUME SolveInv, Isolate
  PROVE  SolveInv'
<1>1. pc = "isolate" /\ mode < InsideOf(at) /\ UNCHANGED <<limit, mesh, at, left, right, roots>>
  BY Counts DEF Isolate
<1>2. \/ pc' = pc /\ mode' = mode + 1 /\ steps' = steps
      \/ pc' = "split" /\ mode' = mode /\ steps' = 0
  BY DEF Isolate
<1>3. InsideOf(at) \in Int
  BY ZerosBounds
<1>4. Types'
  BY <1>1, <1>2 DEF SolveInv, Types, Searching, Isolating
<1>5. Positions'
  <2>1. mode \in 1 .. InsideOf(at) /\ mesh <= Meshes /\ roots = <<>> /\ steps <= Steps
    BY <1>1 DEF SolveInv, Positions, Searching, Isolating
  <2>2. mode' \in 1 .. InsideOf(at) /\ (pc' = "split" => mode' < InsideOf(at)) /\ steps' <= Steps
    BY <1>1, <1>2, <1>3, <2>1, ModesAssumption
  <2> QED
    BY <1>1, <1>2, <2>1, <2>2 DEF Positions, Searching, Isolating
<1>6. EachBracketed'
  BY <1>1, <1>2 DEF SolveInv, EachBracketed, Isolating
<1> QED
  BY <1>4, <1>5, <1>6 DEF SolveInv

(* The heart of bracketed_roots: a probe with z eigenvalues above it is an *)
(* upper end for every later root and a lower end for every earlier one.   *)
LEMMA SplitInv ==
  ASSUME SolveInv, Split
  PROVE  SolveInv'
<1> DEFINE x == Probe(lo, hi)
           z == ZerosOf(at, x)
           I == InsideOf(at)
<1>1. pc = "split" /\ UNCHANGED <<limit, mesh, at, roots>>
  BY DEF Split
<1>2. I \in Int /\ z \in Int
  BY ZerosBounds
<1>3. /\ mode \in 1 .. I /\ mode < I /\ mesh <= Meshes /\ roots = <<>> /\ steps <= Steps
      /\ steps \in Nat
      /\ left = [i \in 1 .. I + 1 |-> left[i]] /\ right = [i \in 1 .. I + 1 |-> right[i]]
      /\ \A i \in 1 .. I : ZerosOf(at, right[i]) < i /\ i <= ZerosOf(at, left[i])
  BY <1>1 DEF SolveInv, Types, Positions, EachBracketed, Searching, Isolating
<1>4. CASE Halved
  <2>1. pc' = "isolate" /\ mode' = mode + 1 /\ UNCHANGED <<left, right, lo, hi, steps>>
    BY <1>4 DEF Split
  <2>2. Types'
    BY <1>1, <2>1 DEF SolveInv, Types, Searching, Isolating
  <2>3. mode' \in 1 .. I
    BY <1>2, <1>3, <2>1
  <2>4. Positions'
    BY <1>1, <1>3, <2>1, <2>3 DEF Positions, Searching, Isolating
  <2>5. EachBracketed'
    BY <1>1, <1>3, <2>1 DEF EachBracketed, Isolating
  <2> QED
    BY <2>2, <2>4, <2>5 DEF SolveInv
<1>5. CASE ~Halved
  <2>1. /\ right' = RightAfter(x) /\ left' = LeftAfter(x)
        /\ steps' = steps + 1 /\ UNCHANGED <<pc, mode>>
    BY <1>5 DEF Split
  <2>2. steps' <= Steps /\ steps' \in Nat
    BY <1>3, <1>5, <2>1, ModesAssumption DEF Halved
  <2>3. Zeros(x) = z
    BY Counts
  <2>4. /\ right' = [i \in 1 .. I + 1 |-> right'[i]]
        /\ \A i \in 1 .. I : ZerosOf(at, right'[i]) < i
    <3>1. CASE z < mode
      <4>1. right' = [right EXCEPT ![mode] = x]
        BY <2>1, <2>3, <3>1 DEF RightAfter
      <4>2. right' = [i \in 1 .. I + 1 |-> IF i = mode THEN x ELSE right[i]]
        BY <1>3, <4>1
      <4>3. DOMAIN right' = 1 .. I + 1
        BY <4>2
      <4>4. right' = [i \in 1 .. I + 1 |-> right'[i]]
        BY <4>2
      <4>5. ASSUME NEW i \in 1 .. I PROVE ZerosOf(at, right'[i]) < i
        <5>1. i \in 1 .. I + 1
          BY <1>2
        <5>2. right'[i] = right[i] \/ (i = mode /\ right'[i] = x)
          BY <4>2, <5>1
        <5> HIDE DEF x
        <5> QED
          BY <1>2, <1>3, <3>1, <5>2
      <4> QED
        BY <4>4, <4>5
    <3>2. CASE ~(z < mode)
      <4>1. right' = [right EXCEPT ![z + 1] = IF @ >= x THEN x ELSE @]
        BY <2>1, <2>3, <3>2 DEF RightAfter
      <4>2. right' = [i \in 1 .. I + 1 |->
                       IF i = z + 1 THEN IF right[i] >= x THEN x ELSE right[i] ELSE right[i]]
        BY <1>3, <4>1
      <4>3. DOMAIN right' = 1 .. I + 1
        BY <4>2
      <4>4. right' = [i \in 1 .. I + 1 |-> right'[i]]
        BY <4>2
      <4>5. ASSUME NEW i \in 1 .. I PROVE ZerosOf(at, right'[i]) < i
        <5>1. i \in 1 .. I + 1
          BY <1>2
        <5>2. right'[i] = right[i] \/ (i = z + 1 /\ right'[i] = x)
          BY <4>2, <5>1
        <5>3. ZerosOf(at, right[i]) < i /\ i \in Int
          <6>1. \A j \in 1 .. I : ZerosOf(at, right[j]) < j
            BY <1>3
          <6>2. ZerosOf(at, right[i]) < i
            BY <6>1
          <6>3. i \in Int
            BY <1>2
          <6> QED
            BY <6>2, <6>3
        <5>4. CASE right'[i] = right[i]
          BY <5>3, <5>4
        <5>5. CASE i = z + 1 /\ right'[i] = x
          <6>1. ZerosOf(at, right'[i]) = z
            BY <5>5
          <6> HIDE DEF z
          <6> QED
            BY <1>2, <5>5, <6>1
        <5> QED
          BY <5>2, <5>4, <5>5
      <4> QED
        BY <4>4, <4>5
    <3> QED
      BY <3>1, <3>2
  <2>5. /\ left' = [i \in 1 .. I + 1 |-> left'[i]]
        /\ \A i \in 1 .. I : i <= ZerosOf(at, left'[i])
    <3>1. CASE z < mode
      <4>1. left' = left
        BY <2>1, <2>3, <3>1 DEF LeftAfter
      <4> QED
        BY <1>3, <4>1
    <3>2. CASE ~(z < mode)
      <4>1. left' = [left EXCEPT ![z] = IF @ <= x THEN x ELSE @]
        BY <2>1, <2>3, <3>2 DEF LeftAfter
      <4>2. left' = [i \in 1 .. I + 1 |->
                      IF i = z THEN IF left[i] <= x THEN x ELSE left[i] ELSE left[i]]
        BY <1>3, <4>1
      <4>3. DOMAIN left' = 1 .. I + 1
        BY <4>2
      <4>4. left' = [i \in 1 .. I + 1 |-> left'[i]]
        BY <4>2
      <4>5. ASSUME NEW i \in 1 .. I PROVE i <= ZerosOf(at, left'[i])
        <5>1. i \in 1 .. I + 1
          BY <1>2
        <5>2. left'[i] = left[i] \/ (i = z /\ left'[i] = x)
          BY <4>2, <5>1
        <5>3. i <= ZerosOf(at, left[i]) /\ i \in Int
          <6>1. \A j \in 1 .. I : j <= ZerosOf(at, left[j])
            BY <1>3
          <6>2. i <= ZerosOf(at, left[i])
            BY <6>1
          <6>3. i \in Int
            BY <1>2
          <6> QED
            BY <6>2, <6>3
        <5>4. CASE left'[i] = left[i]
          BY <5>3, <5>4
        <5>5. CASE i = z /\ left'[i] = x
          <6>1. ZerosOf(at, left'[i]) = z
            BY <5>5
          <6> HIDE DEF z
          <6> QED
            BY <1>2, <5>5, <6>1
        <5> QED
          BY <5>2, <5>4, <5>5
      <4> QED
        BY <4>4, <4>5
    <3> QED
      BY <3>1, <3>2
  <2> HIDE DEF x, z
  <2>6. Types'
    BY <1>1, <2>1, <2>2, <2>4, <2>5 DEF SolveInv, Types, Searching, Isolating
  <2>7. Positions'
    BY <1>1, <1>3, <2>1, <2>2 DEF Positions, Searching, Isolating
  <2>8. EachBracketed'
    BY <1>1, <2>1, <2>4, <2>5 DEF EachBracketed, Isolating
  <2> QED
    BY <2>6, <2>7, <2>8 DEF SolveInv
<1> QED
  BY <1>4, <1>5

LEMMA IsolatedInv ==
  ASSUME SolveInv, Isolated
  PROVE  SolveInv'
<1>1. /\ pc = "isolate" /\ pc' = "brent" /\ mode' = 1 /\ steps' = 0
      /\ UNCHANGED <<limit, mesh, at, left, right, roots>>
  BY DEF Isolated
<1>2. /\ mode \in 1 .. InsideOf(at) /\ mesh <= Meshes /\ roots = <<>>
      /\ InsideOf(at) \in Int
  BY <1>1, ZerosBounds DEF SolveInv, Positions, Isolating
<1>3. Types'
  BY <1>1 DEF SolveInv, Types, Searching, Isolating
<1>4. Positions'
  BY <1>1, <1>2, ModesAssumption DEF Positions, Searching, Isolating
<1>5. EachBracketed'
  BY <1>1 DEF SolveInv, EachBracketed, Isolating
<1> QED
  BY <1>3, <1>4, <1>5 DEF SolveInv

(* One root more, where a search goes on.                                  *)
LEMMA PushedInv ==
  ASSUME SolveInv, pc \in {"brent", "secant"},
         NEW root \in Root, roots' = Append(roots, root), mode' = mode + 1,
         pc = "brent" => mode <= InsideOf(at), pc = "secant" => mode <= limit,
         UNCHANGED <<limit, pc, mesh, at, left, right, lo, hi, steps>>
  PROVE  SolveInv'
<1>1. roots' \in Seq(Root) /\ Len(roots') = Len(roots) + 1
  BY DEF SolveInv, Types
<1>2. /\ mode \in Nat /\ mode >= 1 /\ Len(roots) = mode - 1 /\ mesh <= Meshes /\ steps <= Steps
      /\ InsideOf(at) \in Int /\ limit \in 0 .. N + RootLimit
  BY ZerosBounds DEF SolveInv, Types, Positions, Searching
<1>3. Types'
  BY <1>1, <1>2 DEF SolveInv, Types, Searching, Isolating
<1>4. Positions'
  <2>1. /\ mode' >= 1 /\ Len(roots') = mode' - 1
        /\ pc = "brent" => mode' <= InsideOf(at) + 1
        /\ pc = "secant" => mode' <= limit + 1
    BY <1>1, <1>2, ModesAssumption
  <2> QED
    BY <1>2, <2>1 DEF Positions, Searching, Isolating
<1>5. EachBracketed'
  BY DEF SolveInv, EachBracketed, Isolating
<1> QED
  BY <1>3, <1>4, <1>5 DEF SolveInv

LEMMA PlaceOfRoot ==
  ASSUME SolveInv, NEW m \in Modes
  PROVE  [mode |-> m, at |-> at[m]] \in Root
<1>1. at[m] \in Int
  BY ModesAssumption DEF SolveInv, Types
<1> QED
  BY <1>1, ModesAssumption DEF Root, Modes

LEMMA BrentInv ==
  ASSUME SolveInv, Brent
  PROVE  SolveInv'
<1> DEFINE found == Between(left[mode], right[mode])
<1>1. pc = "brent" /\ mode <= InsideOf(at)
  BY Counts DEF Brent
<1>2. ASSUME NEW m \in found, Push(m, at[m]), mode' = mode + 1,
             UNCHANGED <<limit, pc, mesh, at, left, right, lo, hi, steps>>
      PROVE  SolveInv'
  <2>1. [mode |-> m, at |-> at[m]] \in Root
    BY <1>2, PlaceOfRoot DEF Between
  <2> QED
    BY <1>1, <1>2, <2>1, PushedInv DEF Push
<1>3. ASSUME roots # <<>>, roots' = Append(roots, roots[Len(roots)]), mode' = mode + 1,
             UNCHANGED <<limit, pc, mesh, at, left, right, lo, hi, steps>>
      PROVE  SolveInv'
  <2>1. roots[Len(roots)] \in Root
    BY <1>3 DEF SolveInv, Types
  <2> QED
    BY <1>1, <1>3, <2>1, PushedInv
<1>4. ASSUME Fail("KR0303")
      PROVE  SolveInv'
  BY <1>4, FailEnds, EndedInv
<1> QED
  BY <1>2, <1>3, <1>4 DEF Brent

LEMMA SecantInv ==
  ASSUME SolveInv, Secant
  PROVE  SolveInv'
<1>1. pc = "secant" /\ mode <= limit
  BY DEF Secant
<1>2. PICK m \in Modes :
        \/ Fail("KR0303")
        \/ /\ Push(m, at[m]) /\ mode' = mode + 1
           /\ UNCHANGED <<limit, pc, mesh, at, left, right, lo, hi, steps>>
  BY DEF Secant
<1>3. CASE Fail("KR0303")
  BY <1>3, FailEnds, EndedInv
<1>4. CASE /\ Push(m, at[m]) /\ mode' = mode + 1
           /\ UNCHANGED <<limit, pc, mesh, at, left, right, lo, hi, steps>>
  BY <1>1, <1>4, PlaceOfRoot, PushedInv DEF Push
<1> QED
  BY <1>2, <1>3, <1>4

(* The next mesh, or the answer: no longer a list than was found bounds    *)
(* the secants of the next mesh.                                           *)
LEMMA AcceptInv ==
  ASSUME SolveInv, Accept
  PROVE  SolveInv'
<1>1. /\ pc = "accept" /\ mode' = 0 /\ steps' = 0 /\ roots' = <<>>
      /\ limit' = IF Elastic THEN Len(Kept) ELSE limit
      /\ Answer \/ NextMesh
  BY DEF Accept, Cleared
<1>2. mesh <= Meshes /\ Len(roots) <= N + RootLimit /\ roots \in Seq(Root)
  BY <1>1 DEF SolveInv, Types, Positions, Searching, Isolating
<1>3. limit' \in 0 .. N + RootLimit
  <2>1. CASE Elastic
    <3>1. Len(Kept) \in 0 .. Len(roots)
      BY <1>2, <2>1, KeptShort
    <3>2. Len(roots) \in Nat /\ N + RootLimit \in Nat
      BY <1>2, ModesAssumption
    <3> QED
      BY <1>1, <1>2, <2>1, <3>1, <3>2
  <2>2. CASE ~Elastic
    BY <1>1, <2>2 DEF SolveInv, Types
  <2> QED
    BY <2>1, <2>2
<1>4. mesh \in 1 .. Meshes + 1 /\ at \in [Modes -> Places]
  BY DEF SolveInv, Types
<1>5. /\ pc' \in {"mesh", "done"} /\ mesh' \in 1 .. Meshes + 1
      /\ at' \in [Modes -> Places]
  BY <1>1, <1>2, <1>4, ModesAssumption DEF Answer, NextMesh, Spectra
<1>6. Types'
  BY <1>1, <1>3, <1>5 DEF Types, Searching, Isolating
<1>7. Positions'
  BY <1>1, <1>5, ModesAssumption DEF Positions, Searching, Isolating
<1>8. EachBracketed'
  BY <1>5 DEF EachBracketed, Isolating
<1> QED
  BY <1>6, <1>7, <1>8 DEF SolveInv

LEMMA NextInv == SolveInv /\ [Next]_vars => SolveInv'
<1> SUFFICES ASSUME SolveInv, [Next]_vars
             PROVE  SolveInv'
  OBVIOUS
<1>1. ASSUME NEW code, Fail(code)
      PROVE  SolveInv'
  BY <1>1, FailEnds, EndedInv
<1>2. CASE StartBisection \/ StartBrackets \/ StartSecants
  BY <1>2, StartInv
<1>3. CASE NoModes \/ ListFull \/ NothingKept \/ Gained \/ Unsettled
  BY <1>1, <1>3 DEF NoModes, ListFull, NothingKept, Gained, Unsettled
<1>4. CASE Bisected \/ Bracketed \/ LeaveBelow
  <2>1. pc \in Searching /\ Accepting
    BY <1>4 DEF Bisected, Bracketed, LeaveBelow, Searching, Accepting
  <2> QED
    BY <2>1, FoundInv
<1>5. CASE SecantsSpent
  <2>1. Fail("KR0303") \/ (pc \in Searching /\ Accepting)
    BY <1>5 DEF SecantsSpent, Searching, Accepting
  <2> QED
    BY <1>1, <2>1, FoundInv
<1>6. CASE Refuse
  BY <1>1, <1>6 DEF Refuse
<1>7. CASE Bisect
  BY <1>7, BisectInv
<1>8. CASE Isolate
  BY <1>8, IsolateInv
<1>9. CASE Split
  BY <1>9, SplitInv
<1>10. CASE Isolated
  BY <1>10, IsolatedInv
<1>11. CASE Brent
  BY <1>11, BrentInv
<1>12. CASE Secant
  BY <1>12, SecantInv
<1>13. CASE Accept
  BY <1>13, AcceptInv
<1>14. CASE Over \/ UNCHANGED vars
  <2>1. UNCHANGED <<limit, pc, mesh, at, left, right, mode, lo, hi, steps, roots>>
    BY <1>14 DEF Over, vars, search
  <2>2. Types'
    BY <2>1 DEF SolveInv, Types, Searching, Isolating
  <2>3. Positions'
    BY <2>1 DEF SolveInv, Positions, Searching, Isolating
  <2>4. EachBracketed'
    BY <2>1 DEF SolveInv, EachBracketed, Isolating
  <2> QED
    BY <2>2, <2>3, <2>4 DEF SolveInv
<1> QED
  BY <1>2, <1>3, <1>4, <1>5, <1>6, <1>7, <1>8, <1>9, <1>10, <1>11, <1>12, <1>13, <1>14 DEF Next

-----------------------------------------------------------------------------
(* While the roots of a mesh are searched, each lies in its own bracket,   *)
(* whichever of them a probe was made for (modes.rs, roots and             *)
(* bracketed_roots).                                                       *)
THEOREM EveryRootInItsBracket == Spec => []Bracketing
<1>1. SolveInv => Bracketing
  BY BracketingRestated DEF SolveInv
<1> QED
  BY InitInv, NextInv, <1>1, PTL DEF Spec

-----------------------------------------------------------------------------
(* The variant of a solve: meshes and stages first, then roots, then       *)
(* halvings.                                                               *)
First == Stage + 5 * (Meshes + 1 - mesh)
Second == N + RootLimit + 1 - mode
Third == IF pc = "isolate" THEN Steps + 1 ELSE Steps - steps

LEMMA Lexicographic ==
  ASSUME NEW a, NEW b, NEW c, NEW d, NEW e, NEW f,
         \/ a < d
         \/ a = d /\ b < e
         \/ a = d /\ b = e /\ c < f
  PROVE  Before(<<a, b, c>>, <<d, e, f>>)
<1> DEFINE s == <<a, b, c>>
           t == <<d, e, f>>
<1>1. CASE a < d
  <2>1. s[1] < t[1] /\ \A j \in 1 .. 1 - 1 : s[j] = t[j]
    BY <1>1
  <2> QED
    BY <2>1 DEF Before
<1>2. CASE a = d /\ b < e
  <2>1. s[2] < t[2] /\ \A j \in 1 .. 2 - 1 : s[j] = t[j]
    BY <1>2
  <2> QED
    BY <2>1 DEF Before
<1>3. CASE a = d /\ b = e /\ c < f
  <2>1. s[3] < t[3] /\ \A j \in 1 .. 3 - 1 : s[j] = t[j]
    BY <1>3
  <2> QED
    BY <2>1 DEF Before
<1> QED
  BY <1>1, <1>2, <1>3

LEMMA VariantInBounds ==
  SolveInv /\ pc # "done" => First \in Nat /\ Second \in Nat /\ Third \in Nat
<1> SUFFICES ASSUME SolveInv, pc # "done"
             PROVE  First \in Nat /\ Second \in Nat /\ Third \in Nat
  OBVIOUS
<1>1. /\ N \in Nat /\ RootLimit \in Nat /\ Meshes \in Nat /\ Steps \in Nat
      /\ InsideOf(at) \in Int /\ InsideOf(at) <= N
  BY ZerosBounds, ModesAssumption
<1>2. /\ mesh \in 1 .. Meshes + 1 /\ mode \in Nat /\ steps \in Nat
      /\ limit \in 0 .. N + RootLimit
      /\ pc \in {"mesh", "accept"} \cup Searching \cup Isolating
  BY DEF SolveInv, Types
<1>3. Stage \in 0 .. 4
  BY <1>2 DEF Stage, Searching, Isolating
<1>4. First \in Nat
  BY <1>1, <1>2, <1>3 DEF First
<1>5. mode <= N + RootLimit + 1
  <2>1. CASE pc \in {"mesh", "accept"}
    BY <1>1, <2>1 DEF SolveInv, Positions
  <2>2. CASE pc \in {"bisect", "brent"}
    <3>1. mode <= InsideOf(at) + 1
      BY <2>2 DEF SolveInv, Positions
    <3> QED
      BY <1>1, <1>2, <3>1
  <2>3. CASE pc \in Isolating
    <3>1. mode \in 1 .. InsideOf(at)
      BY <2>3 DEF SolveInv, Positions
    <3> QED
      BY <1>1, <1>2, <3>1
  <2>4. CASE pc = "secant"
    <3>1. mode <= limit + 1
      BY <2>4 DEF SolveInv, Positions
    <3> QED
      BY <1>1, <1>2, <3>1
  <2> QED
    BY <1>2, <2>1, <2>2, <2>3, <2>4 DEF Searching
<1>6. Second \in Nat
  BY <1>1, <1>2, <1>5 DEF Second
<1>7. steps <= Steps
  BY <1>1, <1>2 DEF SolveInv, Positions
<1>8. Third \in Nat
  BY <1>1, <1>2, <1>7 DEF Third
<1> QED
  BY <1>4, <1>6, <1>8

(* A search that goes on to its next stage or root, or halves once more.   *)
LEMMA StepForward ==
  ASSUME SolveInv, pc # "done",
         UNCHANGED mesh,
         \/ Stage' < Stage /\ Stage' \in 0 .. 4
         \/ Stage' = Stage /\ mode' = mode + 1
         \/ Stage' = Stage /\ mode' = mode /\ Third' < Third
  PROVE  Before(Remaining', Remaining)
<1>1. /\ N \in Nat /\ RootLimit \in Nat /\ Meshes \in Nat
      /\ mesh \in 1 .. Meshes + 1 /\ mode \in Nat
      /\ pc \in {"mesh", "accept"} \cup Searching \cup Isolating
  BY ModesAssumption DEF SolveInv, Types
<1>2. Stage \in 0 .. 4
  BY <1>1 DEF Stage, Searching, Isolating
<1>3. \/ First' < First
      \/ First' = First /\ Second' < Second
      \/ First' = First /\ Second' = Second /\ Third' < Third
  BY <1>1, <1>2 DEF First, Second
<1>4. Before(<<First', Second', Third'>>, <<First, Second, Third>>)
  BY <1>3, Lexicographic
<1> QED
  BY <1>4 DEF Remaining, First, Second, Third

LEMMA StepNearer ==
  ASSUME SolveInv, Next, pc' # "done"
  PROVE  Before(Remaining', Remaining)
<1>1. /\ Steps \in Nat /\ steps \in Nat /\ mode \in Nat
      /\ pc \in {"mesh", "accept", "done"} \cup Searching \cup Isolating
  BY ModesAssumption DEF SolveInv, Types
<1>2. ASSUME NEW code, Fail(code)
      PROVE  FALSE
  BY <1>2 DEF Fail
<1>3. CASE \/ StartBisection \/ StartBrackets \/ StartSecants
           \/ Bisected \/ Bracketed \/ LeaveBelow \/ Isolated
  <2>1. pc # "done" /\ UNCHANGED mesh
    BY <1>3 DEF StartBisection, StartBrackets, StartSecants, Bisected, Bracketed, LeaveBelow, Isolated
  <2>2. Stage' < Stage /\ Stage' \in 0 .. 4
    BY <1>3 DEF StartBisection, StartBrackets, StartSecants, Bisected, Bracketed, LeaveBelow,
                Isolated, Stage
  <2> QED
    BY <2>1, <2>2, StepForward
<1>4. CASE SecantsSpent
  <2>1. pc # "done" /\ UNCHANGED mesh /\ Stage' < Stage /\ Stage' \in 0 .. 4
    BY <1>2, <1>4 DEF SecantsSpent, Stage
  <2> QED
    BY <2>1, StepForward
<1>5. CASE Bisect
  <2>1. pc = "bisect" /\ UNCHANGED <<mesh, pc>>
    BY <1>5 DEF Bisect
  <2>2. \/ mode' = mode + 1
        \/ mode' = mode /\ steps' = steps + 1
    BY <1>5 DEF Bisect
  <2>3. Stage' = Stage /\ (steps' = steps + 1 => Third' < Third)
    BY <1>1, <2>1 DEF Stage, Third
  <2> QED
    BY <2>1, <2>2, <2>3, StepForward
<1>6. CASE Isolate
  <2>1. pc = "isolate" /\ UNCHANGED mesh
    BY <1>6 DEF Isolate
  <2>2. \/ pc' = pc /\ mode' = mode + 1
        \/ pc' = "split" /\ mode' = mode /\ steps' = 0
    BY <1>6 DEF Isolate
  <2>3. Stage' = Stage /\ (pc' = "split" /\ steps' = 0 => Third' < Third)
    BY <1>1, <2>1, <2>2 DEF Stage, Third
  <2> QED
    BY <2>1, <2>2, <2>3, StepForward
<1>7. CASE Split
  <2>1. pc = "split" /\ UNCHANGED mesh
    BY <1>7 DEF Split
  <2>2. \/ pc' = "isolate" /\ mode' = mode + 1
        \/ pc' = pc /\ mode' = mode /\ steps' = steps + 1
    BY <1>7 DEF Split
  <2>3. Stage' = Stage /\ (pc' = pc /\ steps' = steps + 1 => Third' < Third)
    BY <1>1, <2>1, <2>2 DEF Stage, Third
  <2> QED
    BY <2>1, <2>2, <2>3, StepForward
<1>8. CASE Brent \/ Secant
  <2>1. pc # "done" /\ UNCHANGED <<mesh, pc>> /\ mode' = mode + 1
    BY <1>2, <1>8 DEF Brent, Secant
  <2>2. Stage' = Stage
    BY <2>1 DEF Stage
  <2> QED
    BY <2>1, <2>2, StepForward
<1>9. CASE Accept
  <2>1. pc = "accept" /\ pc' = "mesh" /\ mesh' = mesh + 1
    BY <1>9 DEF Accept, Answer, NextMesh
  <2>2. mesh \in 1 .. Meshes + 1 /\ Meshes \in Nat
    BY ModesAssumption DEF SolveInv, Types
  <2>3. Stage = 1 /\ Stage' = 4
    BY <2>1 DEF Stage
  <2>4. First' < First
    BY <2>1, <2>2, <2>3 DEF First
  <2>5. Before(<<First', Second', Third'>>, <<First, Second, Third>>)
    BY <2>4, Lexicographic
  <2> QED
    BY <2>5 DEF Remaining, First, Second, Third
<1>10. CASE NoModes \/ ListFull \/ NothingKept \/ Gained \/ Unsettled \/ Refuse
  BY <1>2, <1>10 DEF NoModes, ListFull, NothingKept, Gained, Unsettled, Refuse
<1>11. CASE Over
  BY <1>11 DEF Over, vars
<1> QED
  BY <1>3, <1>4, <1>5, <1>6, <1>7, <1>8, <1>9, <1>10, <1>11 DEF Next

(* Every step of a solve, whatever the eigenvalues are and wherever they   *)
(* move, ends it or brings it nearer to its end, by a measure that cannot  *)
(* fall for ever (modes.rs and complex_modes.rs, solve; refinement.rs,     *)
(* advance).                                                               *)
THEOREM EverySolveEnds == Spec => Nearer
<1>1. (SolveInv /\ pc # "done" => First \in Nat /\ Second \in Nat /\ Third \in Nat)'
  BY VariantInBounds, PTL
<1>2. SolveInv /\ [Next]_vars =>
        [\/ pc' = "done"
         \/ Before(Remaining', Remaining) /\ \A i \in 1 .. 3 : Remaining'[i] >= 0]_vars
  <2> SUFFICES ASSUME SolveInv, Next, pc' # "done"
               PROVE  Before(Remaining', Remaining) /\ \A i \in 1 .. 3 : Remaining'[i] >= 0
    OBVIOUS
  <2>1. SolveInv'
    BY NextInv
  <2>2. First' \in Nat /\ Second' \in Nat /\ Third' \in Nat
    BY <1>1, <2>1
  <2>3. \A i \in 1 .. 3 : Remaining'[i] >= 0
    BY <2>2 DEF Remaining, First, Second, Third
  <2> QED
    BY <2>3, StepNearer
<1> QED
  BY InitInv, NextInv, <1>2, PTL DEF Spec, Nearer

-----------------------------------------------------------------------------
(* What searches with Sturm counts find.                                   *)

(* Cells that s halvings can tell apart.                                   *)
Cells == CHOOSE cells \in [0 .. Steps -> 1 .. High + 1] :
           /\ cells[0] = 1 /\ High <= 2 * cells[Steps]
           /\ \A s \in 1 .. Steps : cells[s] <= 2 * cells[s - 1]

(* Between two probes, and no wider than the halvings left can search.     *)
Narrowing ==
  /\ lo \in Int /\ hi \in Int /\ lo % 2 = 0 /\ hi % 2 = 0
  /\ Low <= lo /\ lo < hi /\ hi <= High
  /\ hi - lo <= 2 * Cells[Steps - steps]

Stages ==
  /\ pc = "bisect" => Bisects
  /\ pc \in Isolating \cup {"brent"} => Brackets
  /\ pc = "secant" => ~Bisects /\ ~Brackets

(* The first n roots inside the limits, from above.                        *)
Found(a, n) ==
  [i \in 1 .. n |-> [mode |-> CountOf(a, High) + i, at |-> a[CountOf(a, High) + i]]]

Ends ==
  \A i \in 1 .. InsideOf(at) + 1 :
    /\ left[i] \in Int /\ left[i] % 2 = 0 /\ Low <= left[i] /\ left[i] <= High
    /\ right[i] \in Int /\ right[i] % 2 = 0 /\ Low <= right[i] /\ right[i] <= High

(* A lower end other than the limit's counts its root exactly, and the next *)
(* root lies below it.                                                     *)
Closed(i) == ZerosOf(at, left[i]) = i /\ right[i + 1] <= left[i]

BracketsClosed ==
  pc \in Isolating \cup {"brent"} /\ Distinct =>
    /\ Ends
    /\ \A i \in 1 .. InsideOf(at) : left[i] # Low => Closed(i)
    /\ pc \in Isolating => \A i \in 1 .. mode - 1 : left[i] # Low
    /\ pc = "brent" => \A i \in 1 .. InsideOf(at) - 1 : left[i] # Low
    /\ pc = "split" =>
         /\ Narrowing /\ hi = right[mode]
         /\ left[mode] = Low => ZerosOf(at, lo) > mode

Complete ==
  /\ pc = "bisect" => roots = Found(at, mode - 1) /\ (mode <= InsideOf(at) => Narrowing)
  /\ pc = "brent" /\ Distinct => roots = Found(at, mode - 1)
  /\ pc = "accept" /\ (Bisects \/ (Brackets /\ Distinct)) => roots = Found(at, InsideOf(at))

SpectrumInv == at \in Spectra /\ Stages /\ BracketsClosed /\ Complete

-----------------------------------------------------------------------------
(* Counts of eigenvalues in order.                                         *)

(* Of a set of naturals with a member the least can be picked.             *)
LEMMA LeastOf ==
  ASSUME NEW S \in SUBSET Nat, S # {}
  PROVE  \E n \in S : \A m \in S : n <= m
<1>1. PICK n \in S : \A m \in S : ~(<<m, n>> \in OpToRel(<, Nat))
  BY NatLessThanWellFounded, WFMin
<1>2. ASSUME NEW m \in S PROVE n <= m
  <2>1. n \in Nat /\ m \in Nat /\ ~(<<m, n>> \in OpToRel(<, Nat))
    BY <1>1
  <2>2. m < n => <<m, n>> \in OpToRel(<, Nat)
    BY <2>1 DEF OpToRel
  <2>3. ~(m < n)
    BY <2>1, <2>2
  <2>4. n \in Nat /\ m \in Nat
    BY <2>1
  <2> QED
    BY <2>3, <2>4
<1> QED
  BY <1>2

(* A set of places below a bound has a last one.                           *)
LEMMA MaximumOf ==
  ASSUME NEW S \in SUBSET Int, S # {}, NEW bound \in Int, \A y \in S : y <= bound
  PROVE  Maximum(S) \in S /\ \A y \in S : y <= Maximum(S)
<1> DEFINE gaps == {bound - y : y \in S}
<1>1. gaps \in SUBSET Nat /\ gaps # {}
  <2>1. \A y \in S : bound - y \in Nat
    OBVIOUS
  <2> QED
    BY <2>1
<1>2. PICK g \in gaps : \A h \in gaps : g <= h
  <2> HIDE DEF gaps
  <2> QED
    BY <1>1, LeastOf
<1>3. PICK x \in S : g = bound - x
  BY <1>2
<1>4. \A y \in S : y <= x
  <2> TAKE y \in S
  <2>1. bound - y \in gaps
    OBVIOUS
  <2>2. bound - x <= bound - y
    BY <1>2, <1>3, <2>1
  <2>3. x \in Int /\ y \in Int
    OBVIOUS
  <2> QED
    BY <2>2, <2>3
<1> QED
  BY <1>4 DEF Maximum

LEMMA SpectraFacts ==
  ASSUME NEW a \in Spectra
  PROVE  /\ \A i \in Modes : a[i] \in Int /\ a[i] % 2 = 1
         /\ \A i, j \in Modes : i < j => a[j] <= a[i]
<1>1. a \in [Modes -> Places] /\ \A i, j \in Modes : i < j => a[j] <= a[i]
  BY DEF Spectra
<1>2. \A i \in Modes : a[i] \in Places
  BY <1>1
<1> QED
  BY <1>1, <1>2, ModesAssumption, GridAssumption

(* The Sturm count c of a place: the first c eigenvalues are above it.     *)
LEMMA CountMeaning ==
  ASSUME NEW a \in Spectra, NEW x \in Int, NEW i \in Modes
  PROVE  a[i] > x <=> i <= CountOf(a, x)
<1> DEFINE S == {j \in Modes : a[j] > x}
           T == Modes \ S
<1>1. Modes = 1 .. N /\ N \in Nat
  BY ModesAssumption DEF Modes
<1>2. \A j, k \in Modes : j < k /\ a[k] > x => a[j] > x
  <2> SUFFICES ASSUME NEW j \in Modes, NEW k \in Modes, j < k, a[k] > x PROVE a[j] > x
    OBVIOUS
  <2>1. a[j] \in Int /\ a[k] \in Int /\ a[k] <= a[j]
    BY SpectraFacts
  <2> QED
    BY <2>1
<1>3. PICK c \in 0 .. N : S = 1 .. c
  <2>1. CASE T = {}
    <3>1. S = 1 .. N
      BY <1>1, <2>1
    <3> QED
      BY <1>1, <3>1
  <2>2. CASE T # {}
    <3>1. T \in SUBSET Nat
      BY <1>1
    <3>2. PICK t \in T : \A u \in T : t <= u
      <4> HIDE DEF T
      <4> QED
        BY <2>2, <3>1, LeastOf
    <3>3. t \in 1 .. N /\ ~(a[t] > x)
      BY <1>1, <3>2
    <3>4. \A j \in 1 .. N : j < t => j \in S
      BY <1>1, <3>2, <3>3
    <3>5. \A j \in 1 .. N : j > t => j \notin S
      BY <1>1, <1>2, <3>3
    <3>6. S = 1 .. t - 1
      BY <1>1, <3>3, <3>4, <3>5
    <3>7. t - 1 \in 0 .. N
      BY <3>3, <1>1
    <3> QED
      BY <3>6, <3>7
  <2> QED
    BY <2>1, <2>2
<1>4. Cardinality(1 .. c) = c
  <2>1. 1 \in Int /\ c \in Int /\ Cardinality(1 .. c) = IF 1 > c THEN 0 ELSE c - 1 + 1
    BY FS_Interval
  <2> QED
    BY <2>1, <1>1
<1>5. CountOf(a, x) = c
  BY <1>3, <1>4 DEF CountOf
<1>6. a[i] > x <=> i \in 1 .. c
  BY <1>3
<1> QED
  BY <1>1, <1>5, <1>6

LEMMA CountMonotone ==
  ASSUME NEW a \in Spectra, NEW x \in Int, NEW y \in Int, x <= y
  PROVE  CountOf(a, y) <= CountOf(a, x)
<1> DEFINE c == CountOf(a, x)
           d == CountOf(a, y)
<1>1. c \in 0 .. N /\ d \in 0 .. N /\ N \in Nat /\ Modes = 1 .. N
  BY CountBounds, ModesAssumption DEF Modes
<1>2. CASE d > c
  <2>1. d \in Modes
    BY <1>1, <1>2
  <2>2. a[d] > y /\ ~(a[d] > x) /\ a[d] \in Int
    BY <1>1, <1>2, <2>1, CountMeaning, SpectraFacts
  <2> QED
    BY <2>2
<1> QED
  BY <1>1, <1>2

LEMMA ZerosFacts ==
  ASSUME NEW a \in Spectra
  PROVE  /\ \A x \in Int : ZerosOf(a, x) \in Int
         /\ \A x, y \in Int : ZerosOf(a, x) < ZerosOf(a, y) => y < x
         /\ ZerosOf(a, High) = 0 /\ ZerosOf(a, Low) = InsideOf(a) /\ InsideOf(a) >= 0
         /\ High \in Int /\ Low \in Int /\ InsideOf(a) \in Int
<1>1. High \in Int /\ Low \in Int /\ Low <= High
  BY ModesAssumption DEF Low
<1>2. \A x : CountOf(a, x) \in Int
  BY CountBounds
<1>3. CountOf(a, High) <= CountOf(a, Low)
  BY <1>1, CountMonotone
<1>4. \A x, y \in Int : ZerosOf(a, x) < ZerosOf(a, y) => y < x
  <2> SUFFICES ASSUME NEW x \in Int, NEW y \in Int, ZerosOf(a, x) < ZerosOf(a, y), ~(y < x)
               PROVE  FALSE
    OBVIOUS
  <2>1. CountOf(a, y) <= CountOf(a, x)
    BY CountMonotone
  <2>2. CountOf(a, x) \in Int /\ CountOf(a, y) \in Int /\ CountOf(a, High) \in Int
    BY <1>2
  <2> QED
    BY <2>1, <2>2 DEF ZerosOf
<1> QED
  BY <1>1, <1>2, <1>3, <1>4 DEF ZerosOf, InsideOf

(* The i-th eigenvalue inside lies between places with fewer than i and    *)
(* with at least i eigenvalues above them.                                 *)
LEMMA RootBetween ==
  ASSUME NEW a \in Spectra, NEW x \in Int, NEW y \in Int, NEW i \in 1 .. InsideOf(a),
         ZerosOf(a, y) < i, i <= ZerosOf(a, x)
  PROVE  /\ CountOf(a, High) + i \in Modes
         /\ a[CountOf(a, High) + i] \in Int /\ a[CountOf(a, High) + i] % 2 = 1
         /\ x < a[CountOf(a, High) + i] /\ a[CountOf(a, High) + i] <= y
<1> DEFINE m == CountOf(a, High) + i
<1>1. /\ CountOf(a, x) \in 0 .. N /\ CountOf(a, y) \in 0 .. N /\ CountOf(a, High) \in 0 .. N
      /\ N \in Nat /\ Modes = 1 .. N /\ InsideOf(a) \in Int
  BY CountBounds, ZerosBounds, ModesAssumption DEF Modes
<1>2. i \in Int /\ i >= 1
  BY <1>1
<1>3. m <= CountOf(a, x) /\ CountOf(a, y) < m /\ m >= 1
  BY <1>1, <1>2 DEF ZerosOf
<1>4. m \in Modes
  BY <1>1, <1>2, <1>3
<1>5. a[m] > x /\ ~(a[m] > y)
  <2> HIDE DEF m
  <2>1. m \in Int
    BY <1>1, <1>4
  <2> QED
    BY <1>1, <1>3, <1>4, <2>1, CountMeaning
<1>6. a[m] \in Int /\ a[m] % 2 = 1
  BY <1>4, SpectraFacts
<1> QED
  BY <1>4, <1>5, <1>6

-----------------------------------------------------------------------------
(* Halving.                                                                *)

LEMMA CellsFacts ==
  /\ \A s \in 0 .. Steps : Cells[s] \in Int
  /\ Cells[0] = 1 /\ High <= 2 * Cells[Steps]
  /\ \A s \in 1 .. Steps : Cells[s] <= 2 * Cells[s - 1]
<1>1. /\ Cells \in [0 .. Steps -> 1 .. High + 1]
      /\ Cells[0] = 1 /\ High <= 2 * Cells[Steps]
      /\ \A s \in 1 .. Steps : Cells[s] <= 2 * Cells[s - 1]
  BY GridAssumption DEF Cells
<1>2. ASSUME NEW s \in 0 .. Steps PROVE Cells[s] \in Int
  <2>1. Cells[s] \in 1 .. High + 1
    BY <1>1
  <2> QED
    BY <2>1
<1> QED
  BY <1>1, <1>2

LEMMA ProbeFacts ==
  ASSUME NEW x \in Int, NEW y \in Int, x % 2 = 0, y % 2 = 0, x < y
  PROVE  /\ Probe(x, y) \in Int /\ Probe(x, y) % 2 = 0
         /\ x <= Probe(x, y) /\ Probe(x, y) < y
         /\ x = Probe(x, y) => y = x + 2
         /\ \A k \in Int : y - x <= 4 * k => Probe(x, y) - x <= 2 * k /\ y - Probe(x, y) <= 2 * k
<1>1. PICK a \in Int : x = 2 * a
  <2>1. x \div 2 \in Int /\ x = 2 * (x \div 2)
    OBVIOUS
  <2> QED
    BY <2>1
<1>2. PICK b \in Int : y = 2 * b
  <2>1. y \div 2 \in Int /\ y = 2 * (y \div 2)
    OBVIOUS
  <2> QED
    BY <2>1
<1>3. PICK c \in Int : c = (x + y) \div 4
  OBVIOUS
<1>4. 4 * c <= x + y /\ x + y < 4 * c + 4
  BY <1>3
<1>5. Probe(x, y) = 2 * c
  BY <1>3 DEF Probe
<1>6. 2 * c <= a + b /\ a + b < 2 * c + 2 /\ a < b
  BY <1>1, <1>2, <1>4
<1>7. (2 * c) % 2 = 0
  OBVIOUS
<1> QED
  BY <1>1, <1>2, <1>5, <1>6, <1>7

LEMMA HalvingNarrows ==
  ASSUME Narrowing, steps \in Nat, steps < Steps, Probe(lo, hi) # lo,
         steps' = steps + 1,
         \/ lo' = Probe(lo, hi) /\ hi' = hi
         \/ lo' = lo /\ hi' = Probe(lo, hi)
  PROVE  Narrowing'
<1> DEFINE x == Probe(lo, hi)
           k == Cells[Steps - steps - 1]
<1>1. /\ lo \in Int /\ hi \in Int /\ lo % 2 = 0 /\ hi % 2 = 0 /\ Low <= lo /\ lo < hi /\ hi <= High
      /\ hi - lo <= 2 * Cells[Steps - steps] /\ Steps \in Nat /\ Low \in Int /\ High \in Int
  BY ModesAssumption DEF Narrowing, Low
<1>2. Steps - steps \in 1 .. Steps /\ Steps - steps - 1 \in 0 .. Steps /\ Steps - steps \in 0 .. Steps
  BY <1>1
<1>3. k \in Int /\ Cells[Steps - steps] <= 2 * k /\ Cells[Steps - steps] \in Int
  BY <1>2, CellsFacts
<1>4. hi - lo <= 4 * k
  <2> HIDE DEF k
  <2> QED
    BY <1>1, <1>3
<1>5. /\ x \in Int /\ x % 2 = 0 /\ lo <= x /\ x < hi /\ x - lo <= 2 * k /\ hi - x <= 2 * k
  <2> HIDE DEF k
  <2> QED
    BY <1>1, <1>3, <1>4, ProbeFacts
<1>6. Steps - steps' = Steps - steps - 1
  BY <1>1
<1>7. Low' = Low /\ High' = High
  BY DEF Low
<1>8. Cells[Steps - steps'] = k
  BY <1>6
<1> HIDE DEF x, k
<1>9. \/ lo' = x /\ hi' = hi
      \/ lo' = lo /\ hi' = x
  BY DEF x
<1>10. x # lo
  BY DEF x
<1>11. /\ lo' \in Int /\ hi' \in Int /\ lo' % 2 = 0 /\ hi' % 2 = 0 /\ Low <= lo' /\ lo' < hi' /\ hi' <= High
       /\ hi' - lo' <= 2 * k
  BY <1>1, <1>5, <1>9, <1>10
<1>12. hi' - lo' <= 2 * Cells[Steps - steps']
  BY <1>8, <1>11
<1> QED
  BY <1>7, <1>11, <1>12 DEF Narrowing

(* When halving ends, one cell is left.                                    *)
LEMMA HalvingEnds ==
  ASSUME Narrowing, steps = Steps \/ Probe(lo, hi) = lo \/ Probe(lo, hi) = hi
  PROVE  hi = lo + 2
<1>1. /\ lo \in Int /\ hi \in Int /\ lo % 2 = 0 /\ hi % 2 = 0 /\ lo < hi
      /\ hi - lo <= 2 * Cells[Steps - steps]
  BY DEF Narrowing
<1>2. CASE steps = Steps
  <2>1. Steps - steps = 0
    BY <1>2, ModesAssumption
  <2>2. Cells[Steps - steps] = 1
    BY <2>1, CellsFacts
  <2>3. hi - lo <= 2
    BY <1>1, <2>2
  <2> QED
    BY <1>1, <2>3
<1>3. CASE Probe(lo, hi) = lo \/ Probe(lo, hi) = hi
  <2>1. Probe(lo, hi) < hi /\ (lo = Probe(lo, hi) => hi = lo + 2)
    BY <1>1, ProbeFacts
  <2>2. Probe(lo, hi) # hi
    BY <1>1, <2>1
  <2> QED
    BY <1>3, <2>1, <2>2
<1> QED
  BY <1>2, <1>3

LEMMA FoundNext ==
  ASSUME NEW a, NEW n \in Nat
  PROVE  Append(Found(a, n), [mode |-> CountOf(a, High) + (n + 1), at |-> a[CountOf(a, High) + (n + 1)]])
           = Found(a, n + 1)
<1> DEFINE Entry(i) == [mode |-> CountOf(a, High) + i, at |-> a[CountOf(a, High) + i]]
<1>1. Found(a, n) = [i \in 1 .. n |-> Entry(i)] /\ Found(a, n + 1) = [i \in 1 .. n + 1 |-> Entry(i)]
  BY DEF Found
<1> HIDE DEF Entry
<1>2. Append([i \in 1 .. n |-> Entry(i)], Entry(n + 1)) = [i \in 1 .. n + 1 |-> Entry(i)]
  OBVIOUS
<1> QED
  BY <1>1, <1>2 DEF Entry

-----------------------------------------------------------------------------
(* The searches keep what they have found.                                 *)

LEMMA SpectrumInit == Init => SpectrumInv
BY DEF Init, SpectrumInv, Stages, BracketsClosed, Complete, Isolating

(* Nothing is claimed of a solve that is over or between meshes.           *)
LEMMA SpectrumIdle ==
  ASSUME at' \in Spectra, pc' \in {"done", "mesh", "secant"},
         pc' = "secant" => ~Bisects' /\ ~Brackets'
  PROVE  SpectrumInv'
BY DEF SpectrumInv, Stages, BracketsClosed, Complete, Isolating

LEMMA SpectrumBisect ==
  ASSUME SolveInv, SpectrumInv, Bisect
  PROVE  SpectrumInv'
<1> DEFINE x == Probe(lo, hi)
           I == InsideOf(at)
<1>1. /\ pc = "bisect" /\ mode <= I /\ UNCHANGED <<method, mesh, pc, at>>
  BY Counts DEF Bisect, setting
<1>2. /\ at \in Spectra /\ Bisects /\ roots = Found(at, mode - 1) /\ Narrowing
      /\ ZerosOf(at, hi) < mode /\ mode <= ZerosOf(at, lo)
      /\ mode \in Nat /\ mode >= 1 /\ steps \in Nat /\ steps <= Steps
  BY <1>1 DEF SpectrumInv, Stages, Complete, SolveInv, EachBracketed, Positions, Types, Searching
<1>3. I \in Int
  BY ZerosBounds
<1>4. SUFFICES roots' = Found(at, mode' - 1) /\ (mode' <= I => Narrowing')
  BY <1>1, <1>2 DEF SpectrumInv, Stages, BracketsClosed, Complete, Isolating, Bisects
<1>5. CASE steps = Steps \/ x = lo \/ x = hi
  <2>1. /\ roots' = Append(roots, [mode |-> Owner(mode, Middle(lo, hi)), at |-> Middle(lo, hi)])
        /\ mode' = mode + 1 /\ lo' = Low /\ hi' = High /\ steps' = 0
    BY <1>5 DEF Bisect, Push
  <2>2. hi = lo + 2 /\ lo \in Int /\ hi \in Int /\ lo % 2 = 0
    BY <1>2, <1>5, HalvingEnds DEF Narrowing
  <2>3. /\ CountOf(at, High) + mode \in Modes
        /\ at[CountOf(at, High) + mode] \in Int
        /\ lo < at[CountOf(at, High) + mode] /\ at[CountOf(at, High) + mode] <= hi
        /\ at[CountOf(at, High) + mode] % 2 = 1
    <3>1. mode \in 1 .. I
      BY <1>1, <1>2, <1>3
    <3> QED
      BY <1>2, <2>2, <3>1, RootBetween
  <2>4. Middle(lo, hi) = lo + 1
    BY <2>2 DEF Middle
  <2>5. at[CountOf(at, High) + mode] = Middle(lo, hi)
    <3> DEFINE e == at[CountOf(at, High) + mode]
    <3>1. e \in Int /\ lo < e /\ e <= hi /\ e % 2 = 1
      BY <2>3
    <3> HIDE DEF e
    <3>2. e = lo + 1
      BY <2>2, <3>1
    <3> QED
      BY <2>4, <3>2 DEF e
  <2>6. Above = CountOf(at, High)
    BY DEF Above, Count, CountOf
  <2>7. Owner(mode, Middle(lo, hi)) = CountOf(at, High) + mode
    BY <2>3, <2>5, <2>6 DEF Owner
  <2>8. roots' = Found(at, mode)
    <3>1. mode - 1 \in Nat /\ (mode - 1) + 1 = mode
      BY <1>2
    <3> QED
      BY <1>2, <2>1, <2>5, <2>7, <3>1, FoundNext
  <2>9. Narrowing'
    <3>1. /\ High \in Int /\ High % 2 = 0 /\ Steps - 0 = Steps /\ High <= 2 * Cells[Steps]
      BY ModesAssumption, GridAssumption, CellsFacts
    <3>2. Low < High
      BY <1>2, <2>2, <3>1 DEF Narrowing, Low
    <3>3. Steps - steps' = Steps
      BY <2>1, <3>1
    <3>4. High - Low <= 2 * Cells[Steps - steps']
      BY <3>1, <3>3 DEF Low
    <3> QED
      BY <2>1, <3>1, <3>2, <3>4 DEF Narrowing, Low
  <2> QED
    BY <2>1, <2>8, <2>9, <1>2
<1>6. CASE ~(steps = Steps \/ x = lo \/ x = hi)
  <2>1. /\ \/ lo' = x /\ hi' = hi
           \/ lo' = lo /\ hi' = x
        /\ steps' = steps + 1 /\ UNCHANGED <<mode, roots>>
    BY <1>6 DEF Bisect
  <2>2. steps < Steps
    BY <1>2, <1>6, ModesAssumption
  <2>3. Narrowing'
    BY <1>2, <1>6, <2>1, <2>2, HalvingNarrows
  <2> QED
    BY <1>2, <2>1, <2>3
<1> QED
  BY <1>5, <1>6

(* Each search begins with nothing found and the limits for its ends.      *)
LEMMA SpectrumStart ==
  ASSUME SolveInv, SpectrumInv, StartBisection \/ StartBrackets \/ StartSecants
  PROVE  SpectrumInv'
<1>1. at \in Spectra /\ UNCHANGED <<method, mesh, at, roots>> /\ roots = <<>> /\ mode' = 1
  BY DEF SpectrumInv, StartBisection, StartBrackets, StartSecants, SolveInv, Positions, setting
<1>2. /\ Inside = InsideOf(at) /\ InsideOf(at) \in Int /\ High \in Int /\ Low \in Int /\ Low <= High
      /\ Low % 2 = 0 /\ High % 2 = 0
      /\ ZerosOf(at, High) = 0 /\ ZerosOf(at, Low) = InsideOf(at)
  BY Counts, ZerosBounds, ModesAssumption, GridAssumption DEF Low, InsideOf
<1>3. Found(at, 0) = <<>>
  BY DEF Found
<1>4. CASE StartBisection
  <2>1. Bisects /\ pc' = "bisect" /\ lo' = Low /\ hi' = High /\ steps' = 0 /\ InsideOf(at) > 0
    BY <1>2, <1>4 DEF StartBisection
  <2>2. Steps - steps' = Steps /\ High <= 2 * Cells[Steps]
    BY <2>1, ModesAssumption, CellsFacts
  <2>3. Low # High
    BY <1>2, <2>1
  <2>4. Narrowing'
    BY <1>2, <2>1, <2>2, <2>3 DEF Narrowing, Low
  <2>5. mode' - 1 = 0
    BY <1>1
  <2>6. roots' = Found(at, mode' - 1)
    BY <1>1, <1>3, <2>5
  <2> QED
    BY <1>1, <2>1, <2>4, <2>6
      DEF SpectrumInv, Stages, BracketsClosed, Complete, Isolating, Bisects
<1>5. CASE StartBrackets
  <2>1. /\ Brackets /\ pc' = "isolate" /\ InsideOf(at) > 0
        /\ left' = [i \in 1 .. InsideOf(at) + 1 |-> Low]
        /\ right' = [i \in 1 .. InsideOf(at) + 1 |-> High]
    BY <1>2, <1>5 DEF StartBrackets
  <2>2. \A i \in 1 .. InsideOf(at) + 1 : left'[i] = Low /\ right'[i] = High
    BY <2>1
  <2>3. Ends'
    BY <1>1, <1>2, <2>2 DEF Ends
  <2>4. \A i \in 1 .. InsideOf(at) : left'[i] = Low
    BY <1>2, <2>2
  <2>5. Brackets'
    BY <1>1, <2>1 DEF Brackets
  <2> QED
    BY <1>1, <2>1, <2>3, <2>4, <2>5, ZerosBounds
      DEF SpectrumInv, Stages, BracketsClosed, Complete, Isolating, Bisects
<1>6. CASE StartSecants
  <2>1. pc' = "secant" /\ ~Bisects /\ ~Brackets
    BY <1>6 DEF StartSecants
  <2>2. ~Bisects' /\ ~Brackets'
    BY <1>1, <2>1 DEF Bisects, Brackets
  <2> QED
    BY <1>1, <2>1, <2>2, SpectrumIdle
<1> QED
  BY <1>4, <1>5, <1>6

(* The next root to isolate is searched below the roots isolated already.  *)
LEMMA SpectrumIsolate ==
  ASSUME SolveInv, SpectrumInv, Isolate
  PROVE  SpectrumInv'
<1> DEFINE I == InsideOf(at)
           lows == {Low} \cup {left[i] : i \in mode + 1 .. I}
<1>1. /\ pc = "isolate" /\ mode < I /\ UNCHANGED <<method, mesh, at, left, right, roots>>
      /\ \/ left[mode] # Low /\ mode' = mode + 1 /\ pc' = "isolate"
         \/ /\ left[mode] = Low /\ pc' = "split" /\ steps' = 0 /\ mode' = mode
            /\ lo' = Maximum(lows) /\ hi' = right[mode]
  BY Counts DEF Isolate, setting
<1>2. /\ at \in Spectra /\ Brackets /\ mode \in 1 .. I /\ mode \in Nat
      /\ \A i \in 1 .. I : ZerosOf(at, right[i]) < i
  BY <1>1 DEF SpectrumInv, Stages, Isolating, SolveInv, EachBracketed, Positions, Types
<1>3. I \in Int /\ ZerosOf(at, Low) = I
  BY ZerosBounds DEF InsideOf
<1>4. Brackets' /\ Ends' = Ends /\ (\A i : Closed(i)' = Closed(i)) /\ Distinct' = Distinct
  BY <1>1, <1>2 DEF Brackets, Ends, Closed, Distinct
<1>5. SUFFICES ASSUME Distinct PROVE BracketsClosed'
  <2>1. pc' \in Isolating
    BY <1>1 DEF Isolating
  <2> QED
    BY <1>1, <1>2, <1>4, <2>1 DEF SpectrumInv, Stages, BracketsClosed, Complete, Isolating
<1>6. /\ Ends
      /\ \A i \in 1 .. I : left[i] # Low => Closed(i)
      /\ \A i \in 1 .. mode - 1 : left[i] # Low
  BY <1>1, <1>5 DEF SpectrumInv, BracketsClosed, Isolating
<1>7. CASE left[mode] # Low /\ mode' = mode + 1 /\ pc' = "isolate"
  <2>1. \A i \in 1 .. mode' - 1 : left[i] # Low
    BY <1>2, <1>6, <1>7
  <2> QED
    BY <1>1, <1>4, <1>6, <1>7, <2>1 DEF BracketsClosed, Isolating
<1>8. CASE /\ left[mode] = Low /\ pc' = "split" /\ steps' = 0 /\ mode' = mode
           /\ lo' = Maximum(lows) /\ hi' = right[mode]
  <2>1. \A i \in 1 .. I : i \in 1 .. I + 1
    BY <1>3
  <2>2. \A i \in mode + 1 .. I : i \in 1 .. I /\ i \in 1 .. I + 1 /\ i > mode
    BY <1>2, <1>3
  <2>3. Low \in Int /\ High \in Int /\ Low <= High /\ Low % 2 = 0
    BY ModesAssumption DEF Low
  <2>4. \A y \in lows : y \in Int /\ y <= High /\ y % 2 = 0 /\ Low <= y /\ ZerosOf(at, y) > mode
    <3>1. ASSUME NEW i \in mode + 1 .. I
          PROVE  /\ left[i] \in Int /\ left[i] <= High /\ left[i] % 2 = 0 /\ Low <= left[i]
                 /\ ZerosOf(at, left[i]) > mode
      <4>1. left[i] \in Int /\ left[i] <= High /\ left[i] % 2 = 0 /\ Low <= left[i]
        BY <1>6, <2>2 DEF Ends
      <4>2. left[i] # Low => ZerosOf(at, left[i]) = i
        BY <1>6, <2>2 DEF Closed
      <4>3. ZerosOf(at, left[i]) = i \/ ZerosOf(at, left[i]) = I
        BY <1>3, <4>2
      <4> QED
        BY <1>1, <4>1, <4>3, <2>2
    <3> QED
      BY <3>1, <2>3, <1>1, <1>3
  <2>5. lo' \in lows
    <3>1. lows \in SUBSET Int /\ lows # {} /\ \A y \in lows : y <= High
      BY <2>4
    <3> HIDE DEF lows
    <3> QED
      BY <1>8, <2>3, <3>1, MaximumOf
  <2>6. lo' \in Int /\ lo' <= High /\ lo' % 2 = 0 /\ Low <= lo' /\ ZerosOf(at, lo') > mode
    <3> HIDE DEF lows
    <3> QED
      BY <2>4, <2>5
  <2>7. hi' \in Int /\ hi' % 2 = 0 /\ hi' <= High /\ ZerosOf(at, hi') < mode
    BY <1>2, <1>6, <1>8, <2>1 DEF Ends
  <2>8. lo' < hi'
    <3>1. ZerosOf(at, hi') < ZerosOf(at, lo')
      <4>1. ZerosOf(at, hi') \in Int /\ ZerosOf(at, lo') \in Int
        BY ZerosBounds
      <4> QED
        BY <2>6, <2>7, <4>1, <1>2
    <3> QED
      BY <1>2, <2>6, <2>7, <3>1, ZerosFacts
  <2>9. hi' - lo' <= 2 * Cells[Steps - steps']
    <3>1. Steps - steps' = Steps /\ High <= 2 * Cells[Steps] /\ Cells[Steps] \in Int
      <4>1. Steps \in 0 .. Steps
        BY ModesAssumption
      <4> QED
        BY <1>8, <4>1, ModesAssumption, CellsFacts
    <3>0. /\ lo' \in Int /\ Low <= lo'
          /\ hi' \in Int /\ hi' <= High
      BY <2>6, <2>7
    <3>2. hi' - lo' <= High
      <4>1. \A x, y, z \in Int : 0 <= x /\ y <= z => y - x <= z
        OBVIOUS
      <4>2. High \in Int
        BY ModesAssumption
      <4> QED
        BY <3>0, <4>1, <4>2 DEF Low
    <3>3. Cells[Steps - steps'] = Cells[Steps]
      BY <3>1
    <3> HIDE DEF lows
    <3> QED
      <4>1. \A x, y, z \in Int : x <= y /\ y <= 2 * z => x <= 2 * z
        OBVIOUS
      <4>2. High \in Int /\ hi' - lo' \in Int
        BY <3>0, ModesAssumption
      <4> QED
        BY <3>1, <3>2, <3>3, <4>1, <4>2
  <2>10. Narrowing'
    BY <2>6, <2>7, <2>8, <2>9 DEF Narrowing, Low
  <2> QED
    BY <1>1, <1>4, <1>6, <1>8, <2>6, <2>10 DEF BracketsClosed, Isolating
<1> QED
  BY <1>1, <1>7, <1>8

(* Eigenvalues that differ are told apart by the probes between them.      *)
LEMMA TwoCells ==
  ASSUME NEW a \in Spectra, \A i, j \in Modes : i # j => a[i] # a[j],
         NEW x \in Int, NEW y \in Int, x % 2 = 0, y % 2 = 0,
         NEW i \in 1 .. InsideOf(a), i < InsideOf(a),
         ZerosOf(a, y) < i, i < ZerosOf(a, x)
  PROVE  x + 2 < y
<1> DEFINE e == a[CountOf(a, High) + i]
           f == a[CountOf(a, High) + (i + 1)]
<1>1. i \in Int /\ i + 1 \in 1 .. InsideOf(a) /\ ZerosOf(a, y) \in Int /\ ZerosOf(a, x) \in Int
      /\ CountOf(a, High) \in Int
  BY ZerosBounds, CountBounds
<1>2. CountOf(a, High) + i \in Modes /\ e \in Int /\ e % 2 = 1 /\ x < e /\ e <= y
  BY <1>1, RootBetween
<1>3. /\ CountOf(a, High) + (i + 1) \in Modes /\ f \in Int /\ f % 2 = 1 /\ x < f /\ f <= y
  <2>1. ZerosOf(a, y) < i + 1 /\ i + 1 <= ZerosOf(a, x)
    BY <1>1
  <2> QED
    BY <1>1, <2>1, RootBetween
<1>4. e # f
  BY <1>1, <1>2, <1>3
<1> HIDE DEF e, f
<1> QED
  BY <1>2, <1>3, <1>4

LEMMA SpectrumSplit ==
  ASSUME SolveInv, SpectrumInv, Split
  PROVE  SpectrumInv'
<1> DEFINE I == InsideOf(at)
           x == Probe(lo, hi)
           z == ZerosOf(at, x)
<1>1. pc = "split" /\ UNCHANGED <<method, mesh, at, roots>> /\ pc' \in Isolating
  BY DEF Split, setting, Isolating
<1>2. /\ at \in Spectra /\ Brackets /\ mode \in 1 .. I /\ mode \in Nat /\ mode < I
      /\ steps \in Nat /\ steps <= Steps
      /\ left = [i \in 1 .. I + 1 |-> left[i]] /\ right = [i \in 1 .. I + 1 |-> right[i]]
      /\ \A i \in 1 .. I : ZerosOf(at, right[i]) < i
  BY <1>1 DEF SpectrumInv, Stages, Isolating, SolveInv, EachBracketed, Positions, Types, Searching
<1>3. I \in Int /\ z \in Int /\ ZerosOf(at, Low) = I
  BY ZerosBounds DEF InsideOf
<1>4. Brackets' /\ Distinct' = Distinct
  BY <1>1, <1>2 DEF Brackets, Distinct
<1>5. SUFFICES ASSUME Distinct PROVE BracketsClosed'
  BY <1>1, <1>2, <1>4 DEF SpectrumInv, Stages, BracketsClosed, Complete, Isolating
<1>6. /\ Ends
      /\ \A i \in 1 .. I : left[i] # Low => Closed(i)
      /\ \A i \in 1 .. mode - 1 : left[i] # Low
      /\ Narrowing /\ hi = right[mode]
      /\ left[mode] = Low => ZerosOf(at, lo) > mode
  BY <1>1, <1>5 DEF SpectrumInv, BracketsClosed, Isolating
<1>7. /\ lo \in Int /\ hi \in Int /\ lo % 2 = 0 /\ hi % 2 = 0 /\ Low <= lo /\ lo < hi /\ hi <= High
      /\ Low \in Int /\ High \in Int
  BY <1>6, ModesAssumption DEF Narrowing, Low
<1>8. left[mode] = Low => lo + 2 < hi
  BY <1>2, <1>5, <1>6, <1>7, TwoCells DEF Distinct
<1>9. CASE Halved
  <2>1. pc' = "isolate" /\ mode' = mode + 1 /\ UNCHANGED <<left, right>>
    BY <1>9 DEF Split
  <2>2. left[mode] # Low
    <3> SUFFICES ASSUME left[mode] = Low PROVE FALSE
      OBVIOUS
    <3>1. steps = Steps
      BY <1>9 DEF Halved
    <3>2. hi = lo + 2
      BY <1>6, <3>1, HalvingEnds
    <3> QED
      BY <1>7, <1>8, <3>2
  <2>3. \A i \in 1 .. mode' - 1 : left[i] # Low
    BY <1>2, <1>6, <2>1, <2>2
  <2>4. Ends' /\ \A i : Closed(i)' = Closed(i)
    BY <1>1, <1>6, <2>1 DEF Ends, Closed
  <2> QED
    BY <1>1, <1>6, <2>1, <2>3, <2>4 DEF BracketsClosed
<1>10. CASE ~Halved
  <2>1. /\ right' = RightAfter(x) /\ left' = LeftAfter(x) /\ UNCHANGED <<pc, mode>>
        /\ IF z < mode THEN hi' = x /\ lo' = lo ELSE lo' = x /\ hi' = hi
        /\ steps' = steps + 1
    BY <1>10, Counts DEF Split
  <2>2. left[mode] = Low /\ steps < Steps /\ lo + 2 < hi
    BY <1>2, <1>8, <1>10, ModesAssumption DEF Halved
  <2>3. /\ x \in Int /\ x % 2 = 0 /\ lo < x /\ x < hi
    <3>1. x \in Int /\ x % 2 = 0 /\ lo <= x /\ x < hi /\ (lo = x => hi = lo + 2)
      BY <1>7, ProbeFacts
    <3> HIDE DEF x
    <3> QED
      BY <1>7, <2>2, <3>1
  <2>4. Zeros(x) = z
    BY Counts
  <2>5. Narrowing'
    <3>1. Probe(lo, hi) # lo
      <4> HIDE DEF x
      <4>1. x # lo
        BY <2>3, <1>7
      <4> QED
        BY <4>1 DEF x
    <3> QED
      BY <1>2, <1>6, <2>1, <2>2, <3>1, HalvingNarrows
  <2>6. Low < x /\ x <= High
    <3> HIDE DEF x
    <3> QED
      BY <1>7, <2>3
  <2>7. z <= I
    <3> HIDE DEF x
    <3>1. ~(ZerosOf(at, Low) < ZerosOf(at, x))
      BY <1>2, <1>7, <2>3, <2>6, ZerosFacts
    <3> QED
      BY <1>3, <3>1
  <2> HIDE DEF x
  <2>8. ASSUME NEW i \in 1 .. I + 1
        PROVE  /\ left[i] \in Int /\ left[i] % 2 = 0 /\ Low <= left[i] /\ left[i] <= High
               /\ right[i] \in Int /\ right[i] % 2 = 0 /\ Low <= right[i] /\ right[i] <= High
    BY <1>6 DEF Ends
  <2>m. mode \in 1 .. I + 1 /\ mode \in Int
    BY <1>2, <1>3
  <2>c. \A i \in 1 .. I : left[i] # Low => ZerosOf(at, left[i]) = i /\ right[i + 1] <= left[i]
    BY <1>6 DEF Closed
  <2>9. CASE z < mode
    <3>1. left' = left /\ hi' = x /\ lo' = lo
      BY <2>1, <2>4, <2>9 DEF LeftAfter
    <3>2. right' = [right EXCEPT ![mode] = x]
      BY <2>1, <2>4, <2>9 DEF RightAfter
    <3>3. right' = [i \in 1 .. I + 1 |-> IF i = mode THEN x ELSE right[i]]
      BY <1>2, <3>2
    <3>4. \A i \in 1 .. I + 1 : right'[i] = IF i = mode THEN x ELSE right[i]
      BY <3>3
    <3>5. Ends'
      <4>1. ASSUME NEW i \in 1 .. I + 1
            PROVE  /\ left'[i] \in Int /\ left'[i] % 2 = 0 /\ Low <= left'[i] /\ left'[i] <= High
                   /\ right'[i] \in Int /\ right'[i] % 2 = 0 /\ Low <= right'[i] /\ right'[i] <= High
        <5>1. left'[i] \in {x, left[i]} /\ right'[i] \in {x, right[i]}
          BY <3>1, <3>4
        <5>2. x \in Int /\ x % 2 = 0 /\ Low <= x /\ x <= High
          BY <2>3, <2>6, <1>7
        <5> QED
          BY <2>8, <5>1, <5>2
      <4> QED
        BY <1>1, <4>1 DEF Ends, Low
    <3>6. ASSUME NEW i \in 1 .. I, left'[i] # Low
          PROVE  ZerosOf(at, left'[i]) = i /\ right'[i + 1] <= left'[i]
      <4>1. i + 1 \in 1 .. I + 1 /\ i \in 1 .. I + 1
        BY <1>3
      <4>2. left'[i] = left[i] /\ ZerosOf(at, left[i]) = i /\ right[i + 1] <= left[i]
        BY <2>c, <3>1, <3>6
      <4>3. right'[i + 1] = IF i + 1 = mode THEN x ELSE right[i + 1]
        BY <3>4, <4>1
      <4>4. right'[i + 1] <= right[i + 1]
        <5>1. CASE i + 1 = mode
          <6>1. right'[i + 1] = x /\ right[i + 1] = hi
            BY <1>6, <4>3, <5>1
          <6> QED
            BY <1>7, <2>3, <6>1
        <5>2. CASE i + 1 # mode
          <6>1. right'[i + 1] = right[i + 1] /\ right[i + 1] \in Int
            BY <2>8, <4>1, <4>3, <5>2
          <6> QED
            BY <6>1
        <5> QED
          BY <5>1, <5>2
      <4>5. right[i + 1] \in Int /\ left[i] \in Int /\ right'[i + 1] \in Int
        BY <2>3, <2>8, <4>1, <4>3
      <4> QED
        BY <4>2, <4>4, <4>5
    <3>7. hi' = right'[mode]
      BY <2>m, <3>1, <3>4
    <3>8. \A i \in 1 .. I : left'[i] # Low => Closed(i)'
      BY <1>1, <3>6 DEF Closed
    <3> QED
      BY <1>1, <1>6, <2>1, <2>5, <3>1, <3>5, <3>7, <3>8 DEF BracketsClosed, Isolating
  <2>10. CASE ~(z < mode)
    <3>z. z \in 1 .. I /\ z \in 1 .. I + 1 /\ z + 1 \in 1 .. I + 1 /\ z >= mode /\ z + 1 # mode
      <4> HIDE DEF z
      <4> QED
        BY <1>2, <1>3, <2>7, <2>10
    <3>1. /\ left' = [left EXCEPT ![z] = IF @ <= x THEN x ELSE @] /\ hi' = hi /\ lo' = x
          /\ right' = [right EXCEPT ![z + 1] = IF @ >= x THEN x ELSE @]
      BY <2>1, <2>4, <2>10 DEF LeftAfter, RightAfter
    <3>2. \A i \in 1 .. I + 1 : left'[i] = IF i = z /\ left[i] <= x THEN x ELSE left[i]
      BY <1>2, <3>1
    <3>3. \A i \in 1 .. I + 1 : right'[i] = IF i = z + 1 /\ right[i] >= x THEN x ELSE right[i]
      BY <1>2, <3>1
    <3>5. Ends'
      <4>1. ASSUME NEW i \in 1 .. I + 1
            PROVE  /\ left'[i] \in Int /\ left'[i] % 2 = 0 /\ Low <= left'[i] /\ left'[i] <= High
                   /\ right'[i] \in Int /\ right'[i] % 2 = 0 /\ Low <= right'[i] /\ right'[i] <= High
        <5>1. left'[i] \in {x, left[i]} /\ right'[i] \in {x, right[i]}
          BY <3>2, <3>3
        <5>2. x \in Int /\ x % 2 = 0 /\ Low <= x /\ x <= High
          BY <2>3, <2>6, <1>7
        <5> QED
          BY <2>8, <5>1, <5>2
      <4> QED
        BY <1>1, <4>1 DEF Ends, Low
    <3>6. ASSUME NEW i \in 1 .. I, left'[i] # Low
          PROVE  ZerosOf(at, left'[i]) = i /\ right'[i + 1] <= left'[i]
      <4>1. i + 1 \in 1 .. I + 1 /\ i \in 1 .. I + 1 /\ i \in Int
        BY <1>3
      <4>2. /\ left[i] \in Int /\ right[i + 1] \in Int /\ x \in Int
            /\ right'[i + 1] = IF i = z /\ right[i + 1] >= x THEN x ELSE right[i + 1]
            /\ left'[i] = IF i = z /\ left[i] <= x THEN x ELSE left[i]
        <5>1. i + 1 = z + 1 <=> i = z
          BY <1>3, <4>1
        <5> QED
          BY <2>3, <2>8, <3>2, <3>3, <4>1, <5>1
      <4>3. right'[i + 1] <= right[i + 1] /\ right'[i + 1] \in Int
        BY <4>2
      <4>4. CASE i = z /\ left[i] <= x
        <5>1. left'[i] = x /\ ZerosOf(at, left'[i]) = i
          BY <4>2, <4>4
        <5>2. right'[i + 1] <= x
          BY <4>2, <4>4
        <5> QED
          BY <5>1, <5>2
      <4>5. CASE ~(i = z /\ left[i] <= x)
        <5>1. left'[i] = left[i]
          BY <4>2, <4>5
        <5>2. ZerosOf(at, left[i]) = i /\ right[i + 1] <= left[i]
          BY <2>c, <3>6, <5>1
        <5> QED
          BY <4>2, <4>3, <5>1, <5>2
      <4> QED
        BY <4>4, <4>5
    <3>7. hi' = right'[mode]
      BY <1>6, <2>m, <3>1, <3>3, <3>z
    <3>8. \A i \in 1 .. I : left'[i] # Low => Closed(i)'
      BY <1>1, <3>6 DEF Closed
    <3>9. \A i \in 1 .. mode - 1 : left'[i] # Low
      <4> TAKE i \in 1 .. mode - 1
      <4>1. i \in 1 .. I + 1 /\ i # z
        BY <1>2, <1>3, <3>z
      <4> QED
        BY <1>6, <3>2, <4>1
    <3>10. left'[mode] = Low => ZerosOf(at, lo') > mode
      <4>1. left'[mode] = IF mode = z /\ left[mode] <= x THEN x ELSE left[mode]
        BY <2>m, <3>2
      <4>2. left[mode] <= x
        BY <2>2, <2>3, <2>6, <1>7
      <4>3. x # Low
        BY <2>3, <2>6, <1>7
      <4>4. left'[mode] = Low => z # mode
        BY <4>1, <4>2, <4>3
      <4>5. ZerosOf(at, lo') = z
        BY <3>1
      <4> HIDE DEF z
      <4> QED
        BY <1>2, <1>3, <3>z, <4>4, <4>5
    <3> QED
      BY <1>1, <2>1, <2>5, <3>5, <3>7, <3>8, <3>9, <3>10 DEF BracketsClosed, Isolating
  <2> QED
    BY <2>9, <2>10
<1> QED
  BY <1>9, <1>10

(* With a closed end for each, every bracket has one root, and ZBRENTX     *)
(* finds no other and none again.                                          *)
LEMMA SpectrumBrent ==
  ASSUME SolveInv, SpectrumInv, Brent
  PROVE  SpectrumInv'
<1> DEFINE I == InsideOf(at)
           found == Between(left[mode], right[mode])
           m == CountOf(at, High) + mode
<1>1. pc = "brent" /\ mode <= I
  BY Counts DEF Brent
<1>2. /\ at \in Spectra /\ Brackets /\ mode \in 1 .. I /\ mode \in Nat /\ I \in Int
      /\ \A i \in 1 .. I : ZerosOf(at, right[i]) < i /\ i <= ZerosOf(at, left[i])
      /\ ZerosOf(at, Low) = I
  <2>1. mode \in Nat /\ mode >= 1 /\ I \in Int
    BY <1>1, ZerosBounds DEF SolveInv, Positions, Types, Searching
  <2>2. mode \in 1 .. I
    BY <1>1, <2>1
  <2> QED
    BY <1>1, <2>1, <2>2, ZerosBounds
      DEF SpectrumInv, Stages, SolveInv, EachBracketed, InsideOf
<1>3. CASE pc' = "done"
  <2>1. UNCHANGED at
    BY <1>1, <1>3 DEF Brent, Fail
  <2> QED
    BY <1>2, <1>3, <2>1, SpectrumIdle
<1>4. CASE pc' # "done"
  <2>1. /\ UNCHANGED <<method, mesh, pc, at, left, right>> /\ mode' = mode + 1
        /\ \/ Cardinality(found) % 2 = 1 /\ \E n \in found : Push(n, at[n])
           \/ Cardinality(found) % 2 = 0
    BY <1>4 DEF Brent, Fail, setting
  <2>2. Brackets' /\ Distinct' = Distinct /\ Ends' = Ends /\ \A i : Closed(i)' = Closed(i)
    BY <1>2, <2>1 DEF Brackets, Distinct, Ends, Closed
  <2>3. BracketsClosed'
    BY <1>1, <2>1, <2>2 DEF SpectrumInv, BracketsClosed, Isolating
  <2>4. SUFFICES ASSUME Distinct PROVE roots' = Found(at, mode' - 1)
    BY <1>1, <1>2, <2>1, <2>2, <2>3 DEF SpectrumInv, Stages, Complete, Isolating
  <2>5. /\ Ends /\ roots = Found(at, mode - 1)
        /\ \A i \in 1 .. I : left[i] # Low => Closed(i)
        /\ \A i \in 1 .. I - 1 : left[i] # Low
    BY <1>1, <2>4 DEF SpectrumInv, BracketsClosed, Complete
  <2>6. /\ left[mode] \in Int /\ right[mode] \in Int /\ left[mode] % 2 = 0 /\ right[mode] % 2 = 0
    <3>1. mode \in 1 .. I + 1
      BY <1>2
    <3> QED
      BY <2>5, <3>1 DEF Ends
  <2>7. ZerosOf(at, left[mode]) = mode
    <3>1. CASE left[mode] # Low
      BY <1>2, <2>5, <3>1 DEF Closed
    <3>2. CASE left[mode] = Low
      <4>1. mode = I
        <5>1. ~(mode \in 1 .. I - 1)
          BY <2>5, <3>2
        <5> QED
          BY <1>2, <5>1
      <4> QED
        BY <1>2, <3>2, <4>1
    <3> QED
      BY <3>1, <3>2
  <2>8. ZerosOf(at, right[mode]) = mode - 1
    <3>1. ZerosOf(at, right[mode]) \in Int /\ ZerosOf(at, right[mode]) < mode
      BY <1>2, ZerosBounds
    <3>2. CASE mode = 1
      <4>1. mode \in 1 .. I + 1
        BY <1>2
      <4>2. right[mode] <= High /\ High \in Int
        BY <2>5, <4>1, ModesAssumption DEF Ends
      <4>3. ~(ZerosOf(at, right[mode]) < ZerosOf(at, High))
        BY <1>2, <2>6, <4>2, ZerosFacts
      <4>4. ZerosOf(at, High) = 0
        BY ZerosBounds
      <4> QED
        BY <3>1, <3>2, <4>3, <4>4
    <3>3. CASE mode # 1
      <4>1. mode - 1 \in 1 .. I - 1 /\ mode - 1 \in 1 .. I /\ (mode - 1) + 1 = mode /\ mode - 1 \in 1 .. I + 1
        BY <1>2, <3>3
      <4>2. Closed(mode - 1) /\ left[mode - 1] \in Int
        BY <2>5, <4>1 DEF Ends
      <4>3. ZerosOf(at, left[mode - 1]) = mode - 1 /\ right[mode] <= left[mode - 1]
        BY <4>1, <4>2 DEF Closed
      <4>4. ~(ZerosOf(at, right[mode]) < ZerosOf(at, left[mode - 1]))
        BY <1>2, <2>6, <4>2, <4>3, ZerosFacts
      <4> QED
        BY <1>2, <3>1, <4>3, <4>4
    <3> QED
      BY <3>2, <3>3
  <2>9. m \in Modes /\ found = {m}
    <3>1. /\ CountOf(at, High) \in 0 .. N /\ CountOf(at, left[mode]) \in 0 .. N
          /\ CountOf(at, right[mode]) \in 0 .. N /\ N \in Nat /\ Modes = 1 .. N
      BY CountBounds, ModesAssumption DEF Modes
    <3>2. CountOf(at, left[mode]) = m /\ CountOf(at, right[mode]) = m - 1
      BY <1>2, <2>7, <2>8, <3>1 DEF ZerosOf
    <3>3. \A i \in Modes : at[i] > left[mode] <=> i <= m
      BY <1>2, <2>6, <3>2, CountMeaning
    <3>4. \A i \in Modes : at[i] > right[mode] <=> i <= m - 1
      BY <1>2, <2>6, <3>2, CountMeaning
    <3>5. \A i \in Modes : at[i] \in Int /\ at[i] # right[mode]
      BY <1>2, <2>6, SpectraFacts
    <3>6. m \in Modes
      BY <1>2, <3>1, <3>2
    <3> HIDE DEF m
    <3>7. m \in Int
      BY <3>1, <3>6
    <3>8. ASSUME NEW i \in Modes PROVE left[mode] < at[i] /\ at[i] < right[mode] <=> i = m
      <4>1. i \in Int
        BY <3>1
      <4>2. at[i] > left[mode] <=> i <= m
        BY <3>3
      <4>3. at[i] > right[mode] <=> i <= m - 1
        BY <3>4
      <4>4. at[i] \in Int /\ at[i] # right[mode]
        BY <3>5
      <4> QED
        BY <2>6, <3>7, <4>1, <4>2, <4>3, <4>4
    <3> QED
      BY <3>6, <3>8 DEF Between
  <2>10. Cardinality(found) = 1
    <3> HIDE DEF found, m
    <3> QED
      BY <2>9, FS_Singleton
  <2>11. Push(m, at[m])
    <3>1. 1 % 2 = 1
      OBVIOUS
    <3> HIDE DEF found, m
    <3>2. Cardinality(found) % 2 # 0
      BY <2>10, <3>1
    <3> QED
      BY <2>1, <2>9, <3>2
  <2>12. mode - 1 \in Nat /\ (mode - 1) + 1 = mode /\ mode' - 1 = mode
    BY <1>2, <2>1
  <2>13. Append(Found(at, mode - 1), [mode |-> m, at |-> at[m]]) = Found(at, mode)
    BY <2>12, FoundNext
  <2> QED
    BY <2>5, <2>11, <2>12, <2>13 DEF Push
<1> QED
  BY <1>3, <1>4

(* The roots of a finished search are all the roots there are.             *)
LEMMA SpectrumFound ==
  ASSUME SolveInv, SpectrumInv, Bisected \/ Bracketed
  PROVE  SpectrumInv'
<1>1. /\ pc \in {"bisect", "brent"} /\ pc' = "accept" /\ mode > InsideOf(at)
      /\ UNCHANGED <<method, mesh, at, roots>>
      /\ Bisected => pc = "bisect"
      /\ Bracketed => pc = "brent"
  BY Counts DEF Bisected, Bracketed, setting
<1>2. mode - 1 = InsideOf(at)
  <2>1. mode \in Nat /\ mode <= InsideOf(at) + 1 /\ InsideOf(at) \in Int
    BY <1>1, ZerosBounds DEF SolveInv, Positions, Types
  <2> QED
    BY <1>1, <2>1
<1>3. Distinct' = Distinct /\ Bisects' = Bisects /\ Brackets' = Brackets
  BY <1>1 DEF Distinct, Bisects, Brackets
<1>4. ~(Bisects /\ Brackets)
  BY DEF Bisects, Brackets
<1>5. Bisects \/ (Brackets /\ Distinct) => roots = Found(at, InsideOf(at))
  BY <1>1, <1>2, <1>4 DEF SpectrumInv, Stages, Complete
<1> QED
  BY <1>1, <1>3, <1>5 DEF SpectrumInv, Stages, BracketsClosed, Complete, Isolating

LEMMA SpectrumStep == SolveInv /\ SpectrumInv /\ [Next]_vars => SpectrumInv'
<1> SUFFICES ASSUME SolveInv, SpectrumInv, [Next]_vars
             PROVE  SpectrumInv'
  OBVIOUS
<1>0. at \in Spectra
  BY DEF SpectrumInv
<1>1. ASSUME NEW code, Fail(code)
      PROVE  SpectrumInv'
  <2>1. pc' = "done" /\ UNCHANGED at
    BY <1>1 DEF Fail
  <2> QED
    BY <1>0, <2>1, SpectrumIdle
<1>2. CASE StartBisection \/ StartBrackets \/ StartSecants
  BY <1>2, SpectrumStart
<1>3. CASE NoModes \/ ListFull \/ NothingKept \/ Gained \/ Unsettled \/ Refuse
  BY <1>1, <1>3 DEF NoModes, ListFull, NothingKept, Gained, Unsettled, Refuse
<1>4. CASE Bisect
  BY <1>4, SpectrumBisect
<1>5. CASE Isolate
  BY <1>5, SpectrumIsolate
<1>6. CASE Split
  BY <1>6, SpectrumSplit
<1>7. CASE Isolated
  <2>1. /\ pc = "isolate" /\ pc' = "brent" /\ mode' = 1 /\ mode = InsideOf(at)
        /\ UNCHANGED <<method, mesh, at, left, right, roots>> /\ roots = <<>>
    BY <1>7, Counts DEF Isolated, setting, SolveInv, Positions, Isolating
  <2>2. Ends' = Ends /\ (\A i : Closed(i)' = Closed(i)) /\ Distinct' = Distinct /\ Brackets' = Brackets
    BY <2>1 DEF Ends, Closed, Distinct, Brackets
  <2>3. mode' - 1 = 0
    BY <2>1
  <2>4. roots' = Found(at, mode' - 1)
    <3>1. Found(at, 0) = <<>>
      BY DEF Found
    <3> QED
      BY <2>1, <2>3, <3>1
  <2> QED
    BY <2>1, <2>2, <2>4 DEF SpectrumInv, Stages, BracketsClosed, Complete, Isolating
<1>8. CASE Brent
  BY <1>8, SpectrumBrent
<1>9. CASE Bisected \/ Bracketed
  BY <1>9, SpectrumFound
<1>10. CASE Secant \/ LeaveBelow \/ SecantsSpent
  <2>1. pc = "secant" /\ ~Bisects /\ ~Brackets
    BY <1>10 DEF Secant, LeaveBelow, SecantsSpent, SpectrumInv, Stages
  <2>2. ASSUME UNCHANGED <<method, mesh, at>>, pc' \in {"secant", "accept"} PROVE SpectrumInv'
    <3>1. ~Bisects' /\ ~Brackets'
      BY <2>1, <2>2 DEF Bisects, Brackets
    <3> QED
      BY <1>0, <2>2, <3>1 DEF SpectrumInv, Stages, BracketsClosed, Complete, Isolating
  <2>3. \/ UNCHANGED <<method, mesh, at>> /\ pc' \in {"secant", "accept"}
        \/ Fail("KR0303")
    BY <1>10, <2>1 DEF Secant, LeaveBelow, SecantsSpent, setting
  <2> QED
    BY <1>1, <2>2, <2>3
<1>11. CASE Accept
  <2>1. at' \in Spectra /\ pc' \in {"done", "mesh"}
    BY <1>0, <1>11 DEF Accept, Answer, NextMesh
  <2> QED
    BY <2>1, SpectrumIdle
<1>12. CASE Over \/ UNCHANGED vars
  <2>1. UNCHANGED vars
    BY <1>12 DEF Over
  <2>2. /\ UNCHANGED <<method, mesh, pc, at, left, right, mode, lo, hi, steps, roots>>
    BY <2>1 DEF vars, search, setting
  <2>3. /\ Ends' = Ends /\ (\A i : Closed(i)' = Closed(i)) /\ Distinct' = Distinct
        /\ Brackets' = Brackets /\ Bisects' = Bisects /\ Narrowing' = Narrowing
    BY <2>2 DEF Ends, Closed, Distinct, Brackets, Bisects, Narrowing
  <2> QED
    BY <2>2, <2>3 DEF SpectrumInv, Stages, BracketsClosed, Complete
<1> QED
  BY <1>2, <1>3, <1>4, <1>5, <1>6, <1>7, <1>8, <1>9, <1>10, <1>11, <1>12 DEF Next

(* A search with Sturm counts returns every eigenvalue inside the spectral *)
(* limits, once and from above: bisection always, brackets when the        *)
(* eigenvalues differ (modes.rs, roots and bracketed_roots).               *)
THEOREM NoRootMissed == Spec => []WholeSpectrum
<1>1. SpectrumInv => WholeSpectrum
  <2> SUFFICES ASSUME SpectrumInv, pc = "accept", Bisects \/ (Brackets /\ Distinct)
               PROVE  roots = [i \in 1 .. Inside |-> [mode |-> Above + i, at |-> at[Above + i]]]
    BY DEF WholeSpectrum
  <2>1. roots = Found(at, InsideOf(at))
    BY DEF SpectrumInv, Complete
  <2>2. Inside = InsideOf(at) /\ Above = CountOf(at, High)
    BY Counts DEF Above, Count, CountOf
  <2> QED
    BY <2>1, <2>2 DEF Found
<1> QED
  BY InitInv, NextInv, SpectrumInit, SpectrumStep, <1>1, PTL DEF Spec

-----------------------------------------------------------------------------
(* Rows, columns and shapes.                                               *)

(* A list of n members.                                                    *)
Lists(s, n) == s = [i \in 1 .. n |-> s[i]]

Widths ==
  /\ Lists(shapes, Len(shapes)) /\ Lists(table, Len(table)) /\ Lists(columns, Len(table))
  /\ \A r \in 1 .. Len(table) :
       Lists(table[r], Len(shapes)) /\ Lists(columns[r], Len(shapes))

(* With nothing across the upper limit, the i-th column is of the i-th     *)
(* eigenvalue inside, on every mesh.                                       *)
OneModeEach ==
  method = "fluid" /\ ~exited =>
    /\ \A i \in 1 .. Len(shapes) : shapes[i] = CountOf(at, High) + i
    /\ \A r \in 1 .. Len(table) : columns[r] = shapes

AlignedInv == Widths /\ OneModeEach

(* Induction over the naturals: a set that has 0 and with every number its  *)
(* successor has them all.                                                 *)
LEMMA SetInduction ==
  ASSUME NEW S, 0 \in S, \A n \in Nat : n \in S => n + 1 \in S
  PROVE  Nat \subseteq S
<1> SUFFICES ASSUME Nat \ S # {} PROVE FALSE
  OBVIOUS
<1>1. PICK x \in Nat \ S : \A y \in Nat \ S : ~(<<y, x>> \in OpToRel(<, Nat))
  BY NatLessThanWellFounded, WFMin
<1>2. x \in Nat /\ x # 0
  BY <1>1
<1>3. x - 1 \in Nat /\ x - 1 < x /\ (x - 1) + 1 = x
  BY <1>2
<1>4. <<x - 1, x>> \in OpToRel(<, Nat)
  BY <1>2, <1>3 DEF OpToRel
<1>5. x - 1 \in S
  BY <1>1, <1>3, <1>4
<1>6. (x - 1) + 1 \in S
  BY <1>3, <1>5
<1> QED
  BY <1>1, <1>3, <1>6

LEMMA ListFacts ==
  ASSUME NEW s, NEW n \in Nat, Lists(s, n)
  PROVE  DOMAIN s = 1 .. n /\ Len(s) = n
<1>1. DOMAIN [i \in 1 .. n |-> s[i]] = 1 .. n /\ Len([i \in 1 .. n |-> s[i]]) = n
  OBVIOUS
<1> QED
  BY <1>1 DEF Lists

LEMMA TakeList ==
  ASSUME NEW s, NEW m \in Nat, NEW n \in Nat, Lists(s, m), n <= m
  PROVE  Lists(Take(s, n), n) /\ \A i \in 1 .. n : Take(s, n)[i] = s[i]
<1> DEFINE S == {s[i] : i \in 1 .. m}
<1>1. Len(s) = m
  BY ListFacts
<1>2. Take(s, n) = SubSeq(s, 1, n)
  BY <1>1 DEF Take
<1>3. \A i \in 1 .. n : s[i] \in S
  OBVIOUS
<1> HIDE DEF S
<1>4. /\ SubSeq(s, 1, n) \in Seq(S)
      /\ Len(SubSeq(s, 1, n)) = IF 1 <= n THEN n - 1 + 1 ELSE 0
      /\ \A i \in 1 .. n - 1 + 1 : SubSeq(s, 1, n)[i] = s[1 + i - 1]
  BY <1>3, SubSeqProperties
<1>5. Len(SubSeq(s, 1, n)) = n
  BY <1>4
<1>6. SubSeq(s, 1, n) \in [1 .. n -> S]
  BY <1>4, <1>5, LenProperties
<1>7. \A i \in 1 .. n : SubSeq(s, 1, n)[i] = s[i]
  <2> TAKE i \in 1 .. n
  <2>1. i \in 1 .. n - 1 + 1 /\ 1 + i - 1 = i
    OBVIOUS
  <2> QED
    BY <1>4, <2>1
<1> QED
  BY <1>2, <1>6, <1>7 DEF Lists

(* The recursion of the Richardson table is well founded, from the newest  *)
(* row up: it has a solution, and that has a row for each row it was given, *)
(* as long as that one.                                                    *)
LEMMA RichardsonRows ==
  ASSUME NEW rows, NEW n \in Nat \ {0}, Lists(rows, n),
         \A r \in 1 .. n : rows[r] = [i \in DOMAIN rows[r] |-> rows[r][i]]
  PROVE  /\ Lists(Richardson(rows), n)
         /\ \A r \in 1 .. n : Richardson(rows)[r] = [i \in DOMAIN rows[r] |-> Richardson(rows)[r][i]]
<1> DEFINE Row(f, j) ==
             IF j = n THEN rows[n]
             ELSE [i \in DOMAIN rows[j] |->
                    IF i \in DOMAIN f[j + 1]
                      THEN Extrapolated(rows[j][i], f[j + 1][i], 4 ^ (n - j) - 1)
                      ELSE rows[j][i]]
           Solves(f, k) == f = [j \in n - k .. n |-> Row(f, j)]
           S == {k \in Nat : k < n => \E f : Solves(f, k)}
<1>0. Len(rows) = n
  BY ListFacts
<1>1. 0 \in S
  <2> DEFINE f == [j \in n .. n |-> rows[n]]
  <2>1. \A j \in n - 0 .. n : j = n
    OBVIOUS
  <2>2. Solves(f, 0)
    BY <2>1
  <2> QED
    BY <2>2
<1>2. ASSUME NEW k \in Nat, k \in S PROVE k + 1 \in S
  <2> SUFFICES ASSUME k + 1 < n PROVE \E f : Solves(f, k + 1)
    OBVIOUS
  <2>1. PICK f : Solves(f, k)
    <3>1. k < n
      OBVIOUS
    <3> HIDE DEF Solves
    <3> QED
      BY <1>2, <3>1
  <2> DEFINE top == n - (k + 1)
             g == [j \in top .. n |-> IF j = top THEN Row(f, j) ELSE f[j]]
  <2>2. /\ top \in Int /\ top >= 1 /\ top < n /\ n - k = top + 1
        /\ \A j \in top .. n : j = top \/ j \in n - k .. n
    OBVIOUS
  <2>3. \A j \in n - k .. n : f[j] = Row(f, j)
    BY <2>1
  <2> HIDE DEF top, Row
  <2>4. \A j \in top .. n : j # n => j + 1 \in n - k .. n /\ j + 1 \in top .. n /\ j + 1 # top
    BY <2>2
  <2>5. \A j \in top .. n : j # n => g[j + 1] = f[j + 1]
    BY <2>4
  <2>6. \A j \in top .. n : Row(g, j) = Row(f, j)
    <3> TAKE j \in top .. n
    <3> HIDE DEF g
    <3>1. CASE j = n
      BY <3>1 DEF Row
    <3>2. CASE j # n
      <4>1. g[j + 1] = f[j + 1]
        BY <2>5, <3>2
      <4> QED
        BY <3>2, <4>1 DEF Row
    <3> QED
      BY <3>1, <3>2
  <2>7. \A j \in top .. n : g[j] = Row(f, j)
    BY <2>2, <2>3
  <2>8. g = [j \in top .. n |-> Row(g, j)]
    <3>1. g = [j \in top .. n |-> g[j]]
      OBVIOUS
    <3> HIDE DEF g
    <3> QED
      BY <2>6, <2>7, <3>1
  <2> HIDE DEF g
  <2>9. Solves(g, k + 1)
    BY <2>8 DEF top
  <2> QED
    BY <2>9
<1>3. n - 1 \in S
  <2>1. Nat \subseteq S
    <3> HIDE DEF S
    <3> QED
      BY <1>1, <1>2, SetInduction
  <2>2. n - 1 \in Nat
    OBVIOUS
  <2> QED
    BY <2>1, <2>2
<1>4. \E f : f = [j \in 1 .. n |-> Row(f, j)]
  <2>1. n - 1 < n /\ n - (n - 1) = 1
    OBVIOUS
  <2>2. PICK f : Solves(f, n - 1)
    <3> HIDE DEF Solves
    <3> QED
      BY <1>3, <2>1
  <2>3. f = [j \in 1 .. n |-> Row(f, j)]
    <3> HIDE DEF Row
    <3> QED
      BY <2>1, <2>2
  <2> QED
    BY <2>3
<1> DEFINE new == Richardson(rows)
<1>5. new = [j \in 1 .. n |-> Row(new, j)]
  <2>1. new = CHOOSE f : f = [j \in 1 .. n |-> Row(f, j)]
    BY <1>0 DEF Richardson
  <2> HIDE DEF new, Row
  <2> QED
    BY <1>4, <2>1
<1>6. \A r \in 1 .. n : new[r] = [i \in DOMAIN rows[r] |-> new[r][i]]
  <2> TAKE r \in 1 .. n
  <2>1. new[r] = Row(new, r)
    <3> HIDE DEF new, Row
    <3> QED
      BY <1>5
  <2>2. CASE r = n
    BY <2>1, <2>2
  <2>3. CASE r # n
    <3> DEFINE e(i) == IF i \in DOMAIN new[r + 1]
                         THEN Extrapolated(rows[r][i], new[r + 1][i], 4 ^ (n - r) - 1)
                         ELSE rows[r][i]
    <3>1. new[r] = [i \in DOMAIN rows[r] |-> e(i)]
      BY <2>1, <2>3
    <3> HIDE DEF e, new
    <3> QED
      BY <3>1
  <2> QED
    BY <2>2, <2>3
<1>7. Lists(new, n)
  <2> HIDE DEF new, Row
  <2> QED
    BY <1>5 DEF Lists
<1> QED
  BY <1>6, <1>7

LEMMA AlignedInit == Init => AlignedInv
BY DEF Init, AlignedInv, Widths, OneModeEach, Lists

LEMMA AlignedKept ==
  ASSUME AlignedInv, UNCHANGED <<method, at, history>>
  PROVE  AlignedInv'
BY DEF AlignedInv, Widths, OneModeEach, Lists, history

LEMMA AlignedFail ==
  ASSUME NEW code, Fail(code)
  PROVE  AlignedInv'
BY DEF Fail, AlignedInv, Widths, OneModeEach, Lists

(* The table of a finer mesh: all rows as long as what this mesh keeps.    *)
LEMMA AlignedAccept ==
  ASSUME SpectrumInv, AlignedInv, Accept
  PROVE  AlignedInv'
<1> DEFINE kept == Kept
           n == Len(kept)
           rows == [r \in DOMAIN table |-> Shortened(table[r], n)]
           ids == [i \in 1 .. n |-> kept[i].mode]
           row == [i \in 1 .. n |-> kept[i].at]
           taken == [r \in DOMAIN columns |-> Take(columns[r], n)]
           L == Len(table)
           W == Len(shapes)
<1>1. /\ pc = "accept" /\ UNCHANGED method
      /\ table = <<>> \/ n <= W
      /\ shapes' = IF table = <<>> THEN ids ELSE Take(shapes, n)
      /\ columns' = Append(taken, ids)
      /\ table' = Richardson(Append(rows, row))
      /\ Answer \/ NextMesh
  BY DEF Accept, setting
<1>2. n \in Nat /\ L \in Nat /\ W \in Nat
  OBVIOUS
<1> HIDE DEF kept, n, L, W
<1>3. /\ Lists(shapes, W) /\ Lists(table, L) /\ Lists(columns, L)
      /\ \A r \in 1 .. L : Lists(table[r], W) /\ Lists(columns[r], W)
  BY DEF AlignedInv, Widths, L, W
<1>4. DOMAIN table = 1 .. L /\ DOMAIN columns = 1 .. L
  BY <1>2, <1>3, ListFacts
<1>5. L # 0 => n <= W
  <2>1. table = <<>> => L = 0
    BY DEF L
  <2> QED
    BY <1>1, <2>1
<1>6. ASSUME NEW r \in 1 .. L
      PROVE  /\ Lists(rows[r], n) /\ Lists(taken[r], n)
             /\ \A i \in 1 .. n : taken[r][i] = columns[r][i]
  <2>1. n <= W
    BY <1>2, <1>5
  <2>2. Lists(table[r], W) /\ Lists(columns[r], W)
    BY <1>3
  <2>3. rows[r] = Take(table[r], n) /\ taken[r] = Take(columns[r], n)
    BY <1>4 DEF Shortened
  <2>4. Lists(Take(table[r], n), n)
    BY <1>2, <2>1, <2>2, TakeList
  <2>5. Lists(Take(columns[r], n), n) /\ \A i \in 1 .. n : Take(columns[r], n)[i] = columns[r][i]
    BY <1>2, <2>1, <2>2, TakeList
  <2> HIDE DEF rows, taken
  <2> QED
    BY <2>3, <2>4, <2>5
<1>7. rows = [r \in 1 .. L |-> rows[r]] /\ taken = [r \in 1 .. L |-> taken[r]]
  BY <1>4
<1>8. /\ Lists(ids, n) /\ Lists(row, n)
  BY DEF Lists
<1> HIDE DEF ids, row, rows, taken
<1>9. ASSUME NEW s, NEW x, s = [r \in 1 .. L |-> s[r]]
      PROVE  /\ Lists(Append(s, x), L + 1)
             /\ \A r \in 1 .. L : Append(s, x)[r] = s[r]
             /\ Append(s, x)[L + 1] = x
  <2>1. Append([r \in 1 .. L |-> s[r]], x) = [r \in 1 .. L + 1 |-> IF r = L + 1 THEN x ELSE s[r]]
    BY <1>2
  <2>2. \A r \in 1 .. L : r \in 1 .. L + 1 /\ r # L + 1
    BY <1>2
  <2>3. L + 1 \in 1 .. L + 1
    BY <1>2
  <2>4. Append(s, x) = [r \in 1 .. L + 1 |-> IF r = L + 1 THEN x ELSE s[r]]
    BY <1>9, <2>1
  <2> QED
    BY <2>2, <2>3, <2>4 DEF Lists
<1>10. /\ Lists(Append(rows, row), L + 1)
       /\ \A r \in 1 .. L + 1 : Lists(Append(rows, row)[r], n)
  <2>1. \A r \in 1 .. L + 1 : r \in 1 .. L \/ r = L + 1
    BY <1>2
  <2>2. /\ Lists(Append(rows, row), L + 1)
        /\ \A r \in 1 .. L : Append(rows, row)[r] = rows[r]
        /\ Append(rows, row)[L + 1] = row
    BY <1>7, <1>9
  <2> QED
    BY <1>6, <1>8, <2>1, <2>2
<1>11. /\ Lists(columns', L + 1)
       /\ \A r \in 1 .. L : columns'[r] = taken[r]
       /\ columns'[L + 1] = ids
       /\ \A r \in 1 .. L + 1 : Lists(columns'[r], n)
  <2>1. \A r \in 1 .. L + 1 : r \in 1 .. L \/ r = L + 1
    BY <1>2
  <2>2. /\ Lists(columns', L + 1)
        /\ \A r \in 1 .. L : columns'[r] = taken[r]
        /\ columns'[L + 1] = ids
    <3>1. /\ Lists(Append(taken, ids), L + 1)
          /\ \A r \in 1 .. L : Append(taken, ids)[r] = taken[r]
          /\ Append(taken, ids)[L + 1] = ids
      BY <1>7, <1>9
    <3>2. columns' = Append(taken, ids)
      BY <1>1
    <3> QED
      BY <3>1, <3>2
  <2> QED
    BY <1>6, <1>8, <2>1, <2>2
<1>12. Lists(table', L + 1) /\ \A r \in 1 .. L + 1 : Lists(table'[r], n)
  <2> DEFINE all == Append(rows, row)
  <2>1. Lists(all, L + 1) /\ \A r \in 1 .. L + 1 : Lists(all[r], n)
    BY <1>10
  <2>2. table' = Richardson(all) /\ L + 1 \in Nat \ {0}
    BY <1>1, <1>2
  <2> HIDE DEF all
  <2>3. \A r \in 1 .. L + 1 : DOMAIN all[r] = 1 .. n
    BY <1>2, <2>1, ListFacts
  <2>4. \A r \in 1 .. L + 1 : all[r] = [i \in DOMAIN all[r] |-> all[r][i]]
    BY <2>1, <2>3 DEF Lists
  <2>5. /\ Lists(Richardson(all), L + 1)
        /\ \A r \in 1 .. L + 1 : Richardson(all)[r] = [i \in DOMAIN all[r] |-> Richardson(all)[r][i]]
    BY <2>1, <2>2, <2>4, RichardsonRows
  <2> QED
    BY <2>2, <2>3, <2>5 DEF Lists
<1>13. Len(table') = L + 1
  BY <1>2, <1>12, ListFacts
<1>14. Lists(shapes', n) /\ Len(shapes') = n
  <2>1. CASE table = <<>>
    BY <1>1, <1>2, <1>8, <2>1, ListFacts
  <2>2. CASE table # <<>>
    BY <1>1, <1>2, <1>3, <2>2, TakeList, ListFacts
  <2> QED
    BY <2>1, <2>2
<1>15. Widths'
  BY <1>11, <1>12, <1>13, <1>14 DEF Widths, Lists
<1>16. ASSUME method = "fluid", ~exited'
       PROVE  /\ \A i \in 1 .. n : shapes'[i] = CountOf(at', High) + i
              /\ \A r \in 1 .. L + 1 : columns'[r] = shapes'
  <2>1. ~exited /\ CountOf(at', High) = CountOf(at, High)
    <3>1. CASE Answer
      BY <1>16, <3>1 DEF Answer
    <3>2. CASE NextMesh
      <4>1. ~exited /\ \A i \in Modes : at[i] > High <=> at'[i] > High
        BY <1>16, <3>2 DEF NextMesh
      <4>2. {i \in Modes : at[i] > High} = {i \in Modes : at'[i] > High}
        BY <4>1
      <4> QED
        BY <4>1, <4>2 DEF CountOf
    <3> QED
      BY <1>1, <3>1, <3>2
  <2>2. /\ \A i \in 1 .. W : shapes[i] = CountOf(at, High) + i
        /\ \A r \in 1 .. L : columns[r] = shapes
    BY <1>16, <2>1 DEF AlignedInv, OneModeEach, L, W
  <2>3. \A i \in 1 .. n : ids[i] = CountOf(at, High) + i
    <3>1. kept = Found(at, InsideOf(at))
      BY <1>1, <1>16 DEF SpectrumInv, Complete, Bisects, kept, Kept
    <3>2. n = InsideOf(at)
      <4>1. InsideOf(at) \in Nat
        BY ZerosFacts DEF SpectrumInv
      <4>2. Lists(Found(at, InsideOf(at)), InsideOf(at))
        BY DEF Found, Lists
      <4> QED
        BY <3>1, <4>1, <4>2, ListFacts DEF n
    <3>3. \A i \in 1 .. n : kept[i].mode = CountOf(at, High) + i
      BY <3>1, <3>2 DEF Found
    <3> QED
      BY <3>3 DEF ids
  <2>4. \A i \in 1 .. n : shapes'[i] = CountOf(at, High) + i
    <3>1. CASE table = <<>>
      BY <1>1, <2>3, <3>1
    <3>2. CASE table # <<>>
      <4>1. \A i \in 1 .. n : i \in 1 .. W
        BY <1>1, <1>2, <3>2
      <4>2. \A i \in 1 .. n : shapes'[i] = shapes[i]
        BY <1>1, <1>2, <1>3, <3>2, TakeList
      <4> QED
        BY <2>2, <4>1, <4>2
    <3> QED
      BY <3>1, <3>2
  <2>5. ASSUME NEW s, Lists(s, n), \A i \in 1 .. n : s[i] = CountOf(at, High) + i
        PROVE  s = shapes'
    <3>1. \A i \in 1 .. n : s[i] = shapes'[i]
      BY <2>4, <2>5
    <3>2. Lists(s, n) /\ Lists(shapes', n)
      BY <1>14, <2>5
    <3> QED
      BY <3>1, <3>2 DEF Lists
  <2>6. ASSUME NEW r \in 1 .. L + 1 PROVE columns'[r] = shapes'
    <3>1. CASE r = L + 1
      BY <1>8, <1>11, <2>3, <2>5, <3>1
    <3>2. CASE r # L + 1
      <4>1. r \in 1 .. L /\ L # 0
        BY <1>2, <3>2
      <4>2. \A i \in 1 .. n : i \in 1 .. W
        BY <1>2, <1>5, <4>1
      <4>3. \A i \in 1 .. n : taken[r][i] = columns[r][i]
        BY <1>6, <4>1
      <4>4. \A i \in 1 .. n : taken[r][i] = CountOf(at, High) + i
        BY <2>2, <4>1, <4>2, <4>3
      <4> QED
        BY <1>6, <1>11, <2>5, <4>1, <4>4
    <3> QED
      BY <3>1, <3>2
  <2> QED
    BY <2>1, <2>4, <2>6
<1>17. OneModeEach'
  BY <1>1, <1>13, <1>14, <1>16 DEF OneModeEach
<1> QED
  BY <1>15, <1>17 DEF AlignedInv

LEMMA AlignedStep == SpectrumInv /\ AlignedInv /\ [Next]_vars => AlignedInv'
<1> SUFFICES ASSUME SpectrumInv, AlignedInv, [Next]_vars
             PROVE  AlignedInv'
  OBVIOUS
<1>1. CASE Accept
  BY <1>1, AlignedAccept
<1>2. CASE \E code \in {"KR0301", "KR0302", "KR0303"} : Fail(code)
  BY <1>2, AlignedFail
<1>3. CASE UNCHANGED <<method, at, history>>
  BY <1>3, AlignedKept
<1>4. CASE NoModes \/ SecantsSpent \/ ListFull \/ NothingKept \/ Gained \/ Unsettled \/ Refuse
  BY <1>2, <1>3, <1>4
    DEF NoModes, SecantsSpent, ListFull, NothingKept, Gained, Unsettled, Refuse, setting
<1>5. CASE Brent \/ Secant
  BY <1>2, <1>3, <1>5 DEF Brent, Secant, setting
<1>6. CASE StartBisection \/ StartBrackets \/ StartSecants \/ Bisect \/ Bisected
  BY <1>3, <1>6 DEF StartBisection, StartBrackets, StartSecants, Bisect, Bisected, setting
<1>7. CASE Isolate \/ Split \/ Isolated \/ Bracketed \/ LeaveBelow
  BY <1>3, <1>7 DEF Isolate, Split, Isolated, Bracketed, LeaveBelow, setting
<1>8. CASE Over \/ UNCHANGED vars
  BY <1>3, <1>8 DEF Over, vars, setting
<1> QED
  BY <1>1, <1>4, <1>5, <1>6, <1>7, <1>8 DEF Next

(* Rows, columns and shapes keep the same length whatever meshes lose, and *)
(* as long as no eigenvalue crosses the upper limit a column extrapolates  *)
(* the mode its shape is of (refinement.rs, advance).                      *)
THEOREM ColumnsAligned == Spec => []Aligned
<1>1. AlignedInv => Aligned
  <2> SUFFICES ASSUME AlignedInv PROVE Aligned
    OBVIOUS
  <2>1. Len(table) \in Nat /\ Len(shapes) \in Nat
    OBVIOUS
  <2>2. /\ DOMAIN shapes = 1 .. Len(shapes) /\ DOMAIN table = 1 .. Len(table)
        /\ DOMAIN columns = 1 .. Len(table) /\ Len(columns) = Len(table)
        /\ \A r \in 1 .. Len(table) :
             DOMAIN table[r] = 1 .. Len(shapes) /\ DOMAIN columns[r] = 1 .. Len(shapes)
    BY <2>1, ListFacts DEF AlignedInv, Widths
  <2> QED
    BY <2>2 DEF Aligned, AlignedInv, OneModeEach
<1> QED
  BY InitInv, NextInv, SpectrumInit, SpectrumStep, AlignedInit, AlignedStep, <1>1, PTL DEF Spec
=============================================================================
