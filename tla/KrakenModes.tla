---------------------------- MODULE KrakenModes ----------------------------
(***************************************************************************)
(* How the modal solvers find the horizontal wavenumbers of one profile    *)
(* (kraken/src/solver: modes.rs, complex_modes.rs, refinement.rs).  A solve *)
(* tries up to five meshes, each twice as fine as the last.  On every mesh *)
(* it searches the eigenvalues inside the spectral limits; the Richardson  *)
(* table extrapolates them column by column until one column settles.      *)
(*                                                                         *)
(* An eigenvalue is a place on an axis of integers: odd, while searches    *)
(* probe even places, so that no probe hits an eigenvalue exactly.  The    *)
(* numerical operators are an oracle: Count (the Sturm count) tells the    *)
(* number of eigenvalues above a place, a secant finds any eigenvalue.     *)
(***************************************************************************)
EXTENDS Integers, Sequences, FiniteSets

CONSTANTS
  N,          \* eigenvalues in and around the spectral limits
  High,       \* the upper spectral limit; the lower one is 0
  Places,     \* places an eigenvalue can have
  Drift,      \* how far a finer mesh can move one
  Meshes,     \* MULTIPLIERS.len()
  Steps,      \* ROOT_STEPS, and the 50 of bracketed_roots
  RootLimit,  \* MAX_MODE_LIMIT
  Methods,    \* kinds of case
  MaxRanges   \* max_range_m

Modes == 1 .. N
Low == 0

(* A fluid case bisects; an elastic half-space above it brackets on two    *)
(* meshes and runs secants on the others; elastic layers and KRAKENC run   *)
(* secants.  What some KRAKENC cases find they sort; secants may find it   *)
(* in any order here, so that this is no case of its own.                  *)
AllMethods == {"fluid", "elasticTop", "layers", "complex"}

ASSUME ModesAssumption ==
  /\ N \in Nat /\ High \in Nat /\ Places \subseteq Int
  /\ Meshes \in Nat \ {0} /\ Steps \in Nat /\ RootLimit \in Nat
  /\ Methods \subseteq AllMethods /\ MaxRanges \subseteq Nat

(* No probe hits an eigenvalue, and halving comes down to the space between *)
(* two probes: so many cells of the axis can be told apart in s steps.     *)
ASSUME GridAssumption ==
  /\ High % 2 = 0 /\ \A p \in Places : p % 2 = 1
  /\ \E cells \in [0 .. Steps -> 1 .. High + 1] :
       /\ cells[0] = 1 /\ High <= 2 * cells[Steps]
       /\ \A s \in 1 .. Steps : cells[s] <= 2 * cells[s - 1]

VARIABLES
  method, range,
  limit,    \* root_limit: the bound of Solve2's searches
  pc, mesh,
  at,       \* where this mesh has the eigenvalues, from above
  left, right, mode, lo, hi, steps,  \* the search for brackets
  roots,    \* what this mesh's search found
  table,    \* Richardson rows
  shapes,   \* the mode of each column's shape, from mesh one
  columns,  \* history: the modes of each row's columns
  exited,   \* history: an eigenvalue has crossed the upper limit
  outcome

setting == <<method, range>>
search == <<left, right, mode, lo, hi, steps>>
history == <<table, shapes, columns, exited>>
vars == <<setting, limit, pc, mesh, at, search, roots, history, outcome>>

Spectra ==
  {s \in [Modes -> Places] : \A i, j \in Modes : i < j => s[j] <= s[i]}

TypeOK ==
  /\ method \in Methods /\ range \in MaxRanges
  /\ limit \in Nat /\ mesh \in 1 .. Meshes + 1
  /\ pc \in {"mesh", "isolate", "split", "brent", "bisect", "secant", "accept", "done"}
  /\ at \in [Modes -> Places]
  /\ left \in Seq(Int) /\ right \in Seq(Int)
  /\ mode \in Nat /\ lo \in Int /\ hi \in Int /\ steps \in Nat
  /\ roots \in Seq([mode : 0 .. N, at : Int])
  /\ table \in Seq(Seq(Int)) /\ columns \in Seq(Seq(0 .. N)) /\ shapes \in Seq(0 .. N)
  /\ exited \in BOOLEAN
  /\ outcome \in {"none", "modes", "KR0301", "KR0302", "KR0303"}

-----------------------------------------------------------------------------
(* The count of eigenvalues above a place (Mesh::count, elastic_count).    *)
Count(x) == Cardinality({i \in Modes : at[i] > x})
Above == Count(High)
Inside == Count(Low) - Above

(* Mutant: eigenvalues above the upper limit count, too.                   *)
ZerosOfAll(x) == Count(x)

(* zeros: eigenvalues between x and the upper limit.                       *)
Zeros(x) == Count(x) - Above

(* The probe between two even places; the middle of two adjacent ones.     *)
Probe(x, y) == 2 * ((x + y) \div 4)
Middle(x, y) == (x + y) \div 2

Maximum(S) == CHOOSE x \in S : \A y \in S : y <= x

Cleared ==
  /\ left' = <<>> /\ right' = <<>>
  /\ mode' = 0 /\ lo' = 0 /\ hi' = 0 /\ steps' = 0

(* An error leaves solve, and everything it had is dropped.                *)
Fail(code) ==
  /\ pc' = "done" /\ outcome' = code
  /\ Cleared /\ roots' = <<>>
  /\ table' = <<>> /\ shapes' = <<>> /\ columns' = <<>> /\ exited' = FALSE
  /\ mesh' = 1 /\ limit' = RootLimit
  /\ UNCHANGED <<setting, at>>

Init ==
  /\ method \in Methods /\ range \in MaxRanges
  /\ limit \in IF method \in {"layers", "complex"} THEN 1 .. RootLimit ELSE {RootLimit}
  /\ pc = "mesh" /\ mesh = 1
  /\ at \in Spectra
  /\ left = <<>> /\ right = <<>> /\ mode = 0 /\ lo = 0 /\ hi = 0 /\ steps = 0
  /\ roots = <<>> /\ table = <<>> /\ shapes = <<>> /\ columns = <<>>
  /\ exited = FALSE /\ outcome = "none"

-----------------------------------------------------------------------------
(* Searches.                                                               *)

Elastic == method \in {"elasticTop", "layers"}
Bisects == method = "fluid"
Brackets == method = "elasticTop" /\ mesh <= 2

(* What guards Mesh::roots: an empty window, or shapes beyond MAX_SHAPES   *)
(* or MAX_WORK (see Refuse).                                               *)
NoModes ==
  /\ pc = "mesh" /\ mesh <= Meshes /\ (Bisects \/ Brackets)
  /\ Inside = 0
  /\ Fail("KR0301")

StartBisection ==
  /\ pc = "mesh" /\ mesh <= Meshes /\ Bisects /\ Inside > 0
  /\ pc' = "bisect" /\ mode' = 1 /\ lo' = Low /\ hi' = High /\ steps' = 0
  /\ UNCHANGED <<setting, limit, mesh, at, left, right, roots, history, outcome>>

StartBrackets ==
  /\ pc = "mesh" /\ mesh <= Meshes /\ Brackets /\ Inside > 0
  /\ pc' = "isolate" /\ mode' = 1
  /\ left' = [i \in 1 .. Inside + 1 |-> Low]
  /\ right' = [i \in 1 .. Inside + 1 |-> High]
  /\ UNCHANGED <<setting, limit, mesh, at, lo, hi, steps, roots, history, outcome>>

StartSecants ==
  /\ pc = "mesh" /\ mesh <= Meshes /\ ~Bisects /\ ~Brackets
  /\ pc' = "secant" /\ mode' = 1
  /\ UNCHANGED <<setting, limit, mesh, at, left, right, lo, hi, steps, roots, history,
                 outcome>>

Push(m, x) == roots' = Append(roots, [mode |-> m, at |-> x])

(* The mode whose eigenvalue the bisection for the i-th root closed in on. *)
Owner(i, x) == IF Above + i \in Modes /\ at[Above + i] = x THEN Above + i ELSE 0

(* One halving of the interval of a fluid case's root, or its end.         *)
Bisect ==
  /\ pc = "bisect" /\ mode <= Inside
  /\ LET x == Probe(lo, hi)
     IN IF steps = Steps \/ x = lo \/ x = hi
          THEN /\ Push(Owner(mode, Middle(lo, hi)), Middle(lo, hi))
               /\ mode' = mode + 1 /\ lo' = Low /\ hi' = High /\ steps' = 0
          ELSE /\ IF Zeros(x) >= mode THEN lo' = x /\ hi' = hi ELSE lo' = lo /\ hi' = x
               /\ steps' = steps + 1
               /\ UNCHANGED <<mode, roots>>
  /\ UNCHANGED <<setting, limit, pc, mesh, at, left, right, history, outcome>>

Bisected ==
  /\ pc = "bisect" /\ mode > Inside
  /\ pc' = "accept" /\ Cleared
  /\ UNCHANGED <<setting, limit, mesh, at, roots, history, outcome>>

(* bracketed_roots: a probe serves every bracket it improves, and a mode   *)
(* that has its bracket already is passed over.                            *)
Isolate ==
  /\ pc = "isolate" /\ mode < Inside
  /\ IF left[mode] # Low
       THEN /\ mode' = mode + 1
            /\ UNCHANGED <<pc, lo, hi, steps>>
       ELSE /\ pc' = "split" /\ steps' = 0
            /\ lo' = Maximum({Low} \cup {left[i] : i \in mode + 1 .. Inside})
            /\ hi' = right[mode]
            /\ UNCHANGED mode
  /\ UNCHANGED <<setting, limit, mesh, at, left, right, roots, history, outcome>>

(* Mutant: the lower end goes to the next mode.                            *)
LeftAfterNext(x) ==
  LET z == Zeros(x) IN
  IF z < mode THEN left
  ELSE [left EXCEPT ![z + 1] = IF @ <= x THEN x ELSE @]

RightAfter(x) ==
  LET z == Zeros(x) IN
  IF z < mode THEN [right EXCEPT ![mode] = x]
  ELSE [right EXCEPT ![z + 1] = IF @ >= x THEN x ELSE @]

LeftAfter(x) ==
  LET z == Zeros(x) IN
  IF z < mode THEN left
  ELSE [left EXCEPT ![z] = IF @ <= x THEN x ELSE @]

(* Mutant: halving goes on until the mode has its bracket.                 *)
HalvedWhollyOnly == left[mode] # Low

(* The mode has its bracket, or halving has been tried often enough.       *)
Halved == steps = Steps \/ left[mode] # Low

Split ==
  /\ pc = "split"
  /\ IF Halved
       THEN /\ pc' = "isolate" /\ mode' = mode + 1
            /\ UNCHANGED <<left, right, lo, hi, steps>>
       ELSE LET x == Probe(lo, hi) IN
            /\ right' = RightAfter(x) /\ left' = LeftAfter(x)
            /\ IF Zeros(x) < mode THEN hi' = x /\ lo' = lo ELSE lo' = x /\ hi' = hi
            /\ steps' = steps + 1
            /\ UNCHANGED <<pc, mode>>
  /\ UNCHANGED <<setting, limit, mesh, at, roots, history, outcome>>

Isolated ==
  /\ pc = "isolate" /\ mode = Inside
  /\ pc' = "brent" /\ mode' = 1 /\ lo' = 0 /\ hi' = 0 /\ steps' = 0
  /\ UNCHANGED <<setting, limit, mesh, at, left, right, roots, history, outcome>>

(* ZBRENTX finds an eigenvalue where the dispersion changes its sign; with *)
(* none, the last root stands again, and the first one is missed.          *)
Between(x, y) == {m \in Modes : x < at[m] /\ at[m] < y}

Brent ==
  /\ pc = "brent" /\ mode <= Inside
  /\ LET found == Between(left[mode], right[mode]) IN
     \/ /\ Cardinality(found) % 2 = 1
        /\ \E m \in found : Push(m, at[m])
        /\ mode' = mode + 1
        /\ UNCHANGED <<setting, limit, pc, mesh, at, left, right, lo, hi, steps, history,
                       outcome>>
     \/ /\ Cardinality(found) % 2 = 0 /\ roots # <<>>
        /\ roots' = Append(roots, roots[Len(roots)])
        /\ mode' = mode + 1
        /\ UNCHANGED <<setting, limit, pc, mesh, at, left, right, lo, hi, steps, history,
                       outcome>>
     \/ /\ Cardinality(found) % 2 = 0 /\ roots = <<>>
        /\ Fail("KR0303")

Bracketed ==
  /\ pc = "brent" /\ mode > Inside
  /\ pc' = "accept" /\ Cleared
  /\ UNCHANGED <<setting, limit, mesh, at, roots, history, outcome>>

(* solid_roots and complex_modes::solve.  A secant that has left the       *)
(* spectral limits below ends the search; roots found before are deflated  *)
(* where they are, and then finding one again is an error.                 *)
Deflates == method # "elasticTop"
Again(m) == \E i \in DOMAIN roots : roots[i].mode = m

Secant ==
  /\ pc = "secant" /\ mode <= limit
  /\ \E m \in Modes :
       /\ at[m] > Low
       /\ IF Deflates /\ Again(m)
            THEN Fail("KR0303")
            ELSE /\ Push(m, at[m])
                 /\ mode' = mode + 1
                 /\ UNCHANGED <<setting, limit, pc, mesh, at, left, right, lo, hi, steps,
                                history, outcome>>

LeaveBelow ==
  /\ pc = "secant" /\ mode <= limit
  /\ pc' = "accept" /\ Cleared
  /\ UNCHANGED <<setting, limit, mesh, at, roots, history, outcome>>

(* A real search may stop at the bound it was given, a complex one has not *)
(* covered the interval then.                                              *)
SecantsSpent ==
  /\ pc = "secant" /\ mode > limit
  /\ IF method = "complex" THEN Fail("KR0303")
     ELSE /\ pc' = "accept" /\ Cleared
          /\ UNCHANGED <<setting, limit, mesh, at, roots, history, outcome>>

(* Mesh and coefficient limits, MAX_WORK, MAX_SHAPES, secants that do not  *)
(* converge, numbers that are not finite.                                  *)
Refuse ==
  /\ pc \in {"mesh", "split", "brent", "secant", "accept"} /\ mesh <= Meshes
  /\ \E code \in {"KR0302", "KR0303"} : Fail(code)

-----------------------------------------------------------------------------
(* Refinement.                                                             *)

Take(s, n) == SubSeq(s, 1, IF n \in 0 .. Len(s) THEN n ELSE Len(s))

(* selected_count: up to the first of the smallest values of the row above *)
(* the limit, among as many as there are roots now.                        *)
SelectedCount ==
  LET row == Take(IF table = <<>> THEN [i \in DOMAIN roots |-> roots[i].at] ELSE table[1],
                  Len(roots))
      low == {i \in DOMAIN row : row[i] > Low}
  IN IF low = {} THEN 0
     ELSE CHOOSE i \in low : \A j \in low : row[i] < row[j] \/ (row[i] = row[j] /\ i <= j)

(* The roots that stay; KRAKENC's are those below the upper limit.         *)
Kept ==
  CASE method = "elasticTop" -> Take(roots, SelectedCount)
    [] method = "complex" -> SelectSeq(roots, LAMBDA r : r.at <= High)
    [] OTHER -> roots

(* Rounded v - (u - v) / d.                                                *)
Extrapolated(u, v, d) == v - ((2 * (u - v) + d) \div (2 * d))

(* The table with the newest row in it: every row takes the row after it   *)
(* into account, the newest first.                                         *)
Richardson(rows) ==
  LET n == Len(rows)
      new[j \in 1 .. n] ==
        IF j = n THEN rows[n]
        ELSE [i \in DOMAIN rows[j] |->
               IF i \in DOMAIN new[j + 1]
                 THEN Extrapolated(rows[j][i], new[j + 1][i], 4 ^ (n - j) - 1)
                 ELSE rows[j][i]]
  IN new

Distance(u, v) == IF u < v THEN v - u ELSE u - v

(* solid_roots gives up on a full list.                                    *)
ListFull ==
  /\ pc = "accept" /\ Elastic /\ ~Brackets
  /\ Len(roots) = RootLimit
  /\ Fail("KR0302")

NothingKept == pc = "accept" /\ Kept = <<>> /\ Fail("KR0301")

(* A finer mesh may lose roots, and then their columns go, but not gain any.*)
Gained ==
  /\ pc = "accept" /\ mesh > 1 /\ Len(Kept) > Len(shapes)
  /\ Fail("KR0303")

NextMesh ==
  /\ pc' = "mesh" /\ mesh' = mesh + 1
  /\ at' \in {s \in Spectra : \A m \in Modes : Distance(s[m], at[m]) <= Drift}
  /\ exited' = (exited \/ \E m \in Modes : (at[m] > High) # (at'[m] > High))
  /\ UNCHANGED outcome

Answer ==
  /\ pc' = "done" /\ outcome' = "modes"
  /\ UNCHANGED <<mesh, at, exited>>

(* Mutant: only the shapes are shortened, not the rows of the table.       *)
ShortenedNever(row, n) == row

Shortened(row, n) == Take(row, n)

(* Refinement::advance: the column at two thirds must settle within 1/range.*)
Accept ==
  /\ pc = "accept" /\ Kept # <<>>
  /\ Brackets \/ ~Elastic \/ Len(roots) # RootLimit
  /\ LET kept == Kept
         n == Len(kept)
         first == table = <<>>
         rows == [r \in DOMAIN table |-> Shortened(table[r], n)]
         key == (2 * n) \div 3 + 1
         ids == [i \in 1 .. n |-> kept[i].mode]
     IN /\ first \/ n <= Len(shapes)
        /\ shapes' = IF first THEN ids ELSE Take(shapes, n)
        /\ columns' = Append([r \in DOMAIN columns |-> Take(columns[r], n)], ids)
        /\ table' = Richardson(Append(rows, [i \in 1 .. n |-> kept[i].at]))
        /\ limit' = IF Elastic THEN n ELSE limit
        /\ IF range = 0 \/ (~first /\ Distance(table'[1][key], rows[1][key]) * range < 1)
             THEN Answer ELSE NextMesh
  /\ Cleared /\ roots' = <<>>
  /\ UNCHANGED setting

Unsettled == pc = "mesh" /\ mesh > Meshes /\ Fail("KR0303")

Over == pc = "done" /\ UNCHANGED vars

Next ==
  \/ NoModes \/ StartBisection \/ StartBrackets \/ StartSecants
  \/ Bisect \/ Bisected
  \/ Isolate \/ Split \/ Isolated \/ Brent \/ Bracketed
  \/ Secant \/ LeaveBelow \/ SecantsSpent
  \/ ListFull \/ NothingKept \/ Gained \/ Accept \/ Unsettled
  \/ Refuse \/ Over

Spec == Init /\ [][Next]_vars

-----------------------------------------------------------------------------
(* While roots are searched, the i-th from above lies in the i-th bracket: *)
(* a probe made for one mode never spoils the bracket of another           *)
(* (modes.rs, roots and bracketed_roots).                                  *)
Bracketing ==
  /\ pc = "bisect" /\ mode <= Inside => Zeros(hi) < mode /\ mode <= Zeros(lo)
  /\ pc \in {"isolate", "split", "brent"} =>
       \A i \in 1 .. Inside : Zeros(right[i]) < i /\ i <= Zeros(left[i])

(* Searches with Sturm counts miss no eigenvalue inside the limits and find*)
(* none twice: they give them all, from above (modes.rs, roots).  Brackets *)
(* can do so only for eigenvalues that differ.                             *)
Distinct == \A i, j \in Modes : i # j => at[i] # at[j]
WholeSpectrum ==
  pc = "accept" /\ (Bisects \/ (Brackets /\ Distinct)) =>
    roots = [i \in 1 .. Inside |-> [mode |-> Above + i, at |-> at[Above + i]]]

(* Rows, columns and shapes stay as long as one another, so the column at  *)
(* two thirds is there; and unless an eigenvalue has crossed the upper     *)
(* limit, a column extrapolates the mode its shape is of, and no other     *)
(* (refinement.rs, advance).                                               *)
Aligned ==
  /\ Len(table) = Len(columns)
  /\ \A r \in DOMAIN table : DOMAIN table[r] = DOMAIN shapes
  /\ \A r \in DOMAIN columns : DOMAIN columns[r] = DOMAIN shapes
  /\ method = "fluid" /\ ~exited => \A r \in DOMAIN columns : columns[r] = shapes

(* When a finer mesh of a fluid has lost modes, the shapes that are kept    *)
(* are those of the modes it still has (the comment of refinement.rs,      *)
(* advance; a run refutes it).                                             *)
SurvivorsKept ==
  [][method = "fluid" /\ Len(shapes') < Len(shapes) /\ shapes' # <<>> =>
       shapes' = SelectSeq(shapes, LAMBDA m : \E i \in DOMAIN Kept : Kept[i].mode = m)]_vars

(* Every step brings a solve nearer to its end: no halving goes on for     *)
(* ever, no search beyond its bound, and no mesh after the last is tried   *)
(* (modes.rs and complex_modes.rs, solve).  With no deadlock before "done" *)
(* that makes every solve end.                                             *)
Stage ==
  CASE pc = "done" -> 0
    [] pc = "accept" -> 1
    [] pc = "brent" -> 2
    [] pc \in {"isolate", "split", "bisect", "secant"} -> 3
    [] pc = "mesh" -> 4
Remaining ==
  <<Stage + 5 * (Meshes + 1 - mesh),
    N + RootLimit + 1 - mode,
    IF pc = "isolate" THEN Steps + 1 ELSE Steps - steps>>
Before(s, t) ==
  \E i \in 1 .. 3 : s[i] < t[i] /\ \A j \in 1 .. i - 1 : s[j] = t[j]
Nearer ==
  [][\/ pc' = "done"
     \/ Before(Remaining', Remaining) /\ \A i \in 1 .. 3 : Remaining'[i] >= 0]_vars
=============================================================================
