--------------------------- MODULE ReceiverSweep ---------------------------
(****************************************************************************)
(* Which receivers a traced ray is tried at (bellhop/src/solver/            *)
(* influence.rs).  Every beam family walks along the states of one ray and *)
(* keeps an index into the receiver ranges, which it must never run ahead  *)
(* of the ray, leave behind it, or take out of the table.                  *)
(*                                                                         *)
(* Ranges are integers here; depths, times and amplitudes, which decide    *)
(* what a receiver gets once the walk has reached it, are left out.        *)
(****************************************************************************)
EXTENDS Integers, Sequences

CONSTANTS
  ReceiverRanges,  \* tables of receiver ranges: what TLC tries
  Positions,       \* ranges a ray can be at
  Far              \* 1.0e10, beyond every position

Tables == {r \in Seq(Int) : r # <<>> /\ \A i, j \in DOMAIN r : i < j => r[i] < r[j]}

ASSUME SweepAssumption ==
  /\ ReceiverRanges \subseteq Tables
  /\ Positions \subseteq Int /\ 0 \in Positions
  /\ Far \in Int /\ \A p \in Positions : -Far < p /\ p < Far
  /\ \A r \in ReceiverRanges : \A i \in DOMAIN r : -Far < r[i] /\ r[i] < Far

(* Geometric hats and Gaussians, ray-centered hats, simple Gaussians, and  *)
(* Cerveny beams in both coordinates.                                      *)
Families == {"cartesian", "centered", "simple", "cerveny", "cervenyCentered"}

VARIABLES
  family, ranges,
  pc,        \* "segment": between two states, "walk": at a receiver, "done"
  position,  \* range of the last state
  a, b,      \* range_a, range_b: the next segment starts at b
  index,     \* receiver_index
  from, to,  \* receiver_a, receiver_b: likewise
  visits,    \* history: visits in this segment, of a simple Gaussian ever
  reach      \* history: the farthest range a simple Gaussian has come to

vars == <<family, ranges, pc, position, a, b, index, from, to, visits, reach>>
setting == <<family, ranges>>

Receivers == DOMAIN ranges
Last == Len(ranges)
Unvisited == [r \in Receivers |-> 0]

TypeOK ==
  /\ family \in Families /\ ranges \in ReceiverRanges
  /\ pc \in {"segment", "walk", "done"}
  /\ position \in Positions
  /\ a \in Positions \cup {Far} /\ b \in Positions \cup {Far}
  /\ index \in Receivers /\ from \in Receivers /\ to \in Receivers
  /\ visits \in [Receivers -> Nat]
  /\ reach \in Positions \cup {-Far}

-----------------------------------------------------------------------------
(* Search in the table.                                                    *)

FirstAhead(table) ==
  CHOOSE i \in DOMAIN table : table[i] > 0 /\ \A j \in 1 .. i - 1 : table[j] <= 0

(* Mutant: a ray that starts towards larger ranges starts one further on.  *)
FirstReceiverOnward(table, heading) ==
  LET first == IF \E i \in DOMAIN table : table[i] > 0 THEN FirstAhead(table) ELSE 1
  IN IF heading = "ahead" /\ first < Len(table) THEN first + 1 ELSE first

(* position(|range| range > range_a).unwrap_or(0), one back for a ray that *)
(* starts towards smaller ranges.  Every ray starts at range 0.            *)
FirstReceiver(table, heading) ==
  LET first == IF \E i \in DOMAIN table : table[i] > 0 THEN FirstAhead(table) ELSE 1
  IN IF heading = "back" /\ first > 1 THEN first - 1 ELSE first

(* Mutant: rounded to the nearest receiver.                                *)
UniformIndexRounded(table, range) ==
  LET n == Len(table)
      steps == (2 * (range - table[1]) + table[n] - table[n - 1])
                 \div (2 * (table[n] - table[n - 1]))
  IN IF n = 1 \/ range <= table[1] THEN 1
     ELSE IF steps >= n - 1 THEN n ELSE steps + 1

(* uniform_receiver_index: the last spacing of the table stands for all.   *)
UniformIndex(table, range) ==
  LET n == Len(table)
      steps == (range - table[1]) \div (table[n] - table[n - 1])
  IN IF n = 1 \/ range <= table[1] THEN 1
     ELSE IF steps >= n - 1 THEN n ELSE steps + 1

-----------------------------------------------------------------------------
Init ==
  /\ family \in Families /\ ranges \in ReceiverRanges
  /\ pc = "segment"
  /\ position \in IF family = "cerveny" THEN Positions ELSE {0}
  /\ CASE family = "cartesian" ->
            /\ b = 0 /\ to = 1
            /\ \E heading \in {"back", "ahead"} : index = FirstReceiver(ranges, heading)
       [] family = "centered" ->
            /\ \/ b = Far /\ to = 1
               \/ b \in Positions /\ to = UniformIndex(ranges, b)
            /\ index = 1
       [] family = "cervenyCentered" ->
            /\ b \in Positions /\ to = UniformIndex(ranges, b)
            /\ index = 1
       [] family \in {"simple", "cerveny"} -> b = 0 /\ to = 1 /\ index = 1
  /\ a = b /\ from = to
  /\ visits = Unvisited /\ reach = -Far

(* A segment to p may be shorter than 1000 units in the last place.        *)
Near(p) == p - position \in -1 .. 1

Visit == visits' = [visits EXCEPT ![index] = @ + 1]

(* The walk of a segment begins at receiver i.                             *)
Enter(i) == pc' = "walk" /\ index' = i /\ visits' = Unvisited

-----------------------------------------------------------------------------
(* geo_hat_cartesian and geo_gaussian_cartesian.                           *)

(* Too short a segment is left to the next one: range_a stays.             *)
CartesianShort ==
  /\ family = "cartesian" /\ pc = "segment"
  /\ position' \in {p \in Positions : Near(p)}
  /\ UNCHANGED <<setting, pc, a, b, index, from, to, visits, reach>>

CartesianSegment ==
  /\ family = "cartesian" /\ pc = "segment"
  /\ position' \in Positions
  /\ a' = b /\ b' = position'
  /\ Enter(index)
  /\ UNCHANGED <<setting, from, to, reach>>

(* The receiver lies in the half-open range of the segment.                *)
InSegment ==
  \/ a <= ranges[index] /\ ranges[index] < b
  \/ b <= ranges[index] /\ ranges[index] < a

(* Mutants: the walk stops before the first receiver; only there and at    *)
(* the last one.                                                           *)
NextReceiverSwinging ==
  IF ranges[index] < b
    THEN IF index < Last THEN index + 1 ELSE index
    ELSE IF index > 1 THEN index - 1 ELSE index
NextReceiverEarly ==
  IF ranges[index] < b
    THEN IF index < Last /\ ranges[index + 1] < b THEN index + 1 ELSE index
    ELSE IF index > 2 /\ ranges[index - 1] > b THEN index - 1 ELSE index

(* The next receiver towards range_b and short of it, or none.             *)
NextReceiver ==
  IF ranges[index] < b
    THEN IF index < Last /\ ranges[index + 1] < b THEN index + 1 ELSE index
    ELSE IF index > 1 /\ ranges[index - 1] > b THEN index - 1 ELSE index

CartesianReceiver ==
  /\ family = "cartesian" /\ pc = "walk"
  /\ IF InSegment THEN Visit ELSE UNCHANGED visits
  /\ index' = NextReceiver
  /\ pc' = IF index' = index THEN "segment" ELSE "walk"
  /\ UNCHANGED <<setting, position, a, b, from, to, reach>>

-----------------------------------------------------------------------------
(* geo_hat_ray_centered and the Cerveny beams: a segment leads from one    *)
(* index of the table to another.                                          *)

Passes(i, j) == IF family = "centered" THEN i # j ELSE i < j

FirstPassed(i, j) == IF i < j THEN i + 1 ELSE i

LastPassed(i, j) == IF i < j THEN j ELSE j + 1

WalkBetween(p, i, q, j) ==
  /\ Passes(i, j)
  /\ a' = p /\ from' = i /\ b' = q /\ to' = j
  /\ Enter(FirstPassed(i, j))

(* A segment that is too short, or passes nothing the family counts.       *)
Anchor(q, j) ==
  /\ a' = q /\ from' = j /\ b' = q /\ to' = j
  /\ visits' = Unvisited
  /\ UNCHANGED <<pc, index>>

(* The range of a state in ray-centered coordinates is where its normal    *)
(* meets the receiver depth, and that may be anywhere.                     *)
CenteredSegment ==
  /\ family \in {"centered", "cervenyCentered"} /\ pc = "segment"
  /\ \E q \in Positions :
       LET j == UniformIndex(ranges, q) IN WalkBetween(b, to, q, j) \/ Anchor(q, j)
  /\ UNCHANGED <<setting, position, reach>>

(* Cerveny beams in Cartesian coordinates look up both ends of a segment   *)
(* and stop for good beyond the last receiver.                             *)
CervenySegment ==
  /\ family = "cerveny" /\ pc = "segment"
  /\ \E q \in Positions :
       LET i == UniformIndex(ranges, position)
           j == UniformIndex(ranges, q)
       IN /\ position' = q
          /\ q <= ranges[Last]
          /\ \/ q # position /\ WalkBetween(position, i, q, j)
             \/ (Near(q) \/ i >= j) /\ Anchor(q, j)
  /\ UNCHANGED <<setting, reach>>

CervenyBeyond ==
  /\ family = "cerveny" /\ pc = "segment"
  /\ position' \in {q \in Positions : q > ranges[Last]}
  /\ pc' = "done"
  /\ UNCHANGED <<setting, a, b, index, from, to, visits, reach>>

PassReceiver ==
  /\ family \in {"centered", "cerveny", "cervenyCentered"} /\ pc = "walk"
  /\ Visit
  /\ IF index = LastPassed(from, to)
       THEN pc' = "segment" /\ UNCHANGED index
       ELSE index' = (IF from < to THEN index + 1 ELSE index - 1) /\ UNCHANGED pc
  /\ UNCHANGED <<setting, position, a, b, from, to, reach>>

-----------------------------------------------------------------------------
(* simple_gaussian: one pass over the receivers, ahead of the ray.         *)

(* Mutant: the receiver the segment ends at is taken with it.              *)
BehindInclusive(q, i) == q >= ranges[i]

(* range_b > ranges[receiver_index].                                       *)
Behind(q, i) == q > ranges[i]

SimpleSegment ==
  /\ family = "simple" /\ pc = "segment"
  /\ \E q \in Positions :
       /\ position' = q /\ a' = b /\ b' = q
       /\ \/ Near(q) /\ UNCHANGED <<pc, reach>>
          \/ /\ q # position
             /\ pc' = IF Behind(q, index) THEN "walk" ELSE "segment"
             /\ reach' = IF q > reach THEN q ELSE reach
  /\ UNCHANGED <<setting, index, from, to, visits>>

SimpleReceiver ==
  /\ family = "simple" /\ pc = "walk"
  /\ Visit
  /\ IF index = Last THEN pc' = "done" /\ UNCHANGED index
     ELSE /\ index' = index + 1
          /\ pc' = IF Behind(b, index + 1) THEN "walk" ELSE "segment"
  /\ UNCHANGED <<setting, position, a, b, from, to, reach>>

-----------------------------------------------------------------------------
Next ==
  \/ CartesianShort \/ CartesianSegment \/ CartesianReceiver
  \/ CenteredSegment \/ CervenySegment \/ CervenyBeyond \/ PassReceiver
  \/ SimpleSegment \/ SimpleReceiver

Spec == Init /\ [][Next]_vars

FairSpec == Spec /\ WF_vars(CartesianReceiver \/ PassReceiver \/ SimpleReceiver)

-----------------------------------------------------------------------------
(* Properties.                                                             *)

Between(k) ==
  \/ a < ranges[k] /\ ranges[k] < b
  \/ b < ranges[k] /\ ranges[k] < a

Touched(k) ==
  \/ a <= ranges[k] /\ ranges[k] <= b
  \/ b <= ranges[k] /\ ranges[k] <= a

(* The two Cartesian beams, wherever their ray turns and however its       *)
(* segments are cut: a receiver inside a segment gets that segment once, a *)
(* receiver at one of its ends at most once, any other not at all.  The    *)
(* walk relies on a receiver ahead of the source when it starts.           *)
Swept ==
  family = "cartesian" /\ pc = "segment" /\ ranges[Last] > 0 =>
    \A k \in Receivers :
      /\ visits[k] <= 1
      /\ Between(k) => visits[k] = 1
      /\ visits[k] = 1 => Touched(k)

(* Ray-centered hats and Cerveny beams over evenly spaced receivers: the   *)
(* same for all receivers but the first of several, which no index is ever *)
(* before.  Cerveny beams count forward segments only.                     *)
Even == \A k \in Receivers : k + 1 < Last => ranges[k + 1] - ranges[k] = ranges[Last] - ranges[Last - 1]

Passed ==
  (family \in {"centered", "cerveny", "cervenyCentered"} /\ pc = "segment" /\ Even /\ a # Far)
  => \A k \in Receivers :
       /\ visits[k] <= 1
       /\ k > 1 /\ Between(k) => visits[k] = 1
       /\ visits[k] = 1 => k > 1 /\ Touched(k) /\ (family = "centered" \/ a < b)

(* A simple Gaussian meets every receiver once, when its ray first gets    *)
(* past it, and never again however the ray turns.                         *)
FirstPassage ==
  family = "simple" /\ pc # "walk" =>
    \A k \in Receivers : visits[k] = IF ranges[k] < reach THEN 1 ELSE 0

(* A walk comes to its end: it cannot swing between two receivers.         *)
WalkEnds == pc = "walk" ~> pc # "walk"
=============================================================================
