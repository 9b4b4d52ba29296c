------------------------ MODULE ReceiverSweep_proofs ------------------------
(****************************************************************************)
(* Theorems about ReceiverSweep: for every table of receivers and every    *)
(* ray, no index leaves the table, the Cartesian beams give each segment   *)
(* its receivers, the beams that walk between two indices the receivers in *)
(* between, and a simple Gaussian meets every receiver once.               *)
(****************************************************************************)
EXTENDS ReceiverSweep, WellFoundedInduction, TLAPS

(* What a walk between two indices has still to reach.                     *)
Bracketed ==
  family \in {"centered", "cerveny", "cervenyCentered"} /\ pc = "walk" =>
    \/ from < to /\ from < index /\ index <= to
    \/ to < from /\ to < index /\ index <= from

TypeInv == TypeOK /\ Bracketed

LEMMA TableFacts ==
  ASSUME NEW table \in Tables
  PROVE  /\ table \in Seq(Int) /\ Len(table) \in Nat /\ Len(table) >= 1
         /\ DOMAIN table = 1 .. Len(table)
         /\ \A i \in DOMAIN table : table[i] \in Int
         /\ \A i, j \in DOMAIN table : i < j => table[i] < table[j]
BY DEF Tables

(* The first receiver ahead of the source exists if any is ahead.          *)
LEMMA FirstAheadExists ==
  ASSUME NEW table \in Tables, \E i \in DOMAIN table : table[i] > 0
  PROVE  /\ FirstAhead(table) \in DOMAIN table
         /\ table[FirstAhead(table)] > 0
         /\ \A j \in 1 .. FirstAhead(table) - 1 : table[j] <= 0
<1> DEFINE ahead == {i \in DOMAIN table : table[i] > 0}
<1>1. PICK i \in ahead : \A j \in ahead : ~(<<j, i>> \in OpToRel(<, Nat))
  <2>1. ahead \subseteq Nat /\ ahead # {}
    BY TableFacts
  <2> QED
    BY <2>1, NatLessThanWellFounded, WFMin
<1>2. ASSUME NEW j \in ahead PROVE ~(j < i)
  <2>1. i \in Nat /\ j \in Nat
    BY TableFacts
  <2>2. j < i => <<j, i>> \in OpToRel(<, Nat)
    BY <2>1 DEF OpToRel
  <2> QED
    BY <1>1, <2>2
<1>3. \A j \in 1 .. i - 1 : table[j] <= 0
  BY <1>2, TableFacts
<1> QED
  BY <1>3 DEF FirstAhead

LEMMA FirstReceiverInTable ==
  ASSUME NEW table \in Tables, NEW heading
  PROVE  FirstReceiver(table, heading) \in DOMAIN table
BY FirstAheadExists, TableFacts DEF FirstReceiver

(* uniform_receiver_index clamps to the table whatever the spacing.        *)
LEMMA UniformIndexInTable ==
  ASSUME NEW table \in Tables, NEW r \in Int
  PROVE  UniformIndex(table, r) \in DOMAIN table
<1> DEFINE n == Len(table)
           d == table[n] - table[n - 1]
           steps == (r - table[1]) \div d
<1>1. CASE n = 1 \/ r <= table[1]
  BY <1>1, TableFacts DEF UniformIndex
<1>2. CASE n # 1 /\ r > table[1]
  <2>0. n \in DOMAIN table /\ n - 1 \in DOMAIN table /\ n - 1 < n
    <3>1. n \in Nat /\ n >= 1 /\ DOMAIN table = 1 .. n
      BY TableFacts
    <3> HIDE DEF n
    <3> QED
      BY <1>2, <3>1
  <2>1. d \in Int /\ d > 0
    BY <2>0, TableFacts
  <2>2. r - table[1] \in Int /\ r - table[1] > 0
    BY <1>2, TableFacts
  <2>3. \A x, y \in Int : x > 0 /\ y > 0 => x \div y \in Int /\ x \div y >= 0
    OBVIOUS
  <2>4. steps \in Int /\ steps >= 0
    BY <2>1, <2>2, <2>3
  <2> HIDE DEF steps
  <2>5. UniformIndex(table, r) = IF steps >= n - 1 THEN n ELSE steps + 1
    BY <1>2, TableFacts DEF UniformIndex, steps
  <2> QED
    BY <2>4, <2>5, <1>2, TableFacts
<1> QED
  BY <1>1, <1>2, TableFacts

-----------------------------------------------------------------------------
(* Type correctness.                                                       *)

LEMMA TypeInit == Init => TypeInv
<1> SUFFICES ASSUME Init PROVE TypeInv
  OBVIOUS
<1>1. ranges \in Tables /\ Positions \subseteq Int /\ 0 \in Positions /\ 1 \in Receivers
  BY SweepAssumption, TableFacts DEF Init, Receivers
<1>2. b \in Positions \cup {Far} /\ to \in Receivers /\ index \in Receivers
  BY <1>1, FirstReceiverInTable, UniformIndexInTable DEF Init, Receivers, Families
<1> QED
  BY <1>1, <1>2 DEF Init, TypeInv, TypeOK, Bracketed, Unvisited

LEMMA TypeStep == TypeInv /\ [Next]_vars => TypeInv'
<1> SUFFICES ASSUME TypeInv, [Next]_vars PROVE TypeInv'
  OBVIOUS
<1> USE DEF TypeInv, TypeOK
<1>t. /\ ranges \in Tables /\ Positions \subseteq Int /\ 0 \in Positions
      /\ Receivers = 1 .. Last /\ Last \in Nat /\ Last >= 1
  BY SweepAssumption, TableFacts DEF Receivers, Last
<1>u. \A p \in Positions : UniformIndex(ranges, p) \in Receivers
  BY <1>t, UniformIndexInTable DEF Receivers
<1>s. ASSUME UNCHANGED setting PROVE Receivers' = Receivers /\ Unvisited' = Unvisited
  BY <1>s DEF setting, Receivers, Unvisited
<1>v. Unvisited \in [Receivers -> Nat]
  BY DEF Unvisited
<1>w. Visit => visits' \in [Receivers -> Nat]
  BY <1>t DEF Visit
<1>1. CASE UNCHANGED vars
  BY <1>1 DEF vars, Bracketed, Receivers
<1>2. CASE CartesianShort
  BY <1>2, <1>s DEF CartesianShort, setting, Bracketed
<1>3. CASE CartesianSegment
  BY <1>3, <1>s, <1>v DEF CartesianSegment, Enter, setting, Bracketed
<1>4. CASE CartesianReceiver
  <2>1. index' \in Receivers
    BY <1>4, <1>t DEF CartesianReceiver, NextReceiver
  <2> QED
    BY <1>4, <2>1, <1>s, <1>w DEF CartesianReceiver, setting, Bracketed
<1>a. ASSUME NEW p \in Positions \cup {Far}, NEW i \in Receivers, NEW q \in Positions,
             NEW j \in Receivers, WalkBetween(p, i, q, j), UNCHANGED setting
      PROVE  /\ a' \in Positions \cup {Far} /\ b' \in Positions \cup {Far}
             /\ from' \in Receivers /\ to' \in Receivers /\ index' \in Receivers
             /\ visits' \in [Receivers -> Nat]
             /\ pc' = "walk" /\ Bracketed'
  BY <1>a, <1>t, <1>s, <1>v
    DEF WalkBetween, Enter, Passes, FirstPassed, Bracketed, setting
<1>5. CASE CenteredSegment
  <2>1. PICK q \in Positions : LET j == UniformIndex(ranges, q)
                               IN WalkBetween(b, to, q, j) \/ Anchor(q, j)
    BY <1>5 DEF CenteredSegment
  <2>2. CASE WalkBetween(b, to, q, UniformIndex(ranges, q))
    BY <1>5, <2>2, <1>a, <1>u, <1>s DEF CenteredSegment, setting
  <2>3. CASE Anchor(q, UniformIndex(ranges, q))
    BY <1>5, <2>3, <1>u, <1>s, <1>v DEF CenteredSegment, setting, Anchor, Bracketed
  <2> QED
    BY <2>1, <2>2, <2>3
<1>6. CASE CervenySegment
  <2>1. PICK q \in Positions :
          /\ position' = q
          /\ \/ WalkBetween(position, UniformIndex(ranges, position), q, UniformIndex(ranges, q))
             \/ Anchor(q, UniformIndex(ranges, q))
    BY <1>6 DEF CervenySegment
  <2>2. CASE WalkBetween(position, UniformIndex(ranges, position), q, UniformIndex(ranges, q))
    BY <1>6, <2>1, <2>2, <1>a, <1>u, <1>s DEF CervenySegment, setting
  <2>3. CASE Anchor(q, UniformIndex(ranges, q))
    BY <1>6, <2>1, <2>3, <1>u, <1>s, <1>v DEF CervenySegment, setting, Anchor, Bracketed
  <2> QED
    BY <2>1, <2>2, <2>3
<1>7. CASE CervenyBeyond
  BY <1>7, <1>s DEF CervenyBeyond, setting, Bracketed
<1>8. CASE PassReceiver
  <2>1. index' \in Receivers /\ Bracketed'
    BY <1>8, <1>t DEF PassReceiver, LastPassed, setting, Bracketed
  <2> QED
    BY <1>8, <2>1, <1>s, <1>w DEF PassReceiver, setting
<1>9. CASE SimpleSegment
  BY <1>9, <1>s DEF SimpleSegment, setting, Bracketed
<1>10. CASE SimpleReceiver
  BY <1>10, <1>t, <1>s, <1>w DEF SimpleReceiver, setting, Bracketed
<1> QED
  BY <1>1, <1>2, <1>3, <1>4, <1>5, <1>6, <1>7, <1>8, <1>9, <1>10 DEF Next

LEMMA TypeInvariant == Spec => []TypeInv
BY TypeInit, TypeStep, PTL DEF Spec

(* No walk takes its index out of the table of receivers, in any family    *)
(* and for any table, evenly spaced or not.                                *)
THEOREM IndexInTable == Spec => []TypeOK
BY TypeInvariant, PTL DEF TypeInv

-----------------------------------------------------------------------------
(* The Cartesian walk.                                                     *)

(* The index stands next to range p: no receiver lies between the two.     *)
Adjacent(p) ==
  \/ ranges[index] < p /\ (index = Last \/ ranges[index + 1] >= p)
  \/ ranges[index] >= p /\ (index = 1 \/ ranges[index - 1] <= p)

(* What the walk of a segment has done and has not, on its way up and on   *)
(* its way down the table.                                                 *)
Upward ==
  ranges[index] < b =>
    /\ \A k \in Receivers : visits[k] = 1 => k < index
    /\ \A k \in Receivers : k < index /\ Between(k) => visits[k] = 1
    /\ b < a => index = Last \/ ranges[index + 1] >= a

Downward ==
  ranges[index] >= b =>
    /\ \A k \in Receivers : visits[k] = 1 => k > index
    /\ \A k \in Receivers : k > index /\ Between(k) => visits[k] = 1
    /\ a < b => index = 1 \/ ranges[index - 1] <= a

Tallied ==
  \A k \in Receivers : visits[k] \in {0, 1} /\ (visits[k] = 1 => Touched(k))

SweepInv ==
  family = "cartesian" /\ ranges[Last] > 0 =>
    /\ a \in Int /\ b \in Int
    /\ Tallied
    /\ pc = "segment" => Adjacent(b) /\ \A k \in Receivers : Between(k) => visits[k] = 1
    /\ pc = "walk" => Upward /\ Downward

LEMMA SweepInit == Init => SweepInv
<1> SUFFICES ASSUME Init, family = "cartesian", ranges[Last] > 0
             PROVE  /\ a = 0 /\ b = 0 /\ pc = "segment" /\ visits = Unvisited
                    /\ Adjacent(0)
  BY TableFacts, SweepAssumption DEF SweepInv, Tallied, Between, Touched, Unvisited, Receivers, Init
<1>1. ranges \in Tables /\ Last \in DOMAIN ranges
  BY SweepAssumption, TableFacts DEF Init, Last
<1> DEFINE first == FirstAhead(ranges)
<1>2. /\ first \in DOMAIN ranges /\ ranges[first] > 0
      /\ \A j \in 1 .. first - 1 : ranges[j] <= 0
  BY <1>1, FirstAheadExists
<1>3. index = first \/ (first > 1 /\ index = first - 1)
  <2>1. PICK heading \in {"back", "ahead"} : index = FirstReceiver(ranges, heading)
    BY DEF Init
  <2>2. \E i \in DOMAIN ranges : ranges[i] > 0
    BY <1>2
  <2>3. FirstReceiver(ranges, heading) = IF heading = "back" /\ first > 1 THEN first - 1 ELSE first
    BY <2>2 DEF FirstReceiver
  <2> HIDE DEF first
  <2> QED
    BY <2>1, <2>3
<1>4. DOMAIN ranges = 1 .. Last /\ Last \in Nat /\ \A i \in DOMAIN ranges : ranges[i] \in Int
  BY <1>1, TableFacts DEF Last
<1> HIDE DEF first
<1>5. CASE index = first
  <2>1. index = 1 \/ ranges[index - 1] <= 0
    BY <1>2, <1>4, <1>5
  <2> QED
    BY <1>2, <1>4, <1>5, <2>1 DEF Init, Adjacent
<1>6. CASE first > 1 /\ index = first - 1
  <2>1. index \in 1 .. Last /\ ranges[index] <= 0 /\ ranges[index + 1] >= 0
    BY <1>2, <1>4, <1>6
  <2>2. index = 1 \/ ranges[index - 1] <= 0
    BY <1>2, <1>4, <1>6
  <2> QED
    BY <1>4, <2>1, <2>2 DEF Init, Adjacent
<1> QED
  BY <1>3, <1>5, <1>6

LEMMA SweepStep == TypeInv /\ SweepInv /\ [Next]_vars => SweepInv'
<1> SUFFICES ASSUME TypeInv, SweepInv, [Next]_vars,
                    family' = "cartesian", ranges'[Last'] > 0
             PROVE  /\ a' \in Int /\ b' \in Int /\ Tallied'
                    /\ pc' = "segment" =>
                         Adjacent(b)' /\ \A k \in Receivers' : Between(k)' => visits'[k] = 1
                    /\ pc' = "walk" => Upward' /\ Downward'
  BY DEF SweepInv
<1> DEFINE N == Last
<1>s. UNCHANGED setting /\ Receivers' = Receivers /\ Last' = Last
  BY DEF vars, setting, Next, CartesianShort, CartesianSegment, CartesianReceiver,
    CenteredSegment, CervenySegment, CervenyBeyond, PassReceiver, SimpleSegment, SimpleReceiver,
    Receivers, Last
<1>c. family = "cartesian" /\ ranges[Last] > 0 /\ ranges' = ranges
  BY <1>s DEF setting
<1>i. /\ a \in Int /\ b \in Int /\ Tallied
      /\ pc = "segment" => Adjacent(b) /\ \A k \in Receivers : Between(k) => visits[k] = 1
      /\ pc = "walk" => Upward /\ Downward
  BY <1>c DEF SweepInv
<1>t. /\ Receivers = 1 .. N /\ N \in Nat /\ N >= 1 /\ index \in 1 .. N
      /\ \A i \in 1 .. N : ranges[i] \in Int
      /\ \A i, j \in 1 .. N : i < j => ranges[i] < ranges[j]
      /\ visits \in [Receivers -> Nat] /\ Positions \subseteq Int
  BY SweepAssumption, TableFacts DEF TypeInv, TypeOK, Receivers, Last
<1> HIDE DEF N
<1>m. \A i, j \in 1 .. N : i <= j => ranges[i] <= ranges[j]
  <2>1. \A i, j \in 1 .. N : i <= j => i = j \/ i < j
    BY <1>t
  <2> QED
    BY <2>1, <1>t
<1>1. CASE UNCHANGED <<pc, a, b, index, visits>>
  BY <1>1, <1>i, <1>s, <1>c DEF Tallied, Touched, Between, Adjacent, Upward, Downward
<1>2. CASE CartesianSegment
  <2>1. /\ a' = b /\ b' \in Int /\ pc' = "walk" /\ index' = index
        /\ visits' = [k \in 1 .. N |-> 0] /\ pc = "segment"
    BY <1>2, <1>t DEF CartesianSegment, Enter, Unvisited
  <2>2. Tallied'
    BY <2>1, <1>s, <1>t DEF Tallied
  <2>3. Adjacent(a)'
    BY <2>1, <1>i, <1>s, <1>c DEF Adjacent
  <2>4. \A k \in Receivers' : visits'[k] # 1
    BY <2>1, <1>s, <1>t
  <2>5. \A k \in 1 .. N :
          Between(k)' <=> ((b < ranges[k] /\ ranges[k] < b') \/ (b' < ranges[k] /\ ranges[k] < b))
    BY <2>1, <1>c DEF Between
  <2>6. \/ ranges[index] < b /\ (index = N \/ ranges[index + 1] >= b)
        \/ ranges[index] >= b /\ (index = 1 \/ ranges[index - 1] <= b)
    BY <2>1, <1>i DEF Adjacent, N
  <2>7. Upward'
    <3>1. ASSUME ranges[index] < b', NEW k \in 1 .. N, k < index PROVE ~Between(k)'
      <4>1. index - 1 \in 1 .. N
        BY <3>1, <1>t
      <4>2. ranges[k] <= ranges[index - 1] /\ ranges[k] < ranges[index]
        BY <4>1, <3>1, <1>t, <1>m
      <4>3. CASE ranges[index] < b
        <5>1. ~(b < ranges[k]) /\ ~(b' < ranges[k])
          BY <4>2, <4>3, <3>1, <2>1, <1>t, <1>i
        <5> QED
          BY <5>1, <2>5
      <4>4. CASE ranges[index] >= b
        <5>1. ranges[index - 1] <= b
          BY <4>1, <4>4, <2>6, <1>t, <1>i
        <5> QED
          BY <5>1, <4>1, <4>2, <4>4, <3>1, <2>1, <2>5, <1>t, <1>i
      <4> QED
        BY <4>3, <4>4, <1>t, <1>i
    <3>2. ASSUME ranges[index] < b', b' < b PROVE index = N \/ ranges[index + 1] >= b
      BY <3>2, <2>1, <2>6, <1>t, <1>i
    <3> QED
      BY <3>1, <3>2, <2>1, <2>4, <1>s, <1>c, <1>t DEF Upward, N
  <2>8. Downward'
    <3>1. ASSUME ranges[index] >= b', NEW k \in 1 .. N, k > index PROVE ~Between(k)'
      <4>1. index + 1 \in 1 .. N
        BY <3>1, <1>t
      <4>2. ranges[k] >= ranges[index + 1] /\ ranges[k] > ranges[index]
        BY <4>1, <3>1, <1>t, <1>m
      <4>3. CASE ranges[index] >= b
        <5>1. ~(ranges[k] < b) /\ ~(ranges[k] < b')
          BY <4>2, <4>3, <3>1, <2>1, <1>t, <1>i
        <5> QED
          BY <5>1, <2>5
      <4>4. CASE ranges[index] < b
        <5>1. ranges[index + 1] >= b
          BY <4>1, <4>4, <3>1, <2>6, <1>t, <1>i
        <5>2. ~(ranges[k] < b) /\ ~(ranges[k] < b')
          BY <5>1, <4>1, <4>2, <4>4, <3>1, <2>1, <1>t, <1>i
        <5> QED
          BY <5>2, <2>5
      <4> QED
        BY <4>3, <4>4, <1>t, <1>i
    <3>2. ASSUME ranges[index] >= b', b < b' PROVE index = 1 \/ ranges[index - 1] <= b
      BY <3>2, <2>1, <2>6, <1>t, <1>i
    <3> QED
      BY <3>1, <3>2, <2>1, <2>4, <1>s, <1>c, <1>t DEF Downward
  <2> QED
    BY <2>1, <2>2, <2>7, <2>8, <1>i
<1>3. CASE CartesianReceiver
  <2>1. /\ a' = a /\ b' = b /\ pc = "walk" /\ index' = NextReceiver
        /\ pc' = IF index' = index THEN "segment" ELSE "walk"
        /\ IF InSegment THEN visits' = [visits EXCEPT ![index] = @ + 1] ELSE visits' = visits
    BY <1>3 DEF CartesianReceiver, Visit
  <2>2. visits[index] = 0
    BY <1>t, <1>i, <2>1 DEF Upward, Downward, Tallied
  <2>3. \A k \in 1 .. N : visits'[k] = IF k = index /\ InSegment THEN 1 ELSE visits[k]
    BY <2>1, <2>2, <1>t
  <2>4. Tallied'
    BY <2>1, <2>3, <1>t, <1>i, <1>s, <1>c DEF Tallied, Touched, InSegment
  <2>5. InSegment \/ ~Between(index)
    BY <1>t, <1>i DEF InSegment, Between
  <2>6. CASE ranges[index] < b
    <3>1. /\ \A k \in 1 .. N : visits'[k] = 1 => k <= index
          /\ \A k \in 1 .. N : k <= index /\ Between(k) => visits'[k] = 1
          /\ b < a => index = N \/ ranges[index + 1] >= a
      BY <2>1, <2>3, <2>5, <2>6, <1>t, <1>i DEF Upward, N
    <3>2. CASE index < N /\ ranges[index + 1] < b
      <4>1. index' = index + 1 /\ pc' = "walk" /\ ranges'[index'] < b'
        BY <3>2, <2>1, <2>6, <1>t, <1>c DEF NextReceiver, N
      <4>5. ~(ranges'[index'] >= b')
        BY <4>1, <3>2, <2>1, <1>t, <1>c, <1>i
      <4>2. ~(b < a)
        BY <3>1, <3>2, <1>t, <1>i
      <4>3. Upward'
        BY <4>1, <4>2, <3>1, <2>1, <1>t, <1>s, <1>c, <1>i DEF Upward, Between
      <4>4. Downward'
        BY <4>5 DEF Downward
      <4> QED
        BY <4>1, <4>3, <4>4, <2>1, <2>4, <1>i
    <3>3. CASE index = N \/ ranges[index + 1] >= b
      <4>1. index' = index /\ pc' = "segment"
        <5>1. ~(index < N /\ ranges[index + 1] < b)
          BY <3>3, <1>t, <1>i
        <5> QED
          BY <5>1, <2>1, <2>6 DEF NextReceiver, N
      <4>2. Adjacent(b)'
        BY <4>1, <3>3, <2>1, <2>6, <1>s, <1>c DEF Adjacent, N
      <4>3. ASSUME NEW k \in 1 .. N, k > index PROVE ~Between(k)
        <5>1. index + 1 \in 1 .. N /\ ranges[k] >= ranges[index + 1] /\ ranges[index] < ranges[k]
          BY <4>3, <1>t
        <5> QED
          BY <5>1, <3>1, <3>3, <4>3, <2>6, <1>t, <1>i DEF Between
      <4> QED
        BY <4>1, <4>2, <4>3, <3>1, <2>1, <2>4, <1>t, <1>s, <1>c, <1>i DEF Between
    <3> QED
      BY <3>2, <3>3, <1>t, <1>i
  <2>7. CASE ranges[index] >= b
    <3>1. /\ \A k \in 1 .. N : visits'[k] = 1 => k >= index
          /\ \A k \in 1 .. N : k >= index /\ Between(k) => visits'[k] = 1
          /\ a < b => index = 1 \/ ranges[index - 1] <= a
      BY <2>1, <2>3, <2>5, <2>7, <1>t, <1>i DEF Downward
    <3>2. CASE index > 1 /\ ranges[index - 1] > b
      <4>1. index' = index - 1 /\ pc' = "walk" /\ ranges'[index'] > b'
        BY <3>2, <2>1, <2>7, <1>t, <1>c, <1>i DEF NextReceiver
      <4>2. ~(a < b)
        BY <3>1, <3>2, <1>t, <1>i
      <4>3. Downward'
        BY <4>1, <4>2, <3>1, <2>1, <1>t, <1>s, <1>c, <1>i DEF Downward, Between
      <4>5. ~(ranges'[index'] < b')
        BY <4>1, <3>2, <2>1, <1>t, <1>c, <1>i
      <4>4. Upward'
        BY <4>5 DEF Upward
      <4> QED
        BY <4>1, <4>3, <4>4, <2>1, <2>4, <1>i
    <3>3. CASE index = 1 \/ ranges[index - 1] <= b
      <4>1. index' = index /\ pc' = "segment"
        BY <3>3, <2>1, <2>7, <1>t, <1>i DEF NextReceiver
      <4>2. Adjacent(b)'
        BY <4>1, <3>3, <2>1, <2>7, <1>s, <1>c DEF Adjacent
      <4>3. ASSUME NEW k \in 1 .. N, k < index PROVE ~Between(k)
        <5>1. index - 1 \in 1 .. N /\ ranges[k] <= ranges[index - 1] /\ ranges[k] < ranges[index]
          BY <4>3, <1>t
        <5> QED
          BY <5>1, <3>1, <3>3, <4>3, <2>7, <1>t, <1>i DEF Between
      <4> QED
        BY <4>1, <4>2, <4>3, <3>1, <2>1, <2>4, <1>t, <1>s, <1>c, <1>i DEF Between
    <3> QED
      BY <3>2, <3>3, <1>t, <1>i
  <2> QED
    BY <2>6, <2>7, <1>t, <1>i
<1>4. CartesianSegment \/ CartesianReceiver \/ UNCHANGED <<pc, a, b, index, visits>>
  BY <1>c DEF vars, Next, CartesianShort, CartesianSegment, CartesianReceiver,
    CenteredSegment, CervenySegment, CervenyBeyond, PassReceiver, SimpleSegment, SimpleReceiver
<1> QED
  BY <1>1, <1>2, <1>3, <1>4

(* Every segment of a ray, however it turns and however finely it is cut,  *)
(* gives each receiver inside it to the Cartesian beams exactly once.      *)
THEOREM SegmentsSwept == Spec => []Swept
<1>1. TypeInv /\ SweepInv => Swept
  BY DEF SweepInv, Swept, Tallied, TypeInv, TypeOK
<1> QED
  BY <1>1, TypeInvariant, SweepInit, SweepStep, PTL DEF Spec

-----------------------------------------------------------------------------
(* The pass of a simple Gaussian.                                          *)

(* The receivers short of the index are those it has met and those its ray *)
(* has got past; the one at the index is next.                             *)
PassageInv ==
  family = "simple" =>
    /\ visits = [k \in Receivers |-> IF k < index \/ pc = "done" THEN 1 ELSE 0]
    /\ \A k \in Receivers : k < index => ranges[k] < reach
    /\ pc = "segment" => reach <= ranges[index]
    /\ pc = "walk" => b = reach /\ ranges[index] < reach
    /\ pc = "done" => index = Last /\ ranges[index] < reach

LEMMA ReachInt == ASSUME TypeOK PROVE reach \in Int
<1>1. -Far \in Int /\ Positions \subseteq Int
  BY SweepAssumption
<1> QED
  BY <1>1 DEF TypeOK

LEMMA PassageInit == Init => PassageInv
<1> SUFFICES ASSUME Init, family = "simple"
             PROVE  PassageInv
  BY DEF PassageInv
<1>1. ranges \in Tables /\ Far \in Int /\ \A i \in DOMAIN ranges : -Far < ranges[i]
  BY SweepAssumption DEF Init
<1>2. /\ index = 1 /\ reach = -Far /\ visits = Unvisited /\ pc = "segment"
      /\ 1 \in Receivers /\ Receivers = 1 .. Last /\ Last \in Nat
  BY <1>1, TableFacts DEF Init, Receivers, Last
<1>3. ranges[1] \in Int /\ -Far < ranges[1]
  BY <1>1, <1>2, TableFacts DEF Receivers
<1> QED
  BY <1>1, <1>2, <1>3 DEF PassageInv, Unvisited

LEMMA PassageStep == TypeInv /\ PassageInv /\ [Next]_vars => PassageInv'
<1> SUFFICES ASSUME TypeInv, PassageInv, [Next]_vars, family' = "simple"
             PROVE  PassageInv'
  BY DEF PassageInv
<1> DEFINE N == Last
<1>s. UNCHANGED setting /\ Receivers' = Receivers /\ Last' = Last
  BY DEF vars, setting, Next, CartesianShort, CartesianSegment, CartesianReceiver,
    CenteredSegment, CervenySegment, CervenyBeyond, PassReceiver, SimpleSegment, SimpleReceiver,
    Receivers, Last
<1>c. family = "simple" /\ ranges' = ranges
  BY <1>s DEF setting
<1>i. /\ visits = [k \in Receivers |-> IF k < index \/ pc = "done" THEN 1 ELSE 0]
      /\ \A k \in Receivers : k < index => ranges[k] < reach
      /\ pc = "segment" => reach <= ranges[index]
      /\ pc = "walk" => b = reach /\ ranges[index] < reach
      /\ pc = "done" => index = Last /\ ranges[index] < reach
  BY <1>c DEF PassageInv
<1>t. /\ Receivers = 1 .. N /\ N \in Nat /\ N >= 1 /\ index \in 1 .. N
      /\ \A i \in 1 .. N : ranges[i] \in Int
      /\ \A i, j \in 1 .. N : i < j => ranges[i] < ranges[j]
      /\ Positions \subseteq Int
  BY SweepAssumption, TableFacts DEF TypeInv, TypeOK, Receivers, Last
<1>r. reach \in Int
  BY ReachInt DEF TypeInv
<1> HIDE DEF N
<1>1. CASE UNCHANGED vars
  BY <1>1, <1>s, <1>c, <1>i DEF PassageInv, vars
<1>2. CASE SimpleSegment
  <2>1. PICK q \in Positions :
          /\ b' = q
          /\ \/ UNCHANGED <<pc, reach>>
             \/ /\ pc' = IF q > ranges[index] THEN "walk" ELSE "segment"
                /\ reach' = IF q > reach THEN q ELSE reach
    BY <1>2 DEF SimpleSegment, Behind
  <2>2. pc = "segment" /\ index' = index /\ visits' = visits /\ q \in Int
    BY <1>2, <1>t DEF SimpleSegment
  <2>3. reach <= ranges[index] /\ ranges[index] \in Int
    BY <2>2, <1>i, <1>t, <1>r
  <2>4. reach' >= reach /\ reach' \in Int /\ pc' # "done"
    BY <2>1, <2>2, <1>t, <1>r
  <2>5. pc' = "segment" => reach' <= ranges[index]
    BY <2>1, <2>2, <2>3, <1>t, <1>r
  <2>6. pc' = "walk" => b' = reach' /\ ranges[index] < reach'
    BY <2>1, <2>2, <2>3, <1>t, <1>r
  <2>7. \A k \in Receivers : k < index => ranges[k] < reach'
    BY <2>4, <1>i, <1>t, <1>r
  <2> QED
    BY <2>2, <2>4, <2>5, <2>6, <2>7, <1>s, <1>c, <1>i DEF PassageInv
<1>3. CASE SimpleReceiver
  <2>1. /\ pc = "walk" /\ b' = b /\ reach' = reach
        /\ visits' = [visits EXCEPT ![index] = @ + 1]
        /\ \/ index = N /\ pc' = "done" /\ index' = index
           \/ /\ index # N /\ index' = index + 1
              /\ pc' = IF b > ranges[index + 1] THEN "walk" ELSE "segment"
    BY <1>3 DEF SimpleReceiver, Visit, Behind, N
  <2>2. b = reach /\ ranges[index] < reach
    BY <2>1, <1>i
  <2>3. visits' = [k \in 1 .. N |-> IF k < index \/ k = index THEN 1 ELSE 0]
    <3>1. visits = [k \in 1 .. N |-> IF k < index THEN 1 ELSE 0]
      BY <2>1, <1>i, <1>t
    <3>2. visits[index] = 0
      BY <3>1, <1>t
    <3>3. visits' = [visits EXCEPT ![index] = 1]
      BY <2>1, <3>2
    <3> QED
      BY <3>1, <3>3
  <2>4. CASE index = N /\ pc' = "done" /\ index' = index
    <3>1. visits' = [k \in 1 .. N |-> IF k < index' \/ pc' = "done" THEN 1 ELSE 0]
      BY <2>3, <2>4, <1>t
    <3> QED
      BY <3>1, <2>1, <2>2, <2>4, <1>s, <1>c, <1>i, <1>t, <1>r DEF PassageInv, N
  <2>5. CASE index # N /\ index' = index + 1
    <3>1. index' \in 1 .. N /\ pc' = IF b > ranges[index'] THEN "walk" ELSE "segment"
      BY <2>1, <2>5, <1>t
    <3>2. visits' = [k \in 1 .. N |-> IF k < index' \/ pc' = "done" THEN 1 ELSE 0]
      BY <2>3, <2>5, <3>1, <1>t
    <3>3. \A k \in 1 .. N : k < index' => ranges[k] < reach
      BY <2>2, <2>5, <1>i, <1>t, <1>r
    <3>4. /\ pc' = "segment" => reach <= ranges[index']
          /\ pc' = "walk" => ranges[index'] < reach
      BY <3>1, <2>2, <1>t, <1>r
    <3> QED
      BY <3>1, <3>2, <3>3, <3>4, <2>1, <2>2, <1>s, <1>c, <1>t DEF PassageInv
  <2> QED
    BY <2>1, <2>4, <2>5
<1> QED
  BY <1>1, <1>2, <1>3, <1>c DEF Next, CartesianShort, CartesianSegment, CartesianReceiver,
    CenteredSegment, CervenySegment, CervenyBeyond, PassReceiver

(* A simple Gaussian meets a receiver once, when its ray first gets past   *)
(* it, however often the ray turns back and comes by again.                *)
THEOREM MetAtFirstPassage == Spec => []FirstPassage
<1>1. TypeInv /\ PassageInv => FirstPassage
  <2> SUFFICES ASSUME TypeInv, PassageInv, family = "simple", pc # "walk", NEW k \in Receivers
               PROVE  visits[k] = IF ranges[k] < reach THEN 1 ELSE 0
    BY DEF FirstPassage
  <2>1. /\ Receivers = 1 .. Last /\ Last \in Nat /\ index \in 1 .. Last
        /\ \A i \in 1 .. Last : ranges[i] \in Int
        /\ \A i, j \in 1 .. Last : i < j => ranges[i] < ranges[j]
        /\ pc \in {"segment", "done"}
    BY SweepAssumption, TableFacts DEF TypeInv, TypeOK, Receivers, Last
  <2>r. reach \in Int
    BY ReachInt DEF TypeInv
  <2>2. CASE pc = "segment"
    <3>1. k < index \/ ranges[k] >= ranges[index]
      BY <2>1
    <3> QED
      BY <3>1, <2>1, <2>r, <2>2 DEF PassageInv
  <2>3. CASE pc = "done"
    BY <2>1, <2>r, <2>3 DEF PassageInv
  <2> QED
    BY <2>1, <2>2, <2>3
<1> QED
  BY <1>1, TypeInvariant, PassageInit, PassageStep, PTL DEF Spec

-----------------------------------------------------------------------------
(* Evenly spaced receivers: the walk between two indices.                  *)

(* Induction over the naturals, without an operator parameter: a set that  *)
(* has 0 and with every number its successor has them all.                 *)
LEMMA SetInduction ==
  ASSUME NEW S, 0 \in S, \A n \in Nat : n \in S => n + 1 \in S
  PROVE  Nat \subseteq S
<1> SUFFICES ASSUME Nat \ S # {} PROVE FALSE
  OBVIOUS
<1>1. PICK x \in Nat \ S : \A y \in Nat \ S : ~(<<y, x>> \in OpToRel(<, Nat))
  BY NatLessThanWellFounded, WFMin
<1>2. x \in Nat /\ x # 0
  BY <1>1
<1>3. x - 1 \in Nat /\ x - 1 < x /\ (x - 1) + 1 = x
  BY <1>2
<1>4. <<x - 1, x>> \in OpToRel(<, Nat)
  BY <1>2, <1>3 DEF OpToRel
<1>5. x - 1 \in S
  BY <1>1, <1>3, <1>4
<1>6. (x - 1) + 1 \in S
  BY <1>3, <1>5
<1> QED
  BY <1>1, <1>3, <1>6

LEMMA ProductOrder ==
  ASSUME NEW x \in Int, NEW y \in Int, NEW d \in Int, d > 0
  PROVE  x <= y <=> x * d <= y * d
OBVIOUS

LEMMA QuotientBounds ==
  ASSUME NEW x \in Int, NEW d \in Int, d > 0
  PROVE  x \div d \in Int /\ (x \div d) * d <= x /\ x < (x \div d + 1) * d
OBVIOUS

(* In an even table the receiver ranges are an arithmetic progression.     *)
EvenTable(table) ==
  \A k \in DOMAIN table : k + 1 < Len(table) =>
    table[k + 1] - table[k] = table[Len(table)] - table[Len(table) - 1]

LEMMA Progression ==
  ASSUME NEW table \in Tables, EvenTable(table), Len(table) > 1, NEW k \in DOMAIN table
  PROVE  table[k] = table[1] + (k - 1) * (table[Len(table)] - table[Len(table) - 1])
<1> DEFINE n == Len(table)
           d == table[n] - table[n - 1]
           S == {j \in Nat : j + 1 <= n => table[j + 1] = table[1] + j * d}
<1>1. n \in Nat /\ DOMAIN table = 1 .. n /\ (\A i \in 1 .. n : table[i] \in Int)
  BY TableFacts
<1>2. d \in Int
  <2>1. n \in 1 .. n /\ n - 1 \in 1 .. n
    BY <1>1
  <2> QED
    BY <1>1, <2>1
<1>3. 0 \in S
  <2>1. table[1] \in Int /\ 0 * d = 0
    BY <1>1, <1>2
  <2> QED
    BY <2>1
<1>4. ASSUME NEW j \in Nat, j \in S PROVE j + 1 \in S
  <2> SUFFICES ASSUME (j + 1) + 1 <= n
               PROVE  table[(j + 1) + 1] = table[1] + (j + 1) * d
    OBVIOUS
  <2>1. j + 1 \in 1 .. n /\ (j + 1) + 1 \in 1 .. n
    BY <1>1
  <2>2. table[j + 1] = table[1] + j * d
    BY <1>4, <2>1, <1>1
  <2>3. table[(j + 1) + 1] - table[j + 1] = d
    <3>1. CASE (j + 1) + 1 = n
      <4>1. n - 1 = j + 1
        BY <3>1
      <4> QED
        BY <3>1, <4>1
    <3>2. CASE (j + 1) + 1 < n
      BY <3>2, <2>1, <1>1 DEF EvenTable
    <3>3. (j + 1) + 1 = n \/ (j + 1) + 1 < n
      <4>1. n \in Int /\ (j + 1) + 1 \in Int /\ (j + 1) + 1 <= n
        BY <1>1
      <4> HIDE DEF n
      <4> QED
        BY <4>1
    <3> QED
      BY <3>1, <3>2, <3>3
  <2>4. (j + 1) * d = j * d + d /\ j * d \in Int
    BY <1>2
  <2>5. table[j + 1] \in Int /\ table[(j + 1) + 1] \in Int /\ table[1] \in Int
    BY <2>1, <1>1
  <2> HIDE DEF d
  <2> QED
    BY <2>2, <2>3, <2>4, <2>5, <1>2
<1>5. Nat \subseteq S
  <2> HIDE DEF S
  <2> QED
    BY <1>3, <1>4, SetInduction
<1>6. k - 1 \in Nat /\ (k - 1) + 1 = k /\ k <= n
  BY <1>1
<1> HIDE DEF n, d
<1> QED
  BY <1>5, <1>6 DEF n, d

(* The index of a range is the last receiver at or short of it.            *)
LEMMA UniformIndexMeaning ==
  ASSUME NEW table \in Tables, EvenTable(table), NEW q \in Int,
         NEW k \in DOMAIN table, k > 1
  PROVE  k <= UniformIndex(table, q) <=> table[k] <= q
<1> DEFINE n == Len(table)
           d == table[n] - table[n - 1]
           steps == (q - table[1]) \div d
<1>1. /\ n \in Nat /\ DOMAIN table = 1 .. n /\ n > 1
      /\ \A i \in 1 .. n : table[i] \in Int
      /\ \A i, j \in 1 .. n : i < j => table[i] < table[j]
  BY TableFacts
<1>2. d \in Int /\ d > 0
  <2>1. n \in 1 .. n /\ n - 1 \in 1 .. n /\ n - 1 < n
    BY <1>1
  <2> QED
    BY <1>1, <2>1
<1>3. table[1] \in Int /\ table[k] \in Int /\ table[1] < table[k]
  BY <1>1
<1>4. CASE q <= table[1]
  <2>1. UniformIndex(table, q) = 1
    BY <1>4 DEF UniformIndex
  <2> QED
    BY <2>1, <1>3, <1>4, <1>1
<1>5. CASE q > table[1]
  <2>1. UniformIndex(table, q) = IF steps >= n - 1 THEN n ELSE steps + 1
    BY <1>1, <1>3, <1>5 DEF UniformIndex
  <2>2. /\ steps \in Int /\ steps * d <= q - table[1] /\ q - table[1] < (steps + 1) * d
    <3>1. q - table[1] \in Int
      BY <1>3
    <3> HIDE DEF d
    <3> QED
      BY <1>2, <3>1, QuotientBounds
  <2>3. table[k] = table[1] + (k - 1) * d
    BY <1>1, Progression
  <2>4. k <= UniformIndex(table, q) <=> k - 1 <= steps
    BY <2>1, <2>2, <1>1
  <2>t. k - 1 \in Int /\ steps \in Int /\ steps + 1 \in Int
    BY <2>2, <1>1
  <2> HIDE DEF steps, d
  <2>5. k - 1 \in Int /\ (k - 1) * d \in Int /\ steps * d \in Int /\ (steps + 1) * d \in Int
    BY <2>t, <1>2
  <2>6. k - 1 <= steps => (k - 1) * d <= steps * d
    BY <2>t, <1>2, ProductOrder
  <2>7. k - 1 > steps => (steps + 1) * d <= (k - 1) * d
    <3>1. k - 1 > steps => steps + 1 <= k - 1
      BY <2>t
    <3> QED
      BY <3>1, <2>t, <1>2, ProductOrder
  <2> QED
    BY <2>2, <2>3, <2>4, <2>5, <2>6, <2>7, <1>3
<1> QED
  BY <1>3, <1>4, <1>5

Passing == {"centered", "cerveny", "cervenyCentered"}

(* The index a segment is led to or from, unless it comes from nowhere.    *)
Looked(p, i) == p # Far => i = UniformIndex(ranges, p)

(* The receivers a walk has been at when it stands at receiver i.          *)
Left(i) == {k \in Receivers : \/ from < to /\ from < k /\ k < i
                              \/ to < from /\ i < k /\ k <= from}

(* The receivers a walk between two indices is to be at.                   *)
Due == {k \in Receivers : \/ from < k /\ k <= to
                          \/ to < k /\ k <= from}

Marked(set) == visits = [k \in Receivers |-> IF k \in set THEN 1 ELSE 0]

Led == Passes(from, to) /\ Looked(a, from) /\ Looked(b, to)

PassedInv ==
  family \in Passing =>
    /\ b = Far => a = Far
    /\ family # "cerveny" => Looked(b, to)
    /\ \/ pc # "walk" /\ a = b /\ visits = Unvisited
       \/ pc = "walk" /\ Led /\ Marked(Left(index))
       \/ pc # "walk" /\ Led /\ Marked(Due)

LEMMA PassedInit == Init => PassedInv
<1> SUFFICES ASSUME Init, family \in Passing PROVE PassedInv
  BY DEF PassedInv
<1>1. pc = "segment" /\ a = b /\ visits = Unvisited
  BY DEF Init
<1>2. family # "cerveny" => Looked(b, to)
  BY DEF Init, Looked, Passing
<1> QED
  BY <1>1, <1>2 DEF PassedInv

LEMMA PassedStep == TypeInv /\ PassedInv /\ [Next]_vars => PassedInv'
<1> SUFFICES ASSUME TypeInv, PassedInv, [Next]_vars PROVE PassedInv'
  OBVIOUS
<1> USE DEF Passing
<1>t. /\ TypeOK /\ Bracketed
      /\ ranges \in Tables /\ Positions \subseteq Int /\ Far \notin Positions
      /\ Receivers = 1 .. Last /\ Last \in Nat
      /\ from \in 1 .. Last /\ to \in 1 .. Last /\ index \in 1 .. Last
  <2>1. Far \notin Positions
    BY SweepAssumption
  <2> QED
    BY <2>1, SweepAssumption, TableFacts DEF TypeInv, TypeOK, Receivers, Last
<1>f. UNCHANGED family
  BY DEF Next, CartesianShort, CartesianSegment, CartesianReceiver, CenteredSegment,
    CervenySegment, CervenyBeyond, PassReceiver, SimpleSegment, SimpleReceiver, setting, vars
<1>s. UNCHANGED ranges
  BY DEF Next, CartesianShort, CartesianSegment, CartesianReceiver, CenteredSegment,
    CervenySegment, CervenyBeyond, PassReceiver, SimpleSegment, SimpleReceiver, setting, vars
<1>r. Receivers' = Receivers /\ Unvisited' = Unvisited
  BY <1>s DEF Receivers, Unvisited
<1> SUFFICES ASSUME family \in Passing PROVE PassedInv'
  BY <1>f DEF PassedInv
<1>1. CASE UNCHANGED vars
  BY <1>1, <1>r DEF PassedInv, vars, Looked, Led, Passes, Marked, Left, Due
<1>a. ASSUME NEW q \in Positions, NEW j, j = UniformIndex(ranges, q), Anchor(q, j), pc = "segment"
      PROVE  PassedInv'
  BY <1>a, <1>s, <1>r, <1>t DEF Anchor, PassedInv, Looked
<1>w. ASSUME NEW p, NEW i \in Receivers, NEW q \in Positions, NEW j \in Receivers,
             Looked(p, i), j = UniformIndex(ranges, q), WalkBetween(p, i, q, j)
      PROVE  PassedInv'
  <2>1. b' # Far /\ Looked(b, to)'
    BY <1>w, <1>s, <1>t DEF WalkBetween, Looked
  <2>2. Led'
    BY <1>w, <1>s, <1>f DEF WalkBetween, Looked, Led, Passes
  <2>3. Left(index)' = {}
    BY <1>w, <1>t, <1>r, <1>f DEF WalkBetween, Left, Enter, FirstPassed, Passes
  <2>4. Marked(Left(index))'
    BY <1>w, <2>3, <1>r DEF WalkBetween, Enter, Marked, Unvisited
  <2>5. pc' = "walk"
    BY <1>w DEF WalkBetween, Enter
  <2> QED
    BY <2>1, <2>2, <2>4, <2>5 DEF PassedInv
<1>u. \A p \in Positions : UniformIndex(ranges, p) \in Receivers
  BY <1>t, UniformIndexInTable DEF Receivers
<1>2. CASE CenteredSegment
  <2>1. PICK q \in Positions : LET j == UniformIndex(ranges, q)
                               IN WalkBetween(b, to, q, j) \/ Anchor(q, j)
    BY <1>2 DEF CenteredSegment
  <2>2. pc = "segment" /\ Looked(b, to) /\ to \in Receivers
    BY <1>2, <1>t DEF CenteredSegment, PassedInv
  <2>3. CASE WalkBetween(b, to, q, UniformIndex(ranges, q))
    BY <2>2, <2>3, <1>w, <1>u
  <2>4. CASE Anchor(q, UniformIndex(ranges, q))
    BY <2>2, <2>4, <1>a, <1>u
  <2> QED
    BY <2>1, <2>3, <2>4
<1>3. CASE CervenySegment
  <2>1. PICK q \in Positions :
          \/ WalkBetween(position, UniformIndex(ranges, position), q, UniformIndex(ranges, q))
          \/ Anchor(q, UniformIndex(ranges, q))
    BY <1>3 DEF CervenySegment
  <2>2. pc = "segment" /\ position \in Positions
    BY <1>3, <1>t DEF CervenySegment, TypeOK
  <2>3. CASE WalkBetween(position, UniformIndex(ranges, position), q, UniformIndex(ranges, q))
    BY <2>2, <2>3, <1>w, <1>u DEF Looked
  <2>4. CASE Anchor(q, UniformIndex(ranges, q))
    BY <2>2, <2>4, <1>a, <1>u
  <2> QED
    BY <2>1, <2>3, <2>4
<1>4. CASE CervenyBeyond
  <2>1. /\ UNCHANGED <<a, b, index, from, to, visits>>
        /\ pc # "walk" /\ pc' # "walk"
    BY <1>4 DEF CervenyBeyond
  <2> QED
    BY <2>1, <1>f, <1>s, <1>r DEF PassedInv, Looked, Led, Passes, Marked, Left, Due
<1>5. CASE PassReceiver
  <2>1. /\ pc = "walk" /\ Visit /\ UNCHANGED <<a, b, from, to>>
        /\ \/ index = LastPassed(from, to) /\ pc' = "segment" /\ index' = index
           \/ /\ index # LastPassed(from, to) /\ pc' = "walk"
              /\ index' = IF from < to THEN index + 1 ELSE index - 1
    BY <1>5 DEF PassReceiver
  <2>2. Led /\ Marked(Left(index))
    BY <2>1 DEF PassedInv
  <2>3. index \notin Left(index)
    BY <1>t DEF Left
  <2>4. visits' = [k \in Receivers |-> IF k \in Left(index) \cup {index} THEN 1 ELSE 0]
    <3>1. visits = [k \in Receivers |-> IF k \in Left(index) THEN 1 ELSE 0]
      BY <2>2 DEF Marked
    <3>2. visits[index] = 0
      BY <3>1, <2>3, <1>t
    <3>3. visits' = [visits EXCEPT ![index] = 1]
      BY <2>1, <3>2 DEF Visit
    <3> HIDE DEF Left
    <3> QED
      BY <3>1, <3>3
  <2>5. Led'
    BY <2>1, <2>2, <1>f, <1>s DEF Led, Looked, Passes
  <2>b. \/ from < to /\ from < index /\ index <= to
        \/ to < from /\ to < index /\ index <= from
    BY <2>1, <1>t DEF Bracketed
  <2>6. CASE index = LastPassed(from, to) /\ pc' = "segment" /\ index' = index
    <3>1. Due' = Left(index) \cup {index}
      <4>1. Due' = Due
        BY <2>1, <1>r DEF Due
      <4> QED
        BY <4>1, <2>6, <2>b, <1>t DEF Due, Left, LastPassed
    <3>2. Marked(Due)'
      BY <2>4, <3>1, <1>r DEF Marked
    <3> QED
      BY <2>1, <2>2, <2>5, <2>6, <3>2, <1>f, <1>s DEF PassedInv, Looked
  <2>7. CASE /\ index # LastPassed(from, to) /\ pc' = "walk"
             /\ index' = IF from < to THEN index + 1 ELSE index - 1
    <3>1. Left(index)' = Left(index) \cup {index}
      BY <2>1, <2>7, <2>b, <1>t, <1>r DEF Left, LastPassed
    <3>2. Marked(Left(index))'
      BY <2>4, <3>1, <1>r DEF Marked
    <3> QED
      BY <2>1, <2>2, <2>5, <2>7, <3>2, <1>f, <1>s DEF PassedInv, Looked
  <2> QED
    BY <2>1, <2>6, <2>7
<1> QED
  BY <1>1, <1>2, <1>3, <1>4, <1>5, <1>f DEF Next, CartesianShort, CartesianSegment,
    CartesianReceiver, SimpleSegment, SimpleReceiver

(* Over evenly spaced receivers a segment is tried at exactly the receivers *)
(* it leads past, once each and in either direction, in all three families *)
(* that walk between two looked-up indices.                                *)
THEOREM ReceiversPassed == Spec => []Passed
<1>1. TypeInv /\ PassedInv => Passed
  <2> SUFFICES ASSUME TypeInv, PassedInv, family \in Passing, pc = "segment", Even, a # Far,
                      NEW k \in Receivers
               PROVE  /\ visits[k] <= 1
                      /\ k > 1 /\ Between(k) => visits[k] = 1
                      /\ visits[k] = 1 => k > 1 /\ Touched(k) /\ (family = "centered" \/ a < b)
    BY DEF Passed, Passing
  <2>1. /\ ranges \in Tables /\ EvenTable(ranges)
        /\ Receivers = DOMAIN ranges /\ Receivers = 1 .. Last /\ Last \in Nat
        /\ from \in 1 .. Last /\ to \in 1 .. Last /\ ranges[k] \in Int
    BY SweepAssumption, TableFacts
      DEF TypeInv, TypeOK, Receivers, Last, Even, EvenTable
  <2>2. b # Far /\ a \in Int /\ b \in Int
    BY SweepAssumption DEF TypeInv, TypeOK, PassedInv
  <2>3. CASE a = b /\ visits = Unvisited
    BY <2>1, <2>2, <2>3 DEF Unvisited, Between
  <2>4. CASE Led /\ Marked(Due)
    <3>1. from = UniformIndex(ranges, a) /\ to = UniformIndex(ranges, b)
      BY <2>2, <2>4 DEF Led, Looked
    <3>2. k > 1 => (k <= from <=> ranges[k] <= a) /\ (k <= to <=> ranges[k] <= b)
      BY <3>1, <2>1, <2>2, UniformIndexMeaning
    <3>3. visits[k] = IF k \in Due THEN 1 ELSE 0
      BY <2>4 DEF Marked
    <3>4. k \in Due <=> (from < k /\ k <= to) \/ (to < k /\ k <= from)
      BY DEF Due
    <3>5. family = "centered" \/ from < to
      BY <2>4 DEF Led, Passes
    <3>6. k \in Due => k > 1
      BY <3>4, <2>1
    <3>7. k \in Due => Touched(k) /\ (family = "centered" \/ a < b)
      BY <3>2, <3>4, <3>5, <3>6, <2>1, <2>2 DEF Touched
    <3>8. k > 1 /\ Between(k) => k \in Due
      BY <3>2, <3>4, <2>1, <2>2 DEF Between
    <3> QED
      BY <3>3, <3>6, <3>7, <3>8
  <2> QED
    BY <2>3, <2>4 DEF PassedInv
<1> QED
  BY <1>1, TypeInvariant, PassedInit, PassedStep, PTL DEF Spec
=============================================================================
