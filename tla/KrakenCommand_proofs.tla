------------------------- MODULE KrakenCommand_proofs -------------------------
(****************************************************************************)
(* Proofs about KrakenCommand.  Marched rests on two invariants: Marching,  *)
(* of the pieces, the place and the modes of a march, and Acceptance, which *)
(* says that no field is solved that was not accepted, since what makes the *)
(* boundaries of a march rise is what a case and a field are checked for.   *)
(* Discovered rests on Tracing: there is a trail of readings of the         *)
(* environment file, which discovery walks to its end and the load walks    *)
(* again, so that what the load has used is a part of what was discovered,  *)
(* and all of it when no record is left.  Quadrature rests on Acceptance:  *)
(* in a case and a field that were accepted, no two interfaces share the    *)
(* stretch between two samples.  Exportable rests on Sized: what the load   *)
(* has counted is what the sequences so far hold and the ranges of all of   *)
(* their profiles, and that is what a document of them is charged.  Within  *)
(* rests on Ledger: what is being written is of a frequency that is solved, *)
(* the report has an entry for every frequency that is done with, and no    *)
(* record takes a file past what the directory leaves of the quota.         *)
(* ReadBack rests on Sounding as well: every profile that is solved has a   *)
(* mode, and a sample is at the place of its source, depth and range; the   *)
(* rest is that records which fit are kept in order, and that a reader and  *)
(* the writer agree on where the records of a profile end.                  *)
(****************************************************************************)
EXTENDS KrakenCommand, SequenceTheorems, FiniteSetTheorems, WellFoundedInduction, TLAPS

(* A field that was accepted.                                               *)
FieldOK(f) ==
  /\ List(f.profiles) /\ FieldCaseAllowed(f)
  /\ \A i \in 1 .. Len(f.profiles) : CaseAllowed(f.profiles[i])

(* What is known of a field that was accepted.                              *)
LEMMA FieldShape ==
  ASSUME NEW f, FieldOK(f)
  PROVE  /\ Len(f.profiles) \in Nat \ {0} /\ f.profiles \in Seq(Range(f.profiles))
         /\ Len(f.starts) = Len(f.profiles) /\ f.starts[1] = 0
         /\ \A i \in 1 .. Len(f.profiles) : f.starts[i] \in Int
         /\ \A i \in 1 .. Len(f.profiles) - 1 : f.starts[i] < f.starts[i + 1]
         /\ \A i \in 1 .. Len(f.profiles) :
              LET d == f.profiles[i] IN
              /\ d.limit \in Nat /\ Len(d.ranges) \in Nat \ {0} /\ d.ranges[1] >= 0
              /\ \A k \in 1 .. Len(d.ranges) : d.ranges[k] \in Int
              /\ \A k \in 1 .. Len(d.ranges) - 1 : d.ranges[k] < d.ranges[k + 1]
<1>1. /\ Len(f.profiles) \in 1 .. MaxVector /\ Len(f.starts) = Len(f.profiles)
      /\ f.starts[1] = 0 /\ Finite(f.starts) /\ Rising(f.starts)
  BY DEF FieldOK, FieldCaseAllowed
<1>2. MaxVector \in Nat /\ MaxModes \in Nat
  BY KrakenInputAssumption, KrakenCaseAssumption
<1>3. ASSUME NEW i \in 1 .. Len(f.profiles), NEW d, d = f.profiles[i]
      PROVE  /\ d.limit \in Nat /\ Len(d.ranges) \in Nat \ {0} /\ d.ranges[1] >= 0
             /\ \A k \in 1 .. Len(d.ranges) : d.ranges[k] \in Int
             /\ \A k \in 1 .. Len(d.ranges) - 1 : d.ranges[k] < d.ranges[k + 1]
  <2>1. LimitsAllowed(d) /\ GridsAllowed(d)
    BY <1>3 DEF FieldOK, CaseAllowed
  <2>2. d.limit \in 1 .. MaxModes
    BY <2>1 DEF LimitsAllowed
  <2>3. Filled(d.ranges) /\ Finite(d.ranges) /\ Rising(d.ranges) /\ d.ranges[1] >= 0
    BY <2>1 DEF GridsAllowed
  <2>4. Len(d.ranges) \in 1 .. MaxVector
    BY <2>3 DEF Filled
  <2>5. d.limit \in Nat /\ Len(d.ranges) \in Nat \ {0}
    BY <2>2, <2>4, <1>2
  <2>6. \A k \in 1 .. Len(d.ranges) : d.ranges[k] \in Int
    BY <2>3 DEF Finite
  <2>7. \A k \in 1 .. Len(d.ranges) - 1 : d.ranges[k] < d.ranges[k + 1]
    BY <2>3 DEF Rising
  <2> QED
    BY <2>3, <2>5, <2>6, <2>7
<1>4. List(f.profiles)
  BY DEF FieldOK
<1>5. Len(f.profiles) \in Nat \ {0}
  BY <1>1, <1>2
<1>6. \A i \in 1 .. Len(f.profiles) : f.starts[i] \in Int
  BY <1>1 DEF Finite
<1>7. \A i \in 1 .. Len(f.profiles) - 1 : f.starts[i] < f.starts[i + 1]
  BY <1>1 DEF Rising
<1> QED
  BY <1>1, <1>3, <1>4, <1>5, <1>6, <1>7 DEF List

-----------------------------------------------------------------------------
(* The fields were accepted; and what is true of a march: its pieces follow *)
(* one another from the source to the place that it has come to, which is   *)
(* of its segment's stretch and not past the receiver nor the next boundary,*)
(* and the modes it carries are modes of the profiles on both sides.        *)
Fit == \A i \in DOMAIN fields : FieldOK(fields[i])

Contained(p) ==
  /\ p[1] \in 1 .. Len(Profiles) /\ StretchStart(p[1]) <= p[2] /\ p[2] <= p[3]
  /\ p[1] < Len(Profiles) => p[3] <= StretchStart(p[1] + 1)
Pieces ==
  /\ pieces \in Seq(Int \X Int \X Int) /\ \A i \in DOMAIN pieces : Contained(pieces[i])
  /\ \A i \in 1 .. Len(pieces) - 1 : pieces[i][3] = pieces[i + 1][2]
  /\ IF pieces = <<>> THEN previous = 0 ELSE pieces[1][2] = 0 /\ pieces[Len(pieces)][3] = previous
Place ==
  /\ receiver \in 1 .. Len(Profile.ranges) /\ segment \in 1 .. Len(Profiles)
  /\ previous \in Int /\ StretchStart(segment) <= previous /\ previous <= ReceiverRange
  /\ Ahead => previous <= Boundary
Carried ==
  /\ live \in Nat /\ live <= counts[segment] /\ (~Coupled /\ Ahead => live <= counts[segment + 1])
  /\ segment = 1 => live <= Profile.limit
Marching ==
  /\ frequency \in Nat /\ counts \in Seq(Nat)
  /\ phase \in {"modes", "march"} => frequency \in DOMAIN fields /\ Len(counts) <= Len(Profiles)
  /\ phase = "march" => Len(counts) = Len(Profiles) /\ Len(counts) > 1 /\ Pieces /\ Place /\ Carried

(* The stretches of the profiles follow one another from the source.        *)
LEMMA Stretches ==
  ASSUME Fit, frequency \in DOMAIN fields
  PROVE  /\ Len(Profiles) \in Nat \ {0} /\ Profile.limit \in Nat
         /\ \A k \in 1 .. Len(Profile.ranges) : Profile.ranges[k] \in Int
         /\ \A k \in 1 .. Len(Profile.ranges) - 1 : Profile.ranges[k] < Profile.ranges[k + 1]
         /\ Len(Profile.ranges) \in Nat \ {0} /\ Profile.ranges[1] >= 0
         /\ \A s \in 1 .. Len(Profiles) : StretchStart(s) \in Int
         /\ \A s \in 1 .. Len(Profiles) - 1 : StretchStart(s) <= StretchStart(s + 1)
         /\ StretchStart(1) = 0 
         /\ Ahead /\ segment \in 1 .. Len(Profiles) => Boundary = StretchStart(segment + 1)
<1>1. FieldOK(Field)
  BY DEF Fit, Field
<1> DEFINE n == Len(Profiles)
<1>2. /\ n \in Nat \ {0} /\ Field.starts[1] = 0
      /\ \A i \in 1 .. n : Field.starts[i] \in Int
      /\ \A i \in 1 .. n - 1 : Field.starts[i] < Field.starts[i + 1]
  BY <1>1, FieldShape DEF Profiles
<1>3. /\ Profile.limit \in Nat
      /\ \A k \in 1 .. Len(Profile.ranges) : Profile.ranges[k] \in Int
      /\ \A k \in 1 .. Len(Profile.ranges) - 1 : Profile.ranges[k] < Profile.ranges[k + 1]
      /\ Len(Profile.ranges) \in Nat \ {0} /\ Profile.ranges[1] >= 0
  <2>1. 1 \in 1 .. Len(Field.profiles) /\ Profile = Field.profiles[1]
    BY <1>2 DEF Profiles, Profile
  <2> QED
    BY <1>1, <2>1, FieldShape
<1>4. n = Len(Profiles)
  OBVIOUS
<1> HIDE DEF n
<1>5. StretchStart(1) = 0
  BY DEF StretchStart
<1>6. ASSUME NEW s \in 1 .. n, s > 1, Coupled
      PROVE  StretchStart(s) = Field.starts[s - 1] + Field.starts[s]
  BY <1>2, <1>6 DEF StretchStart
<1>7. ASSUME NEW s \in 1 .. n, s > 1, ~Coupled
      PROVE  StretchStart(s) = 2 * Field.starts[s]
  BY <1>2, <1>7 DEF StretchStart, Start
<1>8. ASSUME NEW s \in 1 .. n PROVE StretchStart(s) \in Int
  <2>1. s = 1 \/ (s > 1 /\ s - 1 \in 1 .. n)
    BY <1>2
  <2> QED
    BY <1>2, <1>5, <1>6, <1>7, <2>1
<1>9. ASSUME NEW s \in 1 .. n - 1 PROVE StretchStart(s) <= StretchStart(s + 1)
  <2>1. s \in 1 .. n /\ s + 1 \in 1 .. n /\ s + 1 > 1 /\ (s = 1 \/ (s > 1 /\ s - 1 \in 1 .. n - 1 /\ s - 1 \in 1 .. n)) /\ (s + 1) - 1 = s /\ 1 \in 1 .. n
    BY <1>2
  <2> DEFINE here == Field.starts[s]
             next == Field.starts[s + 1]
             last == Field.starts[s - 1]
  <2>2. here \in Int /\ next \in Int /\ here < next
    BY <1>2, <2>1
  <2>3. s > 1 => last \in Int /\ last < here
    <3>1. s > 1 => s - 1 \in 1 .. n - 1 /\ s - 1 \in 1 .. n /\ (s - 1) + 1 = s
      BY <2>1
    <3> QED
      BY <1>2, <3>1
  <2>4. s = 1 => here = 0
    BY <1>2
  <2>5. Coupled => /\ StretchStart(s + 1) = here + next
                   /\ s > 1 => StretchStart(s) = last + here
    BY <1>6, <2>1
  <2>6. ~Coupled => /\ StretchStart(s + 1) = 2 * next
                    /\ s > 1 => StretchStart(s) = 2 * here
    BY <1>7, <2>1
  <2>7. s = 1 => StretchStart(s) = 0
    BY <1>5
  <2> HIDE DEF here, next, last
  <2> QED
    BY <2>1, <2>2, <2>3, <2>4, <2>5, <2>6, <2>7
<1>10. Ahead /\ segment \in 1 .. n => Boundary = StretchStart(segment + 1)
  <2>1. Ahead /\ segment \in 1 .. n => segment + 1 \in 1 .. n /\ segment + 1 > 1 /\ (segment + 1) - 1 = segment
    BY <1>2, <1>4 DEF Ahead
  <2>2. Coupled => Boundary = Field.starts[segment] + Field.starts[segment + 1]
    BY DEF Boundary
  <2>3. ~Coupled => Boundary = 2 * Field.starts[segment + 1]
    BY DEF Boundary, Start
  <2> QED
    BY <1>6, <1>7, <2>1, <2>2, <2>3
<1> QED
  BY <1>2, <1>3, <1>4, <1>5, <1>8, <1>9, <1>10

(* While a field is solved, its profiles are the same.                      *)
LEMMA SameField ==
  ASSUME UNCHANGED <<fields, frequency>>
  PROVE  /\ Field' = Field /\ Profiles' = Profiles /\ Profile' = Profile /\ Coupled' = Coupled
         /\ \A s : StretchStart(s)' = StretchStart(s)
         /\ \A p : Contained(p)' = Contained(p)
<1>1. Field' = Field /\ Profiles' = Profiles /\ Profile' = Profile /\ Coupled' = Coupled
  BY DEF Field, Profiles, Profile, Coupled
<1>2. ASSUME NEW s PROVE StretchStart(s)' = StretchStart(s)
  BY <1>1 DEF StretchStart, Start
<1>3. ASSUME NEW p PROVE Contained(p)' = Contained(p)
  <2>1. StretchStart(p[1])' = StretchStart(p[1]) /\ StretchStart(p[1] + 1)' = StretchStart(p[1] + 1)
    BY <1>2
  <2> QED
    BY <1>1, <2>1 DEF Contained
<1> QED
  BY <1>1, <1>2, <1>3

(* Everything that a march is at its source.                                *)
LEMMA BeginSourceInv ==
  ASSUME Fit, frequency \in DOMAIN fields, UNCHANGED <<fields, frequency, counts>>,
         counts \in Seq(Nat), Len(counts) = Len(Profiles), Len(counts) > 1,
         NEW s, BeginSource(s)
  PROVE  Pieces' /\ Place' /\ Carried'
<1>1. /\ Profiles' = Profiles /\ Profile' = Profile /\ Coupled' = Coupled
      /\ StretchStart(1)' = StretchStart(1) /\ StretchStart(2)' = StretchStart(2)
  BY SameField
<1>2. segment' = 1 /\ receiver' = 1 /\ previous' = 0 /\ pieces' = <<>>
  BY DEF BeginSource
<1>3. counts[1] \in Nat /\ counts[2] \in Nat /\ Profile.limit \in Nat
  BY Stretches
<1>4. Pieces'
  BY <1>2 DEF Pieces
<1>5. Place'
  <2>1. Profile.ranges[1] \in Int /\ Profile.ranges[1] >= 0 /\ 1 \in 1 .. Len(Profile.ranges)
    BY Stretches
  <2>2. ReceiverRange' = 2 * Profile.ranges[1]
    BY <1>1, <1>2 DEF ReceiverRange
  <2>3. StretchStart(1) = 0 /\ 0 <= StretchStart(2) /\ 1 \in 1 .. Len(Profiles)
    BY Stretches
  <2>4. Boundary' = StretchStart(2)
    <3>1. Field' = Field
      BY SameField
    <3> QED
      BY <1>1, <1>2, <3>1 DEF Boundary, StretchStart, Start
  <2> QED
    BY <1>1, <1>2, <2>1, <2>2, <2>3, <2>4 DEF Place
<1>6. Carried'
  <2>1. live' = IF Coupled THEN Excited ELSE Least(Excited, counts[2])
    BY DEF BeginSource
  <2>2. Excited \in Nat /\ Excited <= counts[1] /\ Excited <= Profile.limit
    BY <1>3 DEF Excited, Least
  <2>3. live' \in Nat /\ live' <= counts[1] /\ live' <= Profile.limit /\ (~Coupled => live' <= counts[2])
    BY <1>3, <2>1, <2>2 DEF Least
  <2> QED
    BY <1>1, <1>2, <2>3 DEF Carried
<1> QED
  BY <1>4, <1>5, <1>6

(* A piece is added that begins where the modes are.                        *)
LEMMA Advanced ==
  ASSUME UNCHANGED <<fields, frequency>>, Pieces, previous \in Int,
         NEW to \in Int, segment \in Int, Contained(Piece(to)),
         pieces' = Append(pieces, Piece(to)), previous' = to
  PROVE  Pieces'
<1> DEFINE piece == Piece(to)
           T == Int \X Int \X Int
<1>1. piece \in T /\ piece[1] = segment /\ piece[2] = previous /\ piece[3] = to
  BY DEF Piece
<1>2. Contained(piece)
  OBVIOUS
<1>3. pieces \in Seq(T) /\ pieces' = Append(pieces, piece)
  BY DEF Pieces
<1> HIDE DEF piece, T
<1>4. /\ pieces' \in Seq(T) /\ Len(pieces') = Len(pieces) + 1 /\ Len(pieces) \in Nat
      /\ \A i \in 1 .. Len(pieces) : pieces'[i] = pieces[i]
      /\ pieces'[Len(pieces) + 1] = piece
  BY <1>1, <1>3
<1>5. \A i \in DOMAIN pieces' : Contained(pieces'[i])
  <2>1. ASSUME NEW i \in DOMAIN pieces' PROVE Contained(pieces'[i])
    <3>1. i \in 1 .. Len(pieces) \/ i = Len(pieces) + 1
      BY <1>4
    <3>2. i \in 1 .. Len(pieces) => i \in DOMAIN pieces
      BY <1>3
    <3> QED
      BY <1>2, <1>4, <3>1, <3>2 DEF Pieces
  <2> QED
    BY <2>1
<1>6. \A p : Contained(p)' = Contained(p)
  BY SameField
<1>7. \A i \in DOMAIN pieces' : Contained(pieces[i])'
  <2>1. ASSUME NEW i \in DOMAIN pieces' PROVE Contained(pieces[i])'
    <3>1. Contained(pieces'[i])
      BY <1>5
    <3> QED
      BY <3>1, SameField DEF Contained
  <2> QED
    BY <2>1
<1>8. \A i \in 1 .. Len(pieces') - 1 : pieces'[i][3] = pieces'[i + 1][2]
  <2>1. ASSUME NEW i \in 1 .. Len(pieces') - 1 PROVE pieces'[i][3] = pieces'[i + 1][2]
    <3>1. CASE i = Len(pieces)
      <4>1. pieces # <<>> /\ i \in 1 .. Len(pieces)
        BY <1>4, <3>1
      <4>2. pieces[Len(pieces)][3] = previous
        BY <4>1 DEF Pieces
      <4> QED
        BY <1>1, <1>4, <3>1, <4>1, <4>2
    <3>2. CASE i # Len(pieces)
      <4>1. i \in 1 .. Len(pieces) - 1 /\ i \in 1 .. Len(pieces) /\ i + 1 \in 1 .. Len(pieces)
        BY <1>4, <3>2
      <4>2. pieces[i][3] = pieces[i + 1][2]
        BY <4>1 DEF Pieces
      <4> QED
        BY <1>4, <4>1, <4>2
    <3> QED
      BY <3>1, <3>2
  <2> QED
    BY <2>1
<1>9. pieces' # <<>> /\ pieces'[1][2] = 0 /\ pieces'[Len(pieces')][3] = to
  <2>1. pieces' # <<>> /\ pieces'[Len(pieces')][3] = to
    BY <1>1, <1>4
  <2>2. CASE pieces = <<>>
    <3>1. Len(pieces) = 0 /\ previous = 0
      BY <2>2 DEF Pieces
    <3> QED
      BY <1>1, <1>4, <2>1, <3>1
  <2>3. CASE pieces # <<>>
    <3>1. 1 \in 1 .. Len(pieces) /\ pieces[1][2] = 0
      BY <1>3, <2>3 DEF Pieces
    <3> QED
      BY <1>4, <2>1, <3>1
  <2> QED
    BY <2>2, <2>3, <2>1
<1> QED
  BY <1>4, <1>7, <1>8, <1>9 DEF Pieces, T

(* Modes that cross a boundary, and modes that arrive at a receiver.        *)
LEMMA CrossInv ==
  ASSUME Fit, Marching, Cross
  PROVE  Marching'
<1>1. /\ phase = "march" /\ Ahead /\ ReceiverRange > Boundary
      /\ pieces' = Append(pieces, Piece(Boundary)) /\ previous' = Boundary /\ segment' = segment + 1
      /\ UNCHANGED <<fields, frequency, phase, limit, counts, source, receiver, pressure>>
  BY DEF Cross
<1>2. /\ frequency \in Nat /\ counts \in Seq(Nat) /\ frequency \in DOMAIN fields
      /\ Len(counts) = Len(Profiles) /\ Len(counts) > 1 /\ Pieces /\ Place /\ Carried
  BY <1>1 DEF Marching
<1>3. /\ Profiles' = Profiles /\ Profile' = Profile /\ Coupled' = Coupled /\ Field' = Field
      /\ \A s : StretchStart(s)' = StretchStart(s)
  BY <1>1, SameField
<1>4. Len(Profiles) \in Nat /\ segment \in 1 .. Len(Profiles) /\ segment + 1 \in 1 .. Len(Profiles) /\ segment \in 1 .. Len(Profiles) - 1
  BY <1>1, <1>2, Stretches DEF Place, Ahead
<1>5. Boundary = StretchStart(segment + 1) /\ Boundary \in Int /\ StretchStart(segment) \in Int
  BY <1>1, <1>2, <1>4, Stretches
<1>6. ReceiverRange \in Int /\ ReceiverRange' = ReceiverRange
  <2>1. Profile.ranges[receiver] \in Int
    BY <1>2, Stretches DEF Place
  <2> QED
    BY <1>1, <1>3, <2>1 DEF ReceiverRange
<1>7. Pieces'
  <2>1. Contained(Piece(Boundary))
    <3> DEFINE p == Piece(Boundary)
    <3>1. p[1] = segment /\ p[2] = previous /\ p[3] = Boundary
      BY DEF Piece
    <3>2. StretchStart(segment) <= previous /\ previous <= Boundary
      BY <1>1, <1>2 DEF Place
    <3>3. Boundary <= StretchStart(segment + 1)
      BY <1>5
    <3> HIDE DEF p
    <3>4. Contained(p)
      BY <1>4, <3>1, <3>2, <3>3 DEF Contained
    <3> QED
      BY <3>4 DEF p
  <2> QED
    BY <1>1, <1>2, <1>4, <1>5, <2>1, Advanced DEF Place
<1>8. Place'
  <2>1. Boundary <= ReceiverRange
    BY <1>1, <1>5, <1>6
  <2>2. Ahead' => Boundary <= Boundary'
    <3> SUFFICES ASSUME Ahead' PROVE Boundary <= Boundary'
      OBVIOUS
    <3>1. segment + 1 \in 1 .. Len(Profiles) - 1 /\ (segment + 1) + 1 \in 1 .. Len(Profiles)
      BY <1>1, <1>3, <1>4 DEF Ahead
    <3>2. Boundary' = IF Coupled THEN Field.starts[segment + 1] + Field.starts[(segment + 1) + 1]
                      ELSE 2 * Field.starts[(segment + 1) + 1]
      BY <1>1, <1>3 DEF Boundary, Start
    <3>3. (segment + 1) + 1 > 1 /\ (segment + 1) + 1 # 1 /\ ((segment + 1) + 1) - 1 = segment + 1
      BY <1>4
    <3>4. StretchStart((segment + 1) + 1) = Boundary'
      BY <3>2, <3>3 DEF StretchStart, Start
    <3> QED
      BY <1>2, <1>5, <3>1, <3>4, Stretches
  <2>3. previous' \in Int /\ StretchStart(segment)' <= previous'
    <3>1. StretchStart(segment)' = StretchStart(segment + 1)
      BY <1>1, <1>3 DEF StretchStart, Start
    <3> QED
      BY <1>1, <1>5, <3>1
  <2>4. segment' \in 1 .. Len(Profiles') /\ receiver' \in 1 .. Len(Profile'.ranges)
    BY <1>1, <1>2, <1>3, <1>4 DEF Place
  <2> QED
    BY <1>1, <1>3, <1>6, <2>1, <2>2, <2>3, <2>4 DEF Place
<1>9. Carried'
  <2>1. live' = CASE Coupled -> counts[segment + 1]
                  [] ~Coupled /\ segment + 2 <= Len(Profiles) -> Least(live, counts[segment + 2])
                  [] OTHER -> live
    BY DEF Cross
  <2>2. counts[segment + 1] \in Nat /\ live \in Nat
    BY <1>2, <1>4 DEF Carried
  <2>3. Coupled => live' = counts[segment + 1]
    BY <2>1
  <2>4. ASSUME ~Coupled
        PROVE  /\ live' \in Nat /\ live' <= live
               /\ segment + 2 <= Len(Profiles) => live' <= counts[segment + 2]
    <3>1. CASE segment + 2 <= Len(Profiles)
      <4>1. segment + 2 \in 1 .. Len(Profiles)
        BY <1>4, <3>1
      <4>2. counts[segment + 2] \in Nat
        BY <1>2, <4>1
      <4>3. live' = Least(live, counts[segment + 2])
        BY <2>1, <2>4, <3>1
      <4> QED
        BY <2>2, <4>2, <4>3 DEF Least
    <3>2. CASE ~(segment + 2 <= Len(Profiles))
      <4>1. live' = live
        BY <2>1, <2>4, <3>2
      <4> QED
        BY <2>2, <3>2, <4>1
    <3> QED
      BY <3>1, <3>2
  <2>5. ~Coupled => live <= counts[segment + 1]
    BY <1>1, <1>2 DEF Carried
  <2>6. segment' + 1 = segment + 2 /\ segment' # 1
    BY <1>1, <1>4
  <2>7. ~Coupled /\ Ahead' => segment + 2 <= Len(Profiles)
    BY <1>1, <1>3, <1>4 DEF Ahead
  <2>8. live' \in Nat /\ live' <= counts[segment + 1]
    <3>1. ~Coupled => live' \in Nat /\ live' <= live
      BY <2>4
    <3> QED
      BY <2>2, <2>3, <2>5, <3>1
  <2>9. ~Coupled /\ Ahead' => live' <= counts[segment + 2]
    BY <2>4, <2>7
  <2> QED
    BY <1>1, <1>3, <2>6, <2>8, <2>9 DEF Carried
<1> QED
  BY <1>1, <1>2, <1>3, <1>7, <1>8, <1>9 DEF Marching

LEMMA ReceiveInv ==
  ASSUME Fit, Marching, Receive
  PROVE  Marching'
<1>1. /\ phase = "march" /\ (Ahead => ReceiverRange <= Boundary)
      /\ UNCHANGED <<fields, frequency, limit, counts>>
  BY DEF Receive
<1>2. /\ frequency \in Nat /\ counts \in Seq(Nat) /\ frequency \in DOMAIN fields
      /\ Len(counts) = Len(Profiles) /\ Len(counts) > 1 /\ Pieces /\ Place /\ Carried
  BY <1>1 DEF Marching
<1>3. /\ Profiles' = Profiles /\ Profile' = Profile /\ Coupled' = Coupled /\ Field' = Field
      /\ \A s : StretchStart(s)' = StretchStart(s)
  BY <1>1, SameField
<1>4. CASE receiver < Len(Profile.ranges)
  <2>1. /\ receiver' = receiver + 1 /\ previous' = ReceiverRange
        /\ pieces' = Append(pieces, Piece(ReceiverRange))
        /\ UNCHANGED <<phase, source, segment, live>>
    BY <1>4 DEF Receive
  <2>2. receiver \in 1 .. Len(Profile.ranges) - 1 /\ receiver + 1 \in 1 .. Len(Profile.ranges) /\ receiver \in 1 .. Len(Profile.ranges)
    BY <1>2, <1>4, Stretches DEF Place
  <2>3. Profile.ranges[receiver] \in Int /\ Profile.ranges[receiver + 1] \in Int
        /\ Profile.ranges[receiver] < Profile.ranges[receiver + 1]
    BY <1>2, <2>2, Stretches
  <2>4. ReceiverRange \in Int /\ ReceiverRange' \in Int /\ ReceiverRange <= ReceiverRange'
    BY <1>3, <2>1, <2>3 DEF ReceiverRange
  <2>5. /\ segment \in 1 .. Len(Profiles) /\ StretchStart(segment) <= previous /\ previous <= ReceiverRange
        /\ previous \in Int /\ StretchStart(segment) \in Int /\ Len(Profiles) \in Nat
    BY <1>2, Stretches DEF Place
  <2>6. Ahead => Boundary = StretchStart(segment + 1)
    BY <1>2, <2>5, Stretches
  <2>7. Pieces'
    <3> DEFINE p == Piece(ReceiverRange)
    <3>1. p[1] = segment /\ p[2] = previous /\ p[3] = ReceiverRange
      BY DEF Piece
    <3>2. segment < Len(Profiles) => ReceiverRange <= StretchStart(segment + 1)
      BY <1>1, <2>6 DEF Ahead
    <3>3. Contained(p)
      <4> HIDE DEF p
      <4> QED
        BY <2>5, <3>1, <3>2 DEF Contained
    <3> QED
      BY <1>1, <1>2, <2>1, <2>4, <2>5, <3>3, Advanced
  <2>8. Place'
    <3>1. Ahead' = Ahead /\ Boundary' = Boundary
      BY <1>3, <2>1 DEF Ahead, Boundary, Start
    <3>2. StretchStart(segment)' = StretchStart(segment)
      BY <1>3, <2>1 DEF StretchStart, Start
    <3>3. StretchStart(segment) <= ReceiverRange
      BY <2>4, <2>5
    <3> QED
      BY <1>1, <1>3, <2>1, <2>2, <2>4, <2>5, <3>1, <3>2, <3>3 DEF Place
  <2>9. Carried'
    BY <1>1, <1>2, <1>3, <2>1 DEF Carried, Ahead
  <2> QED
    BY <1>1, <1>2, <1>3, <2>1, <2>7, <2>8, <2>9 DEF Marching
<1>5. CASE receiver = Len(Profile.ranges) /\ source < Len(Profile.sources)
  <2>1. BeginSource(source + 1) /\ UNCHANGED phase
    <3>1. ~(receiver < Len(Profile.ranges))
      BY <1>5, <1>2, Stretches
    <3> QED
      BY <1>5, <3>1 DEF Receive
  <2>2. Pieces' /\ Place' /\ Carried'
    BY <1>1, <1>2, <2>1, BeginSourceInv
  <2> QED
    BY <1>1, <1>2, <1>3, <2>1, <2>2 DEF Marching
<1>6. CASE ~(receiver < Len(Profile.ranges)) /\ ~(receiver = Len(Profile.ranges) /\ source < Len(Profile.sources))
  <2>1. phase' \in {"solved", "failed"}
    BY <1>6 DEF Receive
  <2> QED
    BY <1>1, <1>2, <2>1 DEF Marching
<1> QED
  BY <1>4, <1>5, <1>6

(* Solving keeps the march in its place.                                    *)
LEMMA MarchingStep ==
  ASSUME Fit, Marching, [SolveField \/ NextFrequency]_fieldVars
  PROVE  Marching'
<1>1. CASE NextFrequency
  <2>1. /\ frequency + 1 \in DOMAIN fields /\ frequency' = frequency + 1 /\ counts' = <<>>
        /\ phase' \in {"modes", "failed"} /\ fields' = fields
    BY <1>1 DEF NextFrequency
  <2>2. frequency' \in Nat /\ counts' \in Seq(Nat) /\ Len(counts') = 0
    BY <2>1 DEF Marching
  <2>3. Len(Profiles)' \in Nat \ {0}
    <3>1. FieldOK(fields[frequency + 1])
      BY <2>1 DEF Fit
    <3>2. Profiles' = fields[frequency + 1].profiles
      BY <2>1 DEF Profiles, Field
    <3> QED
      BY <3>1, <3>2, FieldShape
  <2> QED
    BY <2>1, <2>2, <2>3 DEF Marching
<1>2. CASE SolveProfile
  <2>1. /\ phase = "modes" /\ Len(counts) < Len(Profiles)
        /\ UNCHANGED <<fields, frequency, march, pressure>>
    BY <1>2 DEF SolveProfile
  <2>2. frequency \in DOMAIN fields /\ frequency \in Nat /\ counts \in Seq(Nat)
    BY <2>1 DEF Marching
  <2>3. Profiles' = Profiles
    BY <2>1, SameField
  <2>4. CASE phase' = "failed" /\ UNCHANGED <<limit, counts>>
    BY <2>1, <2>2, <2>4 DEF Marching
  <2>5. CASE \E n \in 1 .. MostModes :
               /\ counts' = Append(counts, n)
               /\ phase' = IF Len(Profiles) > 1 /\ Gathered + Shapes(n) > MaxValues THEN "failed" ELSE phase
    <3>1. PICK n \in 1 .. MostModes :
               /\ counts' = Append(counts, n)
               /\ phase' = IF Len(Profiles) > 1 /\ Gathered + Shapes(n) > MaxValues THEN "failed" ELSE phase
      BY <2>5
    <3>2. n \in Nat
      BY KrakenFieldAssumption
    <3>3. counts' \in Seq(Nat) /\ Len(counts') = Len(counts) + 1 /\ Len(counts) \in Nat
      BY <2>2, <3>1, <3>2
    <3>4. Len(Profiles) \in Nat
      BY <2>2, Stretches
    <3>5. Len(counts') <= Len(Profiles)
      BY <2>1, <3>3, <3>4
    <3>6. phase' \in {"modes", "failed"}
      BY <2>1, <3>1
    <3> QED
      BY <2>1, <2>2, <2>3, <3>3, <3>5, <3>6 DEF Marching
  <2> QED
    BY <1>2, <2>4, <2>5 DEF SolveProfile
<1>3. CASE Synthesize
  <2>1. phase' \in {"failed", "solved"} /\ UNCHANGED <<fields, frequency, limit, counts, march>>
    BY <1>3 DEF Synthesize
  <2> QED
    BY <2>1 DEF Marching
<1>4. CASE StartMarch
  <2>1. /\ phase = "modes" /\ Len(Profiles) > 1 /\ Len(counts) = Len(Profiles)
        /\ UNCHANGED <<fields, frequency, limit, counts>>
    BY <1>4 DEF StartMarch
  <2>2. frequency \in DOMAIN fields /\ frequency \in Nat /\ counts \in Seq(Nat)
    BY <2>1 DEF Marching
  <2>3. Profiles' = Profiles
    BY <2>1, SameField
  <2>4. phase' = "failed" \/ (phase' = "march" /\ BeginSource(1))
    BY <1>4 DEF StartMarch
  <2>5. BeginSource(1) => Pieces' /\ Place' /\ Carried'
    BY <2>1, <2>2, BeginSourceInv
  <2> QED
    BY <2>1, <2>2, <2>3, <2>4, <2>5 DEF Marching
<1>5. CASE Cross
  BY <1>5, CrossInv
<1>6. CASE Receive
  BY <1>6, ReceiveInv
<1>7. CASE UNCHANGED fieldVars
  <2>1. UNCHANGED <<fields, frequency>> /\ UNCHANGED <<phase, counts, source, receiver, segment, previous, live, pieces>>
    BY <1>7 DEF fieldVars, march
  <2>2. /\ Profiles' = Profiles /\ Profile' = Profile /\ Coupled' = Coupled /\ Field' = Field
    BY <2>1, SameField
  <2>3. Pieces' = Pieces
    <3>1. \A i : Contained(pieces[i])' = Contained(pieces[i])
      BY <2>1, <2>2, SameField DEF Contained, StretchStart, Start
    <3> QED
      BY <2>1, <2>2, <3>1 DEF Pieces
  <2>4. Place' = Place
    BY <2>1, <2>2 DEF Place, StretchStart, Start, Ahead, Boundary, ReceiverRange
  <2>5. Carried' = Carried
    BY <2>1, <2>2 DEF Carried, Ahead
  <2> QED
    BY <2>1, <2>2, <2>3, <2>4, <2>5 DEF Marching
<1> QED
  BY <1>1, <1>2, <1>3, <1>4, <1>5, <1>6, <1>7 DEF SolveField

(* What is true of a march is what is wanted of it at a receiver.           *)
LEMMA MarchingMarched ==
  ASSUME Fit, Marching
  PROVE  Marched
<1> SUFFICES ASSUME phase = "march", Ahead => ReceiverRange <= Boundary
             PROVE  /\ Way[1][2] = 0 /\ \A i \in 1 .. Len(Way) - 1 : Way[i][3] = Way[i + 1][2]
                    /\ \A i \in DOMAIN Way : 
                         LET s == Way[i][1] IN
                         /\ StretchStart(s) <= Way[i][2] /\ Way[i][2] <= Way[i][3]
                         /\ s < Len(Profiles) => Way[i][3] <= StretchStart(s + 1)
                    /\ live <= counts[segment] /\ (~Coupled /\ Ahead => live <= counts[segment + 1])
                    /\ segment = 1 => live <= Profile.limit
  BY DEF Marched
<1>1. frequency \in DOMAIN fields /\ Pieces /\ Place /\ Carried
  BY DEF Marching
<1> DEFINE piece == Piece(ReceiverRange)
           T == Int \X Int \X Int
<1>2. /\ segment \in 1 .. Len(Profiles) /\ previous \in Int /\ StretchStart(segment) <= previous
      /\ previous <= ReceiverRange /\ ReceiverRange \in Int
  <2>1. Profile.ranges[receiver] \in Int
    BY <1>1, Stretches DEF Place
  <2> QED
    BY <1>1, <2>1 DEF Place, ReceiverRange
<1>3. Contained(piece) /\ piece[2] = previous /\ piece \in T
  <2>1. piece[1] = segment /\ piece[2] = previous /\ piece[3] = ReceiverRange /\ piece \in T
    BY <1>2 DEF Piece
  <2>2. segment < Len(Profiles) => ReceiverRange <= StretchStart(segment + 1)
    BY <1>1, <1>2, Stretches DEF Ahead
  <2> HIDE DEF piece, T
  <2> QED
    BY <1>2, <2>1, <2>2 DEF Contained
<1>4. Way = Append(pieces, piece) /\ pieces \in Seq(T)
  BY <1>1 DEF Way, Pieces
<1> HIDE DEF piece, T
<1>5. /\ Len(Way) = Len(pieces) + 1 /\ Len(pieces) \in Nat /\ DOMAIN Way = 1 .. Len(pieces) + 1
      /\ \A i \in 1 .. Len(pieces) : Way[i] = pieces[i]
      /\ Way[Len(pieces) + 1] = piece /\ DOMAIN pieces = 1 .. Len(pieces)
  BY <1>3, <1>4
<1>6. \A i \in DOMAIN Way : Contained(Way[i])
  <2>1. ASSUME NEW i \in DOMAIN Way PROVE Contained(Way[i])
    <3>1. i \in 1 .. Len(pieces) \/ i = Len(pieces) + 1
      BY <1>5
    <3> QED
      BY <1>1, <1>3, <1>5, <3>1 DEF Pieces
  <2> QED
    BY <2>1
<1>7. \A i \in 1 .. Len(Way) - 1 : Way[i][3] = Way[i + 1][2]
  <2>1. ASSUME NEW i \in 1 .. Len(Way) - 1 PROVE Way[i][3] = Way[i + 1][2]
    <3>1. CASE i = Len(pieces)
      <4>1. pieces # <<>> /\ i \in 1 .. Len(pieces)
        BY <1>5, <3>1, <1>4
      <4>2. pieces[Len(pieces)][3] = previous
        BY <1>1, <4>1 DEF Pieces
      <4> QED
        BY <1>3, <1>5, <3>1, <4>1, <4>2
    <3>2. CASE i # Len(pieces)
      <4>0. i \in 1 .. (Len(pieces) + 1) - 1 /\ Len(pieces) \in Nat
        BY <1>5
      <4>1. i \in 1 .. Len(pieces) - 1 /\ i \in 1 .. Len(pieces) /\ i + 1 \in 1 .. Len(pieces)
        BY <4>0, <3>2
      <4>2. pieces[i][3] = pieces[i + 1][2]
        BY <1>1, <4>1 DEF Pieces
      <4> QED
        BY <1>5, <4>1, <4>2
    <3> QED
      BY <3>1, <3>2
  <2> QED
    BY <2>1
<1>8. Way[1][2] = 0
  <2>1. CASE pieces = <<>>
    BY <1>1, <1>3, <1>5, <2>1 DEF Pieces
  <2>2. CASE pieces # <<>>
    <3>1. 1 \in 1 .. Len(pieces) /\ pieces[1][2] = 0
      BY <1>1, <1>4, <1>5, <2>2 DEF Pieces
    <3> QED
      BY <1>5, <3>1
  <2> QED
    BY <2>1, <2>2
<1> QED
  BY <1>1, <1>6, <1>7, <1>8 DEF Contained, Carried

(* Profiles that were accepted, in a list.                                  *)
CasesOK(s) == List(s) /\ \A i \in 1 .. Len(s) : CaseAllowed(s[i])

LoadParts == {"reader", "profile", "sequences", "charged", "used"}

(* What is solved was accepted, field by field and profile by profile,      *)
(* before anything of it was solved.                                       *)
Acceptance ==
  /\ Fit /\ \E few \in Requests : request \in few
  /\ stage \notin {"running", "over"} => phase = "idle"
  /\ DOMAIN loading = LoadParts
  /\ \A i \in DOMAIN loading.sequences : CasesOK(loading.sequences[i])

(* A list that grows by one is a list.                                      *)
LEMMA ListedAppended ==
  ASSUME NEW s, List(s), NEW e
  PROVE  /\ List(Append(s, e)) /\ Len(Append(s, e)) = Len(s) + 1 /\ Len(s) \in Nat
         /\ \A i \in 1 .. Len(s) : Append(s, e)[i] = s[i]
         /\ Append(s, e)[Len(s) + 1] = e
<1> DEFINE T == Range(s) \cup {e}
           t == Append(s, e)
<1>1. s \in Seq(Range(s))
  BY DEF List
<1>2. s \in Seq(T) /\ e \in T
  BY <1>1
<1> HIDE DEF T
<1>3. /\ t \in Seq(T) /\ Len(t) = Len(s) + 1 /\ Len(s) \in Nat
      /\ \A i \in 1 .. Len(s) : t[i] = s[i]
      /\ t[Len(s) + 1] = e
  BY <1>2
<1>4. t \in Seq(Range(t))
  BY <1>3 DEF Range
<1> QED
  BY <1>3, <1>4 DEF List

(* One is a list.                                                           *)
LEMMA ListedOne == \A e : List(<<e>>) /\ Len(<<e>>) = 1 /\ <<e>>[1] = e
BY DEF List, Range

(* Nothing is wrong with a profile that has no fault.                       *)
LEMMA FaultlessAllowed ==
  ASSUME NEW e, NEW field, NEW definitions, FirstFault(e, field, definitions) = ""
  PROVE  \A d \in Range(definitions) : CaseAllowed(d)
<1>1. ASSUME ~BottomTable(e).ok PROVE BottomTable(e).what # ""
  BY <1>1 DEF BottomTable, Tables, Plain
<1>2. ASSUME ~SurfaceTable(e).ok PROVE SurfaceTable(e).what # ""
  BY <1>2 DEF SurfaceTable, Tables, Plain
<1>3. ASSUME ~Pattern(field).ok PROVE Pattern(field).what # ""
  BY <1>3 DEF Pattern, Plain
<1> QED
  BY <1>1, <1>2, <1>3 DEF FirstFault

(* Cases that were accepted, as a list of one and as a list that grows.     *)
LEMMA CasesOne ==
  ASSUME NEW d, CaseAllowed(d), NEW s, s = <<d>>
  PROVE  CasesOK(s)
<1>1. List(s) /\ Len(s) = 1 /\ s[1] = d
  BY ListedOne
<1>2. ASSUME NEW k \in 1 .. 1 PROVE CaseAllowed(s[k])
  <2>1. k = 1
    OBVIOUS
  <2> QED
    BY <1>1, <2>1
<1> QED
  BY <1>1, <1>2 DEF CasesOK

LEMMA CasesAppended ==
  ASSUME NEW s, CasesOK(s), NEW d, CaseAllowed(d)
  PROVE  CasesOK(Append(s, d))
<1>1. List(s) /\ \A k \in 1 .. Len(s) : CaseAllowed(s[k])
  BY DEF CasesOK
<1>2. /\ List(Append(s, d)) /\ Len(Append(s, d)) = Len(s) + 1 /\ Len(s) \in Nat
      /\ \A k \in 1 .. Len(s) : Append(s, d)[k] = s[k]
      /\ Append(s, d)[Len(s) + 1] = d
  BY <1>1, ListedAppended
<1>3. ASSUME NEW k \in 1 .. Len(s) + 1 PROVE CaseAllowed(Append(s, d)[k])
  <2>1. k \in 1 .. Len(s) \/ k = Len(s) + 1
    BY <1>2
  <2> QED
    BY <1>1, <1>2, <2>1
<1> QED
  BY <1>2, <1>3 DEF CasesOK

(* A profile that joins keeps the sequences such.                           *)
LEMMA JoinedOK ==
  ASSUME \A i \in DOMAIN loading.sequences : CasesOK(loading.sequences[i]),
         NEW e, NEW field, NEW definitions, FirstFault(e, field, definitions) = "", Joins(definitions)
  PROVE  \A i \in DOMAIN Joined(definitions) : CasesOK(Joined(definitions)[i])
<1>1. \A i \in DOMAIN definitions : CaseAllowed(definitions[i])
  BY FaultlessAllowed DEF Range
<1>2. CASE loading.profile = 0
  <2>1. Joined(definitions) = [i \in DOMAIN definitions |-> <<definitions[i]>>]
    BY <1>2 DEF Joined
  <2>2. ASSUME NEW i \in DOMAIN definitions PROVE CasesOK(<<definitions[i]>>)
    BY <1>1, CasesOne
  <2> QED
    BY <2>1, <2>2
<1>3. CASE loading.profile # 0
  <2>1. Joined(definitions) = [i \in DOMAIN definitions |-> Append(loading.sequences[i], definitions[i])]
    BY <1>3 DEF Joined
  <2>2. DOMAIN definitions = DOMAIN loading.sequences
    BY <1>3 DEF Joins
  <2>3. ASSUME NEW i \in DOMAIN definitions PROVE CasesOK(Append(loading.sequences[i], definitions[i]))
    BY <1>1, <2>2, CasesAppended
  <2> QED
    BY <2>1, <2>3
<1> QED
  BY <1>2, <1>3

(* The fields of a document that is allowed were accepted.                  *)
LEMMA DocumentOK ==
  ASSUME NEW few \in Requests, NEW r \in few, "files" \notin DOMAIN r, r.document # <<>>,
         DocumentAllowed(r.document[1]), List(r.document)
  PROVE  \A i \in DOMAIN r.document[1].fields : FieldOK(r.document[1].fields[i])
<1> DEFINE d == r.document[1]
<1>1. d \in Range(r.document)
  BY DEF List, Range
<1>2. List(d.fields) /\ \A f \in Range(d.fields) : List(f.profiles)
  BY <1>1, RequestsAssumption
<1>3. \A f \in Range(d.fields) : (\A c \in Range(f.profiles) : CaseAllowed(c)) /\ FieldCaseAllowed(f)
  BY DEF DocumentAllowed
<1>4. ASSUME NEW i \in DOMAIN d.fields PROVE FieldOK(d.fields[i])
  <2> DEFINE f == d.fields[i]
  <2>1. f \in Range(d.fields)
    BY DEF Range
  <2>2. List(f.profiles) /\ FieldCaseAllowed(f) /\ \A c \in Range(f.profiles) : CaseAllowed(c)
    BY <1>2, <1>3, <2>1
  <2>3. \A k \in 1 .. Len(f.profiles) : f.profiles[k] \in Range(f.profiles)
    <3> DEFINE s == f.profiles
    <3>1. DOMAIN s = 1 .. Len(s)
      BY <2>2 DEF List
    <3> HIDE DEF s
    <3>2. \A k \in 1 .. Len(s) : s[k] \in Range(s)
      BY <3>1 DEF Range
    <3> QED
      BY <3>2 DEF s
  <2> QED
    BY <2>2, <2>3 DEF FieldOK
<1> QED
  BY <1>4

-----------------------------------------------------------------------------
(* Acceptance and Marching hold at first and after every step.             *)
LEMMA AcceptanceInit == Init => Acceptance /\ Marching
<1> SUFFICES ASSUME Init PROVE Acceptance /\ Marching
  OBVIOUS
<1>1. fields = <<>> /\ frequency = 0 /\ phase = "idle" /\ counts = <<>> /\ loading.sequences = <<>>
      /\ (\E few \in Requests : request \in few) /\ DOMAIN loading = LoadParts
  BY DEF Init, FieldInit, NotLoading, LoadParts
<1>2. DOMAIN fields = {} /\ DOMAIN loading.sequences = {}
  BY <1>1
<1> QED
  BY <1>1, <1>2 DEF Acceptance, Fit, Marching

(* Nothing is solved by what only reads, writes or ends.                    *)
LEMMA Elsewhere ==
  ASSUME Acceptance, Marching, UNCHANGED <<request, fieldVars>>,
         stage' \notin {"running", "over"} => stage \notin {"running", "over"},
         DOMAIN loading' = LoadParts,
         loading'.sequences = loading.sequences \/ loading'.sequences = <<>>
  PROVE  Acceptance' /\ Marching'
<1>1. Fit' /\ phase' = phase
  BY DEF Acceptance, Fit, fieldVars
<1>2. Marching'
  <2>1. [SolveField \/ NextFrequency]_fieldVars
    OBVIOUS
  <2> QED
    BY <2>1, MarchingStep DEF Acceptance
<1>3. \A i \in DOMAIN loading'.sequences : CasesOK(loading'.sequences[i])
  BY DEF Acceptance
<1> QED
  BY <1>1, <1>2, <1>3 DEF Acceptance

(* When the fields are known, none is begun.                                *)
LEMMA Known ==
  ASSUME Acceptance, Marching, stage \notin {"running", "over"},
         UNCHANGED <<request, loading, frequency, phase, limit, counts, march, pressure>>,
         Fit'
  PROVE  Acceptance' /\ Marching'
<1>1. phase = "idle" /\ phase' = "idle"
  BY DEF Acceptance
<1> QED
  BY <1>1 DEF Acceptance, Marching

LEMMA AcceptanceStep == Acceptance /\ Marching /\ [Next]_vars => Acceptance' /\ Marching'
<1> SUFFICES ASSUME Acceptance, Marching, [Next]_vars PROVE Acceptance' /\ Marching'
  OBVIOUS
<1>0. DOMAIN loading = LoadParts /\ \A r : DOMAIN [NotLoading EXCEPT !.reader = r] = LoadParts
                                           /\ [NotLoading EXCEPT !.reader = r].sequences = <<>>
  BY DEF Acceptance, NotLoading, LoadParts
<1>1. CASE ReadPair
  <2>1. stage = "read" /\ UNCHANGED <<request, fieldVars>>
    BY <1>1 DEF ReadPair
  <2>2. loading' = loading \/ \E r : loading' = [NotLoading EXCEPT !.reader = r]
    BY <1>1 DEF ReadPair
  <2>3. DOMAIN loading' = LoadParts /\ (loading'.sequences = loading.sequences \/ loading'.sequences = <<>>)
    BY <1>0, <2>2
  <2> QED
    BY <2>1, <2>3, Elsewhere
<1>21. CASE DiscoverProfile
  <2>1. stage = "discover" /\ UNCHANGED <<request, fieldVars>>
    BY <1>21 DEF DiscoverProfile
  <2>2. loading' = loading \/ \E r, u : loading' = [loading EXCEPT !.reader = r, !.used = u]
    BY <1>21 DEF DiscoverProfile
  <2>3. DOMAIN loading' = LoadParts /\ loading'.sequences = loading.sequences
    BY <1>0, <2>2 DEF LoadParts
  <2> QED
    BY <2>1, <2>3, Elsewhere
<1>22. CASE EndDiscovery
  BY <1>0, <1>22, Elsewhere DEF EndDiscovery, GoesOn
<1>2. CASE ReadTable
  BY <1>0, <1>2, Elsewhere DEF ReadTable, Rejected, GoesOn, Exits
<1>3. CASE ReadPattern
  BY <1>0, <1>3, Elsewhere DEF ReadPattern, Rejected, Unread, GoesOn, Exits
<1>4. CASE BeginLoad
  <2>1. /\ stage = "pattern" /\ UNCHANGED <<request, fieldVars>>
        /\ \E r : loading' = [NotLoading EXCEPT !.reader = r]
    BY <1>4 DEF BeginLoad
  <2>2. DOMAIN loading' = LoadParts /\ loading'.sequences = <<>>
    BY <1>0, <2>1
  <2> QED
    BY <2>1, <2>2, Elsewhere
<1>5. CASE LoadProfile
  <2>1. stage = "load" /\ UNCHANGED <<request, fieldVars>>
    BY <1>5 DEF LoadProfile
  <2>2. PICK field, r :
          IF ~r.ok THEN Unread(r) /\ UNCHANGED loading
          ELSE \E e \in {Environment(r.value)} : \E definitions \in {DefinitionsOf(e, field)} :
                 Join(r, e, field, definitions)
    BY <1>5 DEF LoadProfile
  <2>3. CASE UNCHANGED loading
    BY <1>0, <2>1, <2>3, Elsewhere
  <2>4. CASE loading' # loading
    <3>1. PICK e, definitions : Join(r, e, field, definitions)
      BY <2>2, <2>4
    <3>2. /\ FirstFault(e, field, definitions) = "" /\ Joins(definitions)
          /\ stage' = "load" /\ loading'.sequences = Joined(definitions) /\ DOMAIN loading' = LoadParts
      <4>1. FirstFault(e, field, definitions) = ""
        BY <2>4, <3>1 DEF Join
      <4>2. Joins(definitions)
        BY <2>4, <3>1, <4>1 DEF Join
      <4>3. GoesOn("load") /\ loading' = [reader |-> Ready(r), profile |-> loading.profile + 1,
                                         sequences |-> Joined(definitions), charged |-> Charge(field, definitions),
                                         used |-> loading.used \cup TablesOf(e)]
        BY <2>4, <3>1, <4>1, <4>2 DEF Join
      <4> QED
        BY <4>1, <4>2, <4>3 DEF GoesOn, LoadParts
    <3>3. \A i \in DOMAIN loading'.sequences : CasesOK(loading'.sequences[i])
      BY <3>2, JoinedOK DEF Acceptance
    <3>4. Fit' /\ phase' = phase
      BY <2>1 DEF Acceptance, Fit, fieldVars
    <3>5. Marching'
      BY <2>1, MarchingStep DEF Acceptance
    <3> QED
      BY <2>1, <3>2, <3>3, <3>4, <3>5 DEF Acceptance
  <2> QED
    BY <2>3, <2>4
<1>6. CASE FinishLoad
  <2>1. /\ stage = "load" /\ UNCHANGED <<request, loading, frequency, phase, limit, counts, march, pressure>>
    BY <1>6 DEF FinishLoad
  <2>2. PICK field :
          CASE More(loading.reader) -> Rejected("input") /\ UNCHANGED fields
            [] ~More(loading.reader) /\ Unused # {} -> Rejected("unexpected table") /\ UNCHANGED fields
            [] OTHER -> IF \A f \in Range(FieldsOf(field)) : FieldCaseAllowed(f)
                          THEN fields' = FieldsOf(field) /\ GoesOn("loaded")
                          ELSE Rejected("case") /\ UNCHANGED fields
    BY <1>6 DEF FinishLoad
  <2>3. fields' = fields \/ (fields' = FieldsOf(field) /\ \A f \in Range(FieldsOf(field)) : FieldCaseAllowed(f))
    BY <2>2
  <2>4. Fit'
    <3>1. CASE fields' = fields
      BY <3>1 DEF Acceptance, Fit
    <3>2. CASE fields' = FieldsOf(field) /\ \A f \in Range(FieldsOf(field)) : FieldCaseAllowed(f)
      <4>1. ASSUME NEW i \in DOMAIN fields' PROVE FieldOK(fields'[i])
        <5>1. i \in DOMAIN loading.sequences /\ fields'[i].profiles = loading.sequences[i]
          BY <3>2 DEF FieldsOf
        <5>2. fields'[i] \in Range(fields')
          BY DEF Range
        <5>3. CasesOK(loading.sequences[i])
          BY <5>1 DEF Acceptance
        <5> QED
          BY <3>2, <5>1, <5>2, <5>3 DEF FieldOK, CasesOK
      <4> QED
        BY <4>1 DEF Fit
    <3> QED
      BY <2>3, <3>1, <3>2
  <2> QED
    BY <2>1, <2>4, Known
<1>7. CASE LoadDocument
  <2>1. /\ stage = "read" /\ ~Legacy
        /\ UNCHANGED <<request, loading, frequency, phase, limit, counts, march, pressure>>
    BY <1>7 DEF LoadDocument
  <2>2. \/ fields' = fields
        \/ fields' = request.document[1].fields /\ request.document # <<>> /\ DocumentAllowed(request.document[1])
    BY <1>7 DEF LoadDocument
  <2>3. Fit'
    <3>1. CASE fields' = fields
      BY <3>1 DEF Acceptance, Fit
    <3>2. CASE fields' = request.document[1].fields /\ request.document # <<>> /\ DocumentAllowed(request.document[1])
      <4>1. PICK few \in Requests : request \in few
        BY DEF Acceptance
      <4>2. "files" \notin DOMAIN request
        BY <2>1 DEF Legacy
      <4>3. List(request.document)
        BY <4>1, <4>2, RequestsAssumption
      <4> QED
        BY <3>2, <4>1, <4>2, <4>3, DocumentOK DEF Fit
    <3> QED
      BY <2>2, <3>1, <3>2
  <2> QED
    BY <2>1, <2>3, Known
<1>8. CASE ExportCase
  BY <1>0, <1>8, Elsewhere DEF ExportCase, Rejected, Exits
<1>9. CASE Run
  BY <1>0, <1>9, Elsewhere DEF Run, Exits, loadVars
<1>10. CASE NextStep
  <2>1. /\ stage = "running" /\ stage' = stage /\ UNCHANGED <<request, loading>> /\ (SolveField \/ NextFrequency)
    BY <1>10 DEF NextStep, loadVars
  <2>2. fields' = fields
    BY <2>1 DEF SolveField, NextFrequency, SolveProfile, Synthesize, StartMarch, Cross, Receive
  <2>3. Marching'
    BY <2>1, MarchingStep DEF Acceptance
  <2> QED
    BY <2>1, <2>2, <2>3 DEF Acceptance, Fit
<1>11. CASE WriteHdf5
  BY <1>0, <1>11, Elsewhere DEF WriteHdf5, Fails, Proceeds, Exits, loadVars
<1>12. CASE WriteMod
  BY <1>0, <1>12, Elsewhere DEF WriteMod, WriteNative, Fails, Proceeds, Exits, loadVars
<1>13. CASE WriteShd
  BY <1>0, <1>13, Elsewhere DEF WriteShd, WriteNative, Fails, Proceeds, Exits, loadVars
<1>14. CASE Account
  BY <1>0, <1>14, Elsewhere DEF Account, Fails, Proceeds, Exits, loadVars
<1>15. CASE Failed
  BY <1>0, <1>15, Elsewhere DEF Failed, Exits, loadVars
<1>16. CASE Publish
  BY <1>0, <1>16, Elsewhere DEF Publish, Exits, loadVars
<1>17. CASE Over \/ UNCHANGED vars
  BY <1>0, <1>17, Elsewhere DEF Over, vars, loadVars
<1> QED
  BY <1>1, <1>21, <1>22, <1>2, <1>3, <1>4, <1>5, <1>6, <1>7, <1>8, <1>9, <1>10, <1>11, <1>12, <1>13, <1>14, <1>15, <1>16,
     <1>17 DEF Next

(* At a receiver the modes were advanced from the source through every     *)
(* stretch of the profiles, and none is carried that a profile lacks        *)
(* (range_dependent.rs): Marched, for every case and document.              *)
THEOREM WayMarched == Spec => []Marched
<1>1. Init => Acceptance /\ Marching
  BY AcceptanceInit
<1>2. (Acceptance /\ Marching) /\ [Next]_vars => (Acceptance /\ Marching)'
  BY AcceptanceStep
<1>3. Acceptance /\ Marching => Marched
  BY MarchingMarched DEF Acceptance
<1> QED
  BY <1>1, <1>2, <1>3, PTL DEF Spec

-----------------------------------------------------------------------------

ReaderParts == {"records", "used", "tokens", "slash", "ok", "what", "value"}
Tabled == {"trc", "brc", "irc"}
Understood(r) == ReadEnvironment(r, Solver)
AskedBy(r) == TablesOf(Environment(Understood(r).value))

(* The readings between the profiles of the environment file, and the       *)
(* tables that the first of them ask for.                                   *)
Trail(p, n) ==
  /\ n \in Nat \ {0} /\ p[1] = NewReader(File("env")) /\ p[1].ok
  /\ \A k \in 1 .. n - 1 : More(p[k]) /\ Understood(p[k]).ok /\ p[k + 1] = Ready(Understood(p[k]))
Found(p, n) == UNION {AskedBy(p[k]) : k \in 1 .. n}

(* A reading that failed stays so.                                          *)
LEMMA StaysFailed ==
  ASSUME NEW t, ~t.ok, NEW solver
  PROVE  /\ \A field : Scalar(t, field) = t /\ \A most : Count(t, most, field) = t
         /\ ReadTitle(t, solver) = t /\ ReadWaterLoss(t) = t /\ ReadSurface(t) = t /\ ReadMedia(t) = t
         /\ ReadBottom(t, solver) = t /\ ReadLimits(t) = t
         /\ \A name, field : ReadVector(t, name, field) = t
         /\ ReadFrequencies(t) = t
<1>1. \A field : NextRecord(t, field) = t /\ TextRecord(t, field) = t
  BY DEF NextRecord, TextRecord, Then, Ensure
<1>2. \A field : Scalar(t, field) = t
  BY <1>1 DEF Scalar, Ensure
<1>3. \A most, field : Count(t, most, field) = t
  BY <1>2 DEF Count, Between, Ensure
<1>4. \A n, field : ExactNumbers(t, n, field) = t
  BY <1>1 DEF ExactNumbers, Exactly, AllNumeric, Ensure
<1>5. ReadTitle(t, solver) = t
  <2>1. Then(Scalar(TextRecord(t, "title"), "frequency_hz"), KeepFrequency) = t
    BY <1>1, <1>2 DEF Then
  <2> QED
    BY <1>3, <2>1 DEF ReadTitle, Then
<1>6. ReadWaterLoss(t) = t /\ ReadSurface(t) = t /\ ReadMedia(t) = t
  BY DEF ReadWaterLoss, ReadSurface, ReadMedia, Then, Ensure
<1>7. ReadBottom(t, solver) = t
  BY <1>1 DEF ReadBottom, ReadPowerLaw, Then, Ensure
<1>8. ReadLimits(t) = t
  BY <1>2, <1>4 DEF ReadLimits, Then
<1>9. \A name, field : ReadVector(t, name, field) = t
  BY <1>3 DEF ReadVector, Then
<1>10. ReadFrequencies(t) = t
  BY DEF ReadFrequencies, Then
<1> QED
  BY <1>2, <1>3, <1>5, <1>6, <1>7, <1>8, <1>9, <1>10

(* No profile is understood where no record is left.                        *)
LEMMA NothingUnderstood ==
  ASSUME NEW r, DOMAIN r = ReaderParts, ~More(r), NEW solver
  PROVE  ~ReadEnvironment(r, solver).ok
<1> DEFINE q == [r EXCEPT !.value = <<>>]
<1>1. q.used = r.used /\ q.records = r.records /\ q.ok = r.ok /\ DOMAIN q = ReaderParts
  BY DEF ReaderParts
<1> HIDE DEF q
<1>2. ~More(q)
  BY <1>1 DEF More
<1> DEFINE t == NextRecord(q, "title")
<1>3. ~t.ok
  <2>1. t = IF q.ok THEN Fail(q, "title") ELSE q
    BY <1>2 DEF NextRecord, Then
  <2>2. ~Fail(q, "title").ok
    BY <1>1 DEF Fail, ReaderParts
  <2> HIDE DEF t
  <2> QED
    BY <2>1, <2>2
<1>4. TextRecord(q, "title") = t
  BY <1>3 DEF TextRecord, Ensure
<1> HIDE DEF t
<1>5. ReadTitle(q, solver) = t
  <2>1. Scalar(t, "frequency_hz") = t
    BY <1>3, StaysFailed
  <2>2. Then(Scalar(TextRecord(q, "title"), "frequency_hz"), KeepFrequency) = t
    BY <1>3, <1>4, <2>1 DEF Then
  <2>3. Count(t, MaxLayers, "medium_count") = t
    BY <1>3, StaysFailed
  <2> QED
    BY <1>3, <2>2, <2>3 DEF ReadTitle, Then
<1>6. ReadEnvironment(r, solver) = t
  BY <1>3, <1>5, StaysFailed DEF ReadEnvironment, q
<1> QED
  BY <1>3, <1>6

(* What a trail says of its readings.                                       *)
LEMMA TrailReaders ==
  ASSUME NEW p, NEW n, Trail(p, n)
  PROVE  \A k \in 1 .. n : DOMAIN p[k] = ReaderParts
<1> SUFFICES ASSUME NEW k \in 1 .. n PROVE DOMAIN p[k] = ReaderParts
  OBVIOUS
<1>1. CASE k = 1
  BY <1>1 DEF Trail, NewReader, Begin, ReaderParts
<1>2. CASE k # 1
  <2>1. k - 1 \in 1 .. n - 1 /\ (k - 1) + 1 = k
    BY <1>2 DEF Trail
  <2>2. p[k] = Ready(Understood(p[k - 1]))
    BY <2>1 DEF Trail
  <2> QED
    BY <2>2 DEF Ready, ReaderParts
<1> QED
  BY <1>1, <1>2

(* One more profile is found.                                              *)
LEMMA TrailLonger ==
  ASSUME NEW p, NEW n, Trail(p, n), More(p[n]), Understood(p[n]).ok
  PROVE  \E q : Trail(q, n + 1) /\ q[n + 1] = Ready(Understood(p[n])) /\ Found(q, n) = Found(p, n - 1) \cup AskedBy(p[n])
<1> DEFINE q == [k \in 1 .. n + 1 |-> IF k <= n THEN p[k] ELSE Ready(Understood(p[n]))]
<1>1. n \in Nat \ {0}
  BY DEF Trail
<1>2. (\A k \in 1 .. n : q[k] = p[k]) /\ q[n + 1] = Ready(Understood(p[n]))
  BY <1>1
<1> HIDE DEF q
<1>3. Trail(q, n + 1)
  <2>1. ASSUME NEW k \in 1 .. (n + 1) - 1
        PROVE  More(q[k]) /\ Understood(q[k]).ok /\ q[k + 1] = Ready(Understood(q[k]))
    <3>1. k \in 1 .. n /\ (k = n \/ (k \in 1 .. n - 1 /\ k + 1 \in 1 .. n))
      BY <1>1
    <3>2. CASE k = n
      BY <1>2, <3>1, <3>2
    <3>3. CASE k \in 1 .. n - 1 /\ k + 1 \in 1 .. n
      BY <1>2, <3>1, <3>3 DEF Trail
    <3> QED
      BY <3>1, <3>2, <3>3
  <2>2. 1 \in 1 .. n
    BY <1>1
  <2>3. q[1] = NewReader(File("env")) /\ q[1].ok
    BY <1>2, <2>2 DEF Trail
  <2> QED
    BY <1>1, <2>1, <2>3 DEF Trail
<1>4. Found(q, n) = Found(p, n - 1) \cup AskedBy(p[n])
  <2>1. \A k \in 1 .. n : AskedBy(q[k]) = AskedBy(p[k])
    BY <1>2
  <2>2. 1 .. n = (1 .. n - 1) \cup {n}
    BY <1>1
  <2> QED
    BY <2>1, <2>2 DEF Found
<1> QED
  BY <1>2, <1>3, <1>4

(* A reading that has records left is not the last.                         *)
LEMMA TrailInside ==
  ASSUME NEW p, NEW n, Trail(p, n), ~More(p[n]), NEW k \in 1 .. n
  PROVE  /\ Understood(p[k]).ok => k \in 1 .. n - 1 /\ k + 1 \in 1 .. n /\ p[k + 1] = Ready(Understood(p[k]))
         /\ ~More(p[k]) => k = n
<1>1. n \in Nat \ {0} /\ (k = n \/ (k \in 1 .. n - 1 /\ k + 1 \in 1 .. n))
  BY DEF Trail
<1>2. k \in 1 .. n - 1 => More(p[k]) /\ p[k + 1] = Ready(Understood(p[k]))
  BY DEF Trail
<1>3. Understood(p[n]).ok => FALSE
  <2>1. DOMAIN p[n] = ReaderParts
    BY <1>1, TrailReaders
  <2> QED
    BY <2>1, NothingUnderstood DEF Understood
<1> QED
  BY <1>1, <1>2, <1>3

(* What one more profile asks for is found with it; all of it are tables.   *)
LEMMA FoundMore ==
  ASSUME NEW p, NEW k \in Nat
  PROVE  Found(p, k + 1) = Found(p, k) \cup AskedBy(p[k + 1]) /\ Found(p, 0) = {}
<1>1. 1 .. k + 1 = (1 .. k) \cup {k + 1} /\ 1 .. 0 = {}
  OBVIOUS
<1> QED
  BY <1>1 DEF Found

LEMMA FoundTables ==
  ASSUME NEW p, NEW n
  PROVE  Found(p, n) \subseteq Tabled
<1>1. \A e : TablesOf(e) \subseteq Tabled
  BY DEF TablesOf, Tabled
<1> QED
  BY <1>1 DEF Found, AskedBy

-----------------------------------------------------------------------------
(* Where discovery and load are on a trail, and what they hold there.       *)
Resources == Tabled \cup {"sbp"}
Held == {x \in Tabled : resources[x] # <<>>}
Surprises == {"missing table", "unexpected table", "missing pattern", "unexpected pattern"}
PatternRight == resources["sbp"] # <<>> <=> TheField.asked
Asking(s) == UNION {TablesOf(d) : d \in Range(s)}
LoadPlace(p, n) ==
  /\ loading.profile \in Nat /\ loading.profile + 1 \in 1 .. n
  /\ loading.reader = p[loading.profile + 1] /\ loading.used = Found(p, loading.profile)
  /\ \A i \in DOMAIN loading.sequences : Asking(loading.sequences[i]) = loading.used
Progress(p, n) ==
  /\ Trail(p, n)
  /\ stage = "discover" => loading.reader = p[n] /\ loading.used = Found(p, n - 1) /\ resources = NoResources
  /\ stage # "discover" => ~More(p[n]) /\ Held \cup asked = Found(p, n - 1) /\ asked \subseteq Tabled
  /\ stage = "tables" => resources["sbp"] = <<>>
  /\ stage \in {"pattern", "load"} => asked = {} /\ PatternRight
  /\ stage = "load" => LoadPlace(p, n)
Asked == Held = UNION {TablesOf(d) : d \in UNION {Range(f.profiles) : f \in Range(fields)}}
Tracing ==
  /\ fault.by = "load" => fault.what \notin Surprises
  /\ DOMAIN resources = Resources
  /\ \A x \in Resources : resources[x] = <<>> \/ \E file : resources[x] = <<file>>
  /\ stage = "read" => fields = <<>> /\ resources = NoResources
  /\ stage \in {"discover", "tables", "pattern", "load"} => Legacy /\ fields = <<>> /\ \E p, n : Progress(p, n)
  /\ Legacy /\ fields # <<>> => Asked

(* Discovered follows from Tracing, which holds at first.                  *)
LEMMA TracingDiscovered == Tracing => Discovered
BY DEF Tracing, Discovered, Surprises, Asked, Held, Tabled

(* Nothing is missing of what is asked for by what was discovered.          *)
LEMMA NoneMissing ==
  ASSUME Tracing, PatternRight, NEW e, TablesOf(e) \subseteq Held, NEW definitions
  PROVE  FirstFault(e, TheField, definitions) \notin Surprises
<1> DEFINE brc == resources["brc"]
           trc == resources["trc"]
           irc == resources["irc"]
<1>1. /\ "trc" \in Held => \E file : trc = <<file>>
      /\ "brc" \in Held => \E file : brc = <<file>>
      /\ "irc" \in Held => \E file : irc = <<file>>
  BY DEF Tracing, Held, Resources, Tabled
<1>2. ASSUME "trc" \in Held PROVE Parsed("trc", ParseReflectionTable) # <<>>
  BY <1>1, <1>2 DEF Parsed
<1>3. ASSUME "brc" \in Held PROVE Parsed("brc", ParseReflectionTable) # <<>>
  BY <1>1, <1>3 DEF Parsed
<1>4. ASSUME "irc" \in Held PROVE Parsed("irc", ParseImpedanceTable) # <<>>
  BY <1>1, <1>4 DEF Parsed
<1>5. /\ e.surface = "reflection" => "trc" \in Held
      /\ e.bottom = "reflection" => "brc" \in Held
      /\ e.bottom = "impedance" => "irc" \in Held
  BY DEF TablesOf
<1>6. SurfaceTable(e).ok \/ SurfaceTable(e).what = "table"
  <2>1. CASE e.surface = "reflection"
    <3>1. SurfaceTable(e) = Tables(e, Parsed("trc", ParseReflectionTable), e.surface, "missing table")
      BY <2>1 DEF SurfaceTable
    <3> QED
      BY <1>2, <1>5, <2>1, <3>1 DEF Tables
  <2>2. CASE e.surface # "reflection"
    BY <2>2 DEF SurfaceTable, Plain
  <2> QED
    BY <2>1, <2>2
<1>7. BottomTable(e).ok \/ BottomTable(e).what = "table"
  <2>1. CASE e.bottom = "reflection"
    <3>1. BottomTable(e) = Tables(e, Parsed("brc", ParseReflectionTable), e.bottom, "missing table")
      BY <2>1 DEF BottomTable
    <3> QED
      BY <1>3, <1>5, <2>1, <3>1 DEF Tables
  <2>2. CASE e.bottom = "impedance"
    <3>1. BottomTable(e) = Tables(e, Parsed("irc", ParseImpedanceTable), e.bottom, "missing table")
      BY <2>2 DEF BottomTable
    <3> QED
      BY <1>4, <1>5, <2>2, <3>1 DEF Tables
  <2>3. CASE e.bottom \notin {"reflection", "impedance"}
    BY <2>3 DEF BottomTable, Plain
  <2> QED
    BY <2>1, <2>2, <2>3
<1>8. Pattern(TheField).ok \/ Pattern(TheField).what = "pattern"
  <2> DEFINE field == TheField
  <2>1. resources["sbp"] # <<>> <=> field.asked
    BY DEF PatternRight
  <2> HIDE DEF field
  <2>2. Pattern(field).ok \/ Pattern(field).what = "pattern"
    <3>1. CASE field.asked
      BY <2>1, <3>1 DEF Pattern, Plain
    <3>2. CASE ~field.asked
      BY <2>1, <3>2 DEF Pattern, Plain
    <3> QED
      BY <3>1, <3>2
  <2> QED
    BY <2>2 DEF field
<1>9. FirstFault(e, TheField, definitions) \in {"table", "pattern", "frequencies", "case", ""}
  <2> DEFINE field == TheField
  <2>1. Pattern(field).ok \/ Pattern(field).what = "pattern"
    BY <1>8
  <2> HIDE DEF field
  <2> DEFINE F == FirstFault(e, field, definitions)
  <2>2. F \in {"table", "pattern", "frequencies", "case", ""}
    <3>2. CASE ~BottomTable(e).ok
      <4>1. F = BottomTable(e).what
        BY <3>2 DEF FirstFault
      <4> QED
        BY <1>7, <3>2, <4>1
    <3>3. CASE BottomTable(e).ok /\ ~SurfaceTable(e).ok
      <4>1. F = SurfaceTable(e).what
        BY <3>3 DEF FirstFault
      <4> QED
        BY <1>6, <3>3, <4>1
    <3>4. CASE BottomTable(e).ok /\ SurfaceTable(e).ok /\ ~Pattern(field).ok
      <4>1. F = Pattern(field).what
        BY <3>4 DEF FirstFault
      <4> QED
        BY <2>1, <3>4, <4>1
    <3>5. CASE BottomTable(e).ok /\ SurfaceTable(e).ok /\ Pattern(field).ok
      <4>1. F \in {"frequencies", "", "case"}
        BY <3>5 DEF FirstFault
      <4> QED
        BY <4>1
    <3> QED
      BY <3>2, <3>3, <3>4, <3>5
  <2> QED
    BY <2>2 DEF field
<1> QED
  BY <1>9 DEF Surprises

LEMMA TracingInit == Init => Tracing
<1> SUFFICES ASSUME Init PROVE Tracing
  OBVIOUS
<1>1. stage = "read" /\ fields = <<>> /\ resources = NoResources /\ fault = [by |-> "nobody", what |-> ""]
  BY DEF Init, FieldInit
<1>2. DOMAIN resources = Resources /\ \A x \in Resources : resources[x] = <<>>
  BY <1>1 DEF NoResources, Resources, Tabled
<1> QED
  BY <1>1, <1>2 DEF Tracing

(* What is not of the load leaves it as it was.                             *)
LEMMA TracingElsewhere ==
  ASSUME Tracing, UNCHANGED <<request, resources, fields>>,
         fault' = fault \/ fault'.by # "load" \/ fault'.what \notin Surprises,
         stage' \in {"loaded", "running", "over"}
  PROVE  Tracing'
<1>1. Legacy' = Legacy /\ Asked' = Asked
  BY DEF Legacy, Asked, Held
<1> QED
  BY <1>1 DEF Tracing

(* The next table is one that is asked for.                                 *)
LEMMA FirstOfAsked ==
  ASSUME asked \subseteq Tabled, asked # {}
  PROVE  NextTable \in asked
<1> DEFINE S == {i \in DOMAIN Extensions : Extensions[i] \in asked}
<1>1. DOMAIN Extensions = 1 .. 3 /\ Extensions[1] = "trc" /\ Extensions[2] = "brc" /\ Extensions[3] = "irc"
  BY DEF Extensions
<1>2. S \subseteq 1 .. 3 /\ S # {}
  <2>1. PICK x \in asked : x \in Tabled
    OBVIOUS
  <2>2. \E i \in 1 .. 3 : Extensions[i] = x
    BY <1>1, <2>1 DEF Tabled
  <2> QED
    BY <1>1, <2>1, <2>2
<1>3. \E x \in S : \A y \in S : x <= y
  <2>1. CASE 1 \in S
    BY <1>2, <2>1
  <2>2. CASE 1 \notin S /\ 2 \in S
    BY <1>2, <2>2
  <2>3. CASE 1 \notin S /\ 2 \notin S
    <3>1. S = {3}
      BY <1>2, <2>3
    <3> QED
      BY <3>1
  <2> QED
    BY <2>1, <2>2, <2>3
<1>4. Min(S) \in S
  <2> HIDE DEF S
  <2> QED
    BY <1>3 DEF Min
<1> QED
  BY <1>4 DEF NextTable

(* What is said of a profile at every frequency asks for the same tables.   *)
LEMMA DefinitionsAsk ==
  ASSUME NEW e, NEW field, NEW d \in Range(DefinitionsOf(e, field))
  PROVE  TablesOf(d) = TablesOf(e)
<1>1. PICK f, t, b, p : d = Definition(e, field, t, b, p, Solver, f)
  BY DEF Range, DefinitionsOf
<1>2. d.surface = e.surface /\ d.bottom = e.bottom
  BY <1>1 DEF Definition
<1> QED
  BY <1>2 DEF TablesOf

(* The files of a case do not change while it is loaded.                    *)
LEMMA FilesKept ==
  ASSUME UNCHANGED request
  PROVE  /\ Legacy' = Legacy /\ TheField' = TheField
         /\ \A p, n : Trail(p, n)' = Trail(p, n) /\ Found(p, n)' = Found(p, n)
<1>1. Legacy' = Legacy /\ TheField' = TheField
  BY DEF Legacy, TheField, File
<1>2. ASSUME NEW p, NEW n PROVE Trail(p, n)' = Trail(p, n) /\ Found(p, n)' = Found(p, n)
  BY DEF Trail, Found, AskedBy, Understood, File, Solver
<1> QED
  BY <1>1, <1>2

(* A load goes on from a stage to the next with what it makes.              *)
LEMMA TracingOn ==
  ASSUME Tracing, Legacy, UNCHANGED <<request, fields, fault>>,
         stage \in {"read", "discover", "tables", "pattern", "load"},
         stage' \in {"discover", "tables", "pattern", "load"},
         DOMAIN resources' = Resources,
         \A x \in Resources : resources'[x] = <<>> \/ \E file : resources'[x] = <<file>>,
         NEW p, NEW n, Progress(p, n)'
  PROVE  Tracing'
<1>1. Legacy' = Legacy
  BY FilesKept
<1>2. fields = <<>>
  BY DEF Tracing
<1> QED
  BY <1>1, <1>2 DEF Tracing

(* A trail begins, and is as long as the profiles that were found.          *)
LEMMA TracingPair ==
  ASSUME Tracing, ReadPair
  PROVE  Tracing'
<1>1. stage = "read" /\ Legacy /\ UNCHANGED <<request, asked, resources, fields>>
  BY DEF ReadPair, fieldVars
<1>2. resources = NoResources
  BY <1>1 DEF Tracing
<1>3. CASE ~(HasFile("env") /\ HasFile("flp"))
  <2>1. Rejected("input")
    BY <1>3 DEF ReadPair
  <2>2. fault'.what \notin Surprises /\ stage' = "over"
    BY <2>1 DEF Rejected, Exits, Surprises
  <2> QED
    BY <1>1, <2>2, TracingElsewhere
<1>4. CASE HasFile("env") /\ HasFile("flp")
  <2> DEFINE r == NewReader(File("env"))
  <2>1. IF ~r.ok THEN Unread(r) /\ UNCHANGED loading
        ELSE GoesOn("discover") /\ loading' = [NotLoading EXCEPT !.reader = r]
    BY <1>4 DEF ReadPair
  <2>2. CASE ~r.ok
    BY <1>1, <2>1, <2>2, TracingElsewhere DEF Unread, Exits
  <2>3. CASE r.ok
    <3>0. PICK p : p = [k \in 1 .. 1 |-> r]
      OBVIOUS
    <3>1. stage' = "discover" /\ fault' = fault /\ loading'.reader = r /\ loading'.used = {}
      BY <2>1, <2>3 DEF GoesOn, NotLoading
    <3>2. p[1] = r
      BY <3>0
    <3>3. Trail(p, 1)
      BY <2>3, <3>2 DEF Trail
    <3> HIDE DEF r
    <3>4. Found(p, 1 - 1) = {}
      BY DEF Found
    <3>5. Trail(p, 1)' /\ Found(p, 1 - 1)' = {}
      BY <1>1, <3>3, <3>4, FilesKept
    <3>6. NoResources' = NoResources
      BY DEF NoResources
    <3>7. Progress(p, 1)'
      BY <1>1, <1>2, <3>1, <3>2, <3>5, <3>6 DEF Progress
    <3>8. DOMAIN resources' = Resources /\ \A x \in Resources : resources'[x] = <<>> \/ \E file : resources'[x] = <<file>>
      BY <1>1 DEF Tracing
    <3> QED
      BY <1>1, <3>1, <3>7, <3>8, TracingOn
  <2> QED
    BY <2>2, <2>3
<1> QED
  BY <1>3, <1>4

LEMMA TracingProfile ==
  ASSUME Tracing, DOMAIN loading = LoadParts, DiscoverProfile
  PROVE  Tracing'
<1>1. stage = "discover" /\ More(loading.reader) /\ UNCHANGED <<request, asked, resources, fields>>
  BY DEF DiscoverProfile, fieldVars
<1> DEFINE r == ReadEnvironment(loading.reader, Solver)
<1>2. IF ~r.ok THEN Unread(r) /\ UNCHANGED loading
      ELSE /\ GoesOn("discover")
           /\ loading' = [loading EXCEPT !.reader = Ready(r), !.used = @ \cup TablesOf(Environment(r.value))]
  BY DEF DiscoverProfile
<1>3. CASE ~r.ok
  BY <1>1, <1>2, <1>3, TracingElsewhere DEF Unread, Exits
<1>4. CASE r.ok
  <2>0. Legacy
    BY <1>1 DEF Tracing
  <2>1. PICK p, n : Progress(p, n)
    BY <1>1 DEF Tracing
  <2>2. Trail(p, n) /\ loading.reader = p[n] /\ loading.used = Found(p, n - 1) /\ resources = NoResources
    BY <1>1, <2>1 DEF Progress
  <2>3. r = Understood(p[n])
    BY <2>2 DEF Understood
  <2>4. PICK q : Trail(q, n + 1) /\ q[n + 1] = Ready(r) /\ Found(q, n) = Found(p, n - 1) \cup AskedBy(p[n])
    <3>1. More(p[n])
      BY <1>1, <2>2
    <3> HIDE DEF r
    <3>2. Understood(p[n]).ok
      BY <1>4, <2>3
    <3>3. \E q : Trail(q, n + 1) /\ q[n + 1] = Ready(Understood(p[n])) /\ Found(q, n) = Found(p, n - 1) \cup AskedBy(p[n])
      BY <2>2, <3>1, <3>2, TrailLonger
    <3> QED
      BY <2>3, <3>3
  <2>5. stage' = "discover" /\ fault' = fault /\ loading'.reader = Ready(r)
        /\ loading'.used = loading.used \cup TablesOf(Environment(r.value))
    BY <1>2, <1>4 DEF GoesOn, LoadParts
  <2>6. AskedBy(p[n]) = TablesOf(Environment(r.value))
    BY <2>3 DEF AskedBy
  <2>7. n \in Nat /\ (n + 1) - 1 = n
    BY <2>2 DEF Trail
  <2> HIDE DEF r
  <2>8. loading'.used = Found(q, (n + 1) - 1)
    BY <2>2, <2>4, <2>5, <2>6, <2>7
  <2>9. Trail(q, n + 1)' /\ Found(q, (n + 1) - 1)' = Found(q, (n + 1) - 1)
    <3>1. \A m : Trail(q, m)' = Trail(q, m) /\ Found(q, m)' = Found(q, m)
      BY <1>1, FilesKept
    <3> QED
      BY <2>1, <2>4, <3>1
  <2>10. NoResources' = NoResources
    BY DEF NoResources
  <2>11. Progress(q, n + 1)'
    BY <1>1, <2>2, <2>4, <2>5, <2>8, <2>9, <2>10 DEF Progress
  <2>12. DOMAIN resources' = Resources /\ \A x \in Resources : resources'[x] = <<>> \/ \E file : resources'[x] = <<file>>
    BY <1>1 DEF Tracing
  <2> QED
    BY <1>1, <2>0, <2>5, <2>11, <2>12, TracingOn
<1> QED
  BY <1>3, <1>4

(* A table that is read is held, and no longer asked for.                   *)
LEMMA TracingTable ==
  ASSUME Tracing, ReadTable
  PROVE  Tracing'
<1>1. stage = "tables" /\ asked # {} /\ UNCHANGED <<request, loading, fields>>
  BY DEF ReadTable, fieldVars
<1>2. CASE ~HasFile(NextTable)
  <2>1. fault' = [by |-> "load", what |-> "input"] /\ stage' = "over" /\ UNCHANGED resources
    BY <1>2 DEF ReadTable, Rejected, Exits
  <2> QED
    BY <1>1, <2>1, TracingElsewhere DEF Surprises
<1>3. CASE HasFile(NextTable)
  <2> DEFINE x == NextTable
  <2>1. /\ resources' = [resources EXCEPT ![x] = <<File(x)>>]
        /\ asked' = asked \ {x} /\ stage' = "tables" /\ fault' = fault
    BY <1>3 DEF ReadTable, GoesOn
  <2>2. Legacy
    BY <1>1 DEF Tracing
  <2>3. PICK p, n : Progress(p, n)
    BY <1>1 DEF Tracing
  <2>4. /\ Trail(p, n) /\ ~More(p[n]) /\ Held \cup asked = Found(p, n - 1) /\ asked \subseteq Tabled
        /\ resources["sbp"] = <<>>
    BY <1>1, <2>3 DEF Progress
  <2>5. x \in asked /\ x \in Tabled
    BY <1>1, <2>4, FirstOfAsked
  <2> HIDE DEF x
  <2>6. DOMAIN resources' = Resources /\ Tabled \subseteq Resources /\ DOMAIN resources = Resources
    BY <2>1 DEF Tracing, Resources
  <2>7. \A y \in Resources : resources'[y] = <<>> \/ \E file : resources'[y] = <<file>>
    BY <2>1, <2>6 DEF Tracing
  <2>8. Held' = Held \cup {x}
    <3>1. \A y \in Tabled : resources'[y] = IF y = x THEN <<File(x)>> ELSE resources[y]
      BY <2>1, <2>6
    <3>2. <<File(x)>> # <<>>
      OBVIOUS
    <3> QED
      BY <2>5, <3>1, <3>2 DEF Held
  <2>9. resources'["sbp"] = <<>>
    BY <2>1, <2>4, <2>5, <2>6 DEF Tabled, Resources
  <2>10. Held' \cup asked' = Found(p, n - 1) /\ asked' \subseteq Tabled
    BY <2>1, <2>4, <2>5, <2>8
  <2>11. Trail(p, n)' /\ Found(p, n - 1)' = Found(p, n - 1)
    BY <1>1, <2>4, FilesKept
  <2>12. Progress(p, n)'
    BY <2>1, <2>4, <2>9, <2>10, <2>11 DEF Progress
  <2> QED
    BY <1>1, <2>1, <2>2, <2>6, <2>7, <2>12, TracingOn
<1> QED
  BY <1>2, <1>3

(* Every table of the trail is asked for at its end.                        *)
LEMMA TracingEnd ==
  ASSUME Tracing, EndDiscovery
  PROVE  Tracing'
<1>1. /\ stage = "discover" /\ ~More(loading.reader) /\ UNCHANGED <<request, resources, loading, fields, fault>>
      /\ stage' = "tables" /\ asked' = loading.used
  BY DEF EndDiscovery, GoesOn, fieldVars
<1>2. Legacy /\ DOMAIN resources = Resources
  BY <1>1 DEF Tracing
<1>3. PICK p, n : Progress(p, n)
  BY <1>1 DEF Tracing
<1>4. Trail(p, n) /\ loading.reader = p[n] /\ loading.used = Found(p, n - 1) /\ resources = NoResources
  BY <1>1, <1>3 DEF Progress
<1>5. Held' = {} /\ resources'["sbp"] = <<>>
  BY <1>1, <1>4 DEF Held, NoResources, Tabled
<1>6. asked' \subseteq Tabled
  BY <1>1, <1>4, FoundTables
<1>7. Trail(p, n)' /\ Found(p, n - 1)' = Found(p, n - 1)
  BY <1>1, <1>4, FilesKept
<1>8. Progress(p, n)'
  BY <1>1, <1>4, <1>5, <1>6, <1>7 DEF Progress
<1>9. \A x \in Resources : resources'[x] = <<>> \/ \E file : resources'[x] = <<file>>
  BY <1>1 DEF Tracing
<1> QED
  BY <1>1, <1>2, <1>8, <1>9, TracingOn

(* The pattern is held when the FIELD file asks for one.                    *)
LEMMA TracingPattern ==
  ASSUME Tracing, ReadPattern
  PROVE  Tracing'
<1>1. stage = "tables" /\ asked = {} /\ asked' = {} /\ UNCHANGED <<request, loading, fields>>
  BY DEF ReadPattern, fieldVars
<1> DEFINE r == ParseField(File("flp"))
<1>2. IF ~r.ok THEN Unread(r) /\ UNCHANGED resources
      ELSE IF ~FieldOf(r.value).asked THEN GoesOn("pattern") /\ UNCHANGED resources
      ELSE IF ~HasFile("sbp") THEN Rejected("input") /\ UNCHANGED resources
      ELSE GoesOn("pattern") /\ resources' = [resources EXCEPT !["sbp"] = <<File("sbp")>>]
  BY DEF ReadPattern
<1>3. TheField.asked <=> FieldOf(r.value).asked
  BY DEF TheField
<1> HIDE DEF r
<1>4. CASE stage' = "over"
  <2>1. resources' = resources /\ (fault'.by = "reader" \/ fault'.what = "input")
    BY <1>2, <1>4 DEF Unread, Rejected, Exits, GoesOn
  <2> QED
    BY <1>1, <1>4, <2>1, TracingElsewhere DEF Surprises
<1>5. CASE stage' # "over"
  <2>1. stage' = "pattern" /\ fault' = fault
    BY <1>2, <1>5 DEF Unread, Rejected, Exits, GoesOn
  <2>2. \/ ~TheField.asked /\ resources' = resources
        \/ TheField.asked /\ resources' = [resources EXCEPT !["sbp"] = <<File("sbp")>>]
    BY <1>2, <1>3, <1>5 DEF Unread, Rejected, Exits
  <2>3. Legacy /\ DOMAIN resources = Resources /\ "sbp" \in Resources
    BY <1>1 DEF Tracing, Resources
  <2>4. PICK p, n : Progress(p, n)
    BY <1>1 DEF Tracing
  <2>5. /\ Trail(p, n) /\ ~More(p[n]) /\ Held \cup asked = Found(p, n - 1) /\ resources["sbp"] = <<>>
    BY <1>1, <2>4 DEF Progress
  <2>6. DOMAIN resources' = Resources /\ \A x \in Tabled : resources'[x] = resources[x]
    BY <2>2, <2>3 DEF Tabled, Resources
  <2>7. Held' = Held
    BY <2>6 DEF Held
  <2>8. \A x \in Resources : resources'[x] = <<>> \/ \E file : resources'[x] = <<file>>
    <3>1. resources'["sbp"] = <<>> \/ resources'["sbp"] = <<File("sbp")>>
      BY <2>2, <2>3, <2>5
    <3> QED
      BY <2>6, <3>1 DEF Tracing, Resources
  <2>9. PatternRight'
    <3>1. resources'["sbp"] # <<>> <=> TheField.asked
      <4>1. <<File("sbp")>> # <<>>
        OBVIOUS
      <4> QED
        BY <2>2, <2>3, <2>5, <4>1
    <3>2. TheField' = TheField
      BY <1>1, FilesKept
    <3> QED
      BY <3>1, <3>2 DEF PatternRight
  <2>10. Trail(p, n)' /\ Found(p, n - 1)' = Found(p, n - 1)
    BY <1>1, <2>5, FilesKept
  <2>11. Progress(p, n)'
    BY <1>1, <2>1, <2>5, <2>7, <2>9, <2>10 DEF Progress
  <2> QED
    BY <1>1, <2>1, <2>3, <2>6, <2>8, <2>11, TracingOn
<1> QED
  BY <1>4, <1>5

(* The load begins where discovery did.                                     *)
LEMMA TracingBegin ==
  ASSUME Tracing, BeginLoad
  PROVE  Tracing'
<1>1. /\ stage = "pattern" /\ UNCHANGED <<request, asked, resources, fields, fault>>
      /\ stage' = "load" /\ loading' = [NotLoading EXCEPT !.reader = NewReader(File("env"))]
  BY DEF BeginLoad, GoesOn, fieldVars
<1>2. Legacy /\ DOMAIN resources = Resources
  BY <1>1 DEF Tracing
<1>3. PICK p, n : Progress(p, n)
  BY <1>1 DEF Tracing
<1>4. /\ Trail(p, n) /\ ~More(p[n]) /\ Held \cup asked = Found(p, n - 1) /\ asked = {} /\ PatternRight
  BY <1>1, <1>3 DEF Progress
<1>5. Held' = Held /\ PatternRight'
  <2>1. Held' = Held
    BY <1>1 DEF Held
  <2>2. TheField' = TheField
    BY <1>1, FilesKept
  <2> QED
    BY <1>1, <1>4, <2>1, <2>2 DEF PatternRight
<1>6. \A m : Trail(p, m)' = Trail(p, m) /\ Found(p, m)' = Found(p, m)
  BY <1>1, FilesKept
<1>7. LoadPlace(p, n)'
  <2>1. /\ loading'.profile = 0 /\ loading'.reader = NewReader(File("env")) /\ loading'.used = {}
        /\ loading'.sequences = <<>>
    BY <1>1 DEF NotLoading
  <2>2. 0 \in Nat /\ 0 + 1 \in 1 .. n /\ p[0 + 1] = NewReader(File("env"))
    BY <1>4 DEF Trail
  <2>3. Found(p, 0) = {}
    BY FoundMore
  <2>4. Found(p, 0)' = {}
    BY <1>6, <2>3
  <2> QED
    BY <2>1, <2>2, <2>4 DEF LoadPlace
<1>8. Progress(p, n)'
  BY <1>1, <1>4, <1>5, <1>6, <1>7 DEF Progress
<1>9. \A x \in Resources : resources'[x] = <<>> \/ \E file : resources'[x] = <<file>>
  BY <1>1 DEF Tracing
<1> QED
  BY <1>1, <1>2, <1>8, <1>9, TracingOn

(* A sequence asks for what its profiles do.                                *)
LEMMA AskingGrows ==
  ASSUME NEW d
  PROVE  /\ Asking(<<d>>) = TablesOf(d)
         /\ \A s : List(s) => Asking(Append(s, d)) = Asking(s) \cup TablesOf(d)
<1>1. Asking(<<d>>) = TablesOf(d)
  <2>1. Range(<<d>>) = {d}
    BY DEF Range
  <2> QED
    BY <2>1 DEF Asking
<1>2. ASSUME NEW s, List(s) PROVE Asking(Append(s, d)) = Asking(s) \cup TablesOf(d)
  <2> DEFINE t == Append(s, d)
  <2>1. /\ List(t) /\ Len(t) = Len(s) + 1 /\ Len(s) \in Nat
        /\ \A i \in 1 .. Len(s) : t[i] = s[i]
        /\ t[Len(s) + 1] = d
    BY <1>2, ListedAppended
  <2> HIDE DEF t
  <2>2. DOMAIN t = 1 .. Len(s) + 1 /\ DOMAIN s = 1 .. Len(s)
    BY <1>2, <2>1 DEF List
  <2>3. 1 .. Len(s) + 1 = (1 .. Len(s)) \cup {Len(s) + 1}
    BY <2>1
  <2>4. Range(t) = Range(s) \cup {d}
    BY <2>1, <2>2, <2>3 DEF Range
  <2>5. Asking(t) = Asking(s) \cup TablesOf(d)
    BY <2>4 DEF Asking
  <2> QED
    BY <2>5 DEF t
<1> QED
  BY <1>1, <1>2

(* A profile that joins asks for its tables in every sequence.              *)
LEMMA JoinedAsk ==
  ASSUME \A i \in DOMAIN loading.sequences : CasesOK(loading.sequences[i]) /\ Asking(loading.sequences[i]) = loading.used,
         loading.profile = 0 => loading.used = {},
         NEW e, NEW field, NEW definitions, definitions = DefinitionsOf(e, field), Joins(definitions)
  PROVE  \A i \in DOMAIN Joined(definitions) : Asking(Joined(definitions)[i]) = loading.used \cup TablesOf(e)
<1>1. \A i \in DOMAIN definitions : TablesOf(definitions[i]) = TablesOf(e)
  BY DefinitionsAsk DEF Range
<1>2. CASE loading.profile = 0
  <2>1. Joined(definitions) = [i \in DOMAIN definitions |-> <<definitions[i]>>]
    BY <1>2 DEF Joined
  <2>2. \A i \in DOMAIN definitions : Asking(<<definitions[i]>>) = TablesOf(e)
    BY <1>1, AskingGrows
  <2> QED
    BY <1>2, <2>1, <2>2
<1>3. CASE loading.profile # 0
  <2>1. Joined(definitions) = [i \in DOMAIN definitions |-> Append(loading.sequences[i], definitions[i])]
    BY <1>3 DEF Joined
  <2>2. DOMAIN definitions = DOMAIN loading.sequences
    BY <1>3 DEF Joins
  <2>3. ASSUME NEW i \in DOMAIN definitions
        PROVE  Asking(Append(loading.sequences[i], definitions[i])) = loading.used \cup TablesOf(e)
    <3>1. List(loading.sequences[i]) /\ Asking(loading.sequences[i]) = loading.used
      BY <2>2 DEF CasesOK
    <3> DEFINE s == loading.sequences[i]
               d == definitions[i]
    <3>2. List(s) /\ Asking(s) = loading.used /\ TablesOf(d) = TablesOf(e)
      BY <1>1, <3>1
    <3> HIDE DEF s, d
    <3>3. Asking(Append(s, d)) = Asking(s) \cup TablesOf(d)
      BY <3>2, AskingGrows
    <3> QED
      BY <3>2, <3>3 DEF s, d
  <2> QED
    BY <2>1, <2>3
<1> QED
  BY <1>2, <1>3

(* A profile of the load is one that was discovered.                        *)
LEMMA TracingLoad ==
  ASSUME Acceptance, Tracing, LoadProfile
  PROVE  Tracing'
<1>1. stage = "load" /\ UNCHANGED <<request, asked, resources, fields>>
  BY DEF LoadProfile, fieldVars
<1>2. Legacy /\ DOMAIN resources = Resources
  BY <1>1 DEF Tracing
<1>3. PICK p, n : Progress(p, n)
  BY <1>1 DEF Tracing
<1>4. /\ Trail(p, n) /\ ~More(p[n]) /\ Held \cup asked = Found(p, n - 1) /\ asked = {} /\ PatternRight
      /\ LoadPlace(p, n)
  BY <1>1, <1>3 DEF Progress
<1> DEFINE r == ReadEnvironment(loading.reader, Solver)
           e == Environment(r.value)
           field == TheField
           definitions == DefinitionsOf(e, field)
           k == loading.profile
<1>5. IF ~r.ok THEN Unread(r) /\ UNCHANGED loading ELSE Join(r, e, field, definitions)
  BY DEF LoadProfile
<1>6. k \in Nat /\ k + 1 \in 1 .. n /\ loading.reader = p[k + 1] /\ loading.used = Found(p, k)
      /\ \A i \in DOMAIN loading.sequences : Asking(loading.sequences[i]) = loading.used
  BY <1>4 DEF LoadPlace
<1>7. r = Understood(p[k + 1]) /\ TablesOf(e) = AskedBy(p[k + 1])
  <2>1. r = Understood(p[k + 1])
    BY <1>6 DEF Understood
  <2> QED
    BY <2>1 DEF AskedBy
<1>8. definitions = DefinitionsOf(e, TheField)
  OBVIOUS
<1> HIDE DEF r, e, definitions, k
<1>9. CASE ~r.ok
  BY <1>1, <1>5, <1>9, TracingElsewhere DEF Unread, Exits
<1>10. CASE r.ok
  <2>1. k + 1 \in 1 .. n - 1 /\ (k + 1) + 1 \in 1 .. n /\ p[(k + 1) + 1] = Ready(r)
    BY <1>4, <1>6, <1>7, <1>10, TrailInside
  <2>2. TablesOf(e) \subseteq Held
    <3>1. AskedBy(p[k + 1]) \subseteq Found(p, n - 1)
      BY <2>1 DEF Found
    <3> QED
      BY <1>4, <1>7, <3>1
  <2> DEFINE wrong == FirstFault(e, field, definitions)
  <2>3. wrong \notin Surprises
    BY <1>4, <2>2, NoneMissing
  <2>4. \/ \E w \in {wrong, "frequencies", "profiles"} : Rejected(w) /\ UNCHANGED loading
        \/ /\ Joins(definitions) /\ GoesOn("load")
           /\ loading' = [reader |-> Ready(r), profile |-> loading.profile + 1,
                          sequences |-> Joined(definitions), charged |-> Charge(field, definitions),
                          used |-> loading.used \cup TablesOf(e)]
    BY <1>5, <1>10 DEF Join
  <2> HIDE DEF wrong, field
  <2>5. CASE \E w \in {wrong, "frequencies", "profiles"} : Rejected(w) /\ UNCHANGED loading
    <3>1. PICK w \in {wrong, "frequencies", "profiles"} : Rejected(w)
      BY <2>5
    <3>2. w \notin Surprises
      BY <2>3, <3>1 DEF Surprises
    <3> QED
      BY <1>1, <3>1, <3>2, TracingElsewhere DEF Rejected, Exits
  <2>6. CASE /\ Joins(definitions) /\ GoesOn("load")
             /\ loading' = [reader |-> Ready(r), profile |-> loading.profile + 1,
                            sequences |-> Joined(definitions), charged |-> Charge(field, definitions),
                            used |-> loading.used \cup TablesOf(e)]
    <3>1. /\ stage' = "load" /\ fault' = fault /\ loading'.reader = p[(k + 1) + 1] /\ loading'.profile = k + 1
          /\ loading'.sequences = Joined(definitions) /\ loading'.used = loading.used \cup TablesOf(e)
      BY <2>1, <2>6 DEF GoesOn, k
    <3>2. loading'.used = Found(p, k + 1)
      BY <1>6, <1>7, <3>1, FoundMore
    <3>3. \A i \in DOMAIN Joined(definitions) : Asking(Joined(definitions)[i]) = loading.used \cup TablesOf(e)
      <4>1. \A i \in DOMAIN loading.sequences : CasesOK(loading.sequences[i]) /\ Asking(loading.sequences[i]) = loading.used
        BY <1>6 DEF Acceptance
      <4>2. loading.profile = 0 => loading.used = {}
        BY <1>6, FoundMore DEF k
      <4> QED
        BY <1>8, <2>6, <4>1, <4>2, JoinedAsk
    <3>4. \A m : Trail(p, m)' = Trail(p, m) /\ Found(p, m)' = Found(p, m)
      BY <1>1, FilesKept
    <3>5. LoadPlace(p, n)'
      <4>1. k + 1 \in Nat
        BY <1>6
      <4>2. \A i \in DOMAIN loading'.sequences : Asking(loading'.sequences[i]) = loading'.used
        BY <3>1, <3>3
      <4>3. \A i \in DOMAIN loading'.sequences : Asking(loading.sequences[i])' = loading'.used
        BY <4>2 DEF Asking, TablesOf
      <4>4. loading'.used = Found(p, loading.profile)'
        BY <3>1, <3>2, <3>4 DEF Found, AskedBy, Understood, Solver
      <4> QED
        BY <2>1, <3>1, <4>1, <4>3, <4>4 DEF LoadPlace
    <3>6. Held' = Held /\ PatternRight'
      <4>1. Held' = Held
        BY <1>1 DEF Held
      <4>2. TheField' = TheField
        BY <1>1, FilesKept
      <4> QED
        BY <1>1, <1>4, <4>1, <4>2 DEF PatternRight
    <3>7. Progress(p, n)'
      BY <1>1, <1>4, <3>1, <3>4, <3>5, <3>6 DEF Progress
    <3>8. \A x \in Resources : resources'[x] = <<>> \/ \E file : resources'[x] = <<file>>
      BY <1>1 DEF Tracing
    <3> QED
      BY <1>1, <1>2, <3>1, <3>7, <3>8, TracingOn
  <2> QED
    BY <2>4, <2>5, <2>6
<1> QED
  BY <1>9, <1>10

(* What is left of neither file nor tables makes fields of what asks for    *)
(* the tables.                                                             *)
LEMMA TracingFinish ==
  ASSUME Acceptance, Tracing, FinishLoad
  PROVE  Tracing'
<1>1. stage = "load" /\ UNCHANGED <<request, asked, resources, loading>>
  BY DEF FinishLoad
<1>2. Legacy /\ DOMAIN resources = Resources /\ fields = <<>>
  BY <1>1 DEF Tracing
<1>3. PICK p, n : Progress(p, n)
  BY <1>1 DEF Tracing
<1>4. /\ Trail(p, n) /\ ~More(p[n]) /\ Held \cup asked = Found(p, n - 1) /\ asked = {} /\ LoadPlace(p, n)
  BY <1>1, <1>3 DEF Progress
<1> DEFINE k == loading.profile
<1>5. k \in Nat /\ k + 1 \in 1 .. n /\ loading.reader = p[k + 1] /\ loading.used = Found(p, k)
      /\ \A i \in DOMAIN loading.sequences : Asking(loading.sequences[i]) = loading.used
  BY <1>4 DEF LoadPlace
<1>6. PICK field :
        CASE More(loading.reader) -> Rejected("input") /\ UNCHANGED fields
          [] ~More(loading.reader) /\ Unused # {} -> Rejected("unexpected table") /\ UNCHANGED fields
          [] OTHER -> IF \A f \in Range(FieldsOf(field)) : FieldCaseAllowed(f)
                        THEN fields' = FieldsOf(field) /\ GoesOn("loaded")
                        ELSE Rejected("case") /\ UNCHANGED fields
  BY DEF FinishLoad
<1>7. ~More(loading.reader) => Unused = {} /\ loading.used = Held
  <2> SUFFICES ASSUME ~More(loading.reader) PROVE Unused = {} /\ loading.used = Held
    OBVIOUS
  <2>1. k + 1 = n
    BY <1>4, <1>5, TrailInside
  <2>2. k = n - 1
    BY <1>5, <2>1
  <2>3. loading.used = Held
    BY <1>4, <1>5, <2>2
  <2> QED
    BY <2>3 DEF Unused, Held, Tabled
<1>8. CASE stage' = "over"
  <2>0. "loaded" # "over"
    OBVIOUS
  <2>1. fields' = fields /\ (Rejected("input") \/ Rejected("case"))
    BY <1>6, <1>7, <1>8, <2>0 DEF GoesOn
  <2>2. fault'.what \notin Surprises
    <3>1. fault'.what \in {"input", "case"}
      BY <2>1 DEF Rejected
    <3> QED
      BY <3>1 DEF Surprises
  <2> QED
    BY <1>1, <1>8, <2>1, <2>2, TracingElsewhere
<1>9. CASE stage' # "over"
  <2>1. ~More(loading.reader) /\ fields' = FieldsOf(field) /\ stage' = "loaded" /\ fault' = fault
    BY <1>6, <1>7, <1>9 DEF Rejected, GoesOn, Exits
  <2>2. Legacy' = Legacy /\ Held' = Held
    BY <1>1 DEF Legacy, Held
  <2>3. fields' # <<>> => Asked'
    <3> SUFFICES ASSUME fields' # <<>> PROVE Asked'
      OBVIOUS
    <3>1. DOMAIN fields' = DOMAIN loading.sequences
      BY <2>1 DEF FieldsOf
    <3>2. \A i \in DOMAIN fields' : fields'[i].profiles = loading.sequences[i]
      BY <2>1 DEF FieldsOf
    <3>3. \E i : i \in DOMAIN fields'
      <4> SUFFICES ASSUME DOMAIN fields' = {} PROVE FALSE
        OBVIOUS
      <4>1. DOMAIN <<>> = {} /\ <<>> = [i \in {} |-> 0]
        OBVIOUS
      <4>2. fields' = [i \in {} |-> 0]
        BY <2>1, <3>1 DEF FieldsOf
      <4> QED
        BY <4>1, <4>2
    <3>4. UNION {TablesOf(d) : d \in UNION {Range(f.profiles) : f \in Range(fields')}} = Held
      <4> DEFINE all == UNION {Range(f.profiles) : f \in Range(fields')}
      <4>1. ASSUME NEW d \in all PROVE TablesOf(d) \subseteq Held
        <5>1. PICK i \in DOMAIN fields' : d \in Range(fields'[i].profiles)
          BY <4>1 DEF Range
        <5>2. TablesOf(d) \subseteq Asking(loading.sequences[i])
          BY <3>1, <3>2, <5>1 DEF Asking
        <5> QED
          BY <1>5, <1>7, <2>1, <3>1, <5>2
      <4>2. ASSUME NEW x \in Held PROVE \E d \in all : x \in TablesOf(d)
        <5>1. PICK i : i \in DOMAIN fields'
          BY <3>3
        <5>2. x \in Asking(loading.sequences[i])
          BY <1>5, <1>7, <2>1, <3>1, <4>2, <5>1
        <5>3. PICK d \in Range(loading.sequences[i]) : x \in TablesOf(d)
          BY <5>2 DEF Asking
        <5>4. fields'[i] \in Range(fields')
          BY <5>1 DEF Range
        <5> QED
          BY <3>2, <5>1, <5>3, <5>4
      <4> HIDE DEF all
      <4>3. UNION {TablesOf(d) : d \in all} = Held
        BY <4>1, <4>2
      <4> QED
        BY <4>3 DEF all
    <3>5. (UNION {TablesOf(d) : d \in UNION {Range(f.profiles) : f \in Range(fields)}})'
            = UNION {TablesOf(d) : d \in UNION {Range(f.profiles) : f \in Range(fields')}}
      BY DEF TablesOf
    <3> QED
      BY <2>2, <3>4, <3>5 DEF Asked
  <2> QED
    BY <1>1, <2>1, <2>2, <2>3 DEF Tracing
<1> QED
  BY <1>8, <1>9

(* Tracing holds after every step.                                          *)
LEMMA TracingStep == Acceptance /\ Tracing /\ [Next]_vars => Tracing'
<1> SUFFICES ASSUME Acceptance, Tracing, [Next]_vars PROVE Tracing'
  OBVIOUS
<1>1. CASE ReadPair
  BY <1>1, TracingPair
<1>2. CASE DiscoverProfile
  BY <1>2, TracingProfile DEF Acceptance
<1>3. CASE EndDiscovery
  BY <1>3, TracingEnd
<1>4. CASE ReadTable
  BY <1>4, TracingTable
<1>5. CASE ReadPattern
  BY <1>5, TracingPattern
<1>6. CASE BeginLoad
  BY <1>6, TracingBegin
<1>7. CASE LoadProfile
  BY <1>7, TracingLoad
<1>8. CASE FinishLoad
  BY <1>8, TracingFinish
<1>9. CASE LoadDocument
  <2>1. ~Legacy /\ UNCHANGED <<request, resources>>
    BY <1>9 DEF LoadDocument
  <2>2. \/ \E w \in {"document", "solver"} : fault' = [by |-> "load", what |-> w] /\ stage' = "over"
        \/ fault' = fault /\ stage' = "loaded"
    BY <1>9 DEF LoadDocument, Rejected, Exits, GoesOn
  <2>3. fault'.what \notin Surprises \/ fault' = fault
    <3>1. fault'.what \in {"document", "solver"} \/ fault' = fault
      BY <2>2
    <3> QED
      BY <3>1 DEF Surprises
  <2>4. ~Legacy' /\ stage' \in {"over", "loaded"}
    BY <2>1, <2>2 DEF Legacy
  <2> QED
    BY <2>1, <2>3, <2>4 DEF Tracing
<1>10. CASE ExportCase
  <2>1. UNCHANGED <<request, resources, fields>> /\ stage' = "over"
    BY <1>10 DEF ExportCase, Rejected, Exits, fieldVars
  <2>2. fault' = fault \/ \E w \in {"export", "oversized"} : fault' = [by |-> "load", what |-> w]
    BY <1>10 DEF ExportCase, Rejected
  <2>3. fault' = fault \/ fault'.what \notin Surprises
    <3>1. fault'.what \in {"export", "oversized"} \/ fault' = fault
      BY <2>2
    <3> QED
      BY <3>1 DEF Surprises
  <2> QED
    BY <2>1, <2>3, TracingElsewhere
<1>11. CASE Run
  BY <1>11, TracingElsewhere DEF Run, Exits, loadVars, fieldVars
<1>12. CASE NextStep
  <2>1. stage = "running" /\ stage' = stage /\ UNCHANGED loadVars /\ (SolveField \/ NextFrequency)
    BY <1>12 DEF NextStep
  <2>2. fields' = fields
    BY <2>1 DEF SolveField, NextFrequency, SolveProfile, Synthesize, StartMarch, Cross, Receive
  <2> QED
    BY <2>1, <2>2, TracingElsewhere DEF loadVars
<1>13. CASE WriteHdf5
  BY <1>13, TracingElsewhere DEF WriteHdf5, Fails, Proceeds, Exits, loadVars, fieldVars
<1>14. CASE WriteMod
  BY <1>14, TracingElsewhere DEF WriteMod, WriteNative, Fails, Proceeds, Exits, loadVars, fieldVars
<1>15. CASE WriteShd
  BY <1>15, TracingElsewhere DEF WriteShd, WriteNative, Fails, Proceeds, Exits, loadVars, fieldVars
<1>16. CASE Account
  BY <1>16, TracingElsewhere DEF Account, Fails, Proceeds, Exits, loadVars, fieldVars
<1>17. CASE Failed
  BY <1>17, TracingElsewhere DEF Failed, Exits, loadVars, fieldVars
<1>18. CASE Publish
  BY <1>18, TracingElsewhere DEF Publish, Exits, loadVars, fieldVars
<1>19. CASE Over \/ UNCHANGED vars
  <2>1. UNCHANGED <<request, resources, asked, loading, fault, fields, stage>>
    BY <1>19 DEF Over, vars, loadVars, fieldVars
  <2>2. /\ Legacy' = Legacy /\ Held' = Held /\ TheField' = TheField
        /\ \A p, n : Trail(p, n)' = Trail(p, n) /\ Found(p, n)' = Found(p, n)
    BY <2>1, FilesKept DEF Held
  <2>3. PatternRight' = PatternRight /\ Asked' = Asked
    BY <2>1, <2>2 DEF PatternRight, Asked
  <2>4. NoResources' = NoResources
    BY DEF NoResources
  <2>5. ASSUME NEW p, NEW n PROVE Progress(p, n)' = Progress(p, n)
    <3>1. LoadPlace(p, n)' = LoadPlace(p, n)
      <4>1. Found(p, loading.profile)' = Found(p, loading.profile)
        BY <2>1 DEF Found, AskedBy, Understood, Solver
      <4> QED
        BY <2>1, <4>1 DEF LoadPlace, Asking, TablesOf
    <3> QED
      BY <2>1, <2>2, <2>3, <2>4, <3>1 DEF Progress
  <2> QED
    BY <2>1, <2>2, <2>3, <2>4, <2>5 DEF Tracing
<1> QED
  BY <1>1, <1>2, <1>3, <1>4, <1>5, <1>6, <1>7, <1>8, <1>9, <1>10, <1>11, <1>12, <1>13, <1>14, <1>15, <1>16, <1>17, <1>18,
     <1>19 DEF Next

(* What is discovered in the files is what the load takes, whatever the     *)
(* environment file holds and however many profiles the FIELD file has      *)
(* (legacy::field_table_extensions, load_field_cases_with_resources):       *)
(* Discovered.                                                             *)
THEOREM TablesDiscovered == Spec => []Discovered
<1>1. Init => Acceptance /\ Marching /\ Tracing
  BY AcceptanceInit, TracingInit
<1>2. (Acceptance /\ Marching /\ Tracing) /\ [Next]_vars => (Acceptance /\ Marching /\ Tracing)'
  BY AcceptanceStep, TracingStep
<1>3. Acceptance /\ Marching /\ Tracing => Discovered
  BY TracingDiscovered
<1> QED
  BY <1>1, <1>2, <1>3, PTL DEF Spec

-----------------------------------------------------------------------------
(* The quadrature between coupled profiles.  Induction first, and what a    *)
(* fold over a list gives.                                                  *)

(* Induction over the natural numbers, for a set instead of a predicate.    *)
LEMMA SetInduction ==
  ASSUME NEW S, 0 \in S, \A n \in Nat : n \in S => n + 1 \in S
  PROVE  Nat \subseteq S
<1> SUFFICES ASSUME Nat \ S # {} PROVE FALSE
  OBVIOUS
<1>1. PICK x \in Nat \ S : \A y \in Nat \ S : ~(<<y, x>> \in OpToRel(<, Nat))
  BY NatLessThanWellFounded, WFMin
<1>2. x \in Nat /\ x # 0
  BY <1>1
<1>3. x - 1 \in Nat /\ x - 1 < x /\ (x - 1) + 1 = x
  BY <1>2
<1>4. <<x - 1, x>> \in OpToRel(<, Nat)
  BY <1>2, <1>3 DEF OpToRel
<1>5. x - 1 \in S
  BY <1>1, <1>3, <1>4
<1>6. (x - 1) + 1 \in S
  BY <1>3, <1>5
<1> QED
  BY <1>1, <1>3, <1>6

(* The greatest of a set of indices, and what is left below it.             *)
LEMMA Greatest ==
  ASSUME NEW k \in Nat, NEW s \in SUBSET (1 .. k), s # {}
  PROVE  Max(s) \in s /\ \A x \in s : x <= Max(s)
<1> DEFINE P(m) == \A t \in SUBSET (1 .. m) : t # {} => \E x \in t : \A y \in t : x >= y
           S == {m \in Nat : P(m)}
<1>1. 0 \in S
  <2>1. \A t \in SUBSET (1 .. 0) : t = {}
    OBVIOUS
  <2> QED
    BY <2>1
<1>2. ASSUME NEW m \in Nat, m \in S PROVE m + 1 \in S
  <2> SUFFICES ASSUME NEW t \in SUBSET (1 .. m + 1), t # {} PROVE \E x \in t : \A y \in t : x >= y
    OBVIOUS
  <2>1. CASE m + 1 \in t
    BY <2>1
  <2>2. CASE m + 1 \notin t
    <3>1. t \in SUBSET (1 .. m)
      BY <2>2
    <3> QED
      BY <1>2, <3>1
  <2> QED
    BY <2>1, <2>2
<1>3. k \in S
  <2> HIDE DEF S
  <2>1. \A m \in Nat : m \in S => m + 1 \in S
    BY <1>2
  <2> QED
    BY <1>1, <2>1, SetInduction
<1>4. \E x \in s : \A y \in s : x >= y
  BY <1>3
<1>5. Max(s) \in s /\ \A y \in s : Max(s) >= y
  BY <1>4 DEF Max
<1> QED
  BY <1>5

(* The greatest of a set of indices up to k + 1 is k + 1, or below it.      *)
LEMMA Peeled ==
  ASSUME NEW k \in Nat, NEW s \in SUBSET (1 .. k + 1)
  PROVE  /\ k + 1 \in s => Max(s) = k + 1 /\ s \ {k + 1} \in SUBSET (1 .. k)
         /\ k + 1 \notin s => s \in SUBSET (1 .. k)
         /\ k + 1 \notin s /\ s # {} => Max(s) \in s /\ s \ {Max(s)} \in SUBSET (1 .. k)
<1>1. s # {} => Max(s) \in s /\ \A x \in s : x <= Max(s)
  <2>1. k + 1 \in Nat
    OBVIOUS
  <2> QED
    BY <2>1, Greatest
<1> HIDE DEF Max
<1>2. \A x \in s : x \in Int /\ 1 <= x /\ x <= k + 1
  OBVIOUS
<1>3. ASSUME k + 1 \in s PROVE Max(s) = k + 1
  <2> DEFINE m == Max(s)
  <2>1. m \in s /\ k + 1 <= m
    BY <1>1, <1>3
  <2> HIDE DEF m
  <2>2. m \in Int /\ m <= k + 1
    BY <1>2, <2>1
  <2>3. m = k + 1
    BY <2>1, <2>2
  <2> QED
    BY <2>3 DEF m
<1>4. \A x \in s : x # k + 1 => x \in 1 .. k
  BY <1>2
<1> QED
  BY <1>1, <1>3, <1>4

(* The greatest of 1 .. k + 1, and what is left without it.                 *)
LEMMA Prefix ==
  ASSUME NEW k \in Nat
  PROVE  /\ 1 .. k + 1 # {} /\ Max(1 .. k + 1) = k + 1 /\ (1 .. k + 1) \ {k + 1} = 1 .. k
         /\ 1 .. k \in SUBSET (1 .. k + 1)
<1>1. k + 1 \in 1 .. k + 1
  OBVIOUS
<1>2. Max(1 .. k + 1) \in 1 .. k + 1 /\ \A x \in 1 .. k + 1 : x <= Max(1 .. k + 1)
  <2>1. k + 1 \in Nat
    OBVIOUS
  <2> QED
    BY <1>1, <2>1, Greatest
<1>3. Max(1 .. k + 1) = k + 1
  BY <1>1, <1>2
<1> QED
  BY <1>1, <1>3

GridSolved(g, n, b, q, folded) ==
  /\ g[{}] = b
  /\ \A k \in 0 .. n - 1 : g[1 .. k + 1] = Deepened(g[1 .. k], q[k + 1])
  /\ folded = g[1 .. n]

(* The fold over the samples has a solution: FoldLeft adds them in order.   *)
LEMMA GridFolded ==
  ASSUME NEW n \in Nat, NEW b, NEW q, DOMAIN q = 1 .. n
  PROVE  \E g : GridSolved(g, n, b, q, FoldLeft(Deepened, b, q))
<1> DEFINE Go(a, i) == Deepened(a, q[i])
           After(g, s) == IF s = {} THEN b ELSE Go(g[s \ {Max(s)}], Max(s))
           Solves(g, k) == g = [s \in SUBSET (1 .. k) |-> After(g, s)]
           S == {k \in Nat : \E g : Solves(g, k)}
           fold == CHOOSE g : Solves(g, n)
<1>1. FoldLeft(Deepened, b, q) = fold[1 .. n]
  BY DEF FoldLeft, MapThenFoldSet
<1> HIDE DEF Go, fold
<1>2. 0 \in S
  <2> DEFINE g == [s \in SUBSET (1 .. 0) |-> b]
  <2>1. \A s \in SUBSET (1 .. 0) : s = {}
    OBVIOUS
  <2>2. Solves(g, 0)
    BY <2>1
  <2> QED
    BY <2>2
<1>3. ASSUME NEW k \in Nat, k \in S PROVE k + 1 \in S
  <2>1. PICK g : Solves(g, k)
    BY <1>3
  <2> DEFINE h == [s \in SUBSET (1 .. k + 1) |-> IF k + 1 \in s THEN Go(g[s \ {k + 1}], k + 1) ELSE g[s]]
  <2>2. \A s \in SUBSET (1 .. k) : h[s] = g[s] /\ g[s] = After(g, s)
    <3>1. \A s \in SUBSET (1 .. k) : s \in SUBSET (1 .. k + 1) /\ k + 1 \notin s
      OBVIOUS
    <3> HIDE DEF After
    <3> QED
      BY <2>1, <3>1
  <2>3. \A s \in SUBSET (1 .. k + 1) : h[s] = IF k + 1 \in s THEN Go(g[s \ {k + 1}], k + 1) ELSE g[s]
    OBVIOUS
  <2>4. h = [s \in SUBSET (1 .. k + 1) |-> h[s]]
    OBVIOUS
  <2> HIDE DEF h
  <2>5. ASSUME NEW s \in SUBSET (1 .. k + 1) PROVE h[s] = After(h, s)
    <3>1. CASE k + 1 \in s
      <4>1. Max(s) = k + 1 /\ s \ {k + 1} \in SUBSET (1 .. k) /\ s # {}
        BY <3>1, Peeled
      <4> QED
        BY <2>2, <2>3, <3>1, <4>1
    <3>2. CASE k + 1 \notin s
      <4>1. s \in SUBSET (1 .. k) /\ (s # {} => s \ {Max(s)} \in SUBSET (1 .. k))
        BY <3>2, Peeled
      <4> QED
        BY <2>2, <4>1
    <3> QED
      BY <3>1, <3>2
  <2>6. h = [s \in SUBSET (1 .. k + 1) |-> After(h, s)]
    <3> HIDE DEF After
    <3> QED
      BY <2>4, <2>5
  <2>7. Solves(h, k + 1)
    BY <2>6
  <2> HIDE DEF Solves
  <2> QED
    BY <2>7
<1>4. n \in S
  <2> HIDE DEF S
  <2> QED
    BY <1>2, <1>3, SetInduction
<1>5. Solves(fold, n)
  <2>1. \E g : Solves(g, n)
    BY <1>4
  <2> HIDE DEF Solves
  <2> QED
    BY <2>1 DEF fold
<1>6. \A s \in SUBSET (1 .. n) : fold[s] = After(fold, s)
  <2> HIDE DEF After
  <2> QED
    BY <1>5
<1>7. fold[{}] = b
  BY <1>6
<1>8. ASSUME NEW k \in 0 .. n - 1
      PROVE  fold[1 .. k + 1] = Go(fold[1 .. k], k + 1)
  <2>1. k \in Nat /\ 1 .. k + 1 \in SUBSET (1 .. n)
    OBVIOUS
  <2>2. 1 .. k + 1 # {} /\ Max(1 .. k + 1) = k + 1 /\ (1 .. k + 1) \ {k + 1} = 1 .. k
    BY <2>1, Prefix
  <2>3. fold[1 .. k + 1] = After(fold, 1 .. k + 1)
    BY <1>6, <2>1
  <2> QED
    BY <2>2, <2>3
<1> QED
  BY <1>1, <1>7, <1>8 DEF Go, GridSolved

(* Samples that rise from one to the next rise altogether.                  *)
Ordered(z) == \A i, j \in 1 .. Len(z) : i < j => z[i] < z[j]
LEMMA Climbs ==
  ASSUME NEW z \in Seq(Int), Rising(z)
  PROVE  Ordered(z)
<1> DEFINE n == Len(z)
           S == {m \in Nat : \A i, j \in 1 .. n : i < j /\ j <= i + m => z[i] < z[j]}
<1>1. n \in Nat /\ (\A i \in 1 .. n : z[i] \in Int) /\ \A i \in 1 .. n - 1 : z[i] < z[i + 1]
  BY DEF Rising
<1>2. 0 \in S
  BY <1>1
<1>3. ASSUME NEW m \in Nat, m \in S PROVE m + 1 \in S
  <2> SUFFICES ASSUME NEW i \in 1 .. n, NEW j \in 1 .. n, i < j, j <= i + (m + 1) PROVE z[i] < z[j]
    BY <1>3
  <2>1. CASE j <= i + m
    BY <1>3, <2>1
  <2>2. CASE j > i + m
    <3>1. j - 1 \in 1 .. n - 1 /\ j - 1 \in 1 .. n /\ (j - 1) + 1 = j /\ j - 1 <= i + m /\ (i < j - 1 \/ i = j - 1)
      BY <1>1, <2>2
    <3> DEFINE h == j - 1
    <3>2. z[h] < z[j] /\ z[h] \in Int /\ z[j] \in Int /\ z[i] \in Int
      <4>1. z[h] < z[h + 1]
        BY <1>1, <3>1
      <4> QED
        BY <1>1, <3>1, <4>1
    <3>3. i < h => z[i] < z[h]
      BY <1>3, <3>1
    <3> HIDE DEF h
    <3>4. i < h \/ i = h
      BY <3>1 DEF h
    <3> QED
      BY <3>2, <3>3, <3>4
  <2> QED
    BY <2>1, <2>2, <1>1
<1>4. Nat \subseteq S
  <2> HIDE DEF S
  <2> QED
    BY <1>2, <1>3, SetInduction
<1>5. n \in S
  <2> HIDE DEF S
  <2> QED
    BY <1>1, <1>4
<1> QED
  BY <1>1, <1>5 DEF Ordered

(* The samples above a depth are the first ones.                            *)
LEMMA AbovePlace ==
  ASSUME NEW z \in Seq(Int), Ordered(z), NEW c \in Int
  PROVE  Above(z, c) \in 0 .. Len(z) /\ \A i \in 1 .. Len(z) : z[i] < c <=> i <= Above(z, c)
<1> DEFINE n == Len(z)
           Split(m, p) == \A i \in 1 .. m : z[i] < c <=> i <= p
           S == {m \in Nat : m <= n => \E p \in 0 .. m : Split(m, p)}
<1>1. n \in Nat /\ DOMAIN z = 1 .. n /\ (\A i \in 1 .. n : z[i] \in Int) /\ \A i, j \in 1 .. n : i < j => z[i] < z[j]
  BY DEF Ordered
<1>2. 0 \in S
  <2>1. Split(0, 0) /\ 0 \in 0 .. 0
    OBVIOUS
  <2> QED
    BY <2>1
<1>3. ASSUME NEW m \in Nat, m \in S PROVE m + 1 \in S
  <2> SUFFICES ASSUME m + 1 <= n PROVE \E p \in 0 .. m + 1 : Split(m + 1, p)
    OBVIOUS
  <2>1. PICK p \in 0 .. m : Split(m, p)
    BY <1>1, <1>3
  <2>2. CASE z[m + 1] < c
    <3>1. ASSUME NEW i \in 1 .. m + 1 PROVE z[i] < c
      <4>1. m + 1 \in 1 .. n /\ i \in 1 .. n /\ (i = m + 1 \/ i < m + 1)
        BY <1>1
      <4>2. z[i] \in Int /\ z[m + 1] \in Int
        BY <1>1, <4>1
      <4>3. i < m + 1 => z[i] < z[m + 1]
        BY <1>1, <4>1
      <4> QED
        BY <2>2, <4>1, <4>2, <4>3
    <3>2. Split(m + 1, m + 1) /\ m + 1 \in 0 .. m + 1
      BY <3>1
    <3> QED
      BY <3>2
  <2>3. CASE ~(z[m + 1] < c)
    <3>1. Split(m + 1, p) /\ p \in 0 .. m + 1
      BY <2>1, <2>3
    <3> QED
      BY <3>1
  <2> QED
    BY <2>2, <2>3
<1>4. n \in S
  <2> HIDE DEF S
  <2> QED
    BY <1>1, <1>2, <1>3, SetInduction
<1>5. PICK p \in 0 .. n : Split(n, p)
  BY <1>1, <1>4
<1>6. {i \in DOMAIN z : z[i] < c} = 1 .. p
  BY <1>1, <1>5
<1>7. Above(z, c) = p
  <2>1. Cardinality(1 .. p) = p
    <3>1. p \in Int /\ 1 \in Int /\ p >= 0
      BY <1>1
    <3>2. Cardinality(1 .. p) = IF 1 > p THEN 0 ELSE p - 1 + 1
      BY <3>1, FS_Interval
    <3> QED
      BY <3>1, <3>2
  <2> QED
    BY <1>6, <2>1 DEF Above
<1> QED
  BY <1>5, <1>7

(* The grid has the samples of the next profile, and rises.                 *)
LEMMA GridShape ==
  ASSUME NEW left, NEW right, left.modeDepths \in Seq(Int), right.modeDepths \in Seq(Int),
         right.modeDepths # <<>>, Ordered(right.modeDepths)
  PROVE  /\ Grid(left, right) \in Seq(Int) /\ Ordered(Grid(left, right))
         /\ Len(Grid(left, right)) >= Len(right.modeDepths)
         /\ \A i \in 1 .. Len(right.modeDepths) : Grid(left, right)[i] = right.modeDepths[i]
<1> DEFINE b == right.modeDepths
           l == left.modeDepths
           n == Len(l)
           Fine(z) == /\ z \in Seq(Int) /\ Ordered(z) /\ Len(z) >= Len(b)
                      /\ \A i \in 1 .. Len(b) : z[i] = b[i]
<1>1. n \in Nat /\ DOMAIN l = 1 .. n /\ (\A k \in 1 .. n : l[k] \in Int) /\ b \in Seq(Int) /\ b # <<>>
  OBVIOUS
<1>2. PICK g : GridSolved(g, n, b, l, FoldLeft(Deepened, b, l))
  BY <1>1, GridFolded
<1>3. Fine(b)
  OBVIOUS
<1>4. ASSUME NEW z, Fine(z), NEW depth \in Int PROVE Fine(Deepened(z, depth))
  <2>1. CASE depth > LastOf(z)
    <3> DEFINE t == Append(z, depth)
    <3>1. /\ t \in Seq(Int) /\ Len(t) = Len(z) + 1 /\ Len(z) \in Nat /\ t[Len(z) + 1] = depth
          /\ \A i \in 1 .. Len(z) : t[i] = z[i] /\ z[i] \in Int
      BY <1>4
    <3>2. Deepened(z, depth) = t
      BY <2>1 DEF Deepened
    <3>3. Len(b) \in Nat /\ Len(b) > 0 /\ Len(z) >= Len(b)
      BY <1>1, <1>4
    <3> HIDE DEF t
    <3>4. Ordered(t)
      <4> SUFFICES ASSUME NEW i \in 1 .. Len(t), NEW j \in 1 .. Len(t), i < j PROVE t[i] < t[j]
        BY DEF Ordered
      <4>1. i \in 1 .. Len(z) /\ (j \in 1 .. Len(z) \/ j = Len(z) + 1)
        <5> DEFINE e == Len(z)
        <5>1. e \in Nat /\ i \in 1 .. e + 1 /\ j \in 1 .. e + 1 /\ i < j
          BY <3>1
        <5> HIDE DEF e
        <5>2. i \in 1 .. e /\ (j \in 1 .. e \/ j = e + 1)
          BY <5>1
        <5> QED
          BY <5>2 DEF e
      <4>2. CASE j \in 1 .. Len(z)
        <5>1. z[i] < z[j]
          BY <1>4, <4>1, <4>2 DEF Ordered
        <5> QED
          BY <3>1, <4>1, <4>2, <5>1
      <4>3. CASE j = Len(z) + 1
        <5> DEFINE e == Len(z)
        <5>1. e \in 1 .. Len(z) /\ (i = e \/ i < e)
          <6>1. e = Len(z) /\ e \in Nat /\ e > 0 /\ i \in 1 .. e
            BY <3>1, <3>3, <4>1
          <6> HIDE DEF e
          <6> QED
            BY <6>1
        <5>2. z[e] < depth /\ z[e] \in Int
          BY <2>1, <3>1, <5>1 DEF LastOf
        <5>3. i < e => z[i] < z[e]
          BY <1>4, <4>1, <5>1 DEF Ordered
        <5>4. z[i] \in Int /\ t[i] = z[i] /\ t[j] = depth
          BY <3>1, <4>1, <4>3
        <5> HIDE DEF e
        <5> QED
          BY <5>1, <5>2, <5>3, <5>4
      <4> QED
        BY <4>1, <4>2, <4>3
    <3>5. ASSUME NEW i \in 1 .. Len(b) PROVE t[i] = b[i]
      <4>1. i \in 1 .. Len(z)
        <5> DEFINE e == Len(z)
                   m == Len(b)
        <5>1. e \in Nat /\ m \in Nat /\ e >= m /\ i \in 1 .. m
          BY <3>1, <3>3
        <5> HIDE DEF e, m
        <5>2. i \in 1 .. e
          BY <5>1
        <5> QED
          BY <5>2 DEF e
      <4>2. t[i] = z[i] /\ z[i] = b[i]
        BY <1>4, <3>1, <4>1
      <4> QED
        BY <4>2
    <3>6. Len(t) >= Len(b)
      <4>1. \A x, y \in Nat : x >= y => x + 1 >= y
        OBVIOUS
      <4> QED
        BY <3>1, <3>3, <4>1
    <3>7. t \in Seq(Int)
      BY <3>1
    <3> QED
      BY <3>2, <3>4, <3>5, <3>6, <3>7
  <2>2. CASE ~(depth > LastOf(z))
    <3>1. Deepened(z, depth) = z
      BY <2>2 DEF Deepened
    <3> QED
      BY <1>4, <3>1
  <2> QED
    BY <2>1, <2>2
<1>5. g[{}] = b /\ (\A k \in 0 .. n - 1 : g[1 .. k + 1] = Deepened(g[1 .. k], l[k + 1])) /\ Grid(left, right) = g[1 .. n]
  BY <1>2 DEF GridSolved, Grid
<1> DEFINE S == {k \in Nat : k <= n => Fine(g[1 .. k])}
<1> HIDE DEF Fine
<1>6. 0 \in S
  <2>1. 1 .. 0 = {}
    OBVIOUS
  <2> QED
    BY <1>3, <1>5, <2>1
<1>7. ASSUME NEW k \in Nat, k \in S PROVE k + 1 \in S
  <2> SUFFICES ASSUME k + 1 <= n PROVE Fine(g[1 .. k + 1])
    OBVIOUS
  <2>1. k \in 0 .. n - 1 /\ k + 1 \in 1 .. n /\ k <= n
    BY <1>1
  <2>2. g[1 .. k + 1] = Deepened(g[1 .. k], l[k + 1]) /\ l[k + 1] \in Int /\ Fine(g[1 .. k])
    BY <1>1, <1>5, <1>7, <2>1
  <2> QED
    BY <1>4, <2>2
<1>8. n \in S
  <2> HIDE DEF S
  <2> QED
    BY <1>1, <1>6, <1>7, SetInduction
<1>9. Fine(Grid(left, right))
  BY <1>1, <1>5, <1>8
<1> QED
  BY <1>9 DEF Fine

(* The medium of a sample, from that of the sample above.                   *)
Entered(d, depth, m) ==
  IF depth <= FluidBottom(d) /\ m < Len(d.fluids) /\ depth > Interface(d, m) THEN m + 1 ELSE m
LEMMA FollowedSteps ==
  ASSUME NEW d, NEW z, NEW n \in Nat, Len(z) = n
  PROVE  /\ Followed(d, z)[0] = 1
         /\ \A i \in 1 .. n : Followed(d, z)[i] = Entered(d, z[i], Followed(d, z)[i - 1])
<1> DEFINE After(g, i) == IF i = 0 THEN 1 ELSE Entered(d, z[i], g[i - 1])
           Solves(g, k) == g = [i \in 0 .. k |-> After(g, i)]
           S == {k \in Nat : \E g : Solves(g, k)}
           medium == CHOOSE g : Solves(g, n)
<1>1. Followed(d, z) = medium
  BY DEF Followed, Entered
<1> HIDE DEF medium
<1>2. 0 \in S
  <2> DEFINE g == [i \in 0 .. 0 |-> 1]
  <2>1. Solves(g, 0)
    OBVIOUS
  <2> QED
    BY <2>1
<1>3. ASSUME NEW k \in Nat, k \in S PROVE k + 1 \in S
  <2>1. PICK g : Solves(g, k)
    BY <1>3
  <2> DEFINE h == [i \in 0 .. k + 1 |-> IF i = k + 1 THEN Entered(d, z[i], g[k]) ELSE g[i]]
  <2>2. \A i \in 0 .. k : h[i] = g[i] /\ g[i] = After(g, i)
    <3> HIDE DEF After
    <3>1. \A i \in 0 .. k : g[i] = After(g, i)
      BY <2>1
    <3>2. \A i \in 0 .. k : i \in 0 .. k + 1 /\ i # k + 1
      OBVIOUS
    <3> QED
      BY <3>1, <3>2
  <2>3. h[k + 1] = Entered(d, z[k + 1], g[k]) /\ h = [i \in 0 .. k + 1 |-> h[i]]
    OBVIOUS
  <2> HIDE DEF h
  <2>4. ASSUME NEW i \in 0 .. k + 1 PROVE h[i] = After(h, i)
    <3>1. CASE i = k + 1
      <4>1. i # 0 /\ i - 1 = k /\ k \in 0 .. k
        BY <3>1
      <4>2. h[k] = g[k]
        BY <2>2, <4>1
      <4> QED
        BY <2>3, <3>1, <4>1, <4>2
    <3>2. CASE i # k + 1
      <4>1. i \in 0 .. k /\ (i # 0 => i - 1 \in 0 .. k)
        BY <3>2
      <4>2. h[i] = g[i] /\ g[i] = After(g, i) /\ (i # 0 => h[i - 1] = g[i - 1])
        BY <2>2, <4>1
      <4> QED
        BY <4>2
    <3> QED
      BY <3>1, <3>2
  <2>5. h = [i \in 0 .. k + 1 |-> After(h, i)]
    <3> HIDE DEF After
    <3> QED
      BY <2>3, <2>4
  <2>6. Solves(h, k + 1)
    BY <2>5
  <2> HIDE DEF Solves
  <2> QED
    BY <2>6
<1>4. Nat \subseteq S
  <2> HIDE DEF S
  <2> QED
    BY <1>2, <1>3, SetInduction
<1>5. Solves(medium, n)
  <2>1. \E g : Solves(g, n)
    BY <1>4
  <2> HIDE DEF Solves
  <2> QED
    BY <2>1 DEF medium
<1>6. \A i \in 0 .. n : medium[i] = After(medium, i)
  <2> HIDE DEF After
  <2> QED
    BY <1>5
<1> QED
  BY <1>1, <1>6

(* What is known of a profile that was accepted to be coupled: its media    *)
(* lie below one another, and its samples go from the first to the last.    *)
Couples(d) == CaseAllowed(d) /\ Coupleable(d)
LEMMA CoupledShape ==
  ASSUME NEW d, Couples(d)
  PROVE  /\ Len(d.fluids) \in Nat \ {0}
         /\ \A k \in 1 .. Len(d.fluids) : Interface(d, k) \in Int /\ Interface(d, k) > 0
         /\ \A j, k \in 1 .. Len(d.fluids) : j < k => Interface(d, j) < Interface(d, k)
         /\ FluidBottom(d) = Interface(d, Len(d.fluids)) /\ TopOf(d, 1) = 0
         /\ \A k \in 2 .. Len(d.fluids) : TopOf(d, k) = Interface(d, k - 1)
         /\ d.modeDepths \in Seq(Int) /\ Len(d.modeDepths) > 1 /\ Ordered(d.modeDepths)
         /\ d.modeDepths[1] = 0 /\ d.modeDepths[Len(d.modeDepths)] = FluidBottom(d)
<1>1. FluidsAllowed(d) /\ GridsAllowed(d)
  BY DEF Couples, CaseAllowed
<1>2. /\ d.tops = <<>> /\ d.bottoms = <<>>
      /\ d.modeDepths[1] = FluidTop(d) /\ LastOf(d.modeDepths) = FluidBottom(d)
  BY DEF Couples, Coupleable, HasSolids
<1> DEFINE n == Len(d.fluids)
           I == [i \in 1 .. n |-> d.fluids[i].bottom]
<1>3. /\ Finite(I) /\ d.fluids[1].bottom > 0
      /\ \A i \in 2 .. n : d.fluids[i].bottom > TopOf(d, i)
      /\ n \in 1 .. MaxLayers - Len(d.tops) - Len(d.bottoms)
  BY <1>1 DEF FluidsAllowed
<1>4. n \in Nat \ {0} /\ 1 \in 1 .. n /\ n \in 1 .. n
  <2>1. Len(d.tops) = 0 /\ Len(d.bottoms) = 0 /\ MaxLayers \in Nat
    BY <1>2, KrakenInputAssumption
  <2> HIDE DEF n
  <2> QED
    BY <1>3, <2>1
<1>5. FluidTop(d) = 0
  BY <1>2 DEF FluidTop
<1>6. TopOf(d, 1) = 0 /\ \A k \in 2 .. n : TopOf(d, k) = Interface(d, k - 1)
  BY <1>4, <1>5 DEF TopOf, Interface
<1>7. I \in Seq(Int)
  BY <1>3 DEF Finite
<1>8. \A k \in 1 .. n : Interface(d, k) = I[k]
  BY DEF Interface
<1>9. DOMAIN I = 1 .. n
  OBVIOUS
<1> HIDE DEF I
<1>10. Len(I) = n
  <2> HIDE DEF n
  <2> QED
    BY <1>4, <1>7, <1>9
<1>11. Rising(I)
  <2> SUFFICES ASSUME NEW i \in 1 .. n - 1 PROVE I[i] < I[i + 1]
    BY <1>10 DEF Rising
  <2>1. i + 1 \in 2 .. n /\ i \in 1 .. n /\ i + 1 \in 1 .. n /\ (i + 1) - 1 = i
    BY <1>4
  <2>2. Interface(d, i + 1) > TopOf(d, i + 1)
    BY <1>3, <2>1 DEF Interface
  <2>3. TopOf(d, i + 1) = Interface(d, i)
    BY <1>6, <2>1
  <2>4. I[i] \in Int /\ I[i + 1] \in Int
    BY <1>7, <1>10, <2>1
  <2> QED
    BY <1>8, <2>1, <2>2, <2>3, <2>4
<1>12. Ordered(I)
  BY <1>7, <1>11, Climbs
<1>13. ASSUME NEW k \in 1 .. n PROVE Interface(d, k) \in Int /\ Interface(d, k) > 0
  <2>1. I[k] \in Int /\ I[1] \in Int /\ I[1] > 0
    BY <1>3, <1>4, <1>7, <1>8, <1>10 DEF Interface
  <2>2. 1 < k => I[1] < I[k]
    BY <1>4, <1>10, <1>12 DEF Ordered
  <2>3. k = 1 \/ 1 < k
    BY <1>4
  <2> QED
    BY <1>8, <2>1, <2>2, <2>3
<1>14. \A j, k \in 1 .. n : j < k => Interface(d, j) < Interface(d, k)
  BY <1>8, <1>10, <1>12 DEF Ordered
<1>15. FluidBottom(d) = Interface(d, n)
  BY DEF FluidBottom, LastOf, Interface
<1>16. d.modeDepths \in Seq(Int) /\ Rising(d.modeDepths) /\ Filled(d.modeDepths)
  BY <1>1 DEF GridsAllowed, Finite
<1>17. Ordered(d.modeDepths)
  BY <1>16, Climbs
<1>18. d.modeDepths[1] = 0 /\ d.modeDepths[Len(d.modeDepths)] = FluidBottom(d)
  BY <1>2, <1>5 DEF LastOf
<1>19. Len(d.modeDepths) > 1
  <2>1. Len(d.modeDepths) \in Nat /\ Len(d.modeDepths) >= 1
    BY <1>16, KrakenInputAssumption DEF Filled
  <2>2. FluidBottom(d) > 0
    BY <1>4, <1>13, <1>15
  <2>3. Len(d.modeDepths) # 1
    BY <1>18, <2>2
  <2> DEFINE m == Len(d.modeDepths)
  <2>4. m \in Nat /\ m >= 1 /\ m # 1
    BY <2>1, <2>3
  <2> HIDE DEF m
  <2>5. m > 1
    BY <2>4
  <2> QED
    BY <2>5 DEF m
<1> QED
  BY <1>4, <1>6, <1>13, <1>14, <1>15, <1>16, <1>17, <1>18, <1>19

(* No two interfaces between fluids lie between a sample and the next, and  *)
(* the second sample is not below the first medium.                         *)
LEMMA Stencils ==
  ASSUME NEW d, Couples(d)
  PROVE  /\ \A k \in 1 .. Len(d.fluids) - 2 : \A i \in 1 .. Len(d.modeDepths) - 1 :
              ~(d.modeDepths[i] <= Interface(d, k) /\ Interface(d, k + 1) < d.modeDepths[i + 1])
         /\ d.modeDepths[2] <= Interface(d, 1)
<1> DEFINE z == d.modeDepths
           q == Len(z)
           n == Len(d.fluids)
           upper(k) == Above(z, Interface(d, k))
           onGrid(k) == Interface(d, k) \in Range(z)
<1>1. /\ n \in Nat \ {0} /\ z \in Seq(Int) /\ q \in Nat /\ q > 1 /\ Ordered(z)
      /\ \A k \in 1 .. n : Interface(d, k) \in Int
      /\ \A j, k \in 1 .. n : j < k => Interface(d, j) < Interface(d, k)
      /\ FluidBottom(d) = Interface(d, n) /\ z[q] = FluidBottom(d)
  BY CoupledShape
<1>2. DOMAIN z = 1 .. q /\ (\A i \in 1 .. q : z[i] \in Int) /\ \A i, j \in 1 .. q : i < j => z[i] < z[j]
  BY <1>1 DEF Ordered
<1>3. StencilsResolved(d)
  BY DEF Couples, Coupleable
<1>4. /\ \A k \in 1 .. n - 1 : upper(k) \notin {0, q} /\ (~onGrid(k) => upper(k) \notin {1, q - 1})
      /\ \A j, k \in 1 .. n - 1 : k = j + 1 => upper(j) # upper(k) /\ (~onGrid(k) => upper(j) + 1 # upper(k))
  BY <1>3 DEF StencilsResolved, Interface
<1>5. \A k \in 1 .. n : upper(k) \in 0 .. q /\ \A i \in 1 .. q : z[i] < Interface(d, k) <=> i <= upper(k)
  BY <1>1, AbovePlace
<1>6. \A k : onGrid(k) => \E j \in 1 .. q : z[j] = Interface(d, k)
  BY <1>2 DEF Range
<1>7. ASSUME NEW i \in 1 .. q, NEW j \in 1 .. q PROVE z[i] < z[j] => i < j
  BY <1>2
<1> HIDE DEF z, q, n, upper, onGrid
<1>8. ASSUME NEW k \in 1 .. n - 2, NEW i \in 1 .. q - 1, z[i] <= Interface(d, k), Interface(d, k + 1) < z[i + 1]
      PROVE  FALSE
  <2>1. /\ k \in 1 .. n /\ k + 1 \in 1 .. n /\ k \in 1 .. n - 1 /\ k + 1 \in 1 .. n - 1 /\ k < k + 1
        /\ i \in 1 .. q /\ i + 1 \in 1 .. q
    BY <1>1
  <2>2. /\ Interface(d, k) \in Int /\ Interface(d, k + 1) \in Int /\ Interface(d, k) < Interface(d, k + 1)
        /\ z[i] \in Int /\ z[i + 1] \in Int
    BY <1>1, <1>2, <2>1
  <2>3. z[i] < Interface(d, k + 1) /\ ~(z[i + 1] < Interface(d, k + 1)) /\ ~(z[i + 1] < Interface(d, k))
    BY <1>8, <2>2
  <2>4. upper(k + 1) = i
    <3>1. upper(k + 1) \in 0 .. q /\ i <= upper(k + 1) /\ ~(i + 1 <= upper(k + 1))
      BY <1>5, <2>1, <2>3
    <3> QED
      BY <3>1
  <2>5. ~onGrid(k + 1)
    <3> SUFFICES ASSUME onGrid(k + 1) PROVE FALSE
      OBVIOUS
    <3>1. PICK j \in 1 .. q : z[j] = Interface(d, k + 1)
      BY <1>6
    <3>2. i < j /\ j < i + 1
      BY <1>7, <1>8, <2>1, <2>3, <3>1
    <3> QED
      BY <3>2
  <2>6. upper(k) \in 0 .. q /\ upper(k) # 0 /\ ~(i + 1 <= upper(k))
    BY <1>4, <1>5, <2>1, <2>3
  <2>7. i > 1 => i - 1 <= upper(k)
    <3> SUFFICES ASSUME i > 1 PROVE i - 1 <= upper(k)
      OBVIOUS
    <3>1. i - 1 \in 1 .. q /\ i - 1 < i
      BY <1>1, <2>1
    <3>2. z[i - 1] \in Int /\ z[i - 1] < z[i]
      BY <1>2, <2>1, <3>1
    <3>3. z[i - 1] < Interface(d, k)
      BY <1>8, <2>2, <3>2
    <3> QED
      BY <1>5, <2>1, <3>1, <3>3
  <2>8. upper(k) # upper(k + 1) /\ upper(k) + 1 # upper(k + 1)
    BY <1>4, <2>1, <2>5
  <2> QED
    BY <2>1, <2>4, <2>6, <2>7, <2>8
<1>9. z[2] <= Interface(d, 1)
  <2>1. 1 \in 1 .. n /\ 1 \in 1 .. q /\ 2 \in 1 .. q /\ q \in 1 .. q /\ (n = 1 \/ 1 \in 1 .. n - 1)
    BY <1>1
  <2>2. z[2] \in Int /\ Interface(d, 1) \in Int
    BY <1>1, <1>2, <2>1
  <2>3. CASE n = 1
    <3>1. z[q] = Interface(d, 1) /\ z[q] \in Int
      BY <1>1, <1>2, <2>1, <2>3
    <3>2. q = 2 \/ 2 < q
      BY <1>1
    <3>3. 2 < q => z[2] < z[q]
      BY <1>2, <2>1
    <3> QED
      BY <2>2, <3>1, <3>2, <3>3
  <2>4. CASE 1 \in 1 .. n - 1
    <3> SUFFICES ASSUME ~(z[2] <= Interface(d, 1)) PROVE FALSE
      OBVIOUS
    <3>1. upper(1) \in 0 .. q /\ ~(2 <= upper(1)) /\ upper(1) # 0
      BY <1>4, <1>5, <2>1, <2>2, <2>4
    <3>2. upper(1) = 1
      BY <3>1
    <3>3. onGrid(1)
      BY <1>4, <2>4, <3>2
    <3>4. PICK j \in 1 .. q : z[j] = Interface(d, 1)
      BY <1>6, <3>3
    <3>5. j < 2
      BY <1>7, <2>1, <2>2, <3>4
    <3>6. z[1] < Interface(d, 1) /\ j = 1
      BY <1>5, <2>1, <3>2, <3>5
    <3> QED
      BY <2>2, <3>4, <3>6
  <2> QED
    BY <2>1, <2>3, <2>4
<1> QED
  BY <1>8, <1>9 DEF z, q, n

(* The medium of a sample of the grid is the one that the sample lies in,   *)
(* above its own interface and below the last one's.                        *)
LEMMA FollowedMedium ==
  ASSUME NEW left, left.modeDepths \in Seq(Int), NEW d, Couples(d),
         NEW z, z = Grid(left, d), NEW m, m = Followed(d, z)
  PROVE  /\ \A i \in 1 .. Len(z) : m[i] = Entered(d, z[i], m[i - 1])
         /\ \A i \in 1 .. Len(d.modeDepths) :
              /\ m[i] \in 1 .. Len(d.fluids) /\ z[i] <= Interface(d, m[i])
              /\ m[i] > 1 => Interface(d, m[i] - 1) < z[i]
         /\ m[1] = 1
         /\ \A i \in Len(d.modeDepths) .. Len(z) : m[i] = Len(d.fluids)
<1> DEFINE q == Len(d.modeDepths)
           n == Len(d.fluids)
           B == FluidBottom(d)
           Lies(i) == /\ m[i] \in 1 .. n /\ z[i] <= Interface(d, m[i])
                      /\ m[i] > 1 => Interface(d, m[i] - 1) < z[i]
           S == {i \in Nat : i \in 1 .. q => Lies(i)}
           T == {i \in Nat : q + i \in 1 .. Len(z) => m[q + i] = n}
<1>1. /\ n \in Nat \ {0} /\ q > 1 /\ B = Interface(d, n)
      /\ \A k \in 1 .. n : Interface(d, k) \in Int /\ Interface(d, k) > 0
      /\ \A j, k \in 1 .. n : j < k => Interface(d, j) < Interface(d, k)
      /\ d.modeDepths \in Seq(Int) /\ Ordered(d.modeDepths)
      /\ d.modeDepths[1] = 0 /\ d.modeDepths[q] = B
  BY CoupledShape
<1>2. /\ z \in Seq(Int) /\ Ordered(z) /\ Len(z) >= q
      /\ \A i \in 1 .. q : z[i] = d.modeDepths[i]
  <2>1. d.modeDepths # <<>>
    BY <1>1
  <2> QED
    BY <1>1, <2>1, GridShape
<1>3. /\ q \in Nat /\ Len(z) \in Nat /\ 1 \in 1 .. q /\ q \in 1 .. q /\ z[1] = 0 /\ z[q] = B
      /\ \A i \in 1 .. Len(z) : z[i] \in Int
  <2>1. q \in Nat /\ Len(z) \in Nat /\ \A i \in 1 .. Len(z) : z[i] \in Int
    BY <1>1, <1>2
  <2> HIDE DEF q
  <2>2. 1 \in 1 .. q /\ q \in 1 .. q
    BY <1>1, <2>1
  <2> QED
    BY <1>1, <1>2, <2>1, <2>2
<1>4. \A i, j \in 1 .. Len(z) : i < j => z[i] < z[j]
  BY <1>2 DEF Ordered
<1>5. m[0] = 1 /\ \A i \in 1 .. Len(z) : m[i] = Entered(d, z[i], m[i - 1])
  BY <1>3, FollowedSteps
<1>6. \A k \in 1 .. n - 2 : \A i \in 1 .. q - 1 :
        ~(d.modeDepths[i] <= Interface(d, k) /\ Interface(d, k + 1) < d.modeDepths[i + 1])
  BY Stencils
<1> HIDE DEF q, n, B
<1>7. \A i \in 1 .. q : i \in 1 .. Len(z) /\ z[i] <= B
  <2> TAKE i \in 1 .. q
  <2>1. i \in 1 .. Len(z) /\ q \in 1 .. Len(z) /\ (i = q \/ i < q)
    BY <1>2, <1>3
  <2>2. z[i] \in Int /\ z[q] \in Int /\ (i < q => z[i] < z[q])
    BY <1>3, <1>4, <2>1
  <2> QED
    BY <1>3, <2>1, <2>2
<1>8. m[1] = 1
  <2>1. 1 \in 1 .. Len(z) /\ 1 - 1 = 0 /\ 1 \in 1 .. n
    BY <1>1, <1>3, <1>7
  <2>2. m[1] = Entered(d, z[1], m[0])
    BY <1>5, <2>1
  <2>3. ~(z[1] > Interface(d, 1))
    <3>1. Interface(d, 1) \in Int /\ Interface(d, 1) > 0
      BY <1>1, <2>1
    <3> QED
      BY <1>3, <3>1
  <2> QED
    BY <1>5, <2>2, <2>3 DEF Entered
<1>9. Lies(1)
  <2>1. 1 \in 1 .. n
    BY <1>1
  <2>2. Interface(d, 1) \in Int /\ Interface(d, 1) > 0
    BY <1>1, <2>1
  <2> QED
    BY <1>3, <1>8, <2>1, <2>2
<1>10. ASSUME NEW i \in 1 .. q - 1, Lies(i) PROVE Lies(i + 1)
  <2> DEFINE k == m[i]
             a == z[i]
             b == z[i + 1]
  <2>1. /\ i \in 1 .. q /\ i + 1 \in 1 .. q /\ i + 1 \in 1 .. Len(z) /\ i \in 1 .. Len(z) /\ (i + 1) - 1 = i
    <3>1. i \in 1 .. q /\ i + 1 \in 1 .. q /\ (i + 1) - 1 = i
      BY <1>3
    <3> QED
      BY <1>7, <3>1
  <2>2. /\ k \in 1 .. n /\ a <= Interface(d, k) /\ (k > 1 => Interface(d, k - 1) < a)
        /\ Interface(d, k) \in Int /\ a \in Int /\ b \in Int /\ a < b /\ b <= B
    <3>1. k \in 1 .. n /\ a <= Interface(d, k) /\ (k > 1 => Interface(d, k - 1) < a)
      BY <1>10
    <3>2. i < i + 1
      BY <2>1
    <3>3. a \in Int /\ b \in Int /\ a < b /\ b <= B
      BY <1>3, <1>4, <1>7, <2>1, <3>2
    <3> QED
      BY <1>1, <3>1, <3>3
  <2>3. m[i + 1] = Entered(d, b, k)
    BY <1>5, <2>1
  <2>4. a = d.modeDepths[i] /\ b = d.modeDepths[i + 1]
    BY <1>2, <2>1
  <2> HIDE DEF k, a, b
  <2>5. k > 1 => k - 1 \in 1 .. n
    BY <1>1, <2>2
  <2>6. k > 1 => Interface(d, k - 1) \in Int
    BY <1>1, <2>5
  <2>7. CASE k < n /\ b > Interface(d, k)
    <3>1. m[i + 1] = k + 1
      BY <2>2, <2>3, <2>7 DEF Entered, n, B
    <3>2. k + 1 \in 1 .. n /\ (k + 1) - 1 = k /\ (k + 1 = n \/ k \in 1 .. n - 2)
      BY <1>1, <2>2, <2>7
    <3>3. Interface(d, k + 1) \in Int
      BY <1>1, <3>2
    <3>4. k + 1 = n => b <= Interface(d, k + 1)
      BY <1>1, <2>2
    <3>5. k \in 1 .. n - 2 => ~(Interface(d, k + 1) < b)
      BY <1>6, <2>2, <2>4
    <3>6. b <= Interface(d, k + 1)
      BY <2>2, <3>2, <3>3, <3>4, <3>5
    <3> QED
      BY <2>7, <3>1, <3>2, <3>6 DEF b
  <2>8. CASE ~(k < n /\ b > Interface(d, k))
    <3>1. m[i + 1] = k
      BY <2>2, <2>3, <2>8 DEF Entered, n, B
    <3>2. b <= Interface(d, k)
      <4>1. k < n => b <= Interface(d, k)
        BY <2>2, <2>8
      <4>2. ~(k < n) => k = n
        BY <1>1, <2>2
      <4> QED
        BY <1>1, <2>2, <4>1, <4>2
    <3>3. k > 1 => Interface(d, k - 1) < b
      BY <2>2, <2>6
    <3> QED
      BY <2>2, <3>1, <3>2, <3>3 DEF b
  <2> QED
    BY <2>7, <2>8
<1>11. \A i \in 1 .. q : Lies(i)
  <2>1. 0 \in S
    OBVIOUS
  <2>2. ASSUME NEW i \in Nat, i \in S PROVE i + 1 \in S
    <3> HIDE DEF Lies
    <3> SUFFICES ASSUME i + 1 \in 1 .. q PROVE Lies(i + 1)
      OBVIOUS
    <3>1. i = 0 \/ i \in 1 .. q - 1
      BY <1>3
    <3>2. i = 0 => i + 1 = 1
      OBVIOUS
    <3>3. i \in 1 .. q - 1 => i \in 1 .. q
      BY <1>3
    <3> QED
      BY <1>9, <1>10, <2>2, <3>1, <3>2, <3>3
  <2>3. Nat \subseteq S
    <3> HIDE DEF S
    <3> QED
      BY <2>1, <2>2, SetInduction
  <2> HIDE DEF Lies
  <2> QED
    BY <2>3
<1>12. m[q] = n
  <2> DEFINE k == m[q]
  <2>1. k \in 1 .. n /\ z[q] <= Interface(d, k)
    BY <1>3, <1>11
  <2> HIDE DEF k
  <2>2. k < n => Interface(d, k) < Interface(d, n)
    BY <1>1, <2>1
  <2>3. Interface(d, k) \in Int /\ Interface(d, n) \in Int /\ z[q] = Interface(d, n)
    BY <1>1, <1>3, <2>1
  <2>4. ~(k < n)
    BY <2>1, <2>2, <2>3
  <2>5. k = n
    BY <1>1, <2>1, <2>4
  <2> QED
    BY <2>5 DEF k
<1>13. ASSUME NEW i \in Nat, i \in T PROVE i + 1 \in T
  <2> SUFFICES ASSUME q + (i + 1) \in 1 .. Len(z) PROVE m[q + (i + 1)] = n
    OBVIOUS
  <2> DEFINE j == q + (i + 1)
  <2>1. j \in 1 .. Len(z) /\ q + i \in 1 .. Len(z) /\ j - 1 = q + i
    <3> DEFINE e == Len(z)
    <3>1. e \in Nat /\ q \in Nat /\ q > 1 /\ j \in 1 .. e
      BY <1>1, <1>3
    <3> HIDE DEF e
    <3>2. j \in 1 .. e /\ q + i \in 1 .. e /\ j - 1 = q + i
      BY <3>1
    <3> QED
      BY <3>2 DEF e
  <2>2. m[q + i] = n
    BY <1>13, <2>1
  <2>3. m[j] = Entered(d, z[j], m[q + i])
    BY <1>5, <2>1
  <2>4. ~(n < n)
    BY <1>1
  <2> QED
    BY <2>2, <2>3, <2>4 DEF Entered, n
<1>14. ASSUME NEW i \in q .. Len(z) PROVE m[i] = n
  <2>1. 0 \in T
    <3>1. q + 0 = q
      BY <1>3
    <3> QED
      BY <1>12, <3>1
  <2>2. Nat \subseteq T
    <3> HIDE DEF T
    <3> QED
      BY <1>13, <2>1, SetInduction
  <2>3. i - q \in Nat /\ q + (i - q) = i /\ i \in 1 .. Len(z)
    BY <1>1, <1>3
  <2>4. i - q \in T
    <3> HIDE DEF T
    <3> QED
      BY <2>2, <2>3
  <2> QED
    BY <2>3, <2>4
<1> QED
  BY <1>5, <1>8, <1>11, <1>14 DEF n, q

(* The integral between two depths that lie in one medium, or on both sides *)
(* of the interface of two, or below all of them.                           *)
LEMMA IntegralIn ==
  ASSUME NEW d, Couples(d), NEW from \in Int, NEW to \in Int, 0 <= from, from <= to
  PROVE  /\ \A k \in 1 .. Len(d.fluids) :
              (k > 1 => Interface(d, k - 1) <= from) /\ to <= Interface(d, k) =>
                Integral(d, from, to) = [j \in 1 .. Below(d) |-> IF j = k THEN to - from ELSE 0]
         /\ \A k \in 1 .. Len(d.fluids) :
              (k > 1 => Interface(d, k - 1) <= from) /\ from <= Interface(d, k) /\ Interface(d, k) <= to
              /\ (k < Len(d.fluids) => to <= Interface(d, k + 1)) =>
                Integral(d, from, to) = [j \in 1 .. Below(d) |->
                  IF j = k THEN Interface(d, k) - from ELSE IF j = k + 1 THEN to - Interface(d, k) ELSE 0]
         /\ FluidBottom(d) <= from =>
              Integral(d, from, to) = [j \in 1 .. Below(d) |-> IF j = Below(d) THEN to - from ELSE 0]
<1> DEFINE n == Len(d.fluids)
           B == FluidBottom(d)
           I(k) == Interface(d, k)
           Top(k) == TopOf(d, k)
           Part(j) == IF j = n + 1 THEN Overlap(from, to, B, to) ELSE Overlap(from, to, Top(j), I(j))
<1>1. /\ n \in Nat \ {0} /\ B = I(n) /\ Top(1) = 0
      /\ \A k \in 1 .. n : I(k) \in Int /\ I(k) > 0
      /\ \A j, k \in 1 .. n : j < k => I(j) < I(k)
      /\ \A k \in 2 .. n : Top(k) = I(k - 1)
  BY CoupledShape
<1>2. Below(d) = n + 1
  BY DEF Below
<1>3. Integral(d, from, to) = [j \in 1 .. n + 1 |-> Part(j)]
  BY <1>2 DEF Integral
<1> HIDE DEF n, B, I, Top, Part
<1>4. ASSUME NEW j \in 1 .. n
      PROVE  /\ Part(j) = Overlap(from, to, Top(j), I(j)) /\ I(j) \in Int /\ Top(j) \in Int /\ Top(j) <= I(j)
             /\ (j = 1 /\ Top(j) = 0) \/ (j > 1 /\ j - 1 \in 1 .. n /\ Top(j) = I(j - 1))
  <2>1. j # n + 1 /\ (j = 1 \/ (j > 1 /\ j \in 2 .. n /\ j - 1 \in 1 .. n /\ j - 1 < j))
    BY <1>1
  <2>2. I(j) \in Int /\ I(j) > 0
    BY <1>1
  <2>3. Part(j) = Overlap(from, to, Top(j), I(j))
    BY <2>1 DEF Part
  <2>4. CASE j = 1
    BY <1>1, <2>2, <2>3, <2>4
  <2>5. CASE j > 1
    <3>1. Top(j) = I(j - 1) /\ I(j - 1) \in Int /\ I(j - 1) < I(j) /\ j - 1 \in 1 .. n
      BY <1>1, <2>1, <2>5
    <3> QED
      BY <2>2, <2>3, <2>5, <3>1
  <2> QED
    BY <2>1, <2>4, <2>5
<1>5. \A j, k \in 1 .. n : j <= k => I(j) <= I(k) /\ Top(j) <= Top(k)
  <2>1. \A j, k \in 1 .. n : j <= k => I(j) <= I(k)
    <3> TAKE j \in 1 .. n, k \in 1 .. n
    <3>1. j < k \/ j = k \/ ~(j <= k)
      BY <1>1
    <3>2. I(j) \in Int /\ I(k) \in Int /\ (j < k => I(j) < I(k))
      BY <1>1
    <3> QED
      BY <3>1, <3>2
  <2> SUFFICES ASSUME NEW j \in 1 .. n, NEW k \in 1 .. n, j <= k PROVE Top(j) <= Top(k)
    BY <2>1
  <2>2. CASE j = 1
    <3>1. (k = 1 /\ Top(k) = 0) \/ (k > 1 /\ k - 1 \in 1 .. n /\ Top(k) = I(k - 1))
      BY <1>4
    <3>2. k - 1 \in 1 .. n => I(k - 1) \in Int /\ I(k - 1) > 0
      BY <1>1
    <3> QED
      BY <1>1, <2>2, <3>1, <3>2
  <2>3. CASE j > 1
    <3>1. j - 1 \in 1 .. n /\ k - 1 \in 1 .. n /\ j - 1 <= k - 1 /\ j \in 2 .. n /\ k \in 2 .. n
      BY <1>1, <2>3
    <3> QED
      BY <1>1, <2>1, <3>1
  <2> QED
    BY <1>1, <2>2, <2>3
<1>6. Part(n + 1) = Overlap(from, to, B, to) /\ B \in Int
  <2>1. n \in 1 .. n
    BY <1>1
  <2> QED
    BY <1>1, <2>1 DEF Part
<1>7. to <= B => Part(n + 1) = 0
  <2> SUFFICES ASSUME to <= B PROVE Overlap(from, to, B, to) = 0
    BY <1>6
  <2> QED
    BY <1>6 DEF Overlap, Least
<1>8. B <= to => Part(n + 1) = IF from > B THEN to - from ELSE to - B
  BY <1>6 DEF Overlap, Least
<1>9. ASSUME NEW j \in 1 .. n
      PROVE  /\ I(j) <= from \/ to <= Top(j) => Part(j) = 0
             /\ Top(j) <= from /\ to <= I(j) => Part(j) = to - from
             /\ Top(j) <= from /\ from <= I(j) /\ I(j) <= to => Part(j) = I(j) - from
             /\ from <= Top(j) /\ Top(j) <= to /\ to <= I(j) => Part(j) = to - Top(j)
  <2> DEFINE top == Top(j)
             bottom == I(j)
  <2>1. Part(j) = Overlap(from, to, top, bottom) /\ bottom \in Int /\ top \in Int /\ top <= bottom
    BY <1>4
  <2> HIDE DEF top, bottom
  <2>2. /\ bottom <= from \/ to <= top => Part(j) = 0
        /\ top <= from /\ to <= bottom => Part(j) = to - from
        /\ top <= from /\ from <= bottom /\ bottom <= to => Part(j) = bottom - from
        /\ from <= top /\ top <= to /\ to <= bottom => Part(j) = to - top
    BY <2>1 DEF Overlap, Least
  <2> QED
    BY <2>2 DEF top, bottom
<1>10. ASSUME NEW k \in 1 .. n, k > 1 => I(k - 1) <= from
       PROVE  Top(k) <= from /\ \A j \in 1 .. n : j < k => Part(j) = 0
  <2>1. Top(k) <= from
    BY <1>4, <1>10
  <2>2. ASSUME NEW j \in 1 .. n, j < k PROVE Part(j) = 0
    <3>1. k > 1 /\ k - 1 \in 1 .. n /\ j <= k - 1
      BY <1>1, <2>2
    <3>2. I(j) <= I(k - 1) /\ I(j) \in Int /\ I(k - 1) \in Int
      BY <1>1, <1>5, <3>1
    <3> QED
      BY <1>9, <1>10, <3>1, <3>2
  <2> QED
    BY <2>1, <2>2
<1>11. ASSUME NEW k \in 1 .. n, to <= I(k)
       PROVE  \A j \in 1 .. n + 1 : j > k => Part(j) = 0
  <2> TAKE j \in 1 .. n + 1
  <2> SUFFICES ASSUME j > k PROVE Part(j) = 0
    OBVIOUS
  <2>1. CASE j = n + 1
    <3>1. n \in 1 .. n /\ k <= n
      BY <1>1
    <3>2. I(k) <= B /\ I(k) \in Int /\ B \in Int
      BY <1>1, <1>5, <3>1
    <3> QED
      BY <1>7, <1>11, <2>1, <3>2
  <2>2. CASE j # n + 1
    <3>1. j \in 1 .. n /\ j > 1 /\ k <= j - 1 /\ j - 1 \in 1 .. n
      BY <1>1, <2>2
    <3>2. Top(j) = I(j - 1) /\ I(k) <= I(j - 1) /\ I(k) \in Int /\ I(j - 1) \in Int
      BY <1>1, <1>4, <1>5, <3>1
    <3>3. to <= Top(j)
      BY <1>11, <3>2
    <3> QED
      BY <1>9, <3>1, <3>3
  <2> QED
    BY <2>1, <2>2
<1>12. ASSUME NEW k \in 1 .. n, k > 1 => I(k - 1) <= from, to <= I(k)
       PROVE  Integral(d, from, to) = [j \in 1 .. Below(d) |-> IF j = k THEN to - from ELSE 0]
  <2>1. ASSUME NEW j \in 1 .. n + 1 PROVE Part(j) = IF j = k THEN to - from ELSE 0
    <3>1. j = k \/ (j \in 1 .. n /\ j < k) \/ j > k
      BY <1>1
    <3>2. j = k => Part(j) = to - from
      BY <1>9, <1>10, <1>12
    <3>3. j \in 1 .. n /\ j < k => Part(j) = 0
      BY <1>10, <1>12
    <3>4. j > k => Part(j) = 0
      BY <1>11, <1>12
    <3>5. (j < k => j # k) /\ (j > k => j # k)
      BY <1>1
    <3> QED
      BY <3>1, <3>2, <3>3, <3>4, <3>5
  <2> QED
    BY <1>2, <1>3, <2>1
<1>13. ASSUME NEW k \in 1 .. n, k > 1 => I(k - 1) <= from, from <= I(k), I(k) <= to, k < n => to <= I(k + 1)
       PROVE  Integral(d, from, to) = [j \in 1 .. Below(d) |->
                IF j = k THEN I(k) - from ELSE IF j = k + 1 THEN to - I(k) ELSE 0]
  <2>1. ASSUME NEW j \in 1 .. n + 1
        PROVE  Part(j) = IF j = k THEN I(k) - from ELSE IF j = k + 1 THEN to - I(k) ELSE 0
    <3>1. j = k \/ (j \in 1 .. n /\ j < k) \/ j = k + 1 \/ j > k + 1
      BY <1>1
    <3>2. j = k => Part(j) = I(k) - from
      BY <1>9, <1>10, <1>13
    <3>3. j \in 1 .. n /\ j < k => Part(j) = 0
      BY <1>10, <1>13
    <3>4. j = k + 1 => Part(j) = to - I(k)
      <4> SUFFICES ASSUME j = k + 1 PROVE Part(j) = to - I(k)
        OBVIOUS
      <4>1. I(k) \in Int
        BY <1>1
      <4>2. CASE k = n
        <5>1. j = n + 1 /\ B = I(k)
          BY <1>1, <4>2
        <5>2. B <= to /\ ~(from > B \/ from > B)
          BY <1>13, <4>1, <5>1
        <5> QED
          BY <1>8, <5>1, <5>2
      <4>3. CASE k # n
        <5>1. j \in 1 .. n /\ j > 1 /\ j - 1 = k /\ k < n
          BY <1>1, <4>3
        <5>2. Top(j) = I(k) /\ to <= I(j)
          BY <1>4, <1>13, <5>1
        <5> QED
          BY <1>9, <1>13, <5>1, <5>2
      <4> QED
        BY <4>2, <4>3
    <3>5. j > k + 1 => Part(j) = 0
      <4> SUFFICES ASSUME j > k + 1 PROVE Part(j) = 0
        OBVIOUS
      <4>1. k < n /\ k + 1 \in 1 .. n
        BY <1>1
      <4> QED
        BY <1>11, <1>13, <4>1
    <3>6. /\ (j < k => j # k /\ j # k + 1) /\ (j > k + 1 => j # k /\ j # k + 1) /\ (j = k + 1 => j # k)
      BY <1>1
    <3> QED
      BY <3>1, <3>2, <3>3, <3>4, <3>5, <3>6
  <2> QED
    BY <1>2, <1>3, <2>1
<1>14. ASSUME B <= from
       PROVE  Integral(d, from, to) = [j \in 1 .. Below(d) |-> IF j = Below(d) THEN to - from ELSE 0]
  <2>1. ASSUME NEW j \in 1 .. n + 1 PROVE Part(j) = IF j = n + 1 THEN to - from ELSE 0
    <3>1. j = n + 1 => Part(j) = to - from
      <4>1. B <= to /\ (~(from > B) => from = B)
        BY <1>6, <1>14
      <4> QED
        BY <1>8, <4>1
    <3>2. j # n + 1 => Part(j) = 0
      <4> SUFFICES ASSUME j # n + 1 PROVE Part(j) = 0
        OBVIOUS
      <4>1. j \in 1 .. n /\ n \in 1 .. n /\ j <= n
        BY <1>1
      <4>2. I(j) <= B /\ I(j) \in Int /\ B \in Int
        BY <1>1, <1>5, <4>1
      <4> QED
        BY <1>9, <1>14, <4>1, <4>2
    <3> QED
      BY <3>1, <3>2
  <2> QED
    BY <1>2, <1>3, <2>1
<1> QED
  BY <1>12, <1>13, <1>14 DEF n, B, I

(* A sample's weight is the integral between the samples beside it.         *)
LEMMA Weighed ==
  ASSUME NEW left, left.modeDepths \in Seq(Int), NEW d, Couples(d)
  PROVE  Exact(left, d)
<1> DEFINE z == Grid(left, d)
           m == Followed(d, z)
           q == Len(d.modeDepths)
           n == Len(d.fluids)
           e == Len(z)
           B == FluidBottom(d)
           near(i) == IF i \in DOMAIN z THEN z[i] ELSE IF i = 0 THEN z[1] ELSE LastOf(z)
           clear(i) == \A k \in 1 .. n : ~(near(i - 1) < Interface(d, k) /\ Interface(d, k) < z[i])
           One(k, width) == [j \in 1 .. Below(d) |-> IF j = k THEN width ELSE 0]
<1>1. /\ n \in Nat \ {0} /\ B = Interface(d, n)
      /\ \A k \in 1 .. n : Interface(d, k) \in Int /\ Interface(d, k) > 0
      /\ \A j, k \in 1 .. n : j < k => Interface(d, j) < Interface(d, k)
      /\ d.modeDepths \in Seq(Int) /\ q > 1 /\ Ordered(d.modeDepths)
      /\ d.modeDepths[1] = 0 /\ d.modeDepths[q] = B
  BY CoupledShape
<1>2. /\ z \in Seq(Int) /\ Ordered(z) /\ e >= q /\ \A i \in 1 .. q : z[i] = d.modeDepths[i]
  <2>1. d.modeDepths # <<>>
    BY <1>1
  <2> QED
    BY <1>1, <2>1, GridShape
<1>3. q \in Nat /\ e \in Nat /\ DOMAIN z = 1 .. e /\ \A i \in 1 .. e : z[i] \in Int
  BY <1>1, <1>2
<1>4. \A i, j \in 1 .. e : i < j => z[i] < z[j]
  BY <1>2 DEF Ordered
<1>5. d.modeDepths[2] <= Interface(d, 1)
  BY Stencils
<1>6. /\ \A i \in 1 .. e : m[i] = Entered(d, z[i], m[i - 1])
      /\ \A i \in 1 .. q : /\ m[i] \in 1 .. n /\ z[i] <= Interface(d, m[i])
                           /\ m[i] > 1 => Interface(d, m[i] - 1) < z[i]
      /\ m[1] = 1
      /\ \A i \in q .. e : m[i] = n
  BY FollowedMedium
<1>7. Weights(left, d) = [i \in 1 .. e |-> Weight(d, z, m, i)]
  BY <1>3 DEF Weights
<1>8. Below(d) = n + 1
  BY DEF Below
<1>9. SUFFICES ASSUME NEW i \in 1 .. e, clear(i)
               PROVE  Weight(d, z, m, i) = Integral(d, near(i - 1), near(i + 1))
  BY <1>3, <1>7 DEF Exact
<1> DEFINE from == IF i = 1 THEN z[1] ELSE z[i - 1]
           to == IF i = e THEN z[i] ELSE z[i + 1]
           here == IF z[i] > B THEN n + 1 ELSE m[i]
           below == Interface(d, m[i])
           split == i \notin {1, e} /\ from < below /\ to > below
<1>10. Weight(d, z, m, i) =
         IF split THEN [One(here, to - from) EXCEPT ![here] = below - from, ![m[i] + 1] = @ + to - below]
         ELSE One(here, to - from)
  BY <1>8 DEF Weight
<1> HIDE DEF z, m, q, n, e, B
<1>11. near(i - 1) = from /\ near(i + 1) = to
  <2>1. i = 1 => i - 1 = 0 /\ 0 \notin 1 .. e
    BY <1>3
  <2>2. i # 1 => i - 1 \in 1 .. e
    BY <1>3
  <2>3. i = e => i + 1 \notin 1 .. e /\ i + 1 # 0
    BY <1>3
  <2>4. i # e => i + 1 \in 1 .. e
    BY <1>3
  <2>5. LastOf(z) = z[e]
    BY DEF LastOf, e
  <2> QED
    BY <1>3, <2>1, <2>2, <2>3, <2>4, <2>5
<1>12. \A k \in 1 .. n : ~(from < Interface(d, k) /\ Interface(d, k) < z[i])
  BY <1>9, <1>11
<1> HIDE DEF near, clear
<1>13. z[i] \in Int /\ from \in Int /\ to \in Int /\ from <= z[i] /\ z[i] <= to /\ (i # 1 => from < z[i])
  <2>1. i # 1 => i - 1 \in 1 .. e /\ i - 1 < i
    BY <1>3
  <2>2. i # e => i + 1 \in 1 .. e /\ i < i + 1
    BY <1>3
  <2>3. z[i] \in Int /\ (i # 1 => z[i - 1] \in Int /\ z[i - 1] < z[i]) /\ (i # e => z[i + 1] \in Int /\ z[i] < z[i + 1])
    BY <1>3, <1>4, <2>1, <2>2
  <2> QED
    BY <2>3
<1>14. /\ z[1] = 0 /\ z[q] = B /\ z[2] <= Interface(d, 1)
       /\ 1 \in 1 .. q /\ 2 \in 1 .. q /\ q \in 1 .. q /\ q \in 1 .. e /\ 1 \in 1 .. e /\ e # 1
  <2>1. 1 \in 1 .. q /\ 2 \in 1 .. q /\ q \in 1 .. q /\ q \in 1 .. e /\ 1 \in 1 .. e /\ e # 1
    BY <1>1, <1>2, <1>3
  <2> QED
    BY <1>1, <1>2, <1>5, <2>1
<1>15. 0 <= from
  <2>1. i = 1 \/ (i - 1 \in 1 .. e /\ (i - 1 = 1 \/ 1 < i - 1))
    BY <1>3
  <2>2. i - 1 \in 1 .. e /\ 1 < i - 1 => z[1] < z[i - 1] /\ z[i - 1] \in Int
    BY <1>3, <1>4, <1>14
  <2> QED
    BY <1>14, <2>1, <2>2
<1>16. B \in Int /\ n \in 1 .. n
  <2>1. n \in 1 .. n
    BY <1>1
  <2> QED
    BY <1>1, <2>1
<1>17. SUFFICES Weight(d, z, m, i) = Integral(d, from, to)
  BY <1>11
<1>18. CASE i > q
  <2>1. z[i] > B
    <3>1. z[q] < z[i]
      BY <1>3, <1>4, <1>14, <1>18
    <3> QED
      BY <1>13, <1>14, <1>16, <3>1
  <2>2. B <= from
    <3>1. i # 1 /\ i - 1 \in 1 .. e /\ (i - 1 = q \/ q < i - 1)
      BY <1>3, <1>14, <1>18
    <3>2. q < i - 1 => z[q] < z[i - 1] /\ z[q] \in Int /\ z[i - 1] \in Int
      BY <1>3, <1>4, <1>14, <3>1
    <3> QED
      BY <1>14, <1>16, <3>1, <3>2
  <2>3. m[i] = n
    BY <1>3, <1>6, <1>18
  <2>4. below = B
    BY <1>1, <2>3
  <2>5. ~split
    BY <1>13, <1>16, <2>2, <2>4
  <2>6. Weight(d, z, m, i) = One(n + 1, to - from)
    <3> HIDE DEF split, from, to, One
    <3> QED
      BY <1>10, <2>1, <2>5
  <2>7. Integral(d, from, to) = One(n + 1, to - from)
    <3> HIDE DEF from, to
    <3>1. from <= to
      BY <1>13
    <3> QED
      BY <1>8, <1>13, <1>15, <2>2, <3>1, IntegralIn DEF B
  <2> QED
    BY <2>6, <2>7
<1>19. CASE i <= q
  <2> DEFINE k == m[i]
  <2>1. i \in 1 .. q /\ k \in 1 .. n /\ z[i] <= Interface(d, k) /\ (k > 1 => Interface(d, k - 1) < z[i])
    <3>1. i \in 1 .. q
      BY <1>3, <1>19
    <3> QED
      BY <1>6, <3>1
  <2>2. below = Interface(d, k)
    OBVIOUS
  <2>3. i < e /\ i < q => m[i + 1] = Entered(d, z[i + 1], k) /\ m[i + 1] \in 1 .. n /\ z[i + 1] <= Interface(d, m[i + 1])
    <3> SUFFICES ASSUME i < e, i < q
                 PROVE  m[i + 1] = Entered(d, z[i + 1], k) /\ m[i + 1] \in 1 .. n /\ z[i + 1] <= Interface(d, m[i + 1])
      OBVIOUS
    <3>1. i + 1 \in 1 .. e /\ i + 1 \in 1 .. q /\ (i + 1) - 1 = i
      BY <1>3
    <3> QED
      BY <1>6, <3>1
  <2>4. z[i] <= B /\ here = k
    <3>1. i = q \/ i < q
      BY <1>3, <1>19
    <3>2. i < q => z[i] < z[q]
      BY <1>4, <1>14
    <3> QED
      BY <1>13, <1>14, <1>16, <3>1, <3>2
  <2>5. i = q => k = n
    <3>1. q \in q .. e
      BY <1>3, <1>14
    <3> QED
      BY <1>6, <3>1
  <2>6. i = 1 => k = 1
    BY <1>6
  <2> HIDE DEF k
  <2>7. below \in Int
    BY <1>1, <2>1, <2>2
  <2>8. k > 1 => Interface(d, k - 1) <= from
    <3>1. k > 1 => k - 1 \in 1 .. n
      BY <1>1, <2>1
    <3>2. k > 1 => Interface(d, k - 1) \in Int
      BY <1>1, <3>1
    <3> QED
      BY <1>12, <1>13, <2>1, <3>1, <3>2
  <2> HIDE DEF below
  <2>9. CASE to <= below
    <3>1. ~split
      BY <1>13, <2>7, <2>9
    <3>2. Weight(d, z, m, i) = One(k, to - from)
      <4> HIDE DEF split, from, to, One, here
      <4> QED
        BY <1>10, <2>4, <3>1
    <3>3. Integral(d, from, to) = One(k, to - from)
      <4> HIDE DEF from, to
      <4>1. from <= to
        BY <1>13
      <4>2. k \in 1 .. Len(d.fluids)
        BY <2>1 DEF n
      <4> QED
        BY <1>13, <1>15, <2>2, <2>8, <2>9, <4>1, <4>2, IntegralIn
    <3> QED
      BY <3>2, <3>3
  <2>10. CASE ~(to <= below)
    <3>1. i # e
      BY <1>13, <2>1, <2>2, <2>7, <2>10
    <3>2. i # 1
      <4> SUFFICES ASSUME i = 1 PROVE FALSE
        OBVIOUS
      <4>1. k = 1 /\ to = z[2]
        BY <2>6, <3>1
      <4> QED
        BY <1>14, <2>2, <2>10, <4>1
    <3>3. from < below /\ to > below
      BY <1>13, <2>1, <2>2, <2>7, <2>10, <3>2
    <3>4. split
      BY <3>1, <3>2, <3>3
    <3>5. k < n => to <= Interface(d, k + 1)
      <4> SUFFICES ASSUME k < n PROVE to <= Interface(d, k + 1)
        OBVIOUS
      <4>1. i < e /\ i < q /\ to = z[i + 1] /\ i + 1 \in 1 .. e /\ i + 1 \in 1 .. q
        BY <1>1, <1>3, <1>19, <2>5, <3>1
      <4>2. z[i + 1] <= B
        <5>1. i + 1 = q \/ i + 1 < q
          BY <1>3, <4>1
        <5>2. i + 1 < q => z[i + 1] < z[q]
          BY <1>4, <1>14, <4>1
        <5> QED
          BY <1>13, <1>14, <1>16, <4>1, <5>1, <5>2
      <4>3. Entered(d, z[i + 1], k) = k + 1
        <5>1. z[i + 1] > Interface(d, k)
          BY <2>2, <3>3, <4>1
        <5> QED
          BY <4>2, <5>1 DEF Entered, n, B
      <4> QED
        BY <2>3, <4>1, <4>3
    <3>6. Weight(d, z, m, i) = [One(k, to - from) EXCEPT ![k] = below - from, ![k + 1] = @ + to - below]
      <4>1. k = m[i]
        BY DEF k
      <4> HIDE DEF split, from, to, One, here
      <4> QED
        BY <1>10, <2>4, <3>4, <4>1
    <3>7. Weight(d, z, m, i) =
            [j \in 1 .. Below(d) |-> IF j = k THEN below - from ELSE IF j = k + 1 THEN to - below ELSE 0]
      <4> HIDE DEF split, from, to, here
      <4>1. k \in 1 .. n + 1 /\ k + 1 \in 1 .. n + 1 /\ k # k + 1 /\ 0 + to - below = to - below
        BY <1>1, <1>13, <2>1, <2>7
      <4> QED
        BY <1>8, <3>6, <4>1
    <3>8. Integral(d, from, to) =
            [j \in 1 .. Below(d) |-> IF j = k THEN below - from ELSE IF j = k + 1 THEN to - below ELSE 0]
      <4> HIDE DEF from, to
      <4>1. from <= to /\ from <= below /\ below <= to
        BY <1>13, <2>7, <3>3
      <4>2. k \in 1 .. Len(d.fluids) /\ (k < Len(d.fluids) => to <= Interface(d, k + 1))
        BY <2>1, <3>5 DEF n
      <4> QED
        BY <1>13, <1>15, <2>2, <2>8, <4>1, <4>2, IntegralIn
    <3> QED
      BY <3>7, <3>8
  <2> QED
    BY <2>9, <2>10
<1> QED
  BY <1>3, <1>14, <1>18, <1>19

(* The weights of the samples of a coupled profile are integrals of the     *)
(* media between the samples beside them, for any two profiles that follow  *)
(* one another in a field that was accepted (FieldCase::new and project).   *)
THEOREM QuadratureExact == Spec => []Quadrature
<1>1. Init => Acceptance /\ Marching
  BY AcceptanceInit
<1>2. (Acceptance /\ Marching) /\ [Next]_vars => (Acceptance /\ Marching)'
  BY AcceptanceStep
<1>3. Acceptance /\ Marching => Quadrature
  <2> SUFFICES ASSUME Acceptance, NEW f \in Range(fields), f.propagation = "coupled",
                      NEW i \in 1 .. Len(f.profiles) - 1
               PROVE  Exact(f.profiles[i], f.profiles[i + 1])
    BY DEF Quadrature
  <2>1. FieldOK(f)
    BY DEF Acceptance, Fit, Range
  <2>2. Len(f.profiles) \in Nat \ {0} /\ DOMAIN f.profiles = 1 .. Len(f.profiles)
    BY <2>1, FieldShape
  <2>3. ASSUME NEW k \in 1 .. Len(f.profiles) PROVE Couples(f.profiles[k])
    <3>1. CaseAllowed(f.profiles[k])
      BY <2>1 DEF FieldOK
    <3>2. f.profiles[k] \in Range(f.profiles)
      BY <2>2 DEF Range
    <3>3. Coupleable(f.profiles[k])
      BY <2>1, <3>2 DEF FieldOK, FieldCaseAllowed
    <3> QED
      BY <3>1, <3>3 DEF Couples
  <2>4. i \in 1 .. Len(f.profiles) /\ i + 1 \in 1 .. Len(f.profiles)
    BY <2>2
  <2>5. Couples(f.profiles[i]) /\ Couples(f.profiles[i + 1])
    BY <2>3, <2>4
  <2>6. f.profiles[i].modeDepths \in Seq(Int)
    BY <2>5, CoupledShape
  <2> QED
    BY <2>5, <2>6, Weighed
<1> QED
  BY <1>1, <1>2, <1>3, PTL DEF Spec

-----------------------------------------------------------------------------
(* Sums.                                                                   *)

(* The fold of a list of numbers has a solution: one after the other.       *)
TotalSolved(g, n, b, q, folded) ==
  /\ g[{}] = b
  /\ \A k \in 0 .. n - 1 : g[1 .. k + 1] = g[1 .. k] + q[k + 1]
  /\ folded = g[1 .. n]
LEMMA TotalFolded ==
  ASSUME NEW n \in Nat, NEW b, NEW q, DOMAIN q = 1 .. n
  PROVE  \E g : TotalSolved(g, n, b, q, FoldLeft(LAMBDA total, x : total + x, b, q))
<1> DEFINE Go(a, i) == a + q[i]
           After(g, s) == IF s = {} THEN b ELSE Go(g[s \ {Max(s)}], Max(s))
           Solves(g, k) == g = [s \in SUBSET (1 .. k) |-> After(g, s)]
           S == {k \in Nat : \E g : Solves(g, k)}
           fold == CHOOSE g : Solves(g, n)
<1>1. FoldLeft(LAMBDA total, x : total + x, b, q) = fold[1 .. n]
  BY DEF FoldLeft, MapThenFoldSet
<1> HIDE DEF Go, fold
<1>2. 0 \in S
  <2> DEFINE g == [s \in SUBSET (1 .. 0) |-> b]
  <2>1. \A s \in SUBSET (1 .. 0) : s = {}
    OBVIOUS
  <2>2. Solves(g, 0)
    BY <2>1
  <2> QED
    BY <2>2
<1>3. ASSUME NEW k \in Nat, k \in S PROVE k + 1 \in S
  <2>1. PICK g : Solves(g, k)
    BY <1>3
  <2> DEFINE h == [s \in SUBSET (1 .. k + 1) |-> IF k + 1 \in s THEN Go(g[s \ {k + 1}], k + 1) ELSE g[s]]
  <2>2. \A s \in SUBSET (1 .. k) : h[s] = g[s] /\ g[s] = After(g, s)
    <3>1. \A s \in SUBSET (1 .. k) : s \in SUBSET (1 .. k + 1) /\ k + 1 \notin s
      OBVIOUS
    <3> HIDE DEF After
    <3> QED
      BY <2>1, <3>1
  <2>3. \A s \in SUBSET (1 .. k + 1) : h[s] = IF k + 1 \in s THEN Go(g[s \ {k + 1}], k + 1) ELSE g[s]
    OBVIOUS
  <2>4. h = [s \in SUBSET (1 .. k + 1) |-> h[s]]
    OBVIOUS
  <2> HIDE DEF h
  <2>5. ASSUME NEW s \in SUBSET (1 .. k + 1) PROVE h[s] = After(h, s)
    <3>1. CASE k + 1 \in s
      <4>1. Max(s) = k + 1 /\ s \ {k + 1} \in SUBSET (1 .. k) /\ s # {}
        BY <3>1, Peeled
      <4> QED
        BY <2>2, <2>3, <3>1, <4>1
    <3>2. CASE k + 1 \notin s
      <4>1. s \in SUBSET (1 .. k) /\ (s # {} => s \ {Max(s)} \in SUBSET (1 .. k))
        BY <3>2, Peeled
      <4> QED
        BY <2>2, <4>1
    <3> QED
      BY <3>1, <3>2
  <2>6. h = [s \in SUBSET (1 .. k + 1) |-> After(h, s)]
    <3> HIDE DEF After
    <3> QED
      BY <2>4, <2>5
  <2>7. Solves(h, k + 1)
    BY <2>6
  <2> HIDE DEF Solves
  <2> QED
    BY <2>7
<1>4. n \in S
  <2> HIDE DEF S
  <2> QED
    BY <1>2, <1>3, SetInduction
<1>5. Solves(fold, n)
  <2>1. \E g : Solves(g, n)
    BY <1>4
  <2> HIDE DEF Solves
  <2> QED
    BY <2>1 DEF fold
<1>6. \A s \in SUBSET (1 .. n) : fold[s] = After(fold, s)
  <2> HIDE DEF After
  <2> QED
    BY <1>5
<1>7. fold[{}] = b
  BY <1>6
<1>8. ASSUME NEW k \in 0 .. n - 1
      PROVE  fold[1 .. k + 1] = Go(fold[1 .. k], k + 1)
  <2>1. k \in Nat /\ 1 .. k + 1 \in SUBSET (1 .. n)
    OBVIOUS
  <2>2. 1 .. k + 1 # {} /\ Max(1 .. k + 1) = k + 1 /\ (1 .. k + 1) \ {k + 1} = 1 .. k
    BY <2>1, Prefix
  <2>3. fold[1 .. k + 1] = After(fold, 1 .. k + 1)
    BY <1>6, <2>1
  <2> QED
    BY <2>2, <2>3
<1> QED
  BY <1>1, <1>7, <1>8 DEF Go, TotalSolved

(* The sums of the first of a list.                                         *)
Sums(f, s, n) == f[0] = 0 /\ \A k \in 0 .. n - 1 : f[k + 1] = f[k] + s[k + 1]
LEMMA TotalSums ==
  ASSUME NEW n \in Nat, NEW s, DOMAIN s = 1 .. n
  PROVE  \E f : Sums(f, s, n) /\ Total(s) = f[n]
<1>1. PICK g : TotalSolved(g, n, 0, s, Total(s))
  BY TotalFolded DEF Total
<1> DEFINE f == [k \in 0 .. n |-> g[1 .. k]]
<1>2. \A k \in 0 .. n - 1 : k \in 0 .. n /\ k + 1 \in 0 .. n
  OBVIOUS
<1>3. f[0] = 0 /\ f[n] = Total(s)
  <2>1. 1 .. 0 = {} /\ 0 \in 0 .. n /\ n \in 0 .. n
    OBVIOUS
  <2> QED
    BY <1>1, <2>1 DEF TotalSolved
<1>4. \A k \in 0 .. n - 1 : f[k + 1] = f[k] + s[k + 1]
  BY <1>1, <1>2 DEF TotalSolved
<1> QED
  BY <1>3, <1>4 DEF Sums

(* Two lists that begin alike have the same sums so far.                    *)
LEMMA SumsAgree ==
  ASSUME NEW n \in Nat, NEW f, NEW s, Sums(f, s, n), NEW h, NEW t, NEW m \in Nat, n <= m, Sums(h, t, m),
         \A k \in 1 .. n : s[k] = t[k]
  PROVE  \A k \in 0 .. n : f[k] = h[k]
<1> DEFINE S == {k \in Nat : k <= n => f[k] = h[k]}
<1>1. 0 \in S
  BY DEF Sums
<1>2. ASSUME NEW k \in Nat, k \in S PROVE k + 1 \in S
  <2>1. CASE k + 1 <= n
    <3>1. k \in 0 .. n - 1 /\ k \in 0 .. m - 1 /\ k + 1 \in 1 .. n
      BY <2>1
    <3> QED
      BY <1>2, <2>1, <3>1 DEF Sums
  <2> QED
    BY <2>1
<1>3. Nat \subseteq S
  <2> HIDE DEF S
  <2> QED
    BY <1>1, <1>2, SetInduction
<1> QED
  BY <1>3

(* A sum of integers is an integer, and of natural numbers one.             *)
LEMMA TotalType ==
  ASSUME NEW n \in Nat, NEW s, DOMAIN s = 1 .. n
  PROVE  /\ (\A k \in 1 .. n : s[k] \in Int) => Total(s) \in Int
         /\ (\A k \in 1 .. n : s[k] \in Nat) => Total(s) \in Nat
<1>1. PICK f : Sums(f, s, n) /\ Total(s) = f[n]
  BY TotalSums
<1>2. ASSUME NEW N \in {Int, Nat}, \A k \in 1 .. n : s[k] \in N PROVE Total(s) \in N
  <2> DEFINE S == {k \in Nat : k <= n => f[k] \in N}
  <2>1. 0 \in S
    BY <1>1, <1>2 DEF Sums
  <2>2. ASSUME NEW k \in Nat, k \in S PROVE k + 1 \in S
    <3>1. CASE k + 1 <= n
      <4>1. k \in 0 .. n - 1 /\ k + 1 \in 1 .. n
        BY <3>1
      <4>2. f[k + 1] = f[k] + s[k + 1] /\ f[k] \in N /\ s[k + 1] \in N
        BY <1>1, <1>2, <2>2, <3>1, <4>1 DEF Sums
      <4>3. f[k + 1] \in N
        BY <1>2, <4>2
      <4> QED
        BY <4>3
    <3> QED
      BY <3>1
  <2>3. Nat \subseteq S
    <3> HIDE DEF S
    <3> QED
      BY <2>1, <2>2, SetInduction
  <2> QED
    BY <1>1, <2>3
<1> QED
  BY <1>2

(* The sum of a list with one more, and of none.                            *)
LEMMA TotalOneMore ==
  ASSUME NEW n \in Nat, NEW s, DOMAIN s = 1 .. n, NEW t, DOMAIN t = 1 .. n + 1, \A k \in 1 .. n : t[k] = s[k]
  PROVE  Total(t) = Total(s) + t[n + 1]
<1>1. PICK f : Sums(f, s, n) /\ Total(s) = f[n]
  BY TotalSums
<1>2. PICK h : Sums(h, t, n + 1) /\ Total(t) = h[n + 1]
  BY TotalSums
<1>3. f[n] = h[n]
  <2>1. n + 1 \in Nat /\ n <= n + 1 /\ n \in 0 .. n
    OBVIOUS
  <2> QED
    BY <1>1, <1>2, <2>1, SumsAgree
<1>4. n \in 0 .. (n + 1) - 1
  OBVIOUS
<1> QED
  BY <1>1, <1>2, <1>3, <1>4 DEF Sums

(* The sum of nothing.                                                      *)
LEMMA TotalNone == \A s : DOMAIN s = {} => Total(s) = 0
<1> SUFFICES ASSUME NEW s, DOMAIN s = {} PROVE Total(s) = 0
  OBVIOUS
<1>1. DOMAIN s = 1 .. 0
  OBVIOUS
<1> QED
  BY <1>1, TotalSums DEF Sums

(* The sum of two lists, element by element, and of a list of equals.       *)
LEMMA TotalPaired ==
  ASSUME NEW n \in Nat, NEW a \in [1 .. n -> Int], NEW b \in [1 .. n -> Int],
         NEW c, DOMAIN c = 1 .. n, \A k \in 1 .. n : c[k] = a[k] + b[k]
  PROVE  Total(c) = Total(a) + Total(b)
<1>1. PICK f : Sums(f, a, n) /\ Total(a) = f[n]
  BY TotalSums
<1>2. PICK g : Sums(g, b, n) /\ Total(b) = g[n]
  BY TotalSums
<1>3. PICK h : Sums(h, c, n) /\ Total(c) = h[n]
  BY TotalSums
<1> DEFINE S == {k \in Nat : k <= n => f[k] \in Int /\ g[k] \in Int /\ h[k] = f[k] + g[k]}
<1>4. 0 \in S
  BY <1>1, <1>2, <1>3 DEF Sums
<1>5. ASSUME NEW k \in Nat, k \in S PROVE k + 1 \in S
  <2>1. CASE k + 1 <= n
    <3>1. k \in 0 .. n - 1 /\ k + 1 \in 1 .. n /\ k <= n
      BY <2>1
    <3>2. /\ f[k + 1] = f[k] + a[k + 1] /\ g[k + 1] = g[k] + b[k + 1] /\ h[k + 1] = h[k] + c[k + 1]
          /\ a[k + 1] \in Int /\ b[k + 1] \in Int /\ c[k + 1] = a[k + 1] + b[k + 1]
      BY <1>1, <1>2, <1>3, <3>1 DEF Sums
    <3>3. f[k] \in Int /\ g[k] \in Int /\ h[k] = f[k] + g[k]
      BY <1>5, <3>1
    <3>4. \A p, q, u, v \in Int : (p + q) + (u + v) = (p + u) + (q + v)
      OBVIOUS
    <3>5. f[k + 1] \in Int /\ g[k + 1] \in Int
      <4>1. f[k + 1] = f[k] + a[k + 1] /\ f[k] \in Int /\ a[k + 1] \in Int
        BY <3>2, <3>3
      <4>2. g[k + 1] = g[k] + b[k + 1] /\ g[k] \in Int /\ b[k + 1] \in Int
        BY <3>2, <3>3
      <4>3. f[k + 1] \in Int
        BY <4>1
      <4>4. g[k + 1] \in Int
        BY <4>2
      <4> QED
        BY <4>3, <4>4
    <3>6. h[k + 1] = f[k + 1] + g[k + 1]
      BY <3>2, <3>3, <3>4
    <3> QED
      BY <3>5, <3>6
  <2> QED
    BY <2>1
<1>6. Nat \subseteq S
  <2> HIDE DEF S
  <2> QED
    BY <1>4, <1>5, SetInduction
<1> QED
  BY <1>1, <1>2, <1>3, <1>6

(* The sum of so many of one number is the product.                         *)
LEMMA TotalEqual ==
  ASSUME NEW n \in Nat, NEW x \in Int, NEW c, DOMAIN c = 1 .. n, \A k \in 1 .. n : c[k] = x
  PROVE  Total(c) = x * n
<1>1. PICK f : Sums(f, c, n) /\ Total(c) = f[n]
  BY TotalSums
<1> DEFINE S == {k \in Nat : k <= n => f[k] = x * k}
<1>2. 0 \in S
  BY <1>1 DEF Sums
<1>3. ASSUME NEW k \in Nat, k \in S PROVE k + 1 \in S
  <2>1. CASE k + 1 <= n
    <3>1. k \in 0 .. n - 1 /\ k + 1 \in 1 .. n /\ k <= n
      BY <2>1
    <3>2. f[k + 1] = f[k] + x /\ f[k] = x * k
      BY <1>1, <1>3, <3>1 DEF Sums
    <3>3. x * k + x = x * (k + 1)
      OBVIOUS
    <3> QED
      BY <3>2, <3>3
  <2> QED
    BY <2>1
<1>4. Nat \subseteq S
  <2> HIDE DEF S
  <2> QED
    BY <1>2, <1>3, SetInduction
<1> QED
  BY <1>1, <1>4

-----------------------------------------------------------------------------
(* How long what a case holds is.                                          *)

(* A list is a sequence.                                                    *)
LEMMA ListShape ==
  ASSUME NEW s, List(s)
  PROVE  Len(s) \in Nat /\ DOMAIN s = 1 .. Len(s) /\ s \in Seq(Range(s))
BY DEF List

(* Nothing has no length.                                                   *)
LEMMA NoneLong == Len(<<>>) = 0 /\ DOMAIN <<>> = {}
OBVIOUS

(* Every sequence is a list.                                                *)
LEMMA SequenceListed ==
  ASSUME NEW T, NEW s \in Seq(T)
  PROVE  List(s)
<1>1. Len(s) \in Nat /\ s \in [1 .. Len(s) -> T]
  OBVIOUS
<1>2. \A i \in 1 .. Len(s) : s[i] \in Range(s)
  BY <1>1 DEF Range
<1>3. s \in [1 .. Len(s) -> Range(s)]
  BY <1>1, <1>2
<1> QED
  BY <1>1, <1>3 DEF List

(* A list after a list.                                                    *)
LEMMA ListedJoint ==
  ASSUME NEW s, List(s), NEW t, List(t)
  PROVE  /\ List(s \o t) /\ Len(s \o t) = Len(s) + Len(t)
         /\ \A i \in 1 .. Len(s) : (s \o t)[i] = s[i]
         /\ \A i, j : i \in 1 .. Len(t) /\ j = Len(s) + i => (s \o t)[j] = t[i]
<1> DEFINE T == Range(s) \cup Range(t)
<1>1. s \in Seq(T) /\ t \in Seq(T)
  BY DEF List
<1> HIDE DEF T
<1>2. s \o t \in Seq(T) /\ Len(s \o t) = Len(s) + Len(t)
  BY <1>1
<1>3. List(s \o t)
  BY <1>2, SequenceListed
<1>4. \A i \in 1 .. Len(s) : (s \o t)[i] = s[i]
  BY <1>1
<1>5. ASSUME NEW i \in 1 .. Len(t), NEW j, j = Len(s) + i PROVE (s \o t)[j] = t[i]
  BY <1>1, <1>5
<1> QED
  BY <1>2, <1>3, <1>4, <1>5

(* An index of a list after a list is of one of them.                       *)
LEMMA JointIndex ==
  \A p, q \in Nat : \A i \in 1 .. p + q : i \in 1 .. p \/ (i - p \in 1 .. q /\ p + (i - p) = i)
OBVIOUS

(* The fluids of a case have so many points and losses.                     *)
LEMMA FluidLengths ==
  ASSUME NEW d, CaseAllowed(d), Layered(d)
  PROVE  \A i \in 1 .. Len(d.fluids) : Len(d.fluids[i].points) \in Nat /\ Len(d.fluids[i].losses) \in Nat
<1>1. FluidsAllowed(d) /\ DOMAIN d.fluids = 1 .. Len(d.fluids) /\ Len(d.fluids) \in Nat \ {0}
  <2>1. Len(d.fluids) \in Nat /\ DOMAIN d.fluids = 1 .. Len(d.fluids)
    BY ListShape DEF Layered
  <2>2. FluidsAllowed(d)
    BY DEF CaseAllowed
  <2>3. 1 <= Len(d.fluids)
    <3>1. MaxLayers - Len(d.tops) - Len(d.bottoms) \in Int
      BY ListShape, KrakenInputAssumption DEF Layered
    <3>2. Len(d.fluids) \in 1 .. MaxLayers - Len(d.tops) - Len(d.bottoms)
      BY <2>2 DEF FluidsAllowed
    <3> QED
      BY <3>1, <3>2
  <2> QED
    BY <2>1, <2>2, <2>3
<1>2. MaxVector \in Nat
  BY KrakenInputAssumption
<1>3. CASE Munk(d)
  <2>1. MunkAllowed(d)
    BY <1>1, <1>3 DEF FluidsAllowed
  <2>2. d.fluids[1].points = <<>> /\ d.fluids[1].losses = <<>> /\ Len(d.fluids) = 1
    BY <2>1 DEF MunkAllowed
  <2>3. \A i \in 1 .. 1 : i = 1
    OBVIOUS
  <2> QED
    BY <2>2, <2>3, NoneLong
<1>4. CASE ~Munk(d)
  <2>1. \A i \in 1 .. Len(d.fluids) : ProfileValid(d.fluids[i], TopOf(d, i)) /\ LossesValid(d.fluids[i])
    BY <1>1, <1>4 DEF FluidsAllowed
  <2>2. ASSUME NEW i \in 1 .. Len(d.fluids)
        PROVE  Len(d.fluids[i].points) \in Nat /\ Len(d.fluids[i].losses) \in Nat
    <3>1. Len(d.fluids[i].points) \in 2 .. MaxVector
      BY <2>1 DEF ProfileValid
    <3>2. d.fluids[i].losses = <<>> \/ Len(d.fluids[i].losses) = Len(d.fluids[i].points)
      BY <2>1 DEF LossesValid
    <3>3. Len(d.fluids[i].points) \in Nat
      BY <1>2, <3>1
    <3> QED
      BY <3>2, <3>3, NoneLong
  <2> QED
    BY <2>2
<1> QED
  BY <1>3, <1>4

(* The solids above and below, one after the other.                         *)
Solids(d) == d.tops \o d.bottoms
LEMMA SolidLengths ==
  ASSUME NEW d, CaseAllowed(d), Layered(d)
  PROVE  /\ Len(Solids(d)) \in Nat /\ DOMAIN Solids(d) = 1 .. Len(Solids(d))
         /\ \A i \in 1 .. Len(Solids(d)) : Len(Solids(d)[i].profile) \in Nat
<1>1. /\ Len(d.tops) \in Nat /\ DOMAIN d.tops = 1 .. Len(d.tops) /\ d.tops \in Seq(Range(d.tops))
      /\ Len(d.bottoms) \in Nat /\ DOMAIN d.bottoms = 1 .. Len(d.bottoms) /\ d.bottoms \in Seq(Range(d.bottoms))
  BY ListShape DEF Layered
<1>2. MaxVector \in Nat
  BY KrakenInputAssumption
<1>3. ASSUME NEW layer, NEW top, SolidProfileAllowed(layer, top) PROVE Len(layer.profile) \in Nat
  <2>1. layer.profile = <<>> \/ Len(layer.profile) \in 2 .. MaxVector
    BY <1>3 DEF SolidProfileAllowed
  <2>2. Len(layer.profile) \in 2 .. MaxVector => Len(layer.profile) \in Nat
    BY <1>2
  <2> QED
    BY <2>1, <2>2, NoneLong
<1>4. ASSUME NEW layers, NEW start, NEW kind, SolidsAllowed(layers, start, kind), NEW i \in DOMAIN layers
      PROVE  Len(layers[i].profile) \in Nat
  <2>1. \E top : SolidProfileAllowed(layers[i], top)
    BY <1>4 DEF SolidsAllowed
  <2> QED
    BY <1>3, <2>1
<1>5. HasSolids(d) => SolidsAllowed(d.tops, 0, d.surface) /\ SolidsAllowed(d.bottoms, FluidBottom(d), d.bottom)
  BY DEF CaseAllowed, ElasticAllowed
<1>6. ASSUME NEW i \in 1 .. Len(d.tops) PROVE Len(d.tops[i].profile) \in Nat
  <2>1. d.tops # <<>>
    BY <1>1, NoneLong
  <2> QED
    BY <1>1, <1>4, <1>5, <2>1 DEF HasSolids
<1>7. ASSUME NEW i \in 1 .. Len(d.bottoms) PROVE Len(d.bottoms[i].profile) \in Nat
  <2>1. d.bottoms # <<>>
    BY <1>1, NoneLong
  <2> QED
    BY <1>1, <1>4, <1>5, <2>1 DEF HasSolids
<1>8. List(Solids(d)) /\ Len(Solids(d)) = Len(d.tops) + Len(d.bottoms)
  BY ListedJoint DEF Layered, Solids
<1>9. ASSUME NEW i \in 1 .. Len(Solids(d)) PROVE Len(Solids(d)[i].profile) \in Nat
  <2>1. List(d.tops) /\ List(d.bottoms)
    BY DEF Layered
  <2>2. /\ \A k \in 1 .. Len(d.tops) : Solids(d)[k] = d.tops[k]
        /\ \A k, j : k \in 1 .. Len(d.bottoms) /\ j = Len(d.tops) + k => Solids(d)[j] = d.bottoms[k]
    <3> DEFINE u == d.tops
               v == d.bottoms
    <3>1. List(u) /\ List(v) /\ Solids(d) = u \o v
      BY <2>1 DEF Solids
    <3> HIDE DEF u, v
    <3>2. /\ \A k \in 1 .. Len(u) : (u \o v)[k] = u[k]
          /\ \A k, j : k \in 1 .. Len(v) /\ j = Len(u) + k => (u \o v)[j] = v[k]
      BY <3>1, ListedJoint
    <3> QED
      BY <3>1, <3>2 DEF u, v
  <2>3. \/ i \in 1 .. Len(d.tops)
        \/ i - Len(d.tops) \in 1 .. Len(d.bottoms) /\ Len(d.tops) + (i - Len(d.tops)) = i
    <3> DEFINE m == Len(d.tops)
               n == Len(d.bottoms)
    <3>1. m \in Nat /\ n \in Nat
      BY <1>1
    <3>2. i \in 1 .. m + n
      BY <1>8
    <3> HIDE DEF m, n
    <3>3. i \in 1 .. m \/ (i - m \in 1 .. n /\ m + (i - m) = i)
      BY <3>1, <3>2, JointIndex
    <3> QED
      BY <3>3 DEF m, n
  <2>4. CASE i \in 1 .. Len(d.tops)
    BY <1>6, <2>2, <2>4
  <2>5. CASE i - Len(d.tops) \in 1 .. Len(d.bottoms) /\ Len(d.tops) + (i - Len(d.tops)) = i
    <3> DEFINE k == i - Len(d.tops)
    <3>1. k \in 1 .. Len(d.bottoms) /\ Len(d.tops) + k = i
      BY <2>5
    <3> HIDE DEF k
    <3>2. Solids(d)[i] = d.bottoms[k] /\ Len(d.bottoms[k].profile) \in Nat
      BY <1>7, <2>2, <3>1
    <3> QED
      BY <3>2
  <2> QED
    BY <2>3, <2>4, <2>5
<1> QED
  BY <1>8, <1>9, ListShape

(* The grids of a case have so many points.                                 *)
LEMMA GridLengths ==
  ASSUME NEW d, CaseAllowed(d)
  PROVE  /\ Len(d.modeDepths) \in Nat \ {0} /\ Len(d.sources) \in Nat \ {0} /\ Len(d.receivers) \in Nat \ {0}
         /\ Len(d.ranges) \in Nat \ {0} /\ Len(d.offsets) \in Nat /\ Len(d.pattern) \in Nat
<1>1. MaxVector \in Nat
  BY KrakenInputAssumption
<1>2. GridsAllowed(d) /\ PatternAllowed(d.pattern)
  BY DEF CaseAllowed
<1>3. /\ Len(d.modeDepths) \in 1 .. MaxVector /\ Len(d.sources) \in 1 .. MaxVector
      /\ Len(d.receivers) \in 1 .. MaxVector /\ Len(d.ranges) \in 1 .. MaxVector /\ Len(d.offsets) = Len(d.receivers)
  BY <1>2 DEF GridsAllowed, Filled
<1>4. d.pattern = <<>> \/ Len(d.pattern) \in 2 .. MaxVector
  BY <1>2 DEF PatternAllowed
<1>5. \A n \in 1 .. MaxVector : n \in Nat \ {0}
  BY <1>1
<1>6. Len(d.pattern) \in Nat
  <2>1. \A n \in 2 .. MaxVector : n \in Nat
    BY <1>1
  <2> QED
    BY <1>4, <2>1, NoneLong
<1> QED
  BY <1>3, <1>5, <1>6

(* What a case is charged for is a number.                                  *)
Measured(d) == Len(d.surfaceTable.points) \in Nat /\ Len(d.bottomTable.points) \in Nat
LEMMA InputType ==
  ASSUME NEW d, CaseAllowed(d), Layered(d), Measured(d)
  PROVE  InputValues(d) \in Int
<1> DEFINE a == [i \in DOMAIN d.fluids |-> Len(d.fluids[i].points) + Len(d.fluids[i].losses)]
           b == [i \in DOMAIN Solids(d) |-> 7 + 6 * Len(Solids(d)[i].profile)]
<1>1. Len(d.fluids) \in Nat /\ DOMAIN d.fluids = 1 .. Len(d.fluids)
  BY ListShape DEF Layered
<1>2. Total(a) \in Int
  <2>1. \A i \in 1 .. Len(d.fluids) : Len(d.fluids[i].points) \in Nat /\ Len(d.fluids[i].losses) \in Nat
    BY FluidLengths
  <2>2. DOMAIN a = 1 .. Len(d.fluids)
    BY <1>1
  <2>3. ASSUME NEW i \in 1 .. Len(d.fluids) PROVE a[i] \in Int
    <3>1. a[i] = Len(d.fluids[i].points) + Len(d.fluids[i].losses)
      BY <1>1
    <3> HIDE DEF a
    <3> QED
      BY <2>1, <3>1
  <2> HIDE DEF a
  <2> QED
    BY <1>1, <2>2, <2>3, TotalType
<1>3. Total(b) \in Int
  <2>1. DOMAIN b = 1 .. Len(Solids(d)) /\ \A i \in 1 .. Len(Solids(d)) : b[i] \in Int
    BY SolidLengths
  <2>2. Len(Solids(d)) \in Nat
    BY SolidLengths
  <2> HIDE DEF b
  <2> QED
    BY <2>1, <2>2, TotalType
<1>4. InputValues(d) = Total(a) + Len(d.fluids) - 1 + Total(b)
        + Len(d.modeDepths) + Len(d.sources) + Len(d.receivers) + Len(d.ranges) + Len(d.offsets)
        + 2 * Len(d.pattern) + Len(d.surfaceTable.points) + Len(d.bottomTable.points)
  BY DEF InputValues, TotalOf, Solids
<1> HIDE DEF a, b
<1>5. /\ Len(d.modeDepths) \in Int /\ Len(d.sources) \in Int /\ Len(d.receivers) \in Int /\ Len(d.ranges) \in Int
      /\ Len(d.offsets) \in Int /\ Len(d.pattern) \in Int
  BY GridLengths
<1>6. Len(d.surfaceTable.points) \in Int /\ Len(d.bottomTable.points) \in Int /\ Len(d.fluids) \in Int
  BY <1>1 DEF Measured
<1> DEFINE x == Total(a) + Len(d.fluids) - 1 + Total(b) + Len(d.modeDepths) + Len(d.sources)
           y == x + Len(d.receivers) + Len(d.ranges) + Len(d.offsets) + 2 * Len(d.pattern)
<1>7. InputValues(d) = y + Len(d.surfaceTable.points) + Len(d.bottomTable.points)
  BY <1>4
<1>8. x \in Int
  <2>1. \A p, q, u, v, w \in Int : p + q - 1 + u + v + w \in Int
    OBVIOUS
  <2> QED
    BY <1>2, <1>3, <1>5, <1>6, <2>1
<1> HIDE DEF x
<1>9. y \in Int
  BY <1>5, <1>8
<1> HIDE DEF y
<1> QED
  BY <1>6, <1>7, <1>9

-----------------------------------------------------------------------------
(* What the results of a frequency take is a number of words.               *)

(* The solids of a case.                                                    *)
LEMMA ElasticType ==
  ASSUME NEW d, CaseAllowed(d), Layered(d)
  PROVE  ElasticWords(d) \in Int
<1> DEFINE s == Solids(d)
           b == [i \in DOMAIN s |-> Doubled(6 * Len(s[i].profile))]
<1>1. Len(s) \in Nat /\ DOMAIN s = 1 .. Len(s) /\ \A i \in 1 .. Len(s) : Len(s[i].profile) \in Nat
  BY SolidLengths
<1>2. ElasticWords(d) = Total(b)
  BY DEF ElasticWords, TotalOf, Solids
<1> HIDE DEF s
<1>3. DOMAIN b = 1 .. Len(s) /\ \A i \in 1 .. Len(s) : b[i] \in Int
  BY <1>1 DEF Doubled
<1> HIDE DEF b
<1> QED
  BY <1>1, <1>2, <1>3, TotalType

(* The modes of a profile.                                                  *)
LEMMA ModeType ==
  ASSUME NEW d, CaseAllowed(d), NEW n \in Nat
  PROVE  ModeWords(d, n) \in Int
<1>1. Len(d.modeDepths) \in Nat
  BY GridLengths
<1>2. \A m \in Nat : 2 * (m + 5 * n + 2 * n * m) \in Int
  OBVIOUS
<1> QED
  BY <1>1, <1>2 DEF ModeWords, Doubled

(* The samples of a field.                                                  *)
LEMMA SamplesType ==
  ASSUME NEW d, CaseAllowed(d)
  PROVE  Samples(d) \in Nat \ {0}
<1>1. Len(d.sources) \in Nat \ {0} /\ Len(d.receivers) \in Nat \ {0} /\ Len(d.ranges) \in Nat \ {0}
  BY GridLengths
<1>2. \A i, j, k \in Nat \ {0} : i * j * k \in Nat \ {0}
  <2>1. \A i, j \in Nat \ {0} : i * j \in Nat \ {0}
    OBVIOUS
  <2> QED
    BY <2>1
<1> QED
  BY <1>1, <1>2 DEF Samples

(* Its axes and its pressures.                                              *)
LEMMA FieldWordsType ==
  ASSUME NEW d, CaseAllowed(d)
  PROVE  FieldWords(d) \in Int
<1>1. /\ Len(d.sources) \in Int /\ Len(d.receivers) \in Int /\ Len(d.ranges) \in Int /\ Len(d.offsets) \in Int
      /\ Samples(d) \in Int
  BY GridLengths, SamplesType
<1>2. FieldWords(d) = 2 * (Len(d.sources) + Len(d.receivers) + Len(d.ranges) + Len(d.offsets)) + 2 * Samples(d)
  BY DEF FieldWords, Doubled
<1> DEFINE x == Len(d.sources) + Len(d.receivers) + Len(d.ranges) + Len(d.offsets)
<1>3. x \in Int
  BY <1>1
<1>4. FieldWords(d) = 2 * x + 2 * Samples(d)
  BY <1>2
<1> HIDE DEF x
<1>5. 2 * x \in Int /\ 2 * Samples(d) \in Int
  BY <1>1, <1>3
<1> QED
  BY <1>4, <1>5

(* The profiles of a field that was accepted, of layers in lists.           *)
Deep(f) == \A k \in 1 .. Len(f.profiles) : Layered(f.profiles[k])
LEMMA FrequencyType ==
  ASSUME NEW f, FieldOK(f), Deep(f), NEW n \in Seq(Nat), Len(n) = Len(f.profiles)
  PROVE  FrequencyWords(f, n) \in Int
<1>1. /\ Len(f.profiles) \in Nat \ {0} /\ DOMAIN f.profiles = 1 .. Len(f.profiles)
      /\ \A k \in 1 .. Len(f.profiles) : CaseAllowed(f.profiles[k]) /\ Layered(f.profiles[k])
  BY FieldShape, ListShape DEF FieldOK, Deep
<1> DEFINE elastic == [i \in DOMAIN f.profiles |-> ElasticWords(f.profiles[i])]
           others == [i \in 1 .. Len(n) - 1 |-> ModeWords(f.profiles[i + 1], n[i + 1])]
           first == f.profiles[1]
           sequence == Doubled(Len(f.profiles)) + Total(elastic) + Total(others)
<1>2. Total(elastic) \in Int
  <2>1. DOMAIN elastic = 1 .. Len(f.profiles) /\ \A i \in 1 .. Len(f.profiles) : elastic[i] \in Int
    BY <1>1, ElasticType
  <2> HIDE DEF elastic
  <2> QED
    BY <1>1, <2>1, TotalType
<1>3. Total(others) \in Int
  <2>1. ASSUME NEW i \in 1 .. Len(n) - 1 PROVE others[i] \in Int
    <3>1. i + 1 \in 1 .. Len(n) /\ n[i + 1] \in Nat
      OBVIOUS
    <3>2. ModeWords(f.profiles[i + 1], n[i + 1]) \in Int
      BY <1>1, <3>1, ModeType
    <3> QED
      BY <3>2
  <2>2. DOMAIN others = 1 .. Len(n) - 1 /\ Len(n) - 1 \in Nat
    BY <1>1
  <2> HIDE DEF others
  <2> QED
    BY <2>1, <2>2, TotalType
<1>4. ElasticWords(first) \in Int /\ ModeWords(first, n[1]) \in Int /\ FieldWords(first) \in Int
  <2>1. 1 \in 1 .. Len(f.profiles) /\ n[1] \in Nat
    BY <1>1
  <2> QED
    BY <1>1, <2>1, ElasticType, ModeType, FieldWordsType
<1>5. FrequencyWords(f, n) = ElasticWords(first) + ModeWords(first, n[1]) + FieldWords(first)
                             + (IF Len(f.profiles) > 1 THEN sequence ELSE 0)
  BY DEF FrequencyWords, TotalOf
<1> HIDE DEF elastic, others, first
<1>6. sequence \in Int
  BY <1>1, <1>2, <1>3 DEF Doubled
<1> HIDE DEF sequence
<1> QED
  BY <1>4, <1>5, <1>6

-----------------------------------------------------------------------------
(* Reading on keeps what was read.                                         *)

(* What was read under a name is there, unless the reading has failed.      *)
Holding(t, x, v) == DOMAIN t = ReaderParts /\ (t.ok => x \in DOMAIN t.value /\ t.value[x] = v)

(* A reading that fails has read nothing that matters.                      *)
LEMMA HoldingFail ==
  ASSUME NEW x, NEW v, NEW t, Holding(t, x, v), NEW field
  PROVE  Holding(Fail(t, field), x, v) /\ ~Fail(t, field).ok
BY DEF Holding, Fail, ReaderParts

(* What is kept under other names leaves it.                                *)
LEMMA HoldingKeep ==
  ASSUME NEW x, NEW v, NEW t, Holding(t, x, v), NEW parts, x \notin DOMAIN parts
  PROVE  Holding(Keep(t, parts), x, v) /\ (Keep(t, parts).ok => t.ok)
<1>1. CASE ~t.ok
  BY <1>1 DEF Keep
<1>2. CASE t.ok
  <2> DEFINE w == With(parts, t.value)
  <2>1. x \in DOMAIN w /\ w[x] = v
    BY <1>2 DEF Holding, With
  <2> HIDE DEF w
  <2>2. Keep(t, parts) = [t EXCEPT !.value = w]
    BY <1>2 DEF Keep, w
  <2> QED
    BY <1>2, <2>1, <2>2 DEF Holding, ReaderParts
<1> QED
  BY <1>1, <1>2

(* What is kept under a name is there.                                      *)
LEMMA HoldingKept ==
  ASSUME NEW t, DOMAIN t = ReaderParts, NEW parts, NEW x \in DOMAIN parts
  PROVE  Holding(Keep(t, parts), x, parts[x]) /\ (Keep(t, parts).ok => t.ok)
<1>1. CASE ~t.ok
  BY <1>1 DEF Keep, Holding
<1>2. CASE t.ok
  <2> DEFINE w == With(parts, t.value)
  <2>1. x \in DOMAIN w /\ w[x] = parts[x]
    BY DEF With
  <2> HIDE DEF w
  <2>2. Keep(t, parts) = [t EXCEPT !.value = w]
    BY <1>2 DEF Keep, w
  <2> QED
    BY <1>2, <2>1, <2>2 DEF Holding, ReaderParts
<1> QED
  BY <1>1, <1>2

(* Going on in the records leaves what was read.                            *)
LEMMA HoldingRecord ==
  ASSUME NEW x, NEW v, NEW t, Holding(t, x, v)
  PROVE  /\ Holding(Advance(t), x, v) /\ Advance(t).ok = t.ok
         /\ \A field : Holding(NextRecord(t, field), x, v) /\ Holding(TextRecord(t, field), x, v)
         /\ \A field : Holding(Scalar(t, field), x, v)
         /\ \A most, field : Holding(Count(t, most, field), x, v)
         /\ \A n, field : Holding(ExactNumbers(t, n, field), x, v)
<1>1. Holding(Advance(t), x, v) /\ Advance(t).ok = t.ok
  BY DEF Holding, Advance, ReaderParts
<1>2. ASSUME NEW field PROVE Holding(NextRecord(t, field), x, v)
  <2>1. NextRecord(t, field) \in {t, Advance(t), Fail(t, field)}
    BY DEF NextRecord, Then
  <2> QED
    BY <1>1, <2>1, HoldingFail
<1>3. ASSUME NEW field PROVE Holding(TextRecord(t, field), x, v)
  <2>1. TextRecord(t, field) \in {NextRecord(t, field), Fail(NextRecord(t, field), field)}
    BY DEF TextRecord, Ensure
  <2> QED
    BY <1>2, <2>1, HoldingFail
<1>4. ASSUME NEW field PROVE Holding(Scalar(t, field), x, v)
  <2>1. Scalar(t, field) \in {TextRecord(t, field), Fail(TextRecord(t, field), field)}
    BY DEF Scalar, Ensure
  <2> QED
    BY <1>3, <2>1, HoldingFail
<1>5. ASSUME NEW most, NEW field PROVE Holding(Count(t, most, field), x, v)
  <2>1. Count(t, most, field) \in {Scalar(t, field), Fail(Scalar(t, field), field)}
    BY DEF Count, Between, Ensure
  <2> QED
    BY <1>4, <2>1, HoldingFail
<1>6. ASSUME NEW n, NEW field PROVE Holding(ExactNumbers(t, n, field), x, v)
  <2> DEFINE s == NextRecord(t, field)
             u == Ensure(s, LAMBDA a : Len(a.tokens) = n, field)
  <2>1. u \in {s, Fail(s, field)}
    BY DEF Ensure
  <2>2. ExactNumbers(t, n, field) \in {u, Fail(u, field)}
    BY DEF ExactNumbers, Exactly, AllNumeric, Ensure
  <2>3. Holding(s, x, v)
    BY <1>2
  <2> HIDE DEF s, u
  <2> QED
    BY <2>1, <2>2, <2>3, HoldingFail
<1> QED
  BY <1>1, <1>2, <1>3, <1>4, <1>5, <1>6

(* What a count is, when it has been read.                                  *)
LEMMA Counted ==
  ASSUME NEW t, DOMAIN t = ReaderParts, NEW most \in Nat \ {0}, NEW field, Count(t, most, field).ok
  PROVE  Num(Count(t, most, field), 1) \in Nat \ {0} /\ Num(Count(t, most, field), 1) <= most
         /\ Num(Count(t, most, field), 1) <= MaxVector
<1> DEFINE s == Scalar(t, field)
           up == IF most < MaxVector THEN most ELSE MaxVector
           i == Num(s, 1)
<1>1. Count(t, most, field) = Ensure(s, LAMBDA a : Num(a, 1) \in 1 .. up, field)
  BY DEF Count, Between
<1>2. DOMAIN s = ReaderParts
  <2>1. s \in {TextRecord(t, field), Fail(TextRecord(t, field), field)}
    BY DEF Scalar, Ensure
  <2>2. TextRecord(t, field) \in {NextRecord(t, field), Fail(NextRecord(t, field), field)}
    BY DEF TextRecord, Ensure
  <2>3. NextRecord(t, field) \in {t, Advance(t), Fail(t, field)}
    BY DEF NextRecord, Then
  <2>4. \A a, f : DOMAIN a = ReaderParts => DOMAIN Fail(a, f) = ReaderParts
    BY DEF Fail
  <2>5. DOMAIN Advance(t) = ReaderParts
    BY DEF Advance
  <2> HIDE DEF s
  <2> QED
    BY <2>1, <2>2, <2>3, <2>4, <2>5
<1>3. ~Fail(s, field).ok
  BY <1>2 DEF Fail, ReaderParts
<1> HIDE DEF s, up
<1>4. Count(t, most, field) = s /\ i \in 1 .. up
  BY <1>1, <1>3 DEF Ensure
<1>5. up \in Nat /\ up <= most /\ up <= MaxVector /\ MaxVector \in Nat
  BY KrakenInputAssumption DEF up
<1> HIDE DEF i
<1>6. i \in Nat \ {0} /\ i <= most /\ i <= MaxVector
  BY <1>4, <1>5
<1> QED
  BY <1>4, <1>6 DEF i

(* The fold of what a vector gathers has a solution.                        *)
GatherSolved(g, n, b, q, folded, count, field) ==
  /\ g[{}] = b
  /\ \A k \in 0 .. n - 1 : g[1 .. k + 1] = GatherMore(g[1 .. k], count, field)
  /\ folded = g[1 .. n]
LEMMA GatherFolded ==
  ASSUME NEW t, NEW count \in Nat, NEW field
  PROVE  \E g : GatherSolved(g, count, Keep(t, [vector |-> <<>>, closed |-> FALSE]), [i \in 1 .. count |-> i],
                             Vector(t, count, field), count, field)
<1> DEFINE n == count
           b == Keep(t, [vector |-> <<>>, closed |-> FALSE])
           q == [i \in 1 .. count |-> i]
           Go(a, i) == GatherMore(a, count, field)
           After(g, s) == IF s = {} THEN b ELSE Go(g[s \ {Max(s)}], Max(s))
           Solves(g, k) == g = [s \in SUBSET (1 .. k) |-> After(g, s)]
           S == {k \in Nat : \E g : Solves(g, k)}
           fold == CHOOSE g : Solves(g, n)
<1>1. Vector(t, count, field) = fold[1 .. n]
  BY DEF Vector, FoldLeft, MapThenFoldSet
<1> HIDE DEF Go, fold, b, q
<1>2. 0 \in S
  <2> DEFINE g == [s \in SUBSET (1 .. 0) |-> b]
  <2>1. \A s \in SUBSET (1 .. 0) : s = {}
    OBVIOUS
  <2>2. Solves(g, 0)
    BY <2>1
  <2> QED
    BY <2>2
<1>3. ASSUME NEW k \in Nat, k \in S PROVE k + 1 \in S
  <2>1. PICK g : Solves(g, k)
    BY <1>3
  <2> DEFINE h == [s \in SUBSET (1 .. k + 1) |-> IF k + 1 \in s THEN Go(g[s \ {k + 1}], k + 1) ELSE g[s]]
  <2>2. \A s \in SUBSET (1 .. k) : h[s] = g[s] /\ g[s] = After(g, s)
    <3>1. \A s \in SUBSET (1 .. k) : s \in SUBSET (1 .. k + 1) /\ k + 1 \notin s
      OBVIOUS
    <3> HIDE DEF After
    <3> QED
      BY <2>1, <3>1
  <2>3. \A s \in SUBSET (1 .. k + 1) : h[s] = IF k + 1 \in s THEN Go(g[s \ {k + 1}], k + 1) ELSE g[s]
    OBVIOUS
  <2>4. h = [s \in SUBSET (1 .. k + 1) |-> h[s]]
    OBVIOUS
  <2> HIDE DEF h
  <2>5. ASSUME NEW s \in SUBSET (1 .. k + 1) PROVE h[s] = After(h, s)
    <3>1. CASE k + 1 \in s
      <4>1. Max(s) = k + 1 /\ s \ {k + 1} \in SUBSET (1 .. k) /\ s # {}
        BY <3>1, Peeled
      <4> QED
        BY <2>2, <2>3, <3>1, <4>1
    <3>2. CASE k + 1 \notin s
      <4>1. s \in SUBSET (1 .. k) /\ (s # {} => s \ {Max(s)} \in SUBSET (1 .. k))
        BY <3>2, Peeled
      <4> QED
        BY <2>2, <4>1
    <3> QED
      BY <3>1, <3>2
  <2>6. h = [s \in SUBSET (1 .. k + 1) |-> After(h, s)]
    <3> HIDE DEF After
    <3> QED
      BY <2>4, <2>5
  <2>7. Solves(h, k + 1)
    BY <2>6
  <2> HIDE DEF Solves
  <2> QED
    BY <2>7
<1>4. n \in S
  <2> HIDE DEF S
  <2> QED
    BY <1>2, <1>3, SetInduction
<1>5. Solves(fold, n)
  <2>1. \E g : Solves(g, n)
    BY <1>4
  <2> HIDE DEF Solves
  <2> QED
    BY <2>1 DEF fold
<1>6. \A s \in SUBSET (1 .. n) : fold[s] = After(fold, s)
  <2> HIDE DEF After
  <2> QED
    BY <1>5
<1>7. fold[{}] = b
  BY <1>6
<1>8. ASSUME NEW k \in 0 .. n - 1
      PROVE  fold[1 .. k + 1] = Go(fold[1 .. k], k + 1)
  <2>1. k \in Nat /\ 1 .. k + 1 \in SUBSET (1 .. n)
    OBVIOUS
  <2>2. 1 .. k + 1 # {} /\ Max(1 .. k + 1) = k + 1 /\ (1 .. k + 1) \ {k + 1} = 1 .. k
    BY <2>1, Prefix
  <2>3. fold[1 .. k + 1] = After(fold, 1 .. k + 1)
    BY <1>6, <2>1
  <2> QED
    BY <2>2, <2>3
<1> QED
  BY <1>1, <1>7, <1>8 DEF Go, b, q, GatherSolved

(* A vector is all that is read of a vector, and its parts are not of what *)
(* was read before.                                                         *)
VectorParts == {"vector", "closed"}
LEMMA HoldingVector ==
  ASSUME NEW x, NEW v, x \notin VectorParts, NEW t, Holding(t, x, v), NEW count \in Nat, NEW field
  PROVE  Holding(Vector(t, count, field), x, v)
<1> DEFINE b == Keep(t, [vector |-> <<>>, closed |-> FALSE])
           q == [i \in 1 .. count |-> i]
           Good(s) == Holding(s, x, v) /\ Holding(s, "closed", s.value.closed) /\ Holding(s, "vector", s.value.vector)
<1>1. Good(b)
  <2> DEFINE parts == [vector |-> <<>>, closed |-> FALSE]
  <2>1. x \notin DOMAIN parts /\ "vector" \in DOMAIN parts /\ "closed" \in DOMAIN parts
    BY DEF VectorParts
  <2>2. DOMAIN t = ReaderParts
    BY DEF Holding
  <2> HIDE DEF parts
  <2>3. Holding(Keep(t, parts), x, v) /\ Holding(Keep(t, parts), "vector", parts["vector"])
        /\ Holding(Keep(t, parts), "closed", parts["closed"])
    BY <2>1, <2>2, HoldingKeep, HoldingKept
  <2>4. b = Keep(t, parts)
    BY DEF parts
  <2> HIDE DEF b
  <2> QED
    BY <2>3, <2>4 DEF Holding
<1>2. ASSUME NEW s, Good(s) PROVE Good(GatherMore(s, count, field))
  <2>1. DOMAIN s = ReaderParts /\ ~Fail(s, field).ok /\ Good(Fail(s, field)) 
    BY <1>2 DEF Holding, Fail, ReaderParts
  <2>2. CASE GatherMore(s, count, field) = s
    BY <1>2, <2>2
  <2>3. CASE GatherMore(s, count, field) = Fail(s, field)
    BY <2>1, <2>3
  <2>4. CASE s.ok /\ GatherMore(s, count, field) = GatherNext(Advance(s), count, field)
    <3> DEFINE a == Advance(s)
               taken == SubSeq(a.tokens, 1, Least(Len(a.tokens), count - Len(a.value.vector)))
    <3>1. a.ok /\ a.value = s.value /\ DOMAIN a = ReaderParts
      BY <2>1, <2>4 DEF Advance, ReaderParts
    <3>2. {x, "closed", "vector"} \subseteq DOMAIN a.value /\ a.value[x] = v
      BY <1>2, <2>4, <3>1 DEF Holding
    <3>3. GatherNext(a, count, field) = Gather(a, taken, field)
      BY DEF GatherNext
    <3> HIDE DEF taken, a
    <3>4. CASE Gather(a, taken, field) = Fail(a, field)
      <4>1. DOMAIN Fail(a, field) = ReaderParts /\ ~Fail(a, field).ok
        BY <3>1 DEF Fail, ReaderParts
      <4> QED
        BY <2>4, <3>3, <3>4, <4>1 DEF Holding, a
    <3>5. CASE Gather(a, taken, field) # Fail(a, field)
      <4> DEFINE longer == a.value.vector \o taken
                 parts == [vector |-> longer, closed |-> a.slash]
      <4>1. Gather(a, taken, field) = Keep(a, parts)
        BY <3>5 DEF Gather
      <4>2. x \notin DOMAIN parts /\ "vector" \in DOMAIN parts /\ "closed" \in DOMAIN parts
        BY DEF VectorParts
      <4> HIDE DEF parts
      <4>3. Holding(a, x, v)
        BY <3>1, <3>2 DEF Holding
      <4>4. Holding(Keep(a, parts), x, v) /\ Holding(Keep(a, parts), "vector", parts["vector"])
            /\ Holding(Keep(a, parts), "closed", parts["closed"])
        BY <3>1, <4>2, <4>3, HoldingKeep, HoldingKept
      <4>5. Good(Gather(a, taken, field))
        BY <4>1, <4>4 DEF Holding
      <4> QED
        BY <2>4, <3>3, <4>5 DEF a
    <3> QED
      BY <3>4, <3>5
  <2> QED
    BY <2>2, <2>3, <2>4 DEF GatherMore
<1>3. PICK g : GatherSolved(g, count, b, q, Vector(t, count, field), count, field)
  BY GatherFolded
<1> HIDE DEF b, Good
<1> DEFINE S == {k \in Nat : k <= count => Good(g[1 .. k])}
<1>4. 0 \in S
  <2>1. 1 .. 0 = {}
    OBVIOUS
  <2> QED
    BY <1>1, <1>3, <2>1 DEF GatherSolved
<1>5. ASSUME NEW k \in Nat, k \in S PROVE k + 1 \in S
  <2>1. CASE k + 1 <= count
    <3>1. k \in 0 .. count - 1 /\ k <= count
      BY <2>1
    <3>2. g[1 .. k + 1] = GatherMore(g[1 .. k], count, field)
      BY <1>3, <3>1 DEF GatherSolved
    <3> QED
      BY <1>2, <1>5, <3>1, <3>2
  <2> QED
    BY <2>1
<1>6. count \in S
  <2> HIDE DEF S
  <2> QED
    BY <1>4, <1>5, SetInduction
<1> QED
  BY <1>3, <1>6 DEF GatherSolved, Good

(* The numbers of a vector are kept under its name, as many as there are.   *)
LEMMA HoldingValues ==
  ASSUME NEW t, NEW y, NEW w, y \notin VectorParts, Holding(t, y, w),
         NEW count \in Nat, NEW name, NEW field
  PROVE  /\ y # name => Holding(VectorValues(t, count, name, field), y, w)
         /\ VectorValues(t, count, name, field).ok =>
              /\ DOMAIN VectorValues(t, count, name, field) = ReaderParts
              /\ name \in DOMAIN VectorValues(t, count, name, field).value
              /\ DOMAIN VectorValues(t, count, name, field).value[name] = 1 .. count
<1> DEFINE s == Vector(t, count, field)
           u == Ensure(s, LAMBDA a : Expandable(Len(a.value.vector), count), field)
           parts == Named(name, Spread(u.value.vector, count))
<1>1. Holding(u, y, w)
  <2>1. u \in {s, Fail(s, field)}
    BY DEF Ensure
  <2>2. Holding(s, y, w)
    BY HoldingVector
  <2> HIDE DEF s, u
  <2> QED
    BY <2>1, <2>2, HoldingFail
<1>2. VectorValues(t, count, name, field) = IF u.ok THEN Keep(u, parts) ELSE u
  BY DEF VectorValues, Then
<1>3. DOMAIN parts = {name} /\ DOMAIN parts[name] = 1 .. count
  BY DEF Named, Spread
<1> HIDE DEF u, parts
<1>4. y # name => Holding(Keep(u, parts), y, w)
  BY <1>1, <1>3, HoldingKeep
<1>5. Holding(Keep(u, parts), name, parts[name])
  BY <1>1, <1>3, HoldingKept DEF Holding
<1> QED
  BY <1>1, <1>2, <1>3, <1>4, <1>5 DEF Holding

(* A vector that is read leaves what has another name, and has its numbers. *)
LEMMA HoldingRead ==
  ASSUME NEW t, NEW y, NEW w, y \notin VectorParts, Holding(t, y, w), NEW name, NEW field
  PROVE  /\ y # name => Holding(ReadVector(t, name, field), y, w)
         /\ ReadVector(t, name, field).ok =>
              \E n \in 1 .. MaxVector :
                /\ DOMAIN ReadVector(t, name, field) = ReaderParts
                /\ name \in DOMAIN ReadVector(t, name, field).value
                /\ DOMAIN ReadVector(t, name, field).value[name] = 1 .. n
<1> DEFINE c == Count(t, MaxVector, field)
           n == Num(c, 1)
           s == VectorValues(c, n, name, field)
           parts == Named(name, Arranged(s.value[name]))
<1>1. MaxVector \in Nat \ {0}
  BY KrakenInputAssumption
<1>2. Holding(c, y, w) /\ (c.ok => n \in Nat \ {0} /\ n <= MaxVector)
  BY <1>1, HoldingRecord, Counted DEF Holding
<1>3. ReadVector(t, name, field) = IF c.ok THEN IF s.ok THEN Keep(s, parts) ELSE s ELSE c
  BY DEF ReadVector, Then, Sorted
<1>4. CASE ~c.ok
  BY <1>2, <1>3, <1>4
<1>5. CASE c.ok
  <2>1. n \in Nat /\ n \in 1 .. MaxVector
    BY <1>1, <1>2, <1>5
  <2> HIDE DEF c, n
  <2>2. /\ y # name => Holding(s, y, w)
        /\ s.ok => DOMAIN s = ReaderParts /\ name \in DOMAIN s.value /\ DOMAIN s.value[name] = 1 .. n
    BY <1>2, <2>1, HoldingValues
  <2>3. DOMAIN parts = {name} /\ DOMAIN parts[name] = DOMAIN s.value[name]
    BY DEF Named, Arranged
  <2> HIDE DEF s, parts
  <2>4. y # name /\ s.ok => Holding(Keep(s, parts), y, w)
    BY <2>2, <2>3, HoldingKeep
  <2>5. s.ok => Holding(Keep(s, parts), name, parts[name])
    BY <2>2, <2>3, HoldingKept
  <2> QED
    BY <1>3, <1>5, <2>1, <2>2, <2>3, <2>4, <2>5 DEF Holding
<1> QED
  BY <1>4, <1>5

-----------------------------------------------------------------------------
(* The title, the water and the surface leave the number of media.          *)

(* The folds of the layers, of the points and of the media have solutions.  *)
LayersSolved(g, n, b, q, folded) ==
  /\ g[{}] = b
  /\ \A k \in 0 .. n - 1 : g[1 .. k + 1] = ReadBiological(g[1 .. k], q[k + 1])
  /\ folded = g[1 .. n]
LEMMA LayersFolded ==
  ASSUME NEW n \in Nat, NEW b, NEW q, DOMAIN q = 1 .. n
  PROVE  \E g : LayersSolved(g, n, b, q, FoldLeft(ReadBiological, b, q))
<1> DEFINE Go(a, i) == ReadBiological(a, q[i])
           After(g, s) == IF s = {} THEN b ELSE Go(g[s \ {Max(s)}], Max(s))
           Solves(g, k) == g = [s \in SUBSET (1 .. k) |-> After(g, s)]
           S == {k \in Nat : \E g : Solves(g, k)}
           fold == CHOOSE g : Solves(g, n)
<1>1. FoldLeft(ReadBiological, b, q) = fold[1 .. n]
  BY DEF FoldLeft, MapThenFoldSet
<1> HIDE DEF Go, fold
<1>2. 0 \in S
  <2> DEFINE g == [s \in SUBSET (1 .. 0) |-> b]
  <2>1. \A s \in SUBSET (1 .. 0) : s = {}
    OBVIOUS
  <2>2. Solves(g, 0)
    BY <2>1
  <2> QED
    BY <2>2
<1>3. ASSUME NEW k \in Nat, k \in S PROVE k + 1 \in S
  <2>1. PICK g : Solves(g, k)
    BY <1>3
  <2> DEFINE h == [s \in SUBSET (1 .. k + 1) |-> IF k + 1 \in s THEN Go(g[s \ {k + 1}], k + 1) ELSE g[s]]
  <2>2. \A s \in SUBSET (1 .. k) : h[s] = g[s] /\ g[s] = After(g, s)
    <3>1. \A s \in SUBSET (1 .. k) : s \in SUBSET (1 .. k + 1) /\ k + 1 \notin s
      OBVIOUS
    <3> HIDE DEF After
    <3> QED
      BY <2>1, <3>1
  <2>3. \A s \in SUBSET (1 .. k + 1) : h[s] = IF k + 1 \in s THEN Go(g[s \ {k + 1}], k + 1) ELSE g[s]
    OBVIOUS
  <2>4. h = [s \in SUBSET (1 .. k + 1) |-> h[s]]
    OBVIOUS
  <2> HIDE DEF h
  <2>5. ASSUME NEW s \in SUBSET (1 .. k + 1) PROVE h[s] = After(h, s)
    <3>1. CASE k + 1 \in s
      <4>1. Max(s) = k + 1 /\ s \ {k + 1} \in SUBSET (1 .. k) /\ s # {}
        BY <3>1, Peeled
      <4> QED
        BY <2>2, <2>3, <3>1, <4>1
    <3>2. CASE k + 1 \notin s
      <4>1. s \in SUBSET (1 .. k) /\ (s # {} => s \ {Max(s)} \in SUBSET (1 .. k))
        BY <3>2, Peeled
      <4> QED
        BY <2>2, <4>1
    <3> QED
      BY <3>1, <3>2
  <2>6. h = [s \in SUBSET (1 .. k + 1) |-> After(h, s)]
    <3> HIDE DEF After
    <3> QED
      BY <2>4, <2>5
  <2>7. Solves(h, k + 1)
    BY <2>6
  <2> HIDE DEF Solves
  <2> QED
    BY <2>7
<1>4. n \in S
  <2> HIDE DEF S
  <2> QED
    BY <1>2, <1>3, SetInduction
<1>5. Solves(fold, n)
  <2>1. \E g : Solves(g, n)
    BY <1>4
  <2> HIDE DEF Solves
  <2> QED
    BY <2>1 DEF fold
<1>6. \A s \in SUBSET (1 .. n) : fold[s] = After(fold, s)
  <2> HIDE DEF After
  <2> QED
    BY <1>5
<1>7. fold[{}] = b
  BY <1>6
<1>8. ASSUME NEW k \in 0 .. n - 1
      PROVE  fold[1 .. k + 1] = Go(fold[1 .. k], k + 1)
  <2>1. k \in Nat /\ 1 .. k + 1 \in SUBSET (1 .. n)
    OBVIOUS
  <2>2. 1 .. k + 1 # {} /\ Max(1 .. k + 1) = k + 1 /\ (1 .. k + 1) \ {k + 1} = 1 .. k
    BY <2>1, Prefix
  <2>3. fold[1 .. k + 1] = After(fold, 1 .. k + 1)
    BY <1>6, <2>1
  <2> QED
    BY <2>2, <2>3
<1> QED
  BY <1>1, <1>7, <1>8 DEF Go, LayersSolved


PointsSolved(g, n, b, q, folded) ==
  /\ g[{}] = b
  /\ \A k \in 0 .. n - 1 : g[1 .. k + 1] = ReadNextPoint(g[1 .. k], q[k + 1])
  /\ folded = g[1 .. n]
LEMMA PointsFolded ==
  ASSUME NEW n \in Nat, NEW b, NEW q, DOMAIN q = 1 .. n
  PROVE  \E g : PointsSolved(g, n, b, q, FoldLeft(ReadNextPoint, b, q))
<1> DEFINE Go(a, i) == ReadNextPoint(a, q[i])
           After(g, s) == IF s = {} THEN b ELSE Go(g[s \ {Max(s)}], Max(s))
           Solves(g, k) == g = [s \in SUBSET (1 .. k) |-> After(g, s)]
           S == {k \in Nat : \E g : Solves(g, k)}
           fold == CHOOSE g : Solves(g, n)
<1>1. FoldLeft(ReadNextPoint, b, q) = fold[1 .. n]
  BY DEF FoldLeft, MapThenFoldSet
<1> HIDE DEF Go, fold
<1>2. 0 \in S
  <2> DEFINE g == [s \in SUBSET (1 .. 0) |-> b]
  <2>1. \A s \in SUBSET (1 .. 0) : s = {}
    OBVIOUS
  <2>2. Solves(g, 0)
    BY <2>1
  <2> QED
    BY <2>2
<1>3. ASSUME NEW k \in Nat, k \in S PROVE k + 1 \in S
  <2>1. PICK g : Solves(g, k)
    BY <1>3
  <2> DEFINE h == [s \in SUBSET (1 .. k + 1) |-> IF k + 1 \in s THEN Go(g[s \ {k + 1}], k + 1) ELSE g[s]]
  <2>2. \A s \in SUBSET (1 .. k) : h[s] = g[s] /\ g[s] = After(g, s)
    <3>1. \A s \in SUBSET (1 .. k) : s \in SUBSET (1 .. k + 1) /\ k + 1 \notin s
      OBVIOUS
    <3> HIDE DEF After
    <3> QED
      BY <2>1, <3>1
  <2>3. \A s \in SUBSET (1 .. k + 1) : h[s] = IF k + 1 \in s THEN Go(g[s \ {k + 1}], k + 1) ELSE g[s]
    OBVIOUS
  <2>4. h = [s \in SUBSET (1 .. k + 1) |-> h[s]]
    OBVIOUS
  <2> HIDE DEF h
  <2>5. ASSUME NEW s \in SUBSET (1 .. k + 1) PROVE h[s] = After(h, s)
    <3>1. CASE k + 1 \in s
      <4>1. Max(s) = k + 1 /\ s \ {k + 1} \in SUBSET (1 .. k) /\ s # {}
        BY <3>1, Peeled
      <4> QED
        BY <2>2, <2>3, <3>1, <4>1
    <3>2. CASE k + 1 \notin s
      <4>1. s \in SUBSET (1 .. k) /\ (s # {} => s \ {Max(s)} \in SUBSET (1 .. k))
        BY <3>2, Peeled
      <4> QED
        BY <2>2, <4>1
    <3> QED
      BY <3>1, <3>2
  <2>6. h = [s \in SUBSET (1 .. k + 1) |-> After(h, s)]
    <3> HIDE DEF After
    <3> QED
      BY <2>4, <2>5
  <2>7. Solves(h, k + 1)
    BY <2>6
  <2> HIDE DEF Solves
  <2> QED
    BY <2>7
<1>4. n \in S
  <2> HIDE DEF S
  <2> QED
    BY <1>2, <1>3, SetInduction
<1>5. Solves(fold, n)
  <2>1. \E g : Solves(g, n)
    BY <1>4
  <2> HIDE DEF Solves
  <2> QED
    BY <2>1 DEF fold
<1>6. \A s \in SUBSET (1 .. n) : fold[s] = After(fold, s)
  <2> HIDE DEF After
  <2> QED
    BY <1>5
<1>7. fold[{}] = b
  BY <1>6
<1>8. ASSUME NEW k \in 0 .. n - 1
      PROVE  fold[1 .. k + 1] = Go(fold[1 .. k], k + 1)
  <2>1. k \in Nat /\ 1 .. k + 1 \in SUBSET (1 .. n)
    OBVIOUS
  <2>2. 1 .. k + 1 # {} /\ Max(1 .. k + 1) = k + 1 /\ (1 .. k + 1) \ {k + 1} = 1 .. k
    BY <2>1, Prefix
  <2>3. fold[1 .. k + 1] = After(fold, 1 .. k + 1)
    BY <1>6, <2>1
  <2> QED
    BY <2>2, <2>3
<1> QED
  BY <1>1, <1>7, <1>8 DEF Go, PointsSolved


MediaSolved(g, n, b, q, folded) ==
  /\ g[{}] = b
  /\ \A k \in 0 .. n - 1 : g[1 .. k + 1] = ReadMedium(g[1 .. k], q[k + 1])
  /\ folded = g[1 .. n]
LEMMA MediaFolded ==
  ASSUME NEW n \in Nat, NEW b, NEW q, DOMAIN q = 1 .. n
  PROVE  \E g : MediaSolved(g, n, b, q, FoldLeft(ReadMedium, b, q))
<1> DEFINE Go(a, i) == ReadMedium(a, q[i])
           After(g, s) == IF s = {} THEN b ELSE Go(g[s \ {Max(s)}], Max(s))
           Solves(g, k) == g = [s \in SUBSET (1 .. k) |-> After(g, s)]
           S == {k \in Nat : \E g : Solves(g, k)}
           fold == CHOOSE g : Solves(g, n)
<1>1. FoldLeft(ReadMedium, b, q) = fold[1 .. n]
  BY DEF FoldLeft, MapThenFoldSet
<1> HIDE DEF Go, fold
<1>2. 0 \in S
  <2> DEFINE g == [s \in SUBSET (1 .. 0) |-> b]
  <2>1. \A s \in SUBSET (1 .. 0) : s = {}
    OBVIOUS
  <2>2. Solves(g, 0)
    BY <2>1
  <2> QED
    BY <2>2
<1>3. ASSUME NEW k \in Nat, k \in S PROVE k + 1 \in S
  <2>1. PICK g : Solves(g, k)
    BY <1>3
  <2> DEFINE h == [s \in SUBSET (1 .. k + 1) |-> IF k + 1 \in s THEN Go(g[s \ {k + 1}], k + 1) ELSE g[s]]
  <2>2. \A s \in SUBSET (1 .. k) : h[s] = g[s] /\ g[s] = After(g, s)
    <3>1. \A s \in SUBSET (1 .. k) : s \in SUBSET (1 .. k + 1) /\ k + 1 \notin s
      OBVIOUS
    <3> HIDE DEF After
    <3> QED
      BY <2>1, <3>1
  <2>3. \A s \in SUBSET (1 .. k + 1) : h[s] = IF k + 1 \in s THEN Go(g[s \ {k + 1}], k + 1) ELSE g[s]
    OBVIOUS
  <2>4. h = [s \in SUBSET (1 .. k + 1) |-> h[s]]
    OBVIOUS
  <2> HIDE DEF h
  <2>5. ASSUME NEW s \in SUBSET (1 .. k + 1) PROVE h[s] = After(h, s)
    <3>1. CASE k + 1 \in s
      <4>1. Max(s) = k + 1 /\ s \ {k + 1} \in SUBSET (1 .. k) /\ s # {}
        BY <3>1, Peeled
      <4> QED
        BY <2>2, <2>3, <3>1, <4>1
    <3>2. CASE k + 1 \notin s
      <4>1. s \in SUBSET (1 .. k) /\ (s # {} => s \ {Max(s)} \in SUBSET (1 .. k))
        BY <3>2, Peeled
      <4> QED
        BY <2>2, <4>1
    <3> QED
      BY <3>1, <3>2
  <2>6. h = [s \in SUBSET (1 .. k + 1) |-> After(h, s)]
    <3> HIDE DEF After
    <3> QED
      BY <2>4, <2>5
  <2>7. Solves(h, k + 1)
    BY <2>6
  <2> HIDE DEF Solves
  <2> QED
    BY <2>7
<1>4. n \in S
  <2> HIDE DEF S
  <2> QED
    BY <1>2, <1>3, SetInduction
<1>5. Solves(fold, n)
  <2>1. \E g : Solves(g, n)
    BY <1>4
  <2> HIDE DEF Solves
  <2> QED
    BY <2>1 DEF fold
<1>6. \A s \in SUBSET (1 .. n) : fold[s] = After(fold, s)
  <2> HIDE DEF After
  <2> QED
    BY <1>5
<1>7. fold[{}] = b
  BY <1>6
<1>8. ASSUME NEW k \in 0 .. n - 1
      PROVE  fold[1 .. k + 1] = Go(fold[1 .. k], k + 1)
  <2>1. k \in Nat /\ 1 .. k + 1 \in SUBSET (1 .. n)
    OBVIOUS
  <2>2. 1 .. k + 1 # {} /\ Max(1 .. k + 1) = k + 1 /\ (1 .. k + 1) \ {k + 1} = 1 .. k
    BY <2>1, Prefix
  <2>3. fold[1 .. k + 1] = After(fold, 1 .. k + 1)
    BY <1>6, <2>1
  <2> QED
    BY <2>2, <2>3
<1> QED
  BY <1>1, <1>7, <1>8 DEF Go, MediaSolved

(* Layers of marine life are another matter than the number of media.       *)
LEMMA HoldingLayers ==
  ASSUME NEW x, NEW v, x # "volume", NEW b, Holding(b, x, v), NEW n \in Nat, NEW q, DOMAIN q = 1 .. n
  PROVE  Holding(FoldLeft(ReadBiological, b, q), x, v)
<1> DEFINE Good(s) == Holding(s, x, v)
<1>1. ASSUME NEW s, NEW i, Good(s) PROVE Good(ReadBiological(s, i))
  <2> DEFINE a == ExactNumbers(s, 5, "bio_layers")
             part == [volume |-> Append(a.value.volume, <<Num(a, 1), Num(a, 2), Num(a, 5)>>)]
  <2>1. Good(a)
    BY <1>1, HoldingRecord
  <2>2. ~Fail(a, "bio_layers").ok /\ Good(Fail(a, "bio_layers"))
    BY <2>1, HoldingFail
  <2>3. KeepLayer(a) = Keep(a, part) /\ x \notin DOMAIN part
    BY DEF KeepLayer
  <2> HIDE DEF part
  <2>4. Good(KeepLayer(a))
    BY <2>1, <2>3, HoldingKeep
  <2>5. ReadBiological(s, i) \in {a, Fail(a, "bio_layers"), KeepLayer(a)}
    <3> DEFINE e == Ensure(a, LAMBDA z : /\ 0 <= Num(z, 1) /\ Num(z, 1) <= Num(z, 2)
                         /\ Num(z, 3) > 0 /\ Num(z, 4) > 0 /\ Num(z, 5) >= 0, "bio_layers")
    <3>1. e \in {a, Fail(a, "bio_layers")}
      BY DEF Ensure
    <3>2. ReadBiological(s, i) = IF e.ok THEN KeepLayer(e) ELSE e
      BY DEF ReadBiological, Then
    <3> HIDE DEF e, a
    <3> QED
      BY <2>2, <3>1, <3>2
  <2> HIDE DEF a, Good
  <2> QED
    BY <2>1, <2>2, <2>4, <2>5
<1>2. Good(b)
  OBVIOUS
<1> HIDE DEF Good
<1>3. Good(FoldLeft(ReadBiological, b, q))
<2>1. PICK g : LayersSolved(g, n, b, q, FoldLeft(ReadBiological, b, q))
  BY LayersFolded
<2> DEFINE S == {k \in Nat : k <= n => Good(g[1 .. k])}
<2>2. 0 \in S
  <3>1. 1 .. 0 = {}
    OBVIOUS
  <3> QED
    BY <1>2, <2>1, <3>1 DEF LayersSolved
<2>3. ASSUME NEW k \in Nat, k \in S PROVE k + 1 \in S
  <3>1. CASE k + 1 <= n
    <4>1. k \in 0 .. n - 1 /\ k <= n
      BY <3>1
    <4>2. g[1 .. k + 1] = ReadBiological(g[1 .. k], q[k + 1])
      BY <2>1, <4>1 DEF LayersSolved
    <4> QED
      BY <1>1, <2>3, <4>1, <4>2
  <3> QED
    BY <3>1
<2>4. n \in S
  <3> HIDE DEF S
  <3> QED
    BY <2>2, <2>3, SetInduction
<2> QED
  BY <2>1, <2>4 DEF LayersSolved
<1> QED
  BY <1>3 DEF Good

(* The title says how many media there are.                                 *)
LEMMA HoldingTitle ==
  ASSUME NEW t, DOMAIN t = ReaderParts, NEW solver
  PROVE  \E n \in Nat : Holding(ReadTitle(t, solver), "count", n)
<1> DEFINE a == Then(Scalar(TextRecord(t, "title"), "frequency_hz"), KeepFrequency)
           c == Count(a, MaxLayers, "medium_count")
           n == Num(c, 1)
           e == Ensure(TextRecord(c, "top_options"),
                       LAMBDA s : OptionsAllowed(s.tokens[1], solver) /\ Single(s.tokens[1], n), "top_options")
           part == [options |-> e.tokens[1], count |-> n]
<1>1. \A s : DOMAIN s = ReaderParts =>
         \A field : DOMAIN TextRecord(s, field) = ReaderParts /\ DOMAIN Scalar(s, field) = ReaderParts
  <2> SUFFICES ASSUME NEW s, DOMAIN s = ReaderParts, NEW field
               PROVE  DOMAIN TextRecord(s, field) = ReaderParts /\ DOMAIN Scalar(s, field) = ReaderParts
    OBVIOUS
  <2>1. \A u, f : DOMAIN u = ReaderParts => DOMAIN Fail(u, f) = ReaderParts /\ DOMAIN Advance(u) = ReaderParts
    BY DEF Fail, Advance
  <2>2. NextRecord(s, field) \in {s, Advance(s), Fail(s, field)}
    BY DEF NextRecord, Then
  <2>3. TextRecord(s, field) \in {NextRecord(s, field), Fail(NextRecord(s, field), field)}
    BY DEF TextRecord, Ensure
  <2>4. Scalar(s, field) \in {TextRecord(s, field), Fail(TextRecord(s, field), field)}
    BY DEF Scalar, Ensure
  <2> QED
    BY <2>1, <2>2, <2>3, <2>4
<1>2. DOMAIN a = ReaderParts
  <2> DEFINE s == Scalar(TextRecord(t, "title"), "frequency_hz")
             w == With([frequency |-> Num(s, 1)], s.value)
  <2>1. DOMAIN s = ReaderParts
    BY <1>1
  <2>2. a \in {s, [s EXCEPT !.value = w]}
    BY DEF Then, KeepFrequency, Keep
  <2> HIDE DEF a, s, w
  <2> QED
    BY <2>1, <2>2
<1>3. DOMAIN c = ReaderParts /\ (c.ok => n \in Nat)
  <2>1. c \in {Scalar(a, "medium_count"), Fail(Scalar(a, "medium_count"), "medium_count")}
    BY DEF Count, Between, Ensure
  <2>2. \A u, f : DOMAIN u = ReaderParts => DOMAIN Fail(u, f) = ReaderParts
    BY DEF Fail
  <2>3. MaxLayers \in Nat \ {0}
    BY KrakenInputAssumption
  <2> HIDE DEF a
  <2>4. c.ok => n \in Nat
    BY <1>2, <2>3, Counted
  <2> HIDE DEF c
  <2> QED
    BY <1>1, <1>2, <2>1, <2>2, <2>4
<1>4. ReadTitle(t, solver) = IF c.ok THEN IF e.ok THEN Keep(e, part) ELSE e ELSE c
  BY DEF ReadTitle, ReadTop, Then, KeepTop
<1>5. DOMAIN e = ReaderParts
  <2>1. \A u, f : DOMAIN u = ReaderParts => DOMAIN Fail(u, f) = ReaderParts
    BY DEF Fail
  <2>2. e \in {TextRecord(c, "top_options"), Fail(TextRecord(c, "top_options"), "top_options")}
    BY DEF Ensure
  <2> HIDE DEF e, c
  <2> QED
    BY <1>1, <1>3, <2>1, <2>2
<1>6. "count" \in DOMAIN part /\ part["count"] = n
  OBVIOUS
<1> HIDE DEF c, e, n, part
<1>7. Holding(Keep(e, part), "count", n)
  BY <1>5, <1>6, HoldingKept
<1>8. CASE c.ok
  <2>1. Holding(ReadTitle(t, solver), "count", n)
    BY <1>4, <1>5, <1>7, <1>8 DEF Holding
  <2> QED
    BY <1>3, <1>8, <2>1
<1>9. CASE ~c.ok
  <2>1. Holding(ReadTitle(t, solver), "count", 0)
    BY <1>3, <1>4, <1>9 DEF Holding
  <2> QED
    BY <2>1
<1> QED
  BY <1>8, <1>9

(* What is lost in the water is another matter than their number.           *)
LEMMA HoldingWater ==
  ASSUME NEW x, NEW v, x # "volume", NEW t, Holding(t, x, v)
  PROVE  Holding(ReadWaterLoss(t), x, v)
<1> DEFINE part == [volume |-> <<>>]
<1>1. x \notin DOMAIN part
  OBVIOUS
<1> HIDE DEF part
<1>2. \A s : Holding(s, x, v) => Holding(Keep(s, part), x, v)
  BY <1>1, HoldingKeep
<1>3. Holding(ReadVolume(t), x, v)
  <2>1. Holding(ReadFrancois(Keep(t, part)), x, v)
    <3> DEFINE s == ExactNumbers(Keep(t, part), 4, "volume_attenuation")
    <3>1. Holding(s, x, v)
      BY <1>2, HoldingRecord
    <3>2. ReadFrancois(Keep(t, part)) \in {s, Fail(s, "volume_attenuation")}
      BY DEF ReadFrancois, Ensure
    <3> HIDE DEF s
    <3> QED
      BY <3>1, <3>2, HoldingFail
  <2>2. Holding(ReadLayers(Count(t, MaxBiological, "bio_layers.count")), x, v)
    <3> DEFINE c == Count(t, MaxBiological, "bio_layers.count")
               n == IF c.ok THEN Num(c, 1) ELSE 0
    <3>1. Holding(c, x, v)
      BY HoldingRecord
    <3>2. n \in Nat
      <4>1. MaxBiological \in Nat \ {0} /\ DOMAIN t = ReaderParts
        BY KrakenInputAssumption DEF Holding
      <4>2. c.ok => Num(c, 1) \in Nat
        BY <4>1, Counted
      <4> QED
        BY <4>2
    <3> HIDE DEF c
    <3>3. DOMAIN Counting(c) = 1 .. n
      BY DEF Counting
    <3> HIDE DEF n
    <3>4. Holding(FoldLeft(ReadBiological, Keep(c, part), Counting(c)), x, v)
      BY <1>2, <3>1, <3>2, <3>3, HoldingLayers
    <3> QED
      BY <3>4 DEF ReadLayers, part, c
  <2>3. ReadVolume(t) \in {ReadFrancois(Keep(t, part)), Keep(t, part),
                            ReadLayers(Count(t, MaxBiological, "bio_layers.count"))}
    BY DEF ReadVolume, part
  <2>4. Holding(Keep(t, part), x, v)
    BY <1>2
  <2> QED
    BY <2>1, <2>2, <2>3, <2>4
<1>4. ReadWaterLoss(t) \in {t, Fail(t, "top_options"), ReadVolume(t), Fail(ReadVolume(t), "top_options")}
  BY DEF ReadWaterLoss, Then, Ensure
<1> QED
  BY <1>3, <1>4, HoldingFail

(* A half-space leaves what was read before it.                             *)
LEMMA HoldingPoint ==
  ASSUME NEW x, NEW v, x # "point", NEW t, Holding(t, x, v), NEW least, NEW defaults, NEW field
  PROVE  /\ Holding(ReadPoint(t, least, defaults, field), x, v)
         /\ \A depth : Holding(ReadHalfSpace(t, field, depth, defaults, least), x, v)
<1> DEFINE s == NextRecord(t, field)
           e == Ensure(s, LAMBDA z : Partial(z, least), field)
           u == AllNumeric(e, field)
           part == [point |-> Inherit(defaults, u.tokens)]
<1>1. Holding(s, x, v)
  BY HoldingRecord
<1>2. e \in {s, Fail(s, field)}
  BY DEF Ensure
<1>3. u \in {e, Fail(e, field)}
  BY DEF AllNumeric, Ensure
<1>4. ReadPoint(t, least, defaults, field) \in {u, Keep(u, part)}
  BY DEF ReadPoint, Then
<1>5. x \notin DOMAIN part
  OBVIOUS
<1> HIDE DEF s, e, u, part
<1>6. Holding(ReadPoint(t, least, defaults, field), x, v)
  BY <1>1, <1>2, <1>3, <1>4, <1>5, HoldingFail, HoldingKeep
<1>7. ASSUME NEW depth PROVE Holding(ReadHalfSpace(t, field, depth, defaults, least), x, v)
  <2>1. ReadHalfSpace(t, field, depth, defaults, least)
          \in {ReadPoint(t, least, defaults, field), Fail(ReadPoint(t, least, defaults, field), field)}
    BY DEF ReadHalfSpace, Ensure
  <2> QED
    BY <1>6, <2>1, HoldingFail
<1> QED
  BY <1>6, <1>7

(* So does the surface.                                                     *)
LEMMA HoldingSurface ==
  ASSUME NEW x, NEW v, x \notin {"point", "surface"}, NEW t, Holding(t, x, v)
  PROVE  Holding(ReadSurface(t), x, v)
<1>1. ASSUME NEW s, NEW p, Holding(s, x, v) PROVE Holding(KeepSurface(s, p), x, v)
  <2> DEFINE part == [surface |-> p]
  <2>1. x \notin DOMAIN part /\ KeepSurface(s, p) = Keep(s, part)
    BY DEF KeepSurface
  <2> HIDE DEF part
  <2> QED
    BY <1>1, <2>1, HoldingKeep
<1>2. Holding(ReadSurfacePoint(t), x, v)
  <2> DEFINE e == Ensure(t, LAMBDA s : UnitOf(s.value.options) # "m", "top_options")
             h == ReadHalfSpace(e, "surface_half_space", 0, Water(0), 1)
  <2>1. e \in {t, Fail(t, "top_options")}
    BY DEF Ensure
  <2>2. ReadSurfacePoint(t) \in {h, KeepSurface(h, h.value.point)}
    BY DEF ReadSurfacePoint, Then
  <2> HIDE DEF e
  <2>3. Holding(e, x, v)
    BY <2>1, HoldingFail
  <2>4. Holding(h, x, v)
    BY <2>3, HoldingPoint
  <2> HIDE DEF h
  <2> QED
    BY <1>1, <2>2, <2>4
<1>3. ReadSurface(t) \in {t, ReadSurfacePoint(t), KeepSurface(t, NoMaterial)}
  BY DEF ReadSurface, Then
<1> QED
  BY <1>1, <1>2, <1>3

(* The header of a medium leaves what was read before it.                   *)
LEMMA HoldingHeader ==
  ASSUME NEW x, NEW v, x \notin {"mesh", "bottom", "points", "whole"}, NEW t, Holding(t, x, v), NEW field
  PROVE  Holding(ReadHeader(t, field), x, v)
<1> DEFINE s == NextRecord(t, field)
           e == Ensure(s, HeaderAllowed, field)
           part == [mesh |-> Num(e, 1), bottom |-> Num(e, 3), points |-> <<>>, whole |-> Analytic(e.value.options)]
           h == Then(e, KeepHeader)
<1>1. Holding(s, x, v)
  BY HoldingRecord
<1>2. e \in {s, Fail(s, field)}
  BY DEF Ensure
<1>3. h \in {e, Keep(e, part)}
  BY DEF Then, KeepHeader
<1>4. ReadHeader(t, field) \in {h, Fail(h, "attenuation_power_law")}
  BY DEF ReadHeader, ReadPowerLaw, Ensure
<1>5. x \notin DOMAIN part
  OBVIOUS
<1> HIDE DEF s, e, part, h
<1> QED
  BY <1>1, <1>2, <1>3, <1>4, <1>5, HoldingFail, HoldingKeep

(* So do its points, however many there are.                                *)
LEMMA HoldingProfile ==
  ASSUME NEW x, NEW v, x \notin {"point", "points", "inherited", "whole"}, NEW b, Holding(b, x, v)
  PROVE  Holding(ReadProfile(b), x, v)
<1> DEFINE Good(s) == Holding(s, x, v)
           n == MaxVector
           q == [i \in 1 .. MaxVector |-> i]
<1>1. ASSUME NEW s, NEW i, Good(s) PROVE Good(ReadNextPoint(s, i))
  <2> DEFINE a == ReadPoint(s, 1, s.value.inherited, "sound_speed_profile")
             e == Ensure(a, PointAllowed, "sound_speed_profile")
             part == [points |-> Append(e.value.points, e.value.point), inherited |-> e.value.point,
                      whole |-> Depth(e.value.point) = e.value.bottom]
  <2>1. Holding(a, x, v)
    BY <1>1, HoldingPoint
  <2>2. e \in {a, Fail(a, "sound_speed_profile")}
    BY DEF Ensure
  <2>3. ReadNextPoint(s, i) \in {s, e, Keep(e, part)}
    BY DEF ReadNextPoint, Then, KeepPoint
  <2>4. x \notin DOMAIN part
    OBVIOUS
  <2> HIDE DEF a, e, part
  <2> QED
    BY <1>1, <2>1, <2>2, <2>3, <2>4, HoldingFail, HoldingKeep
<1>2. Good(b)
  OBVIOUS
<1>3. n \in Nat /\ DOMAIN q = 1 .. n
  BY KrakenInputAssumption
<1> HIDE DEF Good, n, q
<1>4. Good(FoldLeft(ReadNextPoint, b, q))
<2>1. PICK g : PointsSolved(g, n, b, q, FoldLeft(ReadNextPoint, b, q))
  BY <1>3, PointsFolded
<2> DEFINE S == {k \in Nat : k <= n => Good(g[1 .. k])}
<2>2. 0 \in S
  <3>1. 1 .. 0 = {}
    OBVIOUS
  <3> QED
    BY <1>2, <2>1, <3>1 DEF PointsSolved
<2>3. ASSUME NEW k \in Nat, k \in S PROVE k + 1 \in S
  <3>1. CASE k + 1 <= n
    <4>1. k \in 0 .. n - 1 /\ k <= n
      BY <1>3, <3>1
    <4>2. g[1 .. k + 1] = ReadNextPoint(g[1 .. k], q[k + 1])
      BY <2>1, <4>1 DEF PointsSolved
    <4> QED
      BY <1>1, <2>3, <4>1, <4>2
  <3> QED
    BY <3>1
<2>4. n \in S
  <3> HIDE DEF S
  <3> QED
    BY <2>2, <2>3, <1>3, SetInduction
<2> QED
  BY <2>1, <2>4 DEF PointsSolved
<1>5. ReadProfile(b) \in {FoldLeft(ReadNextPoint, b, q), Fail(FoldLeft(ReadNextPoint, b, q), "sound_speed_profile")}
  BY DEF ReadProfile, Ensure, q
<1> QED
  BY <1>4, <1>5, HoldingFail DEF Good

(* The media are a list, before and after one more is read.                 *)
Listing(t) == \E v : List(v) /\ Holding(t, "media", v)
LEMMA ListingMedium ==
  ASSUME NEW t, Listing(t), NEW i
  PROVE  Listing(ReadMedium(t, i))
<1>1. PICK v : List(v) /\ Holding(t, "media", v)
  BY DEF Listing
<1> DEFINE h == ReadHeader(t, "water_header")
           p == Then(h, ReadProfile)
           e == Ensure(p, FewEnough, "medium_count")
           u == Ensure(e, LAMBDA s : Contiguous(s.value.media, s.value.points), "sound_speed_profile")
           m == [bottom |-> u.value.bottom, mesh |-> u.value.mesh, points |-> u.value.points]
           part == [media |-> Append(u.value.media, m), top |-> u.value.bottom]
<1>2. Holding(h, "media", v)
  BY <1>1, HoldingHeader
<1>3. p \in {h, ReadProfile(h)}
  BY DEF Then
<1>4. e \in {p, Fail(p, "medium_count")}
  BY DEF Ensure
<1>5. u \in {e, Fail(e, "sound_speed_profile")}
  BY DEF Ensure
<1>6. ReadMedium(t, i) = IF u.ok THEN Keep(u, part) ELSE u
  BY DEF ReadMedium, Then, KeepMedium
<1>7. "media" \in DOMAIN part /\ part["media"] = Append(u.value.media, m)
  OBVIOUS
<1> HIDE DEF h, p, e, m, part
<1>8. Holding(u, "media", v)
  BY <1>2, <1>3, <1>4, <1>5, HoldingProfile, HoldingFail
<1> HIDE DEF u
<1>9. CASE u.ok
  <2>1. Holding(Keep(u, part), "media", Append(v, m))
    BY <1>7, <1>8, <1>9, HoldingKept DEF Holding
  <2>2. List(Append(v, m))
    BY <1>1, ListedAppended
  <2> QED
    BY <1>6, <1>9, <2>1, <2>2 DEF Listing
<1>10. CASE ~u.ok
  BY <1>1, <1>6, <1>8, <1>10 DEF Listing
<1> QED
  BY <1>9, <1>10

(* The media that were read are a list with a fluid in it.                  *)
LEMMA MediaListed ==
  ASSUME NEW t, NEW n \in Nat, Holding(t, "count", n), ReadMedia(t).ok
  PROVE  LET v == ReadMedia(t).value.media IN Holding(ReadMedia(t), "media", v) /\ List(v) /\ HasFluid(v)
<1> DEFINE b == BeginMedia(t)
           q == [i \in 1 .. t.value.count |-> i]
           f == FoldLeft(ReadMedium, b, q)
           e == Ensure(f, LAMBDA s : HasFluid(s.value.media), "medium_count")
<1>1. ReadMedia(t) = IF t.ok THEN e ELSE t
  BY DEF ReadMedia, Then
<1>2. t.ok /\ t.value.count = n
  BY <1>1 DEF Holding
<1>3. Listing(b)
  <2> DEFINE part == [media |-> <<>>, top |-> 0, inherited |-> FirstPoint(t.value)]
  <2>1. "media" \in DOMAIN part /\ part["media"] = <<>> /\ b = Keep(t, part)
    BY DEF BeginMedia
  <2> HIDE DEF part, b
  <2>2. Holding(b, "media", <<>>)
    <3>1. DOMAIN t = ReaderParts
      BY DEF Holding
    <3>2. \A x \in DOMAIN part : Holding(Keep(t, part), x, part[x])
      BY <3>1, HoldingKept
    <3>3. Holding(Keep(t, part), "media", part["media"])
      BY <2>1, <3>2
    <3> QED
      BY <2>1, <3>3
  <2>3. List(<<>>)
    BY DEF List
  <2> QED
    BY <2>2, <2>3 DEF Listing
<1>4. DOMAIN q = 1 .. n
  BY <1>2
<1> HIDE DEF b, q
<1>5. Listing(f)
<2>1. PICK g : MediaSolved(g, n, b, q, FoldLeft(ReadMedium, b, q))
  BY <1>4, MediaFolded
<2> DEFINE S == {k \in Nat : k <= n => Listing(g[1 .. k])}
<2>2. 0 \in S
  <3>1. 1 .. 0 = {}
    OBVIOUS
  <3> QED
    BY <1>3, <2>1, <3>1 DEF MediaSolved
<2>3. ASSUME NEW k \in Nat, k \in S PROVE k + 1 \in S
  <3>1. CASE k + 1 <= n
    <4>1. k \in 0 .. n - 1 /\ k <= n
      BY <3>1
    <4>2. g[1 .. k + 1] = ReadMedium(g[1 .. k], q[k + 1])
      BY <2>1, <4>1 DEF MediaSolved
    <4> QED
      BY ListingMedium, <2>3, <4>1, <4>2
  <3> QED
    BY <3>1
<2>4. n \in S
  <3> HIDE DEF S
  <3> QED
    BY <2>2, <2>3, SetInduction
<2> QED
  BY <2>1, <2>4 DEF MediaSolved
<1> HIDE DEF f
<1>6. PICK v : List(v) /\ Holding(f, "media", v)
  BY <1>5 DEF Listing
<1>7. e.ok
  BY <1>1, <1>2
<1>8. e = f /\ HasFluid(f.value.media)
  BY <1>6, <1>7, HoldingFail DEF Ensure
<1> HIDE DEF e
<1> QED
  BY <1>1, <1>2, <1>6, <1>7, <1>8 DEF Holding

(* What follows leaves the media.                                           *)
LEMMA HoldingBottom ==
  ASSUME NEW v, NEW t, Holding(t, "media", v), NEW solver
  PROVE  Holding(ReadBottom(t, solver), "media", v)
<1> DEFINE s == NextRecord(t, "bottom_options")
           e == Ensure(s, LAMBDA z : BottomAllowed(z, BottomOf(z.tokens[1]), solver), "bottom_options")
           part == [boundary |-> BottomOf(e.tokens[1])]
           u == Then(e, KeepBoundary)
           p == ReadPowerLaw(u, 3)
           h == ReadHalfSpace(p, "bottom_half_space", p.value.top, BottomDefault(p.value),
                              IF Analytic(p.value.options) THEN 4 ELSE 1)
           kept(z) == [bottomPoint |-> z]
<1>1. Holding(s, "media", v)
  BY HoldingRecord
<1>2. e \in {s, Fail(s, "bottom_options")}
  BY DEF Ensure
<1>3. u \in {e, Keep(e, part)} /\ "media" \notin DOMAIN part
  BY DEF Then, KeepBoundary
<1>4. p \in {u, Fail(u, "attenuation_power_law")}
  BY DEF ReadPowerLaw, Ensure
<1>5. ReadBottom(t, solver) \in {p, h, Keep(h, kept(h.value.point)), Keep(p, kept(NoMaterial))}
  BY DEF ReadBottom, ReadBottomPoint, KeepBottomPoint, Then
<1>6. \A z : "media" \notin DOMAIN kept(z)
  OBVIOUS
<1> HIDE DEF s, e, part, kept
<1>7. Holding(e, "media", v)
  BY <1>1, <1>2, HoldingFail
<1>8. Holding(u, "media", v)
  BY <1>3, <1>7, HoldingKeep
<1> HIDE DEF u
<1>9. Holding(p, "media", v)
  BY <1>4, <1>8, HoldingFail
<1> HIDE DEF p
<1>10. Holding(h, "media", v)
  BY <1>9, HoldingPoint
<1> HIDE DEF h
<1>11. Holding(Keep(h, kept(h.value.point)), "media", v) /\ Holding(Keep(p, kept(NoMaterial)), "media", v)
  BY <1>6, <1>9, <1>10, HoldingKeep
<1> QED
  BY <1>5, <1>9, <1>10, <1>11

(* The limits of the search leave the media.                                *)
LEMMA HoldingLimits ==
  ASSUME NEW v, NEW t, Holding(t, "media", v)
  PROVE  Holding(ReadLimits(t), "media", v)
<1> DEFINE a == ExactNumbers(t, 2, "phase_speed_limits")
           low == [low |-> Num(a, 1), high |-> Num(a, 2)]
           b == Then(a, KeepLimits)
           c == Scalar(b, "max_range_km")
           far == [maxRange |-> 1000 * Num(c, 1)]
<1>1. Holding(a, "media", v)
  BY HoldingRecord
<1>2. b \in {a, Keep(a, low)} /\ "media" \notin DOMAIN low
  BY DEF Then, KeepLimits
<1>3. ReadLimits(t) \in {c, Keep(c, far)} /\ "media" \notin DOMAIN far
  BY DEF ReadLimits, Then, KeepRange
<1> HIDE DEF a, low, far
<1>4. Holding(b, "media", v)
  BY <1>1, <1>2, HoldingKeep
<1> HIDE DEF b
<1>5. Holding(c, "media", v)
  BY <1>4, HoldingRecord
<1> HIDE DEF c
<1> QED
  BY <1>3, <1>5, HoldingKeep

(* The frequencies that were read, one or a band of them.                   *)
LEMMA HoldingFrequencies ==
  ASSUME NEW v, NEW t, Holding(t, "media", v), ReadFrequencies(t).ok
  PROVE  /\ Holding(ReadFrequencies(t), "media", v)
         /\ \E n \in 1 .. MaxFrequencies : DOMAIN ReadFrequencies(t).value.frequencies = 1 .. n
<1>1. MaxFrequencies \in Nat \ {0}
  BY KrakenInputAssumption
<1>2. CASE ReadFrequencies(t) = Keep(t, [frequencies |-> <<t.value.frequency>>])
  <2> DEFINE part == [frequencies |-> <<t.value.frequency>>]
  <2>1. "media" \notin DOMAIN part /\ "frequencies" \in DOMAIN part /\ DOMAIN part["frequencies"] = 1 .. 1
    OBVIOUS
  <2>2. ReadFrequencies(t) = Keep(t, part)
    BY <1>2
  <2> HIDE DEF part
  <2>3. Holding(Keep(t, part), "media", v) /\ Holding(Keep(t, part), "frequencies", part["frequencies"])
    BY <2>1, HoldingKeep, HoldingKept DEF Holding
  <2>4. 1 \in 1 .. MaxFrequencies
    BY <1>1
  <2>5. DOMAIN ReadFrequencies(t).value.frequencies = 1 .. 1
    BY <2>1, <2>2, <2>3 DEF Holding
  <2> QED
    BY <2>2, <2>3, <2>4, <2>5
<1>3. CASE ReadFrequencies(t) = ReadBand(t)
  <2> DEFINE c == Count(t, MaxFrequencies, "frequencies_hz")
             n == Num(c, 1)
             s == VectorValues(c, n, "frequencies", "frequencies_hz")
             u == Then(c, LAMBDA z : VectorValues(z, Num(z, 1), "frequencies", "frequencies_hz"))
  <2>1. ReadBand(t) \in {u, Fail(u, "frequencies_hz")}
    BY DEF ReadBand, Ensure
  <2>2. u \in {c, s} /\ (~c.ok => u = c) /\ (c.ok => u = s)
    BY DEF Then
  <2>3. Holding(c, "media", v) /\ (c.ok => n \in Nat \ {0} /\ n <= MaxFrequencies)
    BY <1>1, HoldingRecord, Counted DEF Holding
  <2>4. c.ok => Holding(s, "media", v) /\ (s.ok => DOMAIN s.value["frequencies"] = 1 .. n)
    <3> SUFFICES ASSUME c.ok PROVE Holding(s, "media", v) /\ (s.ok => DOMAIN s.value["frequencies"] = 1 .. n)
      OBVIOUS
    <3>1. n \in Nat /\ "media" \notin VectorParts /\ "media" # "frequencies"
      BY <2>3 DEF VectorParts
    <3> HIDE DEF c, n
    <3> QED
      BY <2>3, <3>1, HoldingValues
  <2> HIDE DEF s, u, n
  <2>5. Holding(u, "media", v)
    BY <2>2, <2>3, <2>4
  <2>6. ReadFrequencies(t) = u /\ u.ok
    BY <1>3, <2>1, <2>5, HoldingFail
  <2>7. c.ok /\ u = s /\ s.ok
    BY <2>2, <2>6
  <2>8. n \in 1 .. MaxFrequencies
    BY <1>1, <2>3, <2>7
  <2> QED
    BY <2>4, <2>5, <2>6, <2>7, <2>8
<1>4. ReadFrequencies(t) \in {t, ReadBand(t), Keep(t, [frequencies |-> <<t.value.frequency>>])}
      /\ (ReadFrequencies(t) = t =>
            t.ok /\ ReadFrequencies(t) \in {ReadBand(t), Keep(t, [frequencies |-> <<t.value.frequency>>])})
  BY DEF ReadFrequencies, Then
<1> QED
  BY <1>2, <1>3, <1>4

(* A profile that was understood has its media in a list, with a fluid, and *)
(* as many frequencies as it may.                                          *)
LEMMA UnderstoodShape ==
  ASSUME NEW r, DOMAIN r = ReaderParts, NEW solver, ReadEnvironment(r, solver).ok,
         NEW e, e = Environment(ReadEnvironment(r, solver).value)
  PROVE  /\ List(e.media) /\ HasFluid(e.media)
         /\ \E n \in 1 .. MaxFrequencies : DOMAIN e.frequencies = 1 .. n
<1> DEFINE q == [r EXCEPT !.value = <<>>]
           a == ReadSurface(ReadWaterLoss(ReadTitle(q, solver)))
           m == ReadMedia(a)
           l == ReadLimits(ReadBottom(m, solver))
           s == ReadVector(l, "sources", "mode_source_depths_m")
           z == ReadVector(s, "receivers", "mode_receiver_depths_m")
           v == m.value.media
<1>1. ReadEnvironment(r, solver) = ReadFrequencies(z)
  BY DEF ReadEnvironment
<1>2. PICK n \in Nat : Holding(a, "count", n)
  <2>1. DOMAIN q = ReaderParts
    OBVIOUS
  <2> HIDE DEF q
  <2>2. PICK n \in Nat : Holding(ReadTitle(q, solver), "count", n)
    BY <2>1, HoldingTitle
  <2>3. Holding(ReadWaterLoss(ReadTitle(q, solver)), "count", n)
    BY <2>2, HoldingWater
  <2> QED
    BY <2>3, HoldingSurface
<1> HIDE DEF a
<1>3. m.ok
  <2>1. ASSUME ~m.ok PROVE FALSE
    <3> HIDE DEF m
    <3>1. ReadBottom(m, solver) = m /\ ReadLimits(m) = m /\ ReadVector(m, "sources", "mode_source_depths_m") = m
          /\ ReadVector(m, "receivers", "mode_receiver_depths_m") = m /\ ReadFrequencies(m) = m
      BY <2>1, StaysFailed
    <3> QED
      BY <1>1, <2>1, <3>1
  <2> QED
    BY <2>1
<1>4. Holding(m, "media", v) /\ List(v) /\ HasFluid(v)
  BY <1>2, <1>3, MediaListed
<1> HIDE DEF m, v
<1>5. Holding(l, "media", v)
  BY <1>4, HoldingBottom, HoldingLimits
<1> HIDE DEF l
<1>6. "media" \notin VectorParts
  BY DEF VectorParts
<1>7. Holding(s, "media", v)
  BY <1>5, <1>6, HoldingRead
<1> HIDE DEF s
<1>8. Holding(z, "media", v)
  BY <1>6, <1>7, HoldingRead
<1> HIDE DEF z
<1>9. /\ Holding(ReadFrequencies(z), "media", v)
      /\ \E k \in 1 .. MaxFrequencies : DOMAIN ReadFrequencies(z).value.frequencies = 1 .. k
  BY <1>1, <1>8, HoldingFrequencies
<1>10. e.media = ReadFrequencies(z).value.media /\ e.frequencies = ReadFrequencies(z).value.frequencies
  BY <1>1 DEF Environment
<1> QED
  BY <1>1, <1>4, <1>9, <1>10 DEF Holding

(* A FIELD file that was read has a profile at least.                       *)
LEMMA FieldShaped ==
  ASSUME NEW lines, ParseField(lines).ok
  PROVE  \E n \in 1 .. MaxVector : DOMAIN ParseField(lines).value.profiles = 1 .. n
<1> DEFINE r == NewReader(lines)
           a == ReadFieldOptions(r)
           c == ReadVector(a, "profiles", "profile_ranges_km")
           p == ReadProfileRanges(a)
           f == ReadVector(p, "ranges", "receiver_ranges_km")
           s == ReadVector(f, "sources", "field_source_depths_m")
           d == ReadVector(s, "depths", "field_receiver_depths_m")
           o == ReadVector(d, "offsets", "receiver_offsets_m")
           v == c.value.profiles
<1>1. DOMAIN r = ReaderParts
  BY DEF NewReader, Begin, ReaderParts
<1>2. \E x : Holding(a, "limit", x)
  <2> DEFINE n == NextRecord(r, "field_title")
             u == TextRecord(n, "field_options")
             e == Ensure(u, LAMBDA z : FieldAllowed(z.tokens[1]), "field_options")
             k == Then(e, KeepOptions)
             l == Scalar(k, "mode_limit")
             m == Count(k, MaxVector, "mode_limit")
             part == [limit |-> Num(m, 1)]
             w == With([options |-> e.tokens[1]], e.value)
  <2>1. \A z, g : DOMAIN z = ReaderParts =>
           /\ DOMAIN Fail(z, g) = ReaderParts /\ DOMAIN Advance(z) = ReaderParts
           /\ DOMAIN NextRecord(z, g) = ReaderParts
    BY DEF Fail, Advance, NextRecord, Then
  <2>2. n = NextRecord(r, "field_title")
        /\ u \in {NextRecord(n, "field_options"), Fail(NextRecord(n, "field_options"), "field_options")}
    BY DEF TextRecord, Ensure
  <2>3. e \in {u, Fail(u, "field_options")}
    BY DEF Ensure
  <2>4. k \in {e, [e EXCEPT !.value = w]}
    BY DEF Then, KeepOptions, Keep
  <2>5. l \in {TextRecord(k, "mode_limit"), Fail(TextRecord(k, "mode_limit"), "mode_limit")}
        /\ TextRecord(k, "mode_limit")
             \in {NextRecord(k, "mode_limit"), Fail(NextRecord(k, "mode_limit"), "mode_limit")}
    BY DEF Scalar, TextRecord, Ensure
  <2>6. m \in {l, Fail(l, "mode_limit")}
    BY DEF Count, Between, Ensure
  <2>7. a = IF m.ok THEN Keep(m, part) ELSE m
    BY DEF ReadFieldOptions, Then
  <2>8. "limit" \in DOMAIN part
    OBVIOUS
  <2> HIDE DEF r, a, n, u, e, k, l, m, part, w
  <2>9. DOMAIN n = ReaderParts /\ DOMAIN u = ReaderParts
    BY <1>1, <2>1, <2>2
  <2>10. DOMAIN e = ReaderParts
    BY <2>1, <2>3, <2>9
  <2>11. DOMAIN k = ReaderParts
    BY <2>4, <2>10
  <2>12. DOMAIN l = ReaderParts
    BY <2>1, <2>5, <2>11
  <2>13. DOMAIN m = ReaderParts
    BY <2>1, <2>6, <2>12
  <2>14. Holding(Keep(m, part), "limit", part["limit"])
    BY <2>8, <2>13, HoldingKept
  <2>15. ~m.ok => Holding(m, "limit", 0)
    BY <2>13 DEF Holding
  <2> QED
    BY <2>7, <2>14, <2>15
<1> HIDE DEF a
<1>3. "limit" \notin VectorParts /\ "profiles" \notin VectorParts
  BY DEF VectorParts
<1>4. /\ \E x : Holding(c, "limit", x)
      /\ c.ok => Holding(c, "profiles", v) /\ \E n \in 1 .. MaxVector : DOMAIN v = 1 .. n
  <2>1. PICK x : Holding(a, "limit", x)
    BY <1>2
  <2>2. Holding(c, "limit", x)
    BY <1>3, <2>1, HoldingRead
  <2>3. c.ok => \E n \in 1 .. MaxVector :
                  DOMAIN c = ReaderParts /\ "profiles" \in DOMAIN c.value /\ DOMAIN c.value["profiles"] = 1 .. n
    BY <1>3, <2>1, HoldingRead
  <2> HIDE DEF c
  <2> QED
    BY <2>2, <2>3 DEF Holding
<1>5. ParseField(lines) \in {o, Fail(o, "input")}
  BY DEF ParseField, Finish, Ensure, a
<1>6. p \in {c, Fail(c, "profile_ranges_km")}
  BY DEF ReadProfileRanges, Ensure
<1> HIDE DEF c, v, p
<1>7. /\ \E x : Holding(p, "limit", x)
      /\ p.ok => p = c
  BY <1>4, <1>6, HoldingFail
<1>8. o.ok => p.ok
  <2>1. ~p.ok => f = p /\ s = p /\ d = p /\ o = p
    BY StaysFailed
  <2> QED
    BY <2>1
<1>9. CASE p.ok
  <2>1. Holding(p, "profiles", v) /\ \E n \in 1 .. MaxVector : DOMAIN v = 1 .. n
    BY <1>4, <1>7, <1>9
  <2>2. Holding(f, "profiles", v)
    BY <1>3, <2>1, HoldingRead
  <2> HIDE DEF f
  <2>3. Holding(s, "profiles", v)
    BY <1>3, <2>2, HoldingRead
  <2> HIDE DEF s
  <2>4. Holding(d, "profiles", v)
    BY <1>3, <2>3, HoldingRead
  <2> HIDE DEF d
  <2>5. Holding(o, "profiles", v)
    BY <1>3, <2>4, HoldingRead
  <2> HIDE DEF o
  <2>6. ParseField(lines) = o
    BY <1>5, <2>5, HoldingFail
  <2> QED
    BY <2>1, <2>5, <2>6 DEF Holding
<1>10. CASE ~p.ok
  <2>1. ~o.ok /\ o = p
    BY <1>8, <1>10, StaysFailed
  <2> HIDE DEF o, p
  <2>2. ~ParseField(lines).ok
    BY <1>5, <1>7, <2>1, HoldingFail
  <2> QED
    BY <2>2
<1> QED
  BY <1>9, <1>10

-----------------------------------------------------------------------------
(* What is made of an environment has its layers in lists and tables of a   *)
(* length.                                                                 *)

(* A set of natural numbers has a smallest.                                 *)
LEMMA Smallest ==
  ASSUME NEW s \in SUBSET Nat, s # {}
  PROVE  Min(s) \in s /\ \A x \in s : Min(s) <= x
<1>1. PICK x \in s : \A y \in s : ~(<<y, x>> \in OpToRel(<, Nat))
  BY NatLessThanWellFounded, WFMin
<1>2. \A y \in s : ~(y < x)
  BY <1>1 DEF OpToRel
<1>3. \A y \in s : y \in Nat /\ x \in Nat
  OBVIOUS
<1>4. \A y \in s : x <= y
  BY <1>2, <1>3
<1> QED
  BY <1>4 DEF Min

(* A function of the first so many numbers is a list.                       *)
LEMMA ListedFunction ==
  ASSUME NEW k \in Nat, NEW s, s = [i \in 1 .. k |-> s[i]]
  PROVE  List(s) /\ Len(s) = k
<1>1. \A i \in 1 .. k : s[i] \in Range(s)
  BY DEF Range
<1>2. s \in [1 .. k -> Range(s)]
  BY <1>1
<1>3. s \in Seq(Range(s))
  BY <1>2
<1> QED
  BY <1>2, <1>3 DEF List

(* The media are cut into the solids above, the fluids, and what is below.  *)
LEMMA CutMedia ==
  ASSUME NEW e, List(e.media), HasFluid(e.media)
  PROVE  \A s \in {TopSolids(e), WaterOf(e), BottomSolids(e)} : List(s)
<1>1. Len(e.media) \in Nat /\ DOMAIN e.media = 1 .. Len(e.media) /\ e.media \in Seq(Range(e.media))
  BY ListShape
<1>2. Wet(e) \in SUBSET (1 .. Len(e.media)) /\ Wet(e) # {}
  BY <1>1 DEF Wet, HasFluid
<1> DEFINE low == Min(Wet(e))
           high == Max(Wet(e))
           n == Len(e.media)
<1>3. low \in 1 .. n /\ high \in 1 .. n /\ low <= high
  <2>1. high \in Wet(e) /\ \A x \in Wet(e) : x <= high
    BY <1>1, <1>2, Greatest
  <2>2. low \in Wet(e) /\ \A x \in Wet(e) : low <= x
    <3>1. Wet(e) \in SUBSET Nat
      BY <1>1, <1>2
    <3> QED
      BY <1>2, <3>1, Smallest
  <2> HIDE DEF low, high
  <2> QED
    BY <1>2, <2>1, <2>2
<1>4. /\ TopSolids(e) = SubSeq(e.media, 1, low - 1) /\ WaterOf(e) = SubSeq(e.media, low, high)
      /\ BottomSolids(e) = SubSeq(e.media, high + 1, n)
  BY DEF TopSolids, WaterOf, BottomSolids
<1> HIDE DEF low, high, n
<1>5. ASSUME NEW i \in Int, NEW j \in Int, 1 <= i, i - 1 <= j, j <= n PROVE List(SubSeq(e.media, i, j))
  <2>1. e.media \in Seq(Range(e.media)) /\ Len(e.media) = n /\ n \in Nat
    BY <1>1 DEF n
  <2> DEFINE s == SubSeq(e.media, i, j)
  <2>2. s \in Seq(Range(e.media))
    BY <1>5, <2>1, SubSeqProperties
  <2> HIDE DEF s
  <2>3. List(s)
    BY <2>2, SequenceListed
  <2> QED
    BY <2>3 DEF s
<1>6. n \in Nat
  BY <1>1 DEF n
<1>7. List(SubSeq(e.media, 1, low - 1))
  BY <1>3, <1>5, <1>6
<1>8. List(SubSeq(e.media, low, high))
  BY <1>3, <1>5, <1>6
<1>9. List(SubSeq(e.media, high + 1, n))
  BY <1>3, <1>5, <1>6
<1> QED
  BY <1>4, <1>7, <1>8, <1>9

(* A table that is valid has so many points.                                *)
LEMMA TableLength ==
  ASSUME NEW kind \in {"reflection", "impedance"}, NEW table, NEW frequency1, TableValid(kind, table, frequency1)
  PROVE  Len(table.points) \in Nat
<1>1. TableOrdered(table)
  BY DEF TableValid
<1>2. MaxVector \in Nat
  BY KrakenInputAssumption
<1>3. Len(table.points) \in 2 .. MaxVector
  BY <1>1 DEF TableOrdered
<1> QED
  BY <1>2, <1>3

(* A case whose layers are lists and whose tables have a length.            *)
Made(d) == CaseAllowed(d) /\ Layered(d) /\ Measured(d)
LEMMA DefinitionsMade ==
  ASSUME NEW e, List(e.media), HasFluid(e.media), NEW field, NEW definitions, definitions = DefinitionsOf(e, field),
         FirstFault(e, field, definitions) = ""
  PROVE  /\ DOMAIN definitions = DOMAIN e.frequencies
         /\ \A i \in DOMAIN definitions : Made(definitions[i]) /\ definitions[i].solver = Solver
<1>1. DOMAIN definitions = DOMAIN e.frequencies
  BY DEF DefinitionsOf
<1>2. BottomTable(e).ok /\ SurfaceTable(e).ok
  <2>1. ASSUME ~BottomTable(e).ok PROVE BottomTable(e).what # ""
    BY <2>1 DEF BottomTable, Tables, Plain
  <2>2. ASSUME ~SurfaceTable(e).ok PROVE SurfaceTable(e).what # ""
    BY <2>2 DEF SurfaceTable, Tables, Plain
  <2> QED
    BY <2>1, <2>2 DEF FirstFault
<1>3. ASSUME NEW parsed, NEW kind \in {"reflection", "impedance"}, NEW missing, Tables(e, parsed, kind, missing).ok
      PROVE  Len(Tables(e, parsed, kind, missing).table.points) \in Nat
  <2>1. parsed # <<>> /\ parsed[1].ok
    BY <1>3 DEF Tables
  <2>2. /\ Tables(e, parsed, kind, missing).ok = TableValid(kind, parsed[1].value, e.frequency)
        /\ Tables(e, parsed, kind, missing).table = parsed[1].value
    BY <2>1 DEF Tables
  <2> QED
    BY <1>3, <2>2, TableLength
<1>4. Len(Plain.table.points) \in Nat
  <2>1. Plain.table.points = <<>>
    BY DEF Plain, NoTable
  <2>2. Len(<<>>) \in Nat
    OBVIOUS
  <2> QED
    BY <2>1, <2>2
<1>5. Len(SurfaceTable(e).table.points) \in Nat
  <2> DEFINE table == Tables(e, Parsed("trc", ParseReflectionTable), "reflection", "missing table")
  <2>1. SurfaceTable(e) = table \/ SurfaceTable(e) = Plain
    BY DEF SurfaceTable
  <2>2. table.ok => Len(table.table.points) \in Nat
    BY <1>3
  <2> HIDE DEF table
  <2> QED
    BY <1>2, <1>4, <2>1, <2>2
<1>6. Len(BottomTable(e).table.points) \in Nat
  <2> DEFINE brc == Tables(e, Parsed("brc", ParseReflectionTable), "reflection", "missing table")
             irc == Tables(e, Parsed("irc", ParseImpedanceTable), "impedance", "missing table")
  <2>1. BottomTable(e) = brc \/ BottomTable(e) = irc \/ BottomTable(e) = Plain
    BY DEF BottomTable
  <2>2. (brc.ok => Len(brc.table.points) \in Nat) /\ (irc.ok => Len(irc.table.points) \in Nat)
    BY <1>3
  <2> HIDE DEF brc, irc
  <2> QED
    BY <1>2, <1>4, <2>1, <2>2
<1>7. ASSUME NEW i \in DOMAIN definitions PROVE Made(definitions[i]) /\ definitions[i].solver = Solver
  <2> DEFINE d == definitions[i]
  <2>1. d = Definition(e, field, SurfaceTable(e).table, BottomTable(e).table, Pattern(field).table.points, Solver,
                       e.frequencies[i])
    BY <1>1 DEF DefinitionsOf
  <2> HIDE DEF d
  <2>2. /\ d.surfaceTable = SurfaceTable(e).table /\ d.bottomTable = BottomTable(e).table /\ d.solver = Solver
        /\ d.fluids = Layers(WaterOf(e), LAMBDA m : FluidLayer(e, m))
        /\ d.tops = Layers(TopSolids(e), LAMBDA m : ElasticLayer(e, m))
        /\ d.bottoms = Layers(BottomSolids(e), LAMBDA m : ElasticLayer(e, m))
    BY <2>1 DEF Definition
  <2>3. Measured(d)
    BY <1>5, <1>6, <2>2 DEF Measured
  <2>4. Layered(d)
    <3>1. List(WaterOf(e)) /\ List(TopSolids(e)) /\ List(BottomSolids(e))
      BY CutMedia
    <3>2. ASSUME NEW s, List(s), NEW t, DOMAIN t = DOMAIN s, t = [k \in DOMAIN s |-> t[k]] PROVE List(t)
      BY <3>2, ListShape, ListedFunction
    <3>3. /\ d.fluids = [k \in DOMAIN WaterOf(e) |-> FluidLayer(e, WaterOf(e)[k])]
          /\ d.tops = [k \in DOMAIN TopSolids(e) |-> ElasticLayer(e, TopSolids(e)[k])]
          /\ d.bottoms = [k \in DOMAIN BottomSolids(e) |-> ElasticLayer(e, BottomSolids(e)[k])]
      BY <2>2 DEF Layers
    <3>4. List(d.fluids)
      BY <3>1, <3>2, <3>3
    <3>5. List(d.tops)
      BY <3>1, <3>2, <3>3
    <3>6. List(d.bottoms)
      BY <3>1, <3>2, <3>3
    <3> QED
      BY <3>4, <3>5, <3>6 DEF Layered
  <2>5. CaseAllowed(d)
    BY FaultlessAllowed DEF Range, d
  <2> QED
    BY <2>2, <2>3, <2>4, <2>5 DEF Made, d
<1> QED
  BY <1>1, <1>7

-----------------------------------------------------------------------------
(* The load keeps count of what its sequences hold, and what it counted is  *)
(* what a document of them is charged.                                     *)

(* What a document charges the first profiles of every frequency for, each  *)
(* of `starts` profiles in all.                                            *)
HeldIn(sequences) == Total([i \in DOMAIN sequences |-> TotalOf(sequences[i], InputValues)])
MadeOf(s) == /\ List(s) /\ \A k \in 1 .. Len(s) : Made(s[k]) /\ s[k].solver = Solver
Starts == Len(TheField.profiles)
Loaded(n) ==
  /\ DOMAIN loading.reader = ReaderParts
  /\ loading.profile = 0 => loading.charged = 0
  /\ loading.profile # 0 =>
       /\ n \in 1 .. MaxFrequencies /\ loading.profile \in Nat /\ DOMAIN loading.sequences = 1 .. n
       /\ \A i \in 1 .. n : MadeOf(loading.sequences[i]) /\ Len(loading.sequences[i]) = loading.profile
       /\ loading.charged = HeldIn(loading.sequences) + Starts * n /\ ~(loading.charged > MaxValues)
Sized ==
  /\ List(fields) /\ \A i \in DOMAIN fields : Deep(fields[i])
  /\ stage = "loaded" => SequencesAllowed(fields)
  /\ stage \in {"pattern", "load"} => ParseField(File("flp")).ok
  /\ stage = "load" => \E n : Loaded(n)

(* A sequence that was accepted holds a number of values.                   *)
LEMMA HeldType ==
  ASSUME NEW s, MadeOf(s)
  PROVE  TotalOf(s, InputValues) \in Int
<1> DEFINE a == [k \in DOMAIN s |-> InputValues(s[k])]
<1>1. Len(s) \in Nat /\ DOMAIN s = 1 .. Len(s)
  BY ListShape DEF MadeOf
<1>2. DOMAIN a = 1 .. Len(s) /\ \A k \in 1 .. Len(s) : a[k] \in Int
  BY <1>1, InputType DEF MadeOf, Made
<1>3. TotalOf(s, InputValues) = Total(a)
  BY DEF TotalOf
<1> HIDE DEF a
<1> QED
  BY <1>1, <1>2, <1>3, TotalType

(* One profile is a sequence that holds what it holds.                      *)
LEMMA HeldOne ==
  ASSUME NEW d, Made(d), d.solver = Solver
  PROVE  MadeOf(<<d>>) /\ TotalOf(<<d>>, InputValues) = InputValues(d) /\ Len(<<d>>) = 1
<1> DEFINE t == <<d>>
           a == [k \in DOMAIN t |-> InputValues(t[k])]
<1>1. List(t) /\ Len(t) = 1 /\ t[1] = d /\ DOMAIN t = 1 .. 1
  BY ListedOne
<1> HIDE DEF t
<1>2. \A k \in 1 .. 1 : k = 1
  OBVIOUS
<1>3. MadeOf(t)
  BY <1>1, <1>2 DEF MadeOf
<1>4. TotalOf(t, InputValues) = Total(a)
  BY DEF TotalOf
<1>5. DOMAIN a = 1 .. 1 /\ a[1] = InputValues(d)
  BY <1>1
<1>6. InputValues(d) \in Int
  BY InputType DEF Made
<1> HIDE DEF a
<1>7. Total(a) = InputValues(d) * 1
  BY <1>2, <1>5, <1>6, TotalEqual
<1>8. Total(a) = InputValues(d)
  BY <1>6, <1>7
<1> QED
  BY <1>1, <1>3, <1>4, <1>8 DEF t

(* A sequence with one profile more holds what that holds besides.          *)
LEMMA HeldMore ==
  ASSUME NEW s, MadeOf(s), NEW d, Made(d), d.solver = Solver
  PROVE  /\ MadeOf(Append(s, d)) /\ Len(Append(s, d)) = Len(s) + 1
         /\ TotalOf(Append(s, d), InputValues) = TotalOf(s, InputValues) + InputValues(d)
<1> DEFINE t == Append(s, d)
           a == [k \in DOMAIN s |-> InputValues(s[k])]
           b == [k \in DOMAIN t |-> InputValues(t[k])]
           n == Len(s)
<1>1. /\ List(t) /\ Len(t) = n + 1 /\ n \in Nat /\ DOMAIN s = 1 .. n
      /\ \A k \in 1 .. n : t[k] = s[k]
      /\ t[n + 1] = d
  BY ListedAppended, ListShape DEF MadeOf
<1>2. DOMAIN t = 1 .. n + 1
  BY <1>1, ListShape
<1>3. \A k \in 1 .. n : Made(s[k]) /\ s[k].solver = Solver
  BY DEF MadeOf
<1>4. TotalOf(t, InputValues) = Total(b) /\ TotalOf(s, InputValues) = Total(a)
  BY DEF TotalOf
<1> HIDE DEF t, n
<1>5. MadeOf(t)
  <2>1. \A k \in 1 .. n + 1 : k \in 1 .. n \/ k = n + 1
    BY <1>1
  <2> QED
    BY <1>1, <1>3, <2>1 DEF MadeOf
<1>6. DOMAIN a = 1 .. n /\ DOMAIN b = 1 .. n + 1 /\ (\A k \in 1 .. n : b[k] = a[k]) /\ b[n + 1] = InputValues(d)
  <2>1. \A k \in 1 .. n : k \in 1 .. n + 1
    BY <1>1
  <2>2. n + 1 \in 1 .. n + 1
    BY <1>1
  <2> QED
    BY <1>1, <1>2, <2>1, <2>2
<1> HIDE DEF a, b
<1>7. Total(b) = Total(a) + InputValues(d)
  BY <1>1, <1>6, TotalOneMore
<1> QED
  BY <1>1, <1>4, <1>5, <1>7 DEF t, n

(* The profile that is read adds what its definitions hold.                 *)
LEMMA HeldJoined ==
  ASSUME NEW n \in Nat, Loaded(n), loading.profile # 0, NEW definitions, DOMAIN definitions = 1 .. n,
         \A i \in 1 .. n : Made(definitions[i]) /\ definitions[i].solver = Solver,
         NEW joined, joined = [i \in DOMAIN definitions |-> Append(loading.sequences[i], definitions[i])]
  PROVE  /\ \A i \in 1 .. n : MadeOf(joined[i]) /\ Len(joined[i]) = loading.profile + 1
         /\ HeldIn(joined) = HeldIn(loading.sequences) + TotalOf(definitions, InputValues)
         /\ HeldIn(loading.sequences) \in Int /\ TotalOf(definitions, InputValues) \in Int
<1> DEFINE s == loading.sequences
           a == [i \in DOMAIN s |-> TotalOf(s[i], InputValues)]
           b == [i \in DOMAIN definitions |-> InputValues(definitions[i])]
           c == [i \in DOMAIN joined |-> TotalOf(joined[i], InputValues)]
<1>1. DOMAIN s = 1 .. n /\ \A i \in 1 .. n : MadeOf(s[i]) /\ Len(s[i]) = loading.profile
  BY DEF Loaded
<1>2. DOMAIN joined = 1 .. n /\ \A i \in 1 .. n : joined[i] = Append(s[i], definitions[i])
  OBVIOUS
<1> HIDE DEF s
<1>3. \A i \in 1 .. n :
         /\ MadeOf(joined[i]) /\ Len(joined[i]) = Len(s[i]) + 1
         /\ TotalOf(joined[i], InputValues) = TotalOf(s[i], InputValues) + InputValues(definitions[i])
  BY <1>1, <1>2, HeldMore
<1>4. a \in [1 .. n -> Int]
  BY <1>1, HeldType
<1>5. b \in [1 .. n -> Int]
  BY InputType DEF Made
<1>6. DOMAIN c = 1 .. n /\ \A i \in 1 .. n : c[i] = a[i] + b[i]
  BY <1>1, <1>2, <1>3
<1>7. /\ HeldIn(joined) = Total(c) /\ HeldIn(s) = Total(a) /\ TotalOf(definitions, InputValues) = Total(b)
  BY DEF HeldIn, TotalOf
<1> HIDE DEF a, b, c
<1>8. Total(c) = Total(a) + Total(b)
  BY <1>4, <1>5, <1>6, TotalPaired
<1>9. Total(a) \in Int /\ Total(b) \in Int
  BY <1>4, <1>5, TotalType
<1> QED
  BY <1>1, <1>3, <1>7, <1>8, <1>9 DEF s

(* The first profile begins the sequences.                                  *)
LEMMA HeldFirst ==
  ASSUME NEW n \in Nat, NEW definitions, DOMAIN definitions = 1 .. n,
         \A i \in 1 .. n : Made(definitions[i]) /\ definitions[i].solver = Solver,
         NEW joined, joined = [i \in DOMAIN definitions |-> <<definitions[i]>>]
  PROVE  /\ \A i \in 1 .. n : MadeOf(joined[i]) /\ Len(joined[i]) = 1
         /\ HeldIn(joined) = TotalOf(definitions, InputValues) /\ TotalOf(definitions, InputValues) \in Int
<1> DEFINE b == [i \in DOMAIN definitions |-> InputValues(definitions[i])]
           c == [i \in DOMAIN joined |-> TotalOf(joined[i], InputValues)]
<1>1. \A i \in 1 .. n : /\ MadeOf(joined[i]) /\ Len(joined[i]) = 1
                        /\ TotalOf(joined[i], InputValues) = InputValues(definitions[i])
  BY HeldOne
<1>2. c = b
  BY <1>1
<1>3. HeldIn(joined) = Total(c) /\ TotalOf(definitions, InputValues) = Total(b)
  BY DEF HeldIn, TotalOf
<1>4. DOMAIN b = 1 .. n /\ \A i \in 1 .. n : b[i] \in Int
  BY InputType DEF Made
<1> HIDE DEF b, c
<1>5. Total(b) \in Int
  BY <1>4, TotalType
<1> QED
  BY <1>1, <1>2, <1>3, <1>5

(* What was loaded is what a document is charged for.                       *)
LEMMA LoadedCharge ==
  ASSUME NEW n, Loaded(n), loading.profile # 0, Starts \in Nat,
         NEW field, field = TheField, NEW made, made = FieldsOf(field)
  PROVE  /\ List(made) /\ Len(made) = n /\ n \in Nat
         /\ (\A f \in Range(made) : f.profiles[1].solver = Solver)
         /\ \A i \in DOMAIN made : Deep(made[i])
         /\ TotalOf(made, ChargeOf) <= MaxValues
<1> DEFINE s == loading.sequences
           a == [i \in DOMAIN s |-> TotalOf(s[i], InputValues)]
           b == [i \in 1 .. n |-> Starts]
           c == [i \in DOMAIN made |-> ChargeOf(made[i])]
<1>1. MaxFrequencies \in Nat /\ MaxValues \in Nat
  BY KrakenInputAssumption, KrakenCaseAssumption
<1>2. /\ n \in 1 .. MaxFrequencies /\ DOMAIN s = 1 .. n /\ loading.profile \in Nat \ {0}
      /\ \A i \in 1 .. n : MadeOf(s[i]) /\ Len(s[i]) = loading.profile
      /\ loading.charged = HeldIn(s) + Starts * n /\ ~(loading.charged > MaxValues)
  BY DEF Loaded
<1>3. n \in Nat
  BY <1>1, <1>2
<1>4. made = [i \in DOMAIN s |-> [profiles |-> s[i], starts |-> field.profiles, propagation |-> field.propagation]]
  BY DEF FieldsOf
<1> HIDE DEF s
<1>5. DOMAIN made = 1 .. n /\ made = [i \in 1 .. n |-> made[i]]
      /\ \A i \in 1 .. n : made[i].profiles = s[i] /\ made[i].starts = field.profiles
  BY <1>2, <1>4
<1>6. List(made) /\ Len(made) = n
  BY <1>3, <1>5, ListedFunction
<1>7. ASSUME NEW i \in 1 .. n PROVE made[i].profiles[1].solver = Solver /\ Deep(made[i])
  <2>1. 1 \in 1 .. Len(s[i])
    BY <1>2
  <2> QED
    BY <1>2, <1>5, <2>1 DEF MadeOf, Made, Deep
<1>8. \A f \in Range(made) : f.profiles[1].solver = Solver
  BY <1>5, <1>7 DEF Range
<1>9. a \in [1 .. n -> Int] /\ b \in [1 .. n -> Int]
  BY <1>2, HeldType
<1>10. DOMAIN c = 1 .. n /\ \A i \in 1 .. n : c[i] = a[i] + b[i]
  <2>1. ASSUME NEW i \in 1 .. n PROVE c[i] = a[i] + b[i]
    <3>1. c[i] = Len(made[i].starts) + TotalOf(made[i].profiles, InputValues)
      BY <1>5 DEF ChargeOf
    <3>2. Len(made[i].starts) = Starts /\ made[i].profiles = s[i]
      BY <1>5 DEF Starts
    <3>3. a[i] = TotalOf(s[i], InputValues) /\ b[i] = Starts /\ a[i] \in Int
      BY <1>2, <1>9
    <3> HIDE DEF a, b, c
    <3> QED
      BY <3>1, <3>2, <3>3
  <2> QED
    BY <1>5, <2>1
<1>11. HeldIn(s) = Total(a) /\ TotalOf(made, ChargeOf) = Total(c)
  BY DEF HeldIn, TotalOf
<1>12. DOMAIN b = 1 .. n /\ \A i \in 1 .. n : b[i] = Starts
  OBVIOUS
<1> HIDE DEF a, b, c
<1>13. Total(c) = Total(a) + Total(b)
  BY <1>3, <1>9, <1>10, TotalPaired
<1>14. Total(b) = Starts * n
  BY <1>3, <1>12, TotalEqual
<1>15. Total(a) \in Int /\ Starts * n \in Int
  BY <1>3, <1>9, TotalType
<1>16. TotalOf(made, ChargeOf) = loading.charged /\ loading.charged \in Int
  BY <1>2, <1>11, <1>13, <1>14, <1>15
<1>17. TotalOf(made, ChargeOf) <= MaxValues
  BY <1>1, <1>2, <1>16
<1> QED
  BY <1>3, <1>5, <1>6, <1>7, <1>8, <1>17

(* The first document or the load makes the fields, which stay.             *)
LEMMA SizedInit == Init => Sized
<1> SUFFICES ASSUME Init PROVE Sized
  OBVIOUS
<1>1. fields = <<>> /\ stage = "read"
  BY DEF Init, FieldInit
<1>2. List(<<>>) /\ DOMAIN <<>> = {}
  BY DEF List, Range
<1> QED
  BY <1>1, <1>2 DEF Sized

(* What neither loads nor is loaded leaves the fields.                      *)
LEMMA SizedElsewhere ==
  ASSUME Sized, UNCHANGED fields, stage' \notin {"loaded", "pattern", "load"}
  PROVE  Sized'
<1>1. (\A i \in DOMAIN fields : Deep(fields[i]))'
  BY DEF Sized, Deep, Layered, List
<1>2. List(fields')
  BY DEF Sized
<1> QED
  BY <1>1, <1>2 DEF Sized

(* The FIELD file was read before the load begins, which takes nothing.     *)
LEMMA SizedPattern ==
  ASSUME Sized, ReadPattern
  PROVE  Sized'
<1>1. stage = "tables" /\ UNCHANGED <<request, fields>>
  BY DEF ReadPattern, fieldVars
<1> DEFINE r == ParseField(File("flp"))
<1>2. r.ok \/ stage' = "over"
  BY DEF ReadPattern, Unread, Exits
<1>3. stage' \in {"pattern", "over"}
  BY DEF ReadPattern, Unread, Rejected, GoesOn, Exits
<1>4. r' = r
  BY <1>1 DEF File
<1>5. CASE r.ok
  <2>1. ParseField(File("flp"))'.ok
    BY <1>4, <1>5
  <2> QED
    BY <1>1, <1>3, <2>1 DEF Sized
<1>6. CASE stage' = "over"
  BY <1>1, <1>6, SizedElsewhere
<1> QED
  BY <1>2, <1>5, <1>6

(* The load begins with nothing.                                            *)
LEMMA SizedBegin ==
  ASSUME Sized, BeginLoad
  PROVE  Sized'
<1>1. /\ stage = "pattern" /\ stage' = "load" /\ UNCHANGED <<request, fields>>
      /\ loading' = [NotLoading EXCEPT !.reader = NewReader(File("env"))]
  BY DEF BeginLoad, GoesOn, fieldVars
<1>2. ParseField(File("flp"))'.ok
  <2>1. ParseField(File("flp")).ok
    BY <1>1 DEF Sized
  <2> QED
    BY <1>1, <2>1 DEF File
<1>3. DOMAIN loading'.reader = ReaderParts /\ loading'.profile = 0 /\ loading'.charged = 0
  BY <1>1 DEF NotLoading, NewReader, Begin, ReaderParts
<1>4. Loaded(0)'
  BY <1>3 DEF Loaded
<1> QED
  BY <1>1, <1>2, <1>4 DEF Sized

(* There is a start for every profile that the FIELD file says of.          *)
LEMMA StartsType ==
  ASSUME ParseField(File("flp")).ok
  PROVE  Starts \in Nat \ {0} /\ DOMAIN TheField.profiles = 1 .. Starts
<1>1. PICK n \in 1 .. MaxVector : DOMAIN ParseField(File("flp")).value.profiles = 1 .. n
  BY FieldShaped
<1>2. MaxVector \in Nat
  BY KrakenInputAssumption
<1>3. n \in Nat \ {0}
  BY <1>1, <1>2
<1>4. TheField.profiles = [i \in DOMAIN ParseField(File("flp")).value.profiles |->
                             1000 * ParseField(File("flp")).value.profiles[i]]
  BY DEF TheField, FieldOf, Kilo
<1>5. TheField.profiles = [i \in 1 .. n |-> TheField.profiles[i]]
  BY <1>1, <1>4
<1>6. Len(TheField.profiles) = n
  BY <1>3, <1>5, ListedFunction
<1> QED
  BY <1>3, <1>5, <1>6 DEF Starts

(* A profile that joins is counted, at every frequency of those before it.  *)
LEMMA SizedLoad ==
  ASSUME Acceptance, Sized, LoadProfile
  PROVE  Sized'
<1>1. stage = "load" /\ UNCHANGED <<request, resources, fields>>
  BY DEF LoadProfile, fieldVars
<1> DEFINE r == ReadEnvironment(loading.reader, Solver)
           e == Environment(r.value)
           field == TheField
           definitions == DefinitionsOf(e, field)
<1>2. IF ~r.ok THEN Unread(r) /\ UNCHANGED loading ELSE Join(r, e, field, definitions)
  BY DEF LoadProfile
<1>3. ParseField(File("flp")).ok /\ TheField' = TheField /\ ParseField(File("flp"))' = ParseField(File("flp"))
  BY <1>1, FilesKept DEF Sized, File
<1>4. PICK m : Loaded(m)
  BY <1>1 DEF Sized
<1>5. DOMAIN loading.reader = ReaderParts
  BY <1>4 DEF Loaded
<1>6. r.ok => /\ List(e.media) /\ HasFluid(e.media)
              /\ \E n \in 1 .. MaxFrequencies : DOMAIN e.frequencies = 1 .. n
  BY <1>5, UnderstoodShape
<1>7. definitions = DefinitionsOf(e, field) /\ Len(field.profiles) = Starts
  BY DEF Starts
<1> HIDE DEF r, e, definitions, field
<1>8. \/ stage' = "over"
      \/ /\ r.ok /\ FirstFault(e, field, definitions) = "" /\ Joins(definitions) /\ GoesOn("load")
         /\ ~(Charge(field, definitions) > MaxValues)
         /\ loading' = [reader |-> Ready(r), profile |-> loading.profile + 1,
                        sequences |-> Joined(definitions), charged |-> Charge(field, definitions),
                        used |-> loading.used \cup TablesOf(e)]
  BY <1>2 DEF Join, Unread, Rejected, Exits
<1>9. CASE stage' = "over"
  BY <1>1, <1>9, SizedElsewhere
<1>10. CASE /\ r.ok /\ FirstFault(e, field, definitions) = "" /\ Joins(definitions) /\ GoesOn("load")
            /\ ~(Charge(field, definitions) > MaxValues)
            /\ loading' = [reader |-> Ready(r), profile |-> loading.profile + 1,
                           sequences |-> Joined(definitions), charged |-> Charge(field, definitions),
                           used |-> loading.used \cup TablesOf(e)]
  <2>1. PICK n \in 1 .. MaxFrequencies : DOMAIN e.frequencies = 1 .. n
    BY <1>6, <1>10
  <2>2. n \in Nat \ {0} /\ Starts \in Nat \ {0}
    <3>1. MaxFrequencies \in Nat
      BY KrakenInputAssumption
    <3> QED
      BY <1>3, <2>1, <3>1, StartsType
  <2>3. DOMAIN definitions = 1 .. n /\ \A i \in 1 .. n : Made(definitions[i]) /\ definitions[i].solver = Solver
    BY <1>6, <1>7, <1>10, <2>1, DefinitionsMade
  <2>4. Len(definitions) = n
    <3>1. definitions = [i \in 1 .. n |-> definitions[i]]
      BY <1>7, <2>1 DEF DefinitionsOf
    <3> QED
      BY <2>2, <3>1, ListedFunction
  <2> DEFINE joined == Joined(definitions)
             t == TotalOf(definitions, InputValues)
  <2>5. /\ \A i \in 1 .. n : MadeOf(joined[i]) /\ Len(joined[i]) = loading.profile + 1
        /\ Charge(field, definitions) = HeldIn(joined) + Starts * n
        /\ DOMAIN joined = 1 .. n /\ loading.profile + 1 \in Nat \ {0}
    <3>1. CASE loading.profile = 0
      <4>1. joined = [i \in DOMAIN definitions |-> <<definitions[i]>>]
        BY <3>1 DEF Joined
      <4>2. loading.charged = 0
        BY <1>4, <3>1 DEF Loaded
      <4>3. Charge(field, definitions) = 0 + t + Starts * n
        BY <1>7, <2>4, <3>1, <4>2 DEF Charge
      <4> HIDE DEF joined, t
      <4>4. /\ \A i \in 1 .. n : MadeOf(joined[i]) /\ Len(joined[i]) = 1
            /\ HeldIn(joined) = t /\ t \in Int
        BY <2>2, <2>3, <4>1, HeldFirst DEF t
      <4> QED
        BY <2>2, <2>3, <3>1, <4>1, <4>3, <4>4
    <3>2. CASE loading.profile # 0
      <4>1. joined = [i \in DOMAIN definitions |-> Append(loading.sequences[i], definitions[i])]
        BY <3>2 DEF Joined
      <4>2. DOMAIN loading.sequences = 1 .. n
        BY <1>10, <2>3, <3>2 DEF Joins
      <4>3. DOMAIN loading.sequences = 1 .. m /\ m \in 1 .. MaxFrequencies /\ loading.profile \in Nat
        BY <1>4, <3>2 DEF Loaded
      <4>4. m = n
        <5>1. m \in Nat
          <6>1. MaxFrequencies \in Nat
            BY KrakenInputAssumption
          <6> QED
            BY <4>3, <6>1
        <5> QED
          BY <2>2, <4>2, <4>3, <5>1
      <4>5. Loaded(n) /\ loading.charged = HeldIn(loading.sequences) + Starts * n
        BY <1>4, <3>2, <4>4 DEF Loaded
      <4>6. Charge(field, definitions) = loading.charged + t + 0
        BY <3>2 DEF Charge
      <4> HIDE DEF joined, t
      <4>7. /\ \A i \in 1 .. n : MadeOf(joined[i]) /\ Len(joined[i]) = loading.profile + 1
            /\ HeldIn(joined) = HeldIn(loading.sequences) + t
            /\ HeldIn(loading.sequences) \in Int /\ t \in Int
        <5>1. n \in Nat /\ Loaded(n)
          BY <2>2, <4>5
        <5>2. /\ \A i \in 1 .. n : MadeOf(joined[i]) /\ Len(joined[i]) = loading.profile + 1
              /\ HeldIn(joined) = HeldIn(loading.sequences) + TotalOf(definitions, InputValues)
              /\ HeldIn(loading.sequences) \in Int /\ TotalOf(definitions, InputValues) \in Int
          BY <2>3, <3>2, <4>1, <5>1, HeldJoined
        <5> QED
          BY <5>2 DEF t
      <4>8. Starts * n \in Int
        BY <2>2
      <4>9. Charge(field, definitions) = HeldIn(joined) + Starts * n
        BY <4>5, <4>6, <4>7, <4>8
      <4> QED
        BY <2>3, <4>1, <4>3, <4>7, <4>9
    <3> QED
      BY <3>1, <3>2
  <2> HIDE DEF joined
  <2>6. /\ loading'.profile = loading.profile + 1 /\ loading'.sequences = joined
        /\ loading'.charged = Charge(field, definitions) /\ loading'.reader = Ready(r)
    BY <1>10 DEF joined
  <2>7. DOMAIN loading'.reader = ReaderParts
    BY <2>6 DEF Ready, ReaderParts
  <2>8. loading'.profile # 0 /\ loading'.profile \in Nat
    BY <2>5, <2>6
  <2>9. Starts' = Starts
    BY <1>3 DEF Starts
  <2>10. loading'.charged = HeldIn(loading'.sequences) + Starts' * n /\ ~(loading'.charged > MaxValues)
    BY <1>10, <2>5, <2>6, <2>9
  <2>11. \A i \in 1 .. n : MadeOf(loading'.sequences[i]) /\ Len(loading'.sequences[i]) = loading'.profile
    BY <2>5, <2>6
  <2>12. /\ HeldIn(loading.sequences)' = HeldIn(loading'.sequences)
         /\ \A i \in 1 .. n : MadeOf(loading.sequences[i])' = MadeOf(loading'.sequences[i])
    <3>1. HeldIn(loading.sequences)' = HeldIn(loading'.sequences)
      BY DEF HeldIn
    <3>2. Solver' = Solver
      BY <1>1 DEF Solver
    <3>3. ASSUME NEW i PROVE MadeOf(loading.sequences[i])' = MadeOf(loading'.sequences[i])
      BY <3>2 DEF MadeOf, Made, Layered, Measured
    <3> QED
      BY <3>1, <3>3
  <2>13. Loaded(n)'
    BY <2>1, <2>5, <2>6, <2>7, <2>8, <2>10, <2>11, <2>12 DEF Loaded
  <2>14. stage' = "load" /\ (ParseField(File("flp")).ok)'
    BY <1>3, <1>10 DEF GoesOn
  <2> QED
    BY <1>1, <2>13, <2>14 DEF Sized
<1> QED
  BY <1>8, <1>9, <1>10

(* What was loaded becomes the fields, which hold what was counted.         *)
LEMMA SizedFinish ==
  ASSUME Acceptance, Sized, FinishLoad
  PROVE  Sized'
<1>1. stage = "load"
  BY DEF FinishLoad
<1> DEFINE field == TheField
           made == FieldsOf(field)
<1>2. /\ loading.profile = Len(field.profiles)
      /\ (stage' = "over" /\ UNCHANGED fields) \/ (stage' = "loaded" /\ fields' = made)
  <2>1. /\ loading.profile = Len(field.profiles)
        /\ CASE More(loading.reader) -> Rejected("input") /\ UNCHANGED fields
            [] ~More(loading.reader) /\ Unused # {} -> Rejected("unexpected table") /\ UNCHANGED fields
            [] OTHER -> IF \A f \in Range(made) : FieldCaseAllowed(f)
                          THEN fields' = made /\ GoesOn("loaded")
                          ELSE Rejected("case") /\ UNCHANGED fields
    BY DEF FinishLoad
  <2> QED
    BY <2>1 DEF Rejected, Exits, GoesOn
<1>3. ParseField(File("flp")).ok
  BY <1>1 DEF Sized
<1>4. PICK n : Loaded(n)
  BY <1>1 DEF Sized
<1>5. loading.profile = Starts /\ Starts \in Nat \ {0}
  BY <1>2, <1>3, StartsType DEF Starts
<1> HIDE DEF field
<1>6. /\ List(made) /\ Len(made) = n /\ n \in Nat
      /\ (\A f \in Range(made) : f.profiles[1].solver = Solver)
      /\ (\A i \in DOMAIN made : Deep(made[i]))
      /\ TotalOf(made, ChargeOf) <= MaxValues
  <2>1. n \in Nat /\ loading.profile # 0
    BY <1>4, <1>5, KrakenInputAssumption DEF Loaded
  <2> DEFINE f == TheField
             m == FieldsOf(f)
  <2> HIDE DEF f
  <2>2. f = TheField
    BY DEF f
  <2> HIDE DEF m
  <2>3. m = FieldsOf(f)
    BY DEF m
  <2>4. /\ List(m) /\ Len(m) = n /\ n \in Nat
        /\ (\A g \in Range(m) : g.profiles[1].solver = Solver)
        /\ (\A i \in DOMAIN m : Deep(m[i]))
        /\ TotalOf(m, ChargeOf) <= MaxValues
    BY <1>4, <1>5, <2>1, <2>2, <2>3, LoadedCharge
  <2> QED
    BY <2>4 DEF m, f, field
<1>7. n \in 1 .. MaxFrequencies
  BY <1>4, <1>5 DEF Loaded
<1> HIDE DEF made
<1>8. SequencesAllowed(made)
  <2>1. made[1] \in Range(made)
    <3>1. 1 \in DOMAIN made
      BY <1>6, <1>7, ListShape, KrakenInputAssumption
    <3> QED
      BY <3>1 DEF Range
  <2> QED
    BY <1>6, <1>7, <2>1 DEF SequencesAllowed
<1>9. CASE stage' = "over" /\ UNCHANGED fields
  BY <1>9, SizedElsewhere
<1>10. CASE stage' = "loaded" /\ fields' = made
  <2>1. List(fields') /\ (\A i \in DOMAIN fields' : Deep(fields'[i])) /\ SequencesAllowed(fields')
    BY <1>6, <1>8, <1>10
  <2>2. \A i \in DOMAIN fields' : Deep(fields[i])' = Deep(fields'[i])
    BY DEF Deep, Layered, List
  <2>3. (\A i \in DOMAIN fields : Deep(fields[i]))'
    BY <2>1, <2>2
  <2>4. SequencesAllowed(fields)' = SequencesAllowed(fields')
    BY DEF SequencesAllowed
  <2> QED
    BY <1>10, <2>1, <2>3, <2>4 DEF Sized
<1> QED
  BY <1>2, <1>9, <1>10

(* The fields of a document are what it was allowed for.                    *)
LEMMA SizedDocument ==
  ASSUME Acceptance, Sized, LoadDocument
  PROVE  Sized'
<1>1. \/ stage' = "over" /\ UNCHANGED fields
      \/ /\ fields' = request.document[1].fields /\ request.document # <<>> /\ DocumentAllowed(request.document[1])
         /\ stage' = "loaded" /\ ~Legacy
  BY DEF LoadDocument, Rejected, Exits, GoesOn
<1>2. CASE stage' = "over" /\ UNCHANGED fields
  BY <1>2, SizedElsewhere
<1>3. CASE /\ fields' = request.document[1].fields /\ request.document # <<>> /\ DocumentAllowed(request.document[1])
           /\ stage' = "loaded" /\ ~Legacy
  <2>1. PICK few \in Requests : request \in few
    BY DEF Acceptance
  <2>2. List(request.document) /\ \A d \in Range(request.document) :
          List(d.fields) /\ \A f \in Range(d.fields) : List(f.profiles) /\ \A p \in Range(f.profiles) : Layered(p)
    BY <1>3, <2>1, RequestsAssumption DEF Legacy
  <2>3. request.document[1] \in Range(request.document)
    BY <1>3, <2>2 DEF List, Range
  <2>4. List(fields') /\ \A f \in Range(fields') : List(f.profiles) /\ \A p \in Range(f.profiles) : Layered(p)
    BY <1>3, <2>2, <2>3
  <2>5. ASSUME NEW i \in DOMAIN fields' PROVE Deep(fields'[i])
    <3>1. fields'[i] \in Range(fields')
      BY DEF Range
    <3>2. List(fields'[i].profiles) /\ \A p \in Range(fields'[i].profiles) : Layered(p)
      BY <2>4, <3>1
    <3>3. \A k \in 1 .. Len(fields'[i].profiles) : fields'[i].profiles[k] \in Range(fields'[i].profiles)
      BY <3>2, ListShape DEF Range
    <3> QED
      BY <3>2, <3>3 DEF Deep
  <2>6. SequencesAllowed(fields')
    BY <1>3 DEF DocumentAllowed
  <2>7. \A i \in DOMAIN fields' : Deep(fields[i])' = Deep(fields'[i])
    BY DEF Deep, Layered, List
  <2>8. (\A i \in DOMAIN fields : Deep(fields[i]))'
    BY <2>5, <2>7
  <2>9. SequencesAllowed(fields)' = SequencesAllowed(fields')
    BY DEF SequencesAllowed
  <2> QED
    BY <1>3, <2>4, <2>6, <2>8, <2>9 DEF Sized
<1> QED
  BY <1>1, <1>2, <1>3

(* Sized holds at first and after every step.                               *)
LEMMA SizedStep == Acceptance /\ Sized /\ [Next]_vars => Sized'
<1> SUFFICES ASSUME Acceptance, Sized, [Next]_vars PROVE Sized'
  OBVIOUS
<1>1. CASE ReadPair
  <2>1. stage' \in {"over", "discover"} /\ UNCHANGED fields
    BY <1>1 DEF ReadPair, Rejected, Unread, Exits, GoesOn, fieldVars
  <2> QED
    BY <2>1, SizedElsewhere
<1>2. CASE DiscoverProfile
  <2>1. stage' \in {"over", "discover"} /\ UNCHANGED fields
    BY <1>2 DEF DiscoverProfile, Unread, Exits, GoesOn, fieldVars
  <2> QED
    BY <2>1, SizedElsewhere
<1>3. CASE EndDiscovery
  BY <1>3, SizedElsewhere DEF EndDiscovery, GoesOn, fieldVars
<1>4. CASE ReadTable
  <2>1. stage' \in {"over", "tables"} /\ UNCHANGED fields
    BY <1>4 DEF ReadTable, Rejected, Exits, GoesOn, fieldVars
  <2> QED
    BY <2>1, SizedElsewhere
<1>5. CASE ReadPattern
  BY <1>5, SizedPattern
<1>6. CASE BeginLoad
  BY <1>6, SizedBegin
<1>7. CASE LoadProfile
  BY <1>7, SizedLoad
<1>8. CASE FinishLoad
  BY <1>8, SizedFinish
<1>9. CASE LoadDocument
  BY <1>9, SizedDocument
<1>10. CASE ExportCase
  <2>1. stage' = "over" /\ UNCHANGED fields
    BY <1>10 DEF ExportCase, Rejected, Exits, fieldVars
  <2> QED
    BY <2>1, SizedElsewhere
<1>11. CASE Run
  <2>1. stage' \in {"over", "running"} /\ UNCHANGED fields
    BY <1>11 DEF Run, Exits, fieldVars
  <2> QED
    BY <2>1, SizedElsewhere
<1>12. CASE NextStep
  <2>1. stage' = "running"
    BY <1>12 DEF NextStep
  <2>2. fields' = fields
    BY <1>12 DEF NextStep, SolveField, NextFrequency, SolveProfile, Synthesize, StartMarch, Cross, Receive
  <2> QED
    BY <2>1, <2>2, SizedElsewhere
<1>13. CASE WriteHdf5 \/ WriteMod \/ WriteShd \/ Account
  <2>1. stage' \in {"running", "over"} /\ UNCHANGED fields
    BY <1>13 DEF WriteHdf5, WriteMod, WriteShd, Account, WriteNative, Fails, Proceeds, Exits, fieldVars
  <2> QED
    BY <2>1, SizedElsewhere
<1>14. CASE Failed \/ Publish
  <2>1. stage' = "over" /\ UNCHANGED fields
    BY <1>14 DEF Failed, Publish, Exits, fieldVars
  <2> QED
    BY <2>1, SizedElsewhere
<1>15. CASE Over \/ UNCHANGED vars
  <2>1. UNCHANGED <<stage, request, loading, fields>>
    BY <1>15 DEF Over, vars, loadVars, fieldVars
  <2>2. \A i \in DOMAIN fields : Deep(fields[i])' = Deep(fields[i])
    BY <2>1 DEF Deep, Layered, List
  <2>3. (\A i \in DOMAIN fields : Deep(fields[i]))'
    BY <2>1, <2>2 DEF Sized
  <2>4. SequencesAllowed(fields)' = SequencesAllowed(fields) /\ ParseField(File("flp"))' = ParseField(File("flp"))
    BY <2>1 DEF SequencesAllowed, File
  <2>5. \A n : Loaded(n)' = Loaded(n)
    BY <2>1 DEF Loaded, Starts, TheField, File, MadeOf, Made, Solver, HeldIn
  <2>6. List(fields') /\ (stage' = "loaded" => SequencesAllowed(fields)')
    BY <2>1, <2>4 DEF Sized
  <2>7. stage' \in {"pattern", "load"} => (ParseField(File("flp"))').ok
    BY <2>1, <2>4 DEF Sized
  <2>8. stage' = "load" => \E n : Loaded(n)'
    BY <2>1, <2>5 DEF Sized
  <2> QED
    BY <2>3, <2>6, <2>7, <2>8 DEF Sized
<1> QED
  BY <1>1, <1>2, <1>3, <1>4, <1>5, <1>6, <1>7, <1>8, <1>9, <1>10, <1>11, <1>12, <1>13, <1>14, <1>15 DEF Next

(* Every case that is accepted, from files as from a document, can be       *)
(* exported, and its document is accepted again (legacy/mod.rs, json.rs):   *)
(* Exportable, for every request.                                           *)
THEOREM CasesExport == Spec => []Exportable
<1>1. Init => Acceptance /\ Marching /\ Sized
  BY AcceptanceInit, SizedInit
<1>2. Acceptance /\ Marching /\ Sized /\ [Next]_vars => (Acceptance /\ Marching /\ Sized)'
  BY AcceptanceStep, SizedStep
<1>3. Acceptance /\ Marching /\ Sized => Exportable
  <2> SUFFICES ASSUME Acceptance, Sized, stage = "loaded"
               PROVE  SequencesAllowed(fields) /\ DocumentAllowed(Document(fields))
    BY DEF Exportable
  <2>1. SequencesAllowed(fields) /\ List(fields)
    BY DEF Sized
  <2>2. Document(fields).version = 1 /\ Document(fields).fields = fields
    BY DEF Document
  <2>3. ASSUME NEW f \in Range(fields) PROVE (\A d \in Range(f.profiles) : CaseAllowed(d)) /\ FieldCaseAllowed(f)
    <3>1. FieldOK(f)
      BY DEF Acceptance, Fit, Range
    <3>2. DOMAIN f.profiles = 1 .. Len(f.profiles)
      BY <3>1, ListShape DEF FieldOK
    <3> QED
      BY <3>1, <3>2 DEF FieldOK, Range
  <2>4. Len(fields) \in 1 .. MaxFrequencies
    BY <2>1 DEF SequencesAllowed
  <2> QED
    BY <2>1, <2>2, <2>3, <2>4 DEF DocumentAllowed
<1> QED
  BY <1>1, <1>2, <1>3, PTL DEF Spec

-----------------------------------------------------------------------------
(* Records: a file of records takes what it may.                            *)

(* The fold of records has a solution: one after the other.                 *)
RecordsSolved(g, n, b, q, folded) ==
  /\ g[{}] = b
  /\ \A k \in 0 .. n - 1 : g[1 .. k + 1] = Record(g[1 .. k], q[k + 1])
  /\ folded = g[1 .. n]
LEMMA RecordsFolded ==
  ASSUME NEW n \in Nat, NEW b, NEW q, DOMAIN q = 1 .. n
  PROVE  \E g : RecordsSolved(g, n, b, q, FoldLeft(Record, b, q))
<1> DEFINE Go(a, i) == Record(a, q[i])
           After(g, s) == IF s = {} THEN b ELSE Go(g[s \ {Max(s)}], Max(s))
           Solves(g, k) == g = [s \in SUBSET (1 .. k) |-> After(g, s)]
           S == {k \in Nat : \E g : Solves(g, k)}
           fold == CHOOSE g : Solves(g, n)
<1>1. FoldLeft(Record, b, q) = fold[1 .. n]
  BY DEF FoldLeft, MapThenFoldSet
<1> HIDE DEF Go, fold
<1>2. 0 \in S
  <2> DEFINE g == [s \in SUBSET (1 .. 0) |-> b]
  <2>1. \A s \in SUBSET (1 .. 0) : s = {}
    OBVIOUS
  <2>2. Solves(g, 0)
    BY <2>1
  <2> QED
    BY <2>2
<1>3. ASSUME NEW k \in Nat, k \in S PROVE k + 1 \in S
  <2>1. PICK g : Solves(g, k)
    BY <1>3
  <2> DEFINE h == [s \in SUBSET (1 .. k + 1) |-> IF k + 1 \in s THEN Go(g[s \ {k + 1}], k + 1) ELSE g[s]]
  <2>2. \A s \in SUBSET (1 .. k) : h[s] = g[s] /\ g[s] = After(g, s)
    <3>1. \A s \in SUBSET (1 .. k) : s \in SUBSET (1 .. k + 1) /\ k + 1 \notin s
      OBVIOUS
    <3> HIDE DEF After
    <3> QED
      BY <2>1, <3>1
  <2>3. \A s \in SUBSET (1 .. k + 1) : h[s] = IF k + 1 \in s THEN Go(g[s \ {k + 1}], k + 1) ELSE g[s]
    OBVIOUS
  <2>4. h = [s \in SUBSET (1 .. k + 1) |-> h[s]]
    OBVIOUS
  <2> HIDE DEF h
  <2>5. ASSUME NEW s \in SUBSET (1 .. k + 1) PROVE h[s] = After(h, s)
    <3>1. CASE k + 1 \in s
      <4>1. Max(s) = k + 1 /\ s \ {k + 1} \in SUBSET (1 .. k) /\ s # {}
        BY <3>1, Peeled
      <4> QED
        BY <2>2, <2>3, <3>1, <4>1
    <3>2. CASE k + 1 \notin s
      <4>1. s \in SUBSET (1 .. k) /\ (s # {} => s \ {Max(s)} \in SUBSET (1 .. k))
        BY <3>2, Peeled
      <4> QED
        BY <2>2, <4>1
    <3> QED
      BY <3>1, <3>2
  <2>6. h = [s \in SUBSET (1 .. k + 1) |-> After(h, s)]
    <3> HIDE DEF After
    <3> QED
      BY <2>4, <2>5
  <2>7. Solves(h, k + 1)
    BY <2>6
  <2> HIDE DEF Solves
  <2> QED
    BY <2>7
<1>4. n \in S
  <2> HIDE DEF S
  <2> QED
    BY <1>2, <1>3, SetInduction
<1>5. Solves(fold, n)
  <2>1. \E g : Solves(g, n)
    BY <1>4
  <2> HIDE DEF Solves
  <2> QED
    BY <2>1 DEF fold
<1>6. \A s \in SUBSET (1 .. n) : fold[s] = After(fold, s)
  <2> HIDE DEF After
  <2> QED
    BY <1>5
<1>7. fold[{}] = b
  BY <1>6
<1>8. ASSUME NEW k \in 0 .. n - 1
      PROVE  fold[1 .. k + 1] = Go(fold[1 .. k], k + 1)
  <2>1. k \in Nat /\ 1 .. k + 1 \in SUBSET (1 .. n)
    OBVIOUS
  <2>2. 1 .. k + 1 # {} /\ Max(1 .. k + 1) = k + 1 /\ (1 .. k + 1) \ {k + 1} = 1 .. k
    BY <2>1, Prefix
  <2>3. fold[1 .. k + 1] = After(fold, 1 .. k + 1)
    BY <1>6, <2>1
  <2> QED
    BY <2>2, <2>3
<1> QED
  BY <1>1, <1>7, <1>8 DEF Go, RecordsSolved


(* A file of records never holds more words than it may.                    *)
FileParts == {"words", "written", "maximum", "records", "ok"}
WithinMost(file, words, maximum) ==
  /\ DOMAIN file = FileParts /\ file.words = words /\ file.maximum = maximum
  /\ file.written \in Int /\ (file.written = 0 \/ file.written <= maximum)
LEMMA RecordsBounded ==
  ASSUME NEW words \in Int, NEW maximum \in Nat, NEW file, WithinMost(file, words, maximum),
         NEW q, NEW n \in Nat, DOMAIN q = 1 .. n
  PROVE  WithinMost(FoldLeft(Record, file, q), words, maximum)
<1>1. PICK g : RecordsSolved(g, n, file, q, FoldLeft(Record, file, q))
  BY RecordsFolded
<1> DEFINE S == {k \in Nat : k <= n => WithinMost(g[1 .. k], words, maximum)}
<1>2. 0 \in S
  <2>1. 1 .. 0 = {}
    OBVIOUS
  <2> QED
    BY <1>1, <2>1 DEF RecordsSolved
<1>3. ASSUME NEW k \in Nat, k \in S PROVE k + 1 \in S
  <2>1. CASE k + 1 <= n
    <3>1. k \in 0 .. n - 1 /\ k <= n
      BY <2>1
    <3> DEFINE old == g[1 .. k]
               p == q[k + 1]
    <3>2. g[1 .. k + 1] = Record(old, p) /\ WithinMost(old, words, maximum)
      BY <1>1, <1>3, <3>1 DEF RecordsSolved
    <3> HIDE DEF old, p
    <3>3. WithinMost(Record(old, p), words, maximum)
      <4> DEFINE spent == old.written + old.words
      <4>1. CASE Record(old, p) = old \/ Record(old, p) = [old EXCEPT !.ok = FALSE]
        BY <3>2, <4>1 DEF WithinMost, FileParts
      <4>2. CASE /\ spent <= maximum
                 /\ Record(old, p) = [old EXCEPT !.written = @ + old.words, !.records = Append(@, p.values)]
        <5>1. old.written + words \in Int /\ old.written + words <= maximum
          BY <3>2, <4>2 DEF WithinMost
        <5>2. /\ DOMAIN Record(old, p) = FileParts /\ Record(old, p).words = words /\ Record(old, p).maximum = maximum
              /\ Record(old, p).written = old.written + words
          BY <3>2, <4>2 DEF WithinMost, FileParts
        <5> QED
          BY <5>1, <5>2 DEF WithinMost
      <4>3. Fits(spent, old.maximum) => spent <= maximum
        BY <3>2, NativeRecordsAssumption DEF WithinMost, Fits
      <4> HIDE DEF spent
      <4>4. \/ Record(old, p) = old \/ Record(old, p) = [old EXCEPT !.ok = FALSE]
            \/ /\ Fits(spent, old.maximum)
               /\ Record(old, p) = [old EXCEPT !.written = @ + old.words, !.records = Append(@, p.values)]
        BY DEF Record, spent
      <4> QED
        BY <4>1, <4>2, <4>3, <4>4
    <3> QED
      BY <3>2, <3>3
  <2> QED
    BY <2>1
<1>4. n \in S
  <2> HIDE DEF S
  <2> QED
    BY <1>2, <1>3, SetInduction
<1> QED
  BY <1>1, <1>4 DEF RecordsSolved

-----------------------------------------------------------------------------
(* The native files: what they hold is a list of records, none of which     *)
(* takes the file past what it may.                                        *)

(* The records of the longest profile fit, and a record holds whole pairs.  *)
LEMMA LongestBounds ==
  ASSUME NEW f, FieldOK(f), Deep(f)
  PROVE  /\ ModWords(f) \in Nat /\ ModWords(f) >= 2 /\ ModWords(f) >= LeastWords
         /\ ModWords(f) = 2 * (ModWords(f) \div 2)
         /\ \A i \in 1 .. Len(f.profiles) : LET d == f.profiles[i] IN
              /\ Len(d.modeDepths) \in Nat \ {0} /\ Len(d.fluids) \in Nat
              /\ 2 * Len(d.modeDepths) <= ModWords(f) /\ 3 * Len(d.fluids) <= ModWords(f)
<1>1. MaxVector \in Nat /\ MaxLayers \in Nat /\ LeastWords \in Nat \ {0}
  BY KrakenInputAssumption, KrakenWritersAssumption
<1> DEFINE k == LeastWords + 2 * MaxVector + 3 * MaxLayers
           s == {LeastWords} \cup {2 * Len(d.modeDepths) : d \in Range(f.profiles)}
                             \cup {3 * Len(d.fluids) : d \in Range(f.profiles)}
<1>2. k \in Nat
  BY <1>1
<1>3. ASSUME NEW d \in Range(f.profiles)
      PROVE  Len(d.modeDepths) \in 1 .. MaxVector /\ Len(d.fluids) \in 1 .. MaxLayers
  <2>1. CaseAllowed(d) /\ Layered(d)
    <3>1. PICK i \in DOMAIN f.profiles : d = f.profiles[i]
      BY DEF Range
    <3>2. i \in 1 .. Len(f.profiles)
      BY <3>1, ListShape DEF FieldOK
    <3> QED
      BY <3>1, <3>2 DEF FieldOK, Deep
  <2>2. Len(d.modeDepths) \in 1 .. MaxVector
    BY <2>1 DEF CaseAllowed, GridsAllowed, Filled
  <2>3. Len(d.fluids) \in 1 .. MaxLayers - Len(d.tops) - Len(d.bottoms)
    BY <2>1 DEF CaseAllowed, FluidsAllowed
  <2>4. Len(d.tops) \in Nat /\ Len(d.bottoms) \in Nat
    BY <2>1, ListShape DEF Layered
  <2>5. \A m, t, b \in Nat : \A n \in 1 .. m - t - b : n \in 1 .. m
    OBVIOUS
  <2> QED
    BY <1>1, <2>2, <2>3, <2>4, <2>5
<1>4. s \in SUBSET (1 .. k) /\ s # {}
  <2>1. LeastWords \in 1 .. k
    BY <1>1
  <2>2. \A n \in 1 .. MaxVector : 2 * n \in 1 .. k
    BY <1>1
  <2>3. \A n \in 1 .. MaxLayers : 3 * n \in 1 .. k
    BY <1>1
  <2> HIDE DEF k
  <2> QED
    BY <1>3, <2>1, <2>2, <2>3
<1>5. Longest(f) \in s /\ \A x \in s : x <= Longest(f)
  <2> HIDE DEF k, s
  <2>1. Max(s) \in s /\ \A x \in s : x <= Max(s)
    BY <1>2, <1>4, Greatest
  <2> QED
    BY <2>1 DEF Longest, s
<1>6. LeastWords \in s /\ \A d \in Range(f.profiles) : 2 * Len(d.modeDepths) \in s /\ 3 * Len(d.fluids) \in s
  OBVIOUS
<1>7. Longest(f) \in Nat \ {0}
  <2>1. \A n \in 1 .. k : n \in Nat \ {0}
    BY <1>2
  <2> HIDE DEF k, s
  <2> QED
    BY <1>4, <1>5, <2>1
<1> HIDE DEF k, s
<1>8. \A n \in Nat \ {0} : /\ n + (n % 2) \in Nat /\ n + (n % 2) >= 2 /\ n <= n + (n % 2)
                           /\ n + (n % 2) = 2 * ((n + (n % 2)) \div 2)
  OBVIOUS
<1> DEFINE w == ModWords(f)
<1>9. w \in Nat /\ w >= 2 /\ Longest(f) <= w /\ w = 2 * (w \div 2)
  BY <1>7, <1>8 DEF ModWords
<1> HIDE DEF w
<1>10. ASSUME NEW i \in 1 .. Len(f.profiles), NEW d, d = f.profiles[i]
       PROVE  /\ Len(d.modeDepths) \in Nat \ {0} /\ Len(d.fluids) \in Nat
              /\ 2 * Len(d.modeDepths) <= w /\ 3 * Len(d.fluids) <= w
  <2>1. d \in Range(f.profiles)
    <3>1. i \in DOMAIN f.profiles
      BY ListShape DEF FieldOK
    <3> QED
      BY <1>10, <3>1 DEF Range
  <2>2. Len(d.modeDepths) \in 1 .. MaxVector /\ Len(d.fluids) \in 1 .. MaxLayers
    BY <1>3, <2>1
  <2>3. 2 * Len(d.modeDepths) <= Longest(f) /\ 3 * Len(d.fluids) <= Longest(f)
    BY <1>5, <1>6, <2>1
  <2> QED
    BY <1>1, <1>7, <1>9, <2>2, <2>3
<1>11. LeastWords <= w
  BY <1>1, <1>5, <1>6, <1>7, <1>9
<1> QED
  BY <1>1, <1>9, <1>10, <1>11 DEF w

(* The solutions of the recursion of FlattenSeq.                            *)
Strung(g, q) == g[1] = q[1] /\ \A k \in 1 .. Len(q) - 1 : g[k + 1] = g[k] \o q[k + 1]

(* The recursion of FlattenSeq has a solution.                              *)
LEMMA FlatStrung ==
  ASSUME NEW q, Len(q) \in Nat \ {0}
  PROVE  \E g : Strung(g, q) /\ FlattenSeq(q) = g[Len(q)]
<1> DEFINE n == Len(q)
           After(g, i) == IF i = 1 THEN q[i] ELSE g[i - 1] \o q[i]
           Solves(g, k) == g = [i \in 1 .. k |-> After(g, i)]
           S == {k \in Nat : \E g : Solves(g, k)}
           flat == CHOOSE g : Solves(g, n)
<1>1. FlattenSeq(q) = flat[n]
  BY DEF FlattenSeq
<1> HIDE DEF flat
<1>2. 0 \in S
  <2> DEFINE g == [i \in 1 .. 0 |-> 0]
  <2>1. \A i \in 1 .. 0 : FALSE
    OBVIOUS
  <2>2. Solves(g, 0)
    BY <2>1
  <2> QED
    BY <2>2
<1>3. ASSUME NEW k \in Nat, k \in S PROVE k + 1 \in S
  <2>1. PICK g : Solves(g, k)
    BY <1>3
  <2> DEFINE h == [i \in 1 .. k + 1 |-> IF i = k + 1 THEN After(g, k + 1) ELSE g[i]]
  <2>2. \A i \in 1 .. k : h[i] = g[i] /\ g[i] = After(g, i)
    <3>1. \A i \in 1 .. k : i \in 1 .. k + 1 /\ i # k + 1
      OBVIOUS
    <3> HIDE DEF After
    <3> QED
      BY <2>1, <3>1
  <2>3. \A i \in 1 .. k + 1 : h[i] = IF i = k + 1 THEN After(g, k + 1) ELSE g[i]
    OBVIOUS
  <2>4. h = [i \in 1 .. k + 1 |-> h[i]]
    OBVIOUS
  <2> HIDE DEF h
  <2>5. ASSUME NEW i \in 1 .. k + 1 PROVE h[i] = After(h, i)
    <3>1. i = 1 \/ i - 1 \in 1 .. k
      OBVIOUS
    <3>2. After(h, i) = After(g, i)
      BY <2>2, <3>1
    <3>3. CASE i = k + 1
      BY <2>3, <3>2, <3>3
    <3>4. CASE i # k + 1
      <4>1. i \in 1 .. k
        BY <3>4
      <4> QED
        BY <2>2, <3>2, <4>1
    <3> QED
      BY <3>3, <3>4
  <2>6. h = [i \in 1 .. k + 1 |-> After(h, i)]
    <3> HIDE DEF After
    <3> QED
      BY <2>4, <2>5
  <2>7. Solves(h, k + 1)
    BY <2>6
  <2> HIDE DEF Solves
  <2> QED
    BY <2>7
<1>4. n \in S
  <2> HIDE DEF S
  <2> QED
    BY <1>2, <1>3, SetInduction
<1>5. Solves(flat, n)
  <2>1. \E g : Solves(g, n)
    BY <1>4
  <2> HIDE DEF Solves
  <2> QED
    BY <2>1 DEF flat
<1>6. \A i \in 1 .. n : flat[i] = After(flat, i)
  <2> HIDE DEF After
  <2> QED
    BY <1>5
<1>7. flat[1] = q[1]
  BY <1>6
<1>8. ASSUME NEW k \in 1 .. n - 1 PROVE flat[k + 1] = flat[k] \o q[k + 1]
  <2>1. k + 1 \in 1 .. n /\ k + 1 # 1 /\ (k + 1) - 1 = k
    OBVIOUS
  <2> QED
    BY <1>6, <2>1
<1> QED
  BY <1>1, <1>7, <1>8 DEF Strung

(* Lists strung together are a list.                                        *)
LEMMA ListedFlat ==
  ASSUME NEW q, List(q), Len(q) # 0, \A i \in 1 .. Len(q) : List(q[i])
  PROVE  List(FlattenSeq(q))
<1>1. Len(q) \in Nat \ {0}
  BY ListShape
<1>2. PICK g : Strung(g, q) /\ FlattenSeq(q) = g[Len(q)]
  BY <1>1, FlatStrung
<1> DEFINE n == Len(q)
           S == {k \in Nat : k + 1 <= n => List(g[k + 1])}
<1>3. 0 \in S
  <2>1. List(q[1])
    BY <1>1
  <2> QED
    BY <1>2, <2>1 DEF Strung
<1>4. ASSUME NEW k \in Nat, k \in S PROVE k + 1 \in S
  <2>1. CASE k + 1 + 1 <= n
    <3>1. k + 1 \in 1 .. n - 1 /\ k + 1 + 1 \in 1 .. n /\ k + 1 <= n
      BY <1>1, <2>1
    <3>2. g[k + 1 + 1] = g[k + 1] \o q[k + 1 + 1]
      BY <1>2, <3>1 DEF Strung
    <3>3. List(g[k + 1]) /\ List(q[k + 1 + 1])
      BY <1>4, <3>1
    <3> DEFINE a == g[k + 1]
               b == q[k + 1 + 1]
    <3> HIDE DEF a, b
    <3>4. List(a \o b)
      BY <3>3, ListedJoint DEF a, b
    <3>5. List(g[k + 1 + 1])
      BY <3>2, <3>4 DEF a, b
    <3> QED
      BY <3>5
  <2>2. CASE ~(k + 1 + 1 <= n)
    BY <2>2
  <2> QED
    BY <2>1, <2>2
<1>5. n - 1 \in S
  <2> HIDE DEF S
  <2>1. n - 1 \in Nat
    BY <1>1
  <2> QED
    BY <1>3, <1>4, <2>1, SetInduction
<1>6. List(g[n])
  <2>1. (n - 1) + 1 <= n /\ (n - 1) + 1 = n
    BY <1>1
  <2> QED
    BY <1>5, <2>1
<1> QED
  BY <1>2, <1>6

(* The records of a profile are a list.                                     *)
LEMMA ProfileListed ==
  ASSUME NEW p, NEW d, NEW n \in Nat, NEW words \in Nat, words >= 2
  PROVE  List(ModProfile(p, d, n, words))
<1> DEFINE half == words \div 2
           modes == [m \in 1 .. n |-> <<p, m>>]
           chunks == Chunks(modes, half)
           shapes == [m \in 1 .. n |-> Pairs(Shape(p, m, Len(d.modeDepths)))]
           waves == [k \in DOMAIN chunks |-> Pairs(chunks[k])]
           header == ModHeader(p, d, n, words)
<1>1. half \in Nat \ {0}
  OBVIOUS
<1>2. Len(modes) = n
  OBVIOUS
<1>3. (n + half - 1) \div half \in Nat
  <2> HIDE DEF half
  <2>1. n + half - 1 \in Nat
    BY <1>1
  <2>2. \A x \in Nat : x \div half \in Nat
    BY <1>1
  <2> QED
    BY <2>1, <2>2
<1>4. DOMAIN chunks = 1 .. (n + half - 1) \div half
  <2> HIDE DEF modes, half
  <2> QED
    BY <1>2 DEF Chunks
<1>5. waves = [k \in 1 .. (n + half - 1) \div half |-> waves[k]]
  <2> HIDE DEF chunks, half
  <2> QED
    BY <1>4
<1>6. List(waves)
  <2> HIDE DEF waves, half
  <2> QED
    BY <1>3, <1>5, ListedFunction
<1>7. List(shapes)
  <2>1. shapes = [m \in 1 .. n |-> shapes[m]]
    OBVIOUS
  <2> HIDE DEF shapes
  <2> QED
    BY <2>1, ListedFunction
<1>8. List(header)
  <2>1. header = [i \in 1 .. 7 |-> header[i]]
    BY DEF ModHeader
  <2> HIDE DEF header
  <2> QED
    BY <2>1, ListedFunction
<1>9. ModProfile(p, d, n, words) = header \o shapes \o waves
  BY DEF ModProfile
<1> HIDE DEF header, shapes, waves
<1> DEFINE front == header \o shapes
<1>10. List(front)
  BY <1>7, <1>8, ListedJoint
<1> HIDE DEF front
<1>11. List(front \o waves)
  BY <1>6, <1>10, ListedJoint
<1> QED
  BY <1>9, <1>11 DEF front

(* A new file holds nothing.                                                *)
LEMMA NewBounded ==
  \A words, maximum : WithinMost(NewDirect(words, maximum), words, maximum)
BY DEF WithinMost, NewDirect, FileParts

(* The MOD file holds what it may.                                          *)
LEMMA ModBounded ==
  ASSUME NEW f, FieldOK(f), Deep(f), NEW n \in Seq(Nat), Len(n) = Len(f.profiles), NEW maximum \in Nat
  PROVE  WithinMost(ModFile(f, n, maximum), ModWords(f), maximum)
<1>1. ModWords(f) \in Nat /\ ModWords(f) >= 2
  BY LongestBounds
<1>2. Len(f.profiles) \in Nat \ {0} /\ DOMAIN f.profiles = 1 .. Len(f.profiles)
  BY FieldShape, ListShape DEF FieldOK
<1> DEFINE q == [p \in DOMAIN f.profiles |-> ModProfile(p, f.profiles[p], n[p], ModWords(f))]
           all == FlattenSeq(q)
           new == NewDirect(ModWords(f), maximum)
<1>3. q = [p \in 1 .. Len(f.profiles) |-> q[p]]
  BY <1>2
<1>4. ASSUME NEW p \in 1 .. Len(f.profiles) PROVE List(q[p])
  <2>1. n[p] \in Nat
    OBVIOUS
  <2> QED
    BY <1>1, <1>2, <2>1, ProfileListed
<1> HIDE DEF q
<1>5. List(q) /\ Len(q) = Len(f.profiles)
  BY <1>2, <1>3, ListedFunction
<1>6. List(all)
  BY <1>2, <1>4, <1>5, ListedFlat
<1> HIDE DEF all
<1>7. Len(all) \in Nat /\ DOMAIN all = 1 .. Len(all)
  BY <1>6, ListShape
<1> HIDE DEF new
<1>8. WithinMost(new, ModWords(f), maximum) /\ ModWords(f) \in Int
  BY <1>1, NewBounded DEF new
<1>9. WithinMost(FoldLeft(Record, new, all), ModWords(f), maximum)
  BY <1>7, <1>8, RecordsBounded
<1> QED
  BY <1>9 DEF ModFile, all, q, new

(* The SHD file holds what it may.                                          *)
LEMMA ShdBounded ==
  ASSUME NEW d, CaseAllowed(d), NEW pressures, NEW maximum \in Nat
  PROVE  LET file == Shd(d.sources, d.receivers, d.ranges, FALSE, pressures, maximum) IN
         file.written \in Int /\ (file.written = 0 \/ file.written <= maximum)
<1>1. Len(d.sources) \in Nat \ {0} /\ Len(d.receivers) \in Nat \ {0} /\ Len(d.ranges) \in Nat \ {0}
  BY GridLengths
<1> DEFINE words == Max({HeaderWords, RowWords(d.ranges), Len(d.receivers), Len(d.sources)})
           n == Len(d.ranges)
           rows == Rows(d.sources, d.receivers, FALSE)
           header == <<Payload(<<words>>, 21), Payload(<<FALSE>>, 3),
                       Payload(<<Len(d.sources), Len(d.receivers), n>>, LeastInteger),
                       Payload(<<"frequency">>, 2), Payload(<<0>>, 2), Payload(<<0>>, 2),
                       Payload(<<0>>, 2), Singles(d.sources), Singles(d.receivers), Doubles(d.ranges)>>
           row(k) == Payload(SubSeq(pressures, (k - 1) * n + 1, k * n), RowWords(d.ranges))
           body == [k \in 1 .. rows |-> row(k)]
           new == NewDirect(words, maximum)
           full == FoldLeft(Record, new, header)
           file == FoldLeft(Record, full, body)
<1>2. words \in Int
  <2>1. HeaderWords \in Nat \ {0} /\ RowWords(d.ranges) \in Nat \ {0}
    BY <1>1, NativeRecordsAssumption DEF RowWords
  <2> DEFINE k == HeaderWords + RowWords(d.ranges) + Len(d.receivers) + Len(d.sources)
             s == {HeaderWords, RowWords(d.ranges), Len(d.receivers), Len(d.sources)}
  <2>2. k \in Nat /\ s \in SUBSET (1 .. k) /\ s # {}
    BY <1>1, <2>1
  <2> HIDE DEF k
  <2>3. s \subseteq Int
    BY <1>1, <2>1
  <2> HIDE DEF s
  <2>4. Max(s) \in s
    BY <2>2, Greatest
  <2> QED
    BY <2>3, <2>4 DEF s
<1>3. DOMAIN header = 1 .. 10
  OBVIOUS
<1>4. rows \in Nat
  <2>1. \A a, b \in Nat \ {0} : a * b \in Nat
    OBVIOUS
  <2> QED
    BY <1>1, <2>1 DEF Rows
<1>5. DOMAIN body = 1 .. rows
  OBVIOUS
<1>6. Shd(d.sources, d.receivers, d.ranges, FALSE, pressures, maximum) =
        [file EXCEPT !.ok = @ /\ Len(pressures) = rows * n]
  BY DEF Shd
<1>7. WithinMost(new, words, maximum)
  BY NewBounded
<1> HIDE DEF words, header, body, rows, new
<1>8. WithinMost(full, words, maximum)
  BY <1>2, <1>3, <1>7, RecordsBounded
<1> HIDE DEF full
<1>9. WithinMost(file, words, maximum)
  BY <1>2, <1>4, <1>5, <1>8, RecordsBounded
<1> HIDE DEF file
<1> QED
  BY <1>6, <1>9 DEF WithinMost, FileParts

-----------------------------------------------------------------------------
(* What is written is of a frequency that is solved, and the report has one *)
(* entry for every frequency that is done with.                             *)
Done == IF phase = "idle" \/ (phase = "solved" /\ writing = "none") THEN frequency ELSE frequency - 1
Ledger ==
  /\ payload \in Int /\ native \in Int /\ report \in Int
  /\ stage # "over" => exit = -1 /\ report = ReportWords * Done
  /\ writing # "none" => stage \in {"running", "over"} /\ phase = "solved"
  /\ phase = "idle" => frequency = 0
  /\ phase = "solved" => frequency \in DOMAIN fields /\ Len(counts) = Len(Profiles)
  /\ Within

(* Nothing is written at first.                                             *)
LEMMA LedgerInit == Init => Ledger
<1> SUFFICES ASSUME Init PROVE Ledger
  OBVIOUS
<1>1. /\ frequency = 0 /\ phase = "idle" /\ writing = "none" /\ payload = 0 /\ native = 0 /\ report = 0
      /\ exit = -1 /\ stage = "read"
  BY DEF Init, FieldInit
<1>2. ReportWords * 0 = 0
  BY KrakenCommandAssumption
<1>3. exit # 0
  BY <1>1
<1> QED
  BY <1>1, <1>2, <1>3 DEF Ledger, Done, Within

(* What reads or exports leaves the ledger as it was.                       *)
LEMMA LedgerElsewhere ==
  ASSUME Ledger, UNCHANGED <<request, payload, native, report, writing, frequency, phase, counts>>,
         stage \notin {"over", "running"}, stage \in {"read", "load"} \/ UNCHANGED fields,
         Acceptance,
         exit' = exit \/ (stage' = "over" /\ (exit' = 0 => request.command # "run")),
         stage' # "over" => exit' = exit
  PROVE  Ledger'
<1>1. phase = "idle" /\ exit = -1 /\ writing = "none"
  BY DEF Acceptance, Ledger
<1>2. Done' = Done
  BY DEF Done
<1>3. exit' = 0 => request'.command # "run"
  BY <1>1
<1>4. Within'
  BY <1>1, <1>3 DEF Within
<1> QED
  BY <1>1, <1>2, <1>4 DEF Ledger

(* The words of the results so far.                                         *)
LEMMA DirectoryType ==
  ASSUME Ledger
  PROVE  Directory \in Int /\ Hdf5File \in Int /\ Overhead \in Nat /\ ReportWords \in Nat /\ ManifestWords \in Nat
BY KrakenCommandAssumption DEF Ledger, Directory, Hdf5File

(* The quota is a number of words.                                          *)
LEMMA MaximumType ==
  ASSUME Acceptance
  PROVE  Maximum \in Nat
BY RequestsAssumption DEF Acceptance, Maximum

(* The field that is solved, and the modes of its profiles.                 *)
LEMMA SolvedField ==
  ASSUME Acceptance, Marching, Sized, Ledger, phase = "solved"
  PROVE  /\ FieldOK(Field) /\ Deep(Field) /\ CaseAllowed(Profile) /\ Layered(Profile)
         /\ counts \in Seq(Nat) /\ Len(counts) = Len(Field.profiles) /\ frequency \in Nat \ {0}
<1>1. frequency \in DOMAIN fields /\ Len(counts) = Len(Profiles)
  BY DEF Ledger
<1>2. FieldOK(Field) /\ Deep(Field)
  BY <1>1 DEF Acceptance, Fit, Sized, Field
<1>3. 1 \in 1 .. Len(Field.profiles)
  BY <1>2, FieldShape
<1>4. CaseAllowed(Profile) /\ Layered(Profile)
  BY <1>2, <1>3 DEF FieldOK, Deep, Profile, Profiles
<1>5. frequency \in 1 .. Len(fields)
  BY <1>1, ListShape DEF Sized
<1> QED
  BY <1>1, <1>2, <1>4, <1>5 DEF Marching, Profiles

(* A run that is admitted begins with nothing written.                      *)
LEMMA LedgerRun ==
  ASSUME Acceptance, Sized, Ledger, Run
  PROVE  Ledger'
<1>1. /\ stage = "loaded" /\ UNCHANGED <<request, writing, native, report, fields, frequency, phase, counts>>
      /\ \/ stage' = "running" /\ exit' = exit
         \/ stage' = "over" /\ exit' = 4
      /\ payload' \in {payload, 0, HeaderPayload(fields)}
  BY DEF Run, Exits, loadVars, fieldVars
<1>2. phase = "idle" /\ exit = -1 /\ writing = "none"
  BY <1>1 DEF Acceptance, Ledger
<1>3. HeaderPayload(fields) \in Int
  <2>1. Len(fields) \in Nat
    BY ListShape DEF Sized
  <2> QED
    BY <2>1 DEF HeaderPayload, Doubled
<1>4. Done' = Done /\ payload' \in Int
  BY <1>1, <1>3 DEF Done, Ledger
<1>5. Within'
  BY <1>1, <1>2 DEF Within
<1> QED
  BY <1>1, <1>2, <1>4, <1>5 DEF Ledger

(* The next of what is solved: what it makes is yet to be written.          *)
LEMMA LedgerNext ==
  ASSUME Acceptance, Marching, Ledger, NextStep
  PROVE  Ledger'
<1>1. /\ stage = "running" /\ writing = "none"
      /\ UNCHANGED <<request, stage, payload, native, report, exit>>
      /\ writing' = IF phase' = "solved" THEN FirstProduct ELSE "none"
      /\ SolveField \/ NextFrequency
  BY DEF NextStep, loadVars
<1>2. exit = -1 /\ frequency \in Nat /\ FirstProduct \in {"hdf5", "mod"}
  BY <1>1 DEF Ledger, Marching, FirstProduct
<1>3. Within'
  BY <1>1, <1>2 DEF Within
<1>4. CASE NextFrequency
  <2>1. phase \in {"idle", "solved"} /\ frequency' = frequency + 1 /\ phase' \in {"modes", "failed"}
    BY <1>4 DEF NextFrequency
  <2>2. Done = frequency /\ Done' = (frequency + 1) - 1
    BY <1>1, <2>1 DEF Done
  <2>3. Done' = Done
    BY <1>2, <2>2
  <2> QED
    BY <1>1, <1>2, <1>3, <2>1, <2>3 DEF Ledger
<1>5. CASE SolveField
  <2>1. /\ phase \in {"modes", "march"} /\ UNCHANGED <<fields, frequency>>
        /\ phase' \in {"modes", "march", "solved", "failed"}
        /\ phase' = "solved" => /\ counts' = counts
                                /\ phase = "march" \/ (Field.propagation = "independent" /\ Len(counts) = 1)
    <3>1. CASE SolveProfile
      BY <3>1 DEF SolveProfile
    <3>2. CASE Synthesize
      BY <3>2 DEF Synthesize
    <3>3. CASE StartMarch
      BY <3>3 DEF StartMarch
    <3>4. CASE Cross
      BY <3>4 DEF Cross
    <3>5. CASE Receive
      <4>1. phase = "march" /\ UNCHANGED <<fields, frequency, counts>>
        BY <3>5 DEF Receive
      <4>2. phase' = phase \/ phase' \in {"solved", "failed"}
        BY <3>5 DEF Receive
      <4> QED
        BY <4>1, <4>2
    <3> QED
      BY <1>5, <3>1, <3>2, <3>3, <3>4, <3>5 DEF SolveField
  <2>2. Done' = Done
    BY <1>1, <1>2, <2>1 DEF Done
  <2>3. frequency \in DOMAIN fields
    BY <2>1 DEF Marching
  <2>4. phase' = "solved" => Len(counts') = Len(Profiles')
    <3>1. Profiles' = Profiles
      BY <2>1 DEF Profiles, Field
    <3>2. FieldCaseAllowed(Field)
      BY <2>3 DEF Acceptance, Fit, FieldOK, Field
    <3>3. Field.propagation = "independent" => Len(Profiles) = 1
      BY <3>2 DEF FieldCaseAllowed, Profiles
    <3> QED
      BY <2>1, <3>1, <3>3 DEF Marching
  <2> QED
    BY <1>1, <1>2, <1>3, <2>1, <2>2, <2>3, <2>4 DEF Ledger
<1> QED
  BY <1>1, <1>4, <1>5

(* The datasets of a frequency are counted.                                 *)
LEMMA LedgerHdf5 ==
  ASSUME Acceptance, Marching, Sized, Ledger, WriteHdf5
  PROVE  Ledger'
<1>1. /\ stage = "running" /\ writing = "hdf5" /\ payload' = payload + FrequencyWords(Field, counts)
      /\ \/ stage' = "over" /\ exit' = 4 /\ writing' = writing
         \/ stage' = stage /\ exit' = exit /\ writing' = IF Native THEN "mod" ELSE "account"
      /\ UNCHANGED <<request, native, report, fields, frequency, phase, counts>>
  BY DEF WriteHdf5, Fails, Proceeds, Exits, loadVars, fieldVars
<1>2. exit = -1 /\ phase = "solved" /\ payload \in Int
  BY <1>1 DEF Ledger
<1>3. payload' \in Int
  BY <1>1, <1>2, SolvedField, FrequencyType
<1>4. Done' = Done /\ Profiles' = Profiles /\ Native' = Native
  BY <1>1, <1>2 DEF Done, Profiles, Field, Native
<1>5. Within'
  BY <1>1, <1>2, <1>4 DEF Within
<1> QED
  BY <1>1, <1>2, <1>3, <1>4, <1>5 DEF Ledger

(* A native file takes no more than the quota leaves.                       *)
LEMMA LedgerNative ==
  ASSUME Acceptance, Ledger, stage = "running", writing \in {"mod", "shd"},
         NEW file, file.written \in Int, file.written = 0 \/ file.written <= Remaining, Remaining >= 0,
         NEW next \in {"shd", "account"}, WriteNative(file, next),
         UNCHANGED <<loadVars, document, payload, report, fieldVars>>
  PROVE  Ledger'
<1>1. /\ native' = native + file.written
      /\ \/ stage' = "over" /\ exit' = 4 /\ writing' = writing
         \/ stage' = stage /\ exit' = exit /\ writing' = next
      /\ UNCHANGED <<request, payload, report, fields, frequency, phase, counts>>
  BY DEF WriteNative, Fails, Proceeds, Exits, loadVars, fieldVars
<1>2. exit = -1 /\ phase = "solved" /\ native \in Int /\ payload \in Int /\ report \in Int
  BY DEF Ledger
<1>3. native' \in Int
  BY <1>1, <1>2
<1>4. Done' = Done /\ Profiles' = Profiles /\ Hdf5File' = Hdf5File /\ Maximum' = Maximum
  BY <1>1, <1>2 DEF Done, Profiles, Field, Hdf5File, Hdf5, Maximum
<1>5. Directory' = Directory + file.written
  <2>1. Hdf5File \in Int
    BY DirectoryType
  <2> QED
    BY <1>1, <1>2, <1>4, <2>1 DEF Directory
<1>6. Directory' <= Maximum'
  <2>1. Directory \in Int /\ Maximum \in Int
    BY DirectoryType, MaximumType
  <2>2. Remaining = Maximum - Directory
    BY DEF Remaining
  <2> HIDE DEF Remaining
  <2> QED
    BY <1>4, <1>5, <2>1, <2>2
<1>7. Within'
  BY <1>1, <1>2, <1>6 DEF Within
<1> QED
  BY <1>1, <1>2, <1>3, <1>4, <1>7 DEF Ledger

(* Nothing is written when the quota leaves nothing.                        *)
LEMMA LedgerFull ==
  ASSUME Acceptance, Ledger, stage = "running", Remaining < 0, Fails(4),
         UNCHANGED <<loadVars, document, payload, native, report, fieldVars>>
  PROVE  Ledger'
<1>1. /\ stage' = "over" /\ exit' = 4
      /\ UNCHANGED <<request, payload, native, report, fields, frequency, phase, counts, writing>>
  BY DEF Fails, Exits, loadVars, fieldVars
<1>2. Profiles' = Profiles
  BY <1>1 DEF Profiles, Field
<1>3. Within'
  <2>1. Native' = Native /\ Directory' = Directory /\ Maximum' = Maximum
    BY <1>1 DEF Native, Directory, Hdf5File, Hdf5, Maximum
  <2>2. Within
    BY DEF Ledger
  <2> QED
    BY <1>1, <2>1, <2>2 DEF Within
<1> QED
  BY <1>1, <1>2, <1>3 DEF Ledger

(* The MOD file is within what is left.                                     *)
LEMMA LedgerMod ==
  ASSUME Acceptance, Marching, Sized, Ledger, WriteMod
  PROVE  Ledger'
<1>1. stage = "running" /\ writing = "mod" /\ UNCHANGED <<loadVars, document, payload, report, fieldVars>>
  BY DEF WriteMod
<1>2. Remaining \in Int
  BY DirectoryType, MaximumType DEF Remaining
<1>3. CASE Remaining < 0
  BY <1>1, <1>3, LedgerFull DEF WriteMod
<1>4. CASE Remaining >= 0
  <2> DEFINE file == ModFile(Field, counts, Remaining)
  <2>1. WriteNative(file, "shd")
    BY <1>2, <1>4 DEF WriteMod
  <2>2. FieldOK(Field) /\ Deep(Field) /\ counts \in Seq(Nat) /\ Len(counts) = Len(Field.profiles)
    BY <1>1, SolvedField DEF Ledger
  <2>3. WithinMost(file, ModWords(Field), Remaining)
    BY <1>2, <1>4, <2>2, ModBounded
  <2> HIDE DEF file
  <2> QED
    BY <1>1, <1>4, <2>1, <2>3, LedgerNative DEF WithinMost
<1> QED
  BY <1>2, <1>3, <1>4

(* So is the SHD file.                                                      *)
LEMMA LedgerShd ==
  ASSUME Acceptance, Marching, Sized, Ledger, WriteShd
  PROVE  Ledger'
<1>1. stage = "running" /\ writing = "shd" /\ UNCHANGED <<loadVars, document, payload, report, fieldVars>>
  BY DEF WriteShd
<1>2. Remaining \in Int
  BY DirectoryType, MaximumType DEF Remaining
<1>3. CASE Remaining < 0
  BY <1>1, <1>3, LedgerFull DEF WriteShd
<1>4. CASE Remaining >= 0
  <2> DEFINE file == ShdFile(Field, pressure, Remaining)
             d == Field.profiles[1]
  <2>1. WriteNative(file, "account")
    BY <1>2, <1>4 DEF WriteShd
  <2>2. CaseAllowed(d)
    BY <1>1, SolvedField DEF Ledger, Profile, Profiles
  <2>3. file = Shd(d.sources, d.receivers, d.ranges, FALSE, pressure, Remaining)
    BY DEF ShdFile
  <2> HIDE DEF file, d
  <2>4. Remaining \in Nat
    BY <1>2, <1>4
  <2> HIDE DEF Remaining
  <2>5. file.written \in Int /\ (file.written = 0 \/ file.written <= Remaining)
    BY <2>2, <2>3, <2>4, ShdBounded
  <2> QED
    BY <1>1, <1>4, <2>1, <2>5, LedgerNative
<1> QED
  BY <1>2, <1>3, <1>4

(* The report has one entry more, and the frequency is done with.           *)
LEMMA LedgerAccount ==
  ASSUME Acceptance, Marching, Sized, Ledger, Account
  PROVE  Ledger'
<1>1. /\ stage = "running" /\ writing = "account" /\ report' = report + ReportWords
      /\ \/ stage' = "over" /\ exit' = 4 /\ writing' = writing
         \/ stage' = stage /\ exit' = exit /\ writing' = "none"
      /\ UNCHANGED <<request, payload, native, fields, frequency, phase, counts>>
  BY DEF Account, Fails, Proceeds, Exits, loadVars, fieldVars
<1>2. exit = -1 /\ phase = "solved" /\ report \in Int /\ native \in Int /\ payload \in Int /\ Within
  BY <1>1 DEF Ledger
<1>3. ReportWords \in Nat /\ frequency \in Nat \ {0}
  BY <1>2, SolvedField, DirectoryType
<1>4. Done = frequency - 1 /\ report = ReportWords * (frequency - 1)
  BY <1>1, <1>2 DEF Done, Ledger
<1>5. ReportWords * frequency = ReportWords * (frequency - 1) + ReportWords
  BY <1>3
<1>6. report' = ReportWords * frequency /\ report' \in Int
  BY <1>1, <1>2, <1>3, <1>4, <1>5
<1>7. Profiles' = Profiles /\ (stage' # "over" => Done' = frequency)
  BY <1>1, <1>2 DEF Done, Profiles, Field
<1>8. Within'
  <2> SUFFICES ASSUME (Native /\ writing \in {"shd", "account"} /\ report = ReportWords * (frequency - 1))'
               PROVE  (Directory <= Maximum)'
    BY <1>1, <1>2 DEF Within
  <2>1. report' = ReportWords * (frequency - 1)
    BY <1>1
  <2>2. ReportWords = 0
    <3>1. ReportWords * (frequency - 1) \in Int
      BY <1>3
    <3> QED
      BY <1>3, <1>5, <1>6, <2>1, <3>1
  <2>3. report' = report
    BY <1>1, <1>2, <2>2
  <2>4. Directory' = Directory /\ Maximum' = Maximum /\ Native' = Native
    BY <1>1, <2>3 DEF Directory, Hdf5File, Hdf5, Maximum, Native
  <2> QED
    BY <1>1, <1>2, <1>4, <2>4 DEF Within
<1> QED
  BY <1>1, <1>2, <1>6, <1>7, <1>8 DEF Ledger

(* What is published is every frequency, within the quota.                  *)
LEMMA LedgerPublish ==
  ASSUME Acceptance, Marching, Sized, Ledger, Publish
  PROVE  Ledger'
<1>1. /\ stage = "running" /\ writing = "none" /\ phase = "solved" /\ frequency = Len(fields)
      /\ stage' = "over" /\ UNCHANGED <<loadVars, document, writeVars, fieldVars>>
      /\ exit' = 4 \/ (exit' = 0 /\ Directory + ManifestWords <= Maximum)
  BY DEF Publish, Exits
<1>2. UNCHANGED <<request, payload, native, report, writing, fields, frequency, phase, counts>>
  BY <1>1 DEF loadVars, writeVars, fieldVars
<1>3. Directory' = Directory /\ Maximum' = Maximum /\ Native' = Native /\ Profiles' = Profiles
  BY <1>2 DEF Directory, Hdf5File, Hdf5, Maximum, Native, Profiles, Field
<1>4. report = ReportWords * frequency
  BY <1>1 DEF Ledger, Done
<1>5. Within'
  BY <1>1, <1>2, <1>3, <1>4 DEF Within
<1> QED
  BY <1>1, <1>2, <1>3, <1>5 DEF Ledger

(* Ledger holds after every step.                                          *)
LEMMA LedgerStep == Acceptance /\ Marching /\ Sized /\ Ledger /\ [Next]_vars => Ledger'
<1> SUFFICES ASSUME Acceptance, Marching, Sized, Ledger, [Next]_vars PROVE Ledger'
  OBVIOUS
<1>1. CASE ReadPair
  BY <1>1, LedgerElsewhere DEF ReadPair, Rejected, Unread, GoesOn, Exits, writeVars, fieldVars
<1>2. CASE DiscoverProfile
  BY <1>2, LedgerElsewhere DEF DiscoverProfile, Unread, GoesOn, Exits, writeVars, fieldVars
<1>3. CASE EndDiscovery
  BY <1>3, LedgerElsewhere DEF EndDiscovery, GoesOn, writeVars, fieldVars
<1>4. CASE ReadTable
  BY <1>4, LedgerElsewhere DEF ReadTable, Rejected, GoesOn, Exits, writeVars, fieldVars
<1>5. CASE ReadPattern
  BY <1>5, LedgerElsewhere DEF ReadPattern, Rejected, Unread, GoesOn, Exits, writeVars, fieldVars
<1>6. CASE BeginLoad
  BY <1>6, LedgerElsewhere DEF BeginLoad, GoesOn, writeVars, fieldVars
<1>7. CASE LoadProfile
  <2>1. stage = "load" /\ UNCHANGED <<request, writeVars, fieldVars>>
    BY <1>7 DEF LoadProfile
  <2>2. (stage' = "over" /\ exit' = 2) \/ UNCHANGED exit
    BY <1>7 DEF LoadProfile, Join, Unread, Rejected, GoesOn, Exits
  <2>3. stage' # "over" => UNCHANGED exit
    BY <2>1, <2>2
  <2> QED
    BY <2>1, <2>2, <2>3, LedgerElsewhere DEF writeVars, fieldVars
<1>8. CASE FinishLoad
  <2>1. stage = "load" /\ UNCHANGED <<request, writeVars, frequency, phase, counts>>
    BY <1>8 DEF FinishLoad
  <2>2. (stage' = "over" /\ exit' = 2) \/ UNCHANGED exit
    <3>1. PICK field :
            CASE More(loading.reader) -> Rejected("input") /\ UNCHANGED fields
              [] ~More(loading.reader) /\ Unused # {} -> Rejected("unexpected table") /\ UNCHANGED fields
              [] OTHER -> IF \A f \in Range(FieldsOf(field)) : FieldCaseAllowed(f)
                            THEN fields' = FieldsOf(field) /\ GoesOn("loaded")
                            ELSE Rejected("case") /\ UNCHANGED fields
      BY <1>8 DEF FinishLoad
    <3> QED
      BY <3>1 DEF Rejected, GoesOn, Exits
  <2> QED
    BY <2>1, <2>2, LedgerElsewhere DEF writeVars
<1>9. CASE LoadDocument
  BY <1>9, LedgerElsewhere DEF LoadDocument, Rejected, GoesOn, Exits, writeVars
<1>10. CASE ExportCase
  BY <1>10, LedgerElsewhere DEF ExportCase, Rejected, Exits, writeVars, fieldVars
<1>11. CASE Run
  BY <1>11, LedgerRun
<1>12. CASE NextStep
  BY <1>12, LedgerNext
<1>13. CASE WriteHdf5
  BY <1>13, LedgerHdf5
<1>14. CASE WriteMod
  BY <1>14, LedgerMod
<1>15. CASE WriteShd
  BY <1>15, LedgerShd
<1>16. CASE Account
  BY <1>16, LedgerAccount
<1>17. CASE Publish
  BY <1>17, LedgerPublish
<1>18. CASE Failed
  <2>1. /\ stage = "running" /\ phase = "failed" /\ stage' = "over" /\ exit' = 3
        /\ UNCHANGED <<payload, native, report, writing, fields, frequency, phase, counts>>
    BY <1>18 DEF Failed, Exits, writeVars, fieldVars
  <2>2. writing = "none"
    BY <2>1 DEF Ledger
  <2>3. Within'
    BY <2>1, <2>2 DEF Within
  <2> QED
    BY <2>1, <2>2, <2>3 DEF Ledger
<1>19. CASE Over \/ UNCHANGED vars
  <2>1. UNCHANGED <<request, stage, exit, payload, native, report, writing, fields, frequency, phase, counts>>
    BY <1>19 DEF Over, vars, loadVars, writeVars, fieldVars
  <2>2. Done' = Done /\ Profiles' = Profiles
    BY <2>1 DEF Done, Profiles, Field
  <2>3. Within' = Within
    BY <2>1 DEF Within, Native, Directory, Hdf5File, Hdf5, Maximum
  <2> QED
    BY <2>1, <2>2, <2>3 DEF Ledger
<1> QED
  BY <1>1, <1>2, <1>3, <1>4, <1>5, <1>6, <1>7, <1>8, <1>9, <1>10, <1>11, <1>12, <1>13, <1>14, <1>15, <1>16, <1>17,
     <1>18, <1>19 DEF Next

(* The native files of a run never take the directory past its quota, not   *)
(* even while they are written, and what is published is every frequency,   *)
(* within the quota (kraken_native.rs, output/src/kraken.rs): Within, for   *)
(* every request, quota and length of a record.                             *)
THEOREM ResultsWithin == Spec => []Within
<1>1. Init => Acceptance /\ Marching /\ Sized /\ Ledger
  BY AcceptanceInit, SizedInit, LedgerInit
<1>2. Acceptance /\ Marching /\ Sized /\ Ledger /\ [Next]_vars => (Acceptance /\ Marching /\ Sized /\ Ledger)'
  BY AcceptanceStep, SizedStep, LedgerStep
<1>3. Ledger => Within
  BY DEF Ledger
<1> QED
  BY <1>1, <1>2, <1>3, PTL DEF Spec

-----------------------------------------------------------------------------
(* What a reader finds in the native files.                                *)

(* A file without a quota that has not failed.                              *)
Open(file) ==
  DOMAIN file = FileParts /\ file.ok /\ file.maximum = NoQuota /\ List(file.records)

(* Such a file takes every record that is not too long, in order.           *)
Kept(all, file, q, n) ==
  /\ Open(all) /\ all.words = file.words /\ Len(all.records) = Len(file.records) + n
  /\ \A i \in 1 .. Len(file.records) : all.records[i] = file.records[i]
  /\ \A k \in 1 .. n : all.records[Len(file.records) + k] = q[k].values
LEMMA RecordsKept ==
  ASSUME NEW file, Open(file), NEW q, NEW n \in Nat, DOMAIN q = 1 .. n,
         \A k \in 1 .. n : ~(q[k].words > file.words)
  PROVE  Kept(FoldLeft(Record, file, q), file, q, n)
<1>1. PICK g : RecordsSolved(g, n, file, q, FoldLeft(Record, file, q))
  BY RecordsFolded
<1> DEFINE S == {k \in Nat : k <= n => Kept(g[1 .. k], file, q, k)}
           m == Len(file.records)
<1>2. m \in Nat
  BY ListShape DEF Open
<1>3. 0 \in S
  <2>1. 1 .. 0 = {} /\ g[{}] = file
    BY <1>1 DEF RecordsSolved
  <2>2. Kept(file, file, q, 0)
    BY <1>2 DEF Kept
  <2> QED
    BY <2>1, <2>2
<1>4. ASSUME NEW k \in Nat, k \in S PROVE k + 1 \in S
  <2>1. CASE k + 1 <= n
    <3>1. k \in 0 .. n - 1 /\ k <= n /\ k + 1 \in 1 .. n
      BY <2>1
    <3> DEFINE old == g[1 .. k]
               p == q[k + 1]
               new == g[1 .. k + 1]
    <3>2. new = Record(old, p) /\ Kept(old, file, q, k) /\ ~(p.words > file.words)
      BY <1>1, <1>4, <3>1 DEF RecordsSolved
    <3> HIDE DEF old, p, new
    <3>3. new = [old EXCEPT !.written = @ + old.words, !.records = Append(@, p.values)]
      BY <3>2 DEF Record, Fits, Kept, Open
    <3>4. /\ DOMAIN new = FileParts /\ new.ok /\ new.maximum = NoQuota /\ new.words = file.words
          /\ new.records = Append(old.records, p.values)
      BY <3>2, <3>3 DEF Kept, Open, FileParts
    <3>5. /\ List(Append(old.records, p.values)) /\ Len(Append(old.records, p.values)) = Len(old.records) + 1
          /\ \A i \in 1 .. Len(old.records) : Append(old.records, p.values)[i] = old.records[i]
          /\ Append(old.records, p.values)[Len(old.records) + 1] = p.values
      <4>1. List(old.records)
        BY <3>2 DEF Kept, Open
      <4> QED
        BY <4>1, ListedAppended
    <3>6. Len(old.records) = m + k
      BY <3>2 DEF Kept
    <3>7. \A i \in 1 .. m : i \in 1 .. m + k
      BY <1>2
    <3>8. \A i \in 1 .. m : new.records[i] = file.records[i]
      BY <3>2, <3>4, <3>5, <3>6, <3>7 DEF Kept
    <3>9. ASSUME NEW i \in 1 .. k + 1 PROVE new.records[m + i] = q[i].values
      <4>1. CASE i = k + 1
        <5>1. m + i = (m + k) + 1 /\ (m + k) + 1 = Len(old.records) + 1
          <6> HIDE DEF m
          <6> QED
            BY <1>2, <3>6, <4>1
        <5> QED
          BY <3>4, <3>5, <4>1, <5>1 DEF p
      <4>2. CASE i # k + 1
        <5>1. i \in 1 .. k /\ m + i \in 1 .. m + k
          BY <1>2, <4>2
        <5> QED
          BY <3>2, <3>4, <3>5, <3>6, <5>1 DEF Kept
      <4> QED
        BY <4>1, <4>2
    <3>10. Len(new.records) = m + (k + 1)
      <4>1. Len(new.records) = (m + k) + 1
        BY <3>4, <3>5, <3>6
      <4>2. (m + k) + 1 = m + (k + 1)
        <5> HIDE DEF m
        <5> QED
          BY <1>2
      <4> QED
        BY <4>1, <4>2
    <3>11. Kept(new, file, q, k + 1)
      BY <3>4, <3>5, <3>8, <3>9, <3>10 DEF Kept, Open
    <3> QED
      BY <3>11 DEF new
  <2> QED
    BY <2>1
<1>5. n \in S
  <2> HIDE DEF S
  <2> QED
    BY <1>3, <1>4, SetInduction
<1> QED
  BY <1>1, <1>5 DEF RecordsSolved

(* Where each list begins in the lists strung together, and what is there.  *)
Placed(o, q, flat) ==
  /\ o[1] = 0 /\ o[Len(q) + 1] = Len(flat)
  /\ \A k \in 1 .. Len(q) :
       /\ o[k] \in Nat /\ o[k + 1] = o[k] + Len(q[k]) /\ o[k + 1] <= Len(flat)
       /\ \A j \in 1 .. Len(q[k]) : flat[o[k] + j] = q[k][j]
LEMMA FlatPlaces ==
  ASSUME NEW q, List(q), Len(q) # 0, \A i \in 1 .. Len(q) : List(q[i])
  PROVE  List(FlattenSeq(q)) /\ \E o : Placed(o, q, FlattenSeq(q))
<1>1. Len(q) \in Nat \ {0}
  BY ListShape
<1>2. PICK g : Strung(g, q) /\ FlattenSeq(q) = g[Len(q)]
  BY <1>1, FlatStrung
<1> DEFINE n == Len(q)
           o == [k \in 1 .. n + 1 |-> IF k = 1 THEN 0 ELSE Len(g[k - 1])]
           Right(k) == /\ List(g[k])
                       /\ \A i \in 1 .. k : /\ o[i] \in Nat /\ o[i + 1] = o[i] + Len(q[i])
                                            /\ o[i + 1] <= Len(g[k])
                                            /\ \A j \in 1 .. Len(q[i]) : g[k][o[i] + j] = q[i][j]
           S == {k \in Nat : k + 1 <= n => Right(k + 1)}
<1>3. o[1] = 0 /\ \A k \in 1 .. n : o[k + 1] = Len(g[k])
  <2>1. \A k \in 1 .. n : k + 1 \in 1 .. n + 1 /\ k + 1 # 1 /\ (k + 1) - 1 = k
    BY <1>1
  <2>2. 1 \in 1 .. n + 1
    BY <1>1
  <2> HIDE DEF n
  <2> QED
    BY <2>1, <2>2
<1>4. \A k \in 1 .. n : List(q[k]) /\ Len(q[k]) \in Nat
  BY ListShape
<1> HIDE DEF o
<1>5. 0 \in S
  <2>1. 1 \in 1 .. n /\ g[1] = q[1]
    BY <1>1, <1>2 DEF Strung
  <2>2. o[1] = 0 /\ o[1 + 1] = Len(q[1]) /\ List(q[1]) /\ Len(q[1]) \in Nat
    BY <1>3, <1>4, <2>1
  <2>3. \A i \in 1 .. 0 + 1 : i = 1
    OBVIOUS
  <2>4. \A j \in 1 .. Len(q[1]) : g[1][o[1] + j] = q[1][j]
    BY <2>1, <2>2
  <2>5. o[1 + 1] = o[1] + Len(q[1]) /\ o[1 + 1] <= Len(g[1]) /\ o[1] \in Nat
    BY <2>1, <2>2
  <2>6. Right(1)
    BY <2>1, <2>2, <2>3, <2>4, <2>5
  <2> HIDE DEF Right
  <2> QED
    BY <2>6
<1>6. ASSUME NEW k \in Nat, k \in S PROVE k + 1 \in S
  <2>1. CASE k + 1 + 1 <= n
    <3>1. k + 1 \in 1 .. n - 1 /\ k + 1 + 1 \in 1 .. n /\ k + 1 <= n /\ k + 1 \in 1 .. n
      BY <1>1, <2>1
    <3> DEFINE a == g[k + 1]
               b == q[k + 1 + 1]
               c == g[k + 1 + 1]
    <3>2. c = a \o b
      BY <1>2, <3>1 DEF Strung
    <3>3. Right(k + 1) /\ List(a) /\ List(b)
      BY <1>4, <1>6, <3>1
    <3>4. Len(a) \in Nat /\ Len(b) \in Nat /\ Len(a) = o[k + 1 + 1] /\ Len(c) = o[k + 1 + 1 + 1]
      <4>1. Len(a) \in Nat /\ Len(b) \in Nat
        <5> HIDE DEF a, b
        <5> QED
          BY <3>3, ListShape
      <4> QED
        BY <1>3, <3>1, <4>1
    <3> HIDE DEF a, b, c, Right
    <3>5. /\ List(c) /\ Len(c) = Len(a) + Len(b)
          /\ \A i \in 1 .. Len(a) : c[i] = a[i]
          /\ \A i, j : i \in 1 .. Len(b) /\ j = Len(a) + i => c[j] = b[i]
      BY <3>2, <3>3, ListedJoint
    <3>6. ASSUME NEW i \in 1 .. k + 1
          PROVE  /\ o[i] \in Nat /\ o[i + 1] = o[i] + Len(q[i]) /\ o[i + 1] <= Len(c)
                 /\ \A j \in 1 .. Len(q[i]) : c[o[i] + j] = q[i][j]
      <4>1. /\ o[i] \in Nat /\ o[i + 1] = o[i] + Len(q[i]) /\ o[i + 1] <= Len(a)
            /\ \A j \in 1 .. Len(q[i]) : a[o[i] + j] = q[i][j]
        BY <3>3 DEF Right, a
      <4>2. Len(q[i]) \in Nat
        <5>1. i \in 1 .. n
          BY <1>1, <3>1
        <5> QED
          BY <1>4, <5>1
      <4>3. o[i + 1] <= Len(c)
        BY <3>4, <3>5, <4>1, <4>2
      <4>4. \A j \in 1 .. Len(q[i]) : o[i] + j \in 1 .. Len(a)
        <5>1. \A x, l, t \in Nat : x + l <= t => \A j \in 1 .. l : x + j \in 1 .. t
          OBVIOUS
        <5> QED
          BY <3>4, <4>1, <4>2, <5>1
      <4> QED
        BY <3>5, <4>1, <4>3, <4>4
    <3>7. /\ o[k + 1 + 1] \in Nat /\ o[k + 1 + 1 + 1] = o[k + 1 + 1] + Len(b) /\ o[k + 1 + 1 + 1] <= Len(c)
          /\ \A j \in 1 .. Len(b) : c[o[k + 1 + 1] + j] = b[j]
      <4> DEFINE x == o[k + 1 + 1]
                 y == o[k + 1 + 1 + 1]
      <4>1. x = Len(a) /\ y = Len(c) /\ Len(a) \in Nat /\ Len(b) \in Nat
        BY <3>4
      <4> HIDE DEF x, y
      <4>2. x \in Nat /\ y = x + Len(b) /\ y <= Len(c)
        BY <3>5, <4>1
      <4>3. \A j \in 1 .. Len(b) : c[x + j] = b[j]
        BY <3>5, <4>1
      <4> QED
        BY <4>2, <4>3 DEF x, y
    <3>8. \A i \in 1 .. k + 1 + 1 : i = k + 1 + 1 \/ i \in 1 .. k + 1
      OBVIOUS
    <3>9. ASSUME NEW i \in 1 .. k + 1 + 1
          PROVE  /\ o[i] \in Nat /\ o[i + 1] = o[i] + Len(q[i]) /\ o[i + 1] <= Len(c)
                 /\ \A j \in 1 .. Len(q[i]) : c[o[i] + j] = q[i][j]
      <4>1. CASE i \in 1 .. k + 1
        BY <3>6, <4>1
      <4>2. CASE i = k + 1 + 1
        BY <3>7, <4>2 DEF b
      <4> QED
        BY <3>8, <4>1, <4>2
    <3>10. Right(k + 1 + 1)
      BY <3>5, <3>9 DEF Right, c
    <3> QED
      BY <3>10
  <2>2. CASE ~(k + 1 + 1 <= n)
    BY <2>2
  <2> QED
    BY <2>1, <2>2
<1>7. n - 1 \in S
  <2> HIDE DEF S
  <2>1. n - 1 \in Nat
    BY <1>1
  <2> QED
    BY <1>5, <1>6, <2>1, SetInduction
<1>8. Right(n)
  <2> HIDE DEF Right
  <2>1. (n - 1) + 1 <= n /\ (n - 1) + 1 = n
    BY <1>1
  <2> QED
    BY <1>7, <2>1
<1>9. o[n + 1] = Len(g[n])
  BY <1>1, <1>3
<1>10. Placed(o, q, g[n])
  BY <1>3, <1>8, <1>9 DEF Placed
<1> QED
  BY <1>2, <1>8, <1>10

(* Places counted in rows: the row of a place, and the place in its row.    *)
LEMMA RowOfPlace ==
  ASSUME NEW h \in Nat \ {0}, NEW i \in Nat \ {0}
  PROVE  LET k == (i - 1) \div h + 1 IN
         /\ k \in Nat \ {0} /\ (k - 1) * h \in Nat /\ k * h = (k - 1) * h + h
         /\ i - (k - 1) * h \in 1 .. h
<1> DEFINE x == (i - 1) \div h
           y == (i - 1) % h
<1>1. x \in Nat /\ y \in 0 .. h - 1 /\ i - 1 = h * x + y
  OBVIOUS
<1> HIDE DEF x, y
<1>2. h * x = x * h /\ x * h \in Nat /\ (x + 1) * h = x * h + h
  BY <1>1
<1> DEFINE z == x * h
<1>3. i - 1 = z + y /\ z \in Nat
  BY <1>1, <1>2
<1>4. (x + 1) - 1 = x /\ x + 1 \in Nat \ {0}
  BY <1>1
<1> HIDE DEF z
<1>5. i - z \in 1 .. h
  BY <1>1, <1>3
<1>6. /\ x + 1 \in Nat \ {0} /\ ((x + 1) - 1) * h \in Nat /\ (x + 1) * h = ((x + 1) - 1) * h + h
      /\ i - ((x + 1) - 1) * h \in 1 .. h
  BY <1>2, <1>4, <1>5 DEF z
<1> QED
  BY <1>6 DEF x

(* How many rows of at most h take n.                                       *)
LEMMA RowCount ==
  ASSUME NEW h \in Nat \ {0}, NEW n \in Nat \ {0}
  PROVE  LET c == (n + h - 1) \div h IN
         /\ c \in Nat \ {0} /\ c = (n - 1) \div h + 1 /\ (c - 1) * h < n /\ n <= c * h
<1> DEFINE x == (n - 1) \div h
           y == (n - 1) % h
<1>1. x \in Nat /\ y \in 0 .. h - 1 /\ n - 1 = h * x + y
  OBVIOUS
<1> HIDE DEF x, y
<1> DEFINE z == h * x
<1>2. h * (x + 1) = z + h /\ x * h = z /\ (x + 1) * h = z + h /\ z \in Nat
  BY <1>1
<1>3. n - 1 = z + y
  BY <1>1
<1> HIDE DEF z
<1>4. n + h - 1 = (z + h) + y /\ z < n /\ n <= z + h
  BY <1>1, <1>3, <1>2
<1>5. (n + h - 1) \div h = x + 1
  <2>1. \A a \in Nat : \A b \in 0 .. h - 1 : (h * a + b) \div h = a
    OBVIOUS
  <2>2. n + h - 1 = h * (x + 1) + y /\ x + 1 \in Nat
    BY <1>1, <1>2, <1>4
  <2> QED
    BY <1>1, <2>1, <2>2
<1>6. (x + 1) - 1 = x /\ x + 1 \in Nat \ {0}
  BY <1>1
<1>7. /\ x + 1 \in Nat \ {0} /\ ((x + 1) - 1) * h < n /\ n <= (x + 1) * h
  BY <1>2, <1>4, <1>6
<1> QED
  BY <1>5, <1>7 DEF x

(* So many values of a list from a place on.                                *)
LEMMA StretchOf ==
  ASSUME NEW s, List(s), NEW a \in Nat, NEW n \in Nat, a + n <= Len(s)
  PROVE  SubSeq(s, a + 1, a + n) = [j \in 1 .. n |-> s[a + j]]
<1>1. s \in Seq(Range(s)) /\ Len(s) \in Nat
  BY ListShape
<1> DEFINE t == SubSeq(s, a + 1, a + n)
<1>2. /\ t \in Seq(Range(s)) /\ Len(t) = IF a + 1 <= a + n THEN (a + n) - (a + 1) + 1 ELSE 0
      /\ \A j \in 1 .. (a + n) - (a + 1) + 1 : t[j] = s[(a + 1) + j - 1]
  <2>1. a + 1 \in 1 .. Len(s) + 1 /\ a + n \in (a + 1) - 1 .. Len(s)
    BY <1>1
  <2> QED
    BY <1>1, <2>1, SubSeqProperties
<1> HIDE DEF t
<1>3. (a + n) - (a + 1) + 1 = n /\ (IF a + 1 <= a + n THEN n ELSE 0) = n /\ \A j \in 1 .. n : (a + 1) + j - 1 = a + j
  OBVIOUS
<1>4. Len(t) = n /\ \A j \in 1 .. n : t[j] = s[a + j]
  BY <1>2, <1>3
<1>5. t = [j \in 1 .. n |-> t[j]]
  BY <1>2, <1>4
<1>6. t = [j \in 1 .. n |-> s[a + j]]
  BY <1>4, <1>5
<1> QED
  BY <1>6 DEF t

(* A list that is cut into rows is what its rows are strung together.       *)
LEMMA ChunksWhole ==
  ASSUME NEW s, List(s), Len(s) # 0, NEW h \in Nat \ {0}
  PROVE  /\ Chunks(s, h) = [k \in 1 .. (Len(s) + h - 1) \div h |-> Chunks(s, h)[k]]
         /\ (Len(s) + h - 1) \div h \in Nat \ {0}
         /\ \A k \in 1 .. (Len(s) + h - 1) \div h : List(Chunks(s, h)[k]) /\ Len(Chunks(s, h)[k]) \in 1 .. h
         /\ FlattenSeq(Chunks(s, h)) = s
<1> DEFINE n == Len(s)
           c == (n + h - 1) \div h
           q == Chunks(s, h)
<1>1. n \in Nat \ {0} /\ s \in Seq(Range(s)) /\ DOMAIN s = 1 .. n
  BY ListShape
<1> HIDE DEF n
<1>2. c \in Nat \ {0} /\ (c - 1) * h < n /\ n <= c * h
  BY <1>1, RowCount
<1>3. q = [k \in 1 .. c |-> SubSeq(s, (k - 1) * h + 1, Least(k * h, n))]
  BY DEF Chunks, n
<1> HIDE DEF c, q
<1>4. ASSUME NEW k \in 1 .. c
      PROVE  /\ (k - 1) * h \in Nat /\ k * h = (k - 1) * h + h /\ (k - 1) * h < n /\ (k < c => k * h <= n)
             /\ Least(k * h, n) \in Nat /\ Least(k * h, n) <= n /\ (k - 1) * h < Least(k * h, n)
             /\ Least(k * h, n) <= (k - 1) * h + h
             /\ Least(k * h, n) = IF k < c THEN k * h ELSE n
  <2>1. k \in Nat \ {0} /\ c \in Nat \ {0}
    BY <1>2
  <2>2. (k - 1) * h \in Nat /\ k * h = (k - 1) * h + h /\ (k - 1) * h <= (c - 1) * h
    <3>1. \A a, b \in Nat : a <= b => a * h <= b * h
      OBVIOUS
    <3>2. k - 1 \in Nat /\ c - 1 \in Nat /\ k - 1 <= c - 1
      BY <2>1
    <3>3. \A a \in Nat : a * h \in Nat /\ (a + 1) * h = a * h + h
      OBVIOUS
    <3> QED
      BY <3>1, <3>2, <3>3
  <2>3. k < c => k * h <= (c - 1) * h
    <3>1. \A a, b \in Nat : a <= b => a * h <= b * h
      OBVIOUS
    <3> QED
      BY <2>1, <3>1
  <2> DEFINE x == (k - 1) * h
             y == (c - 1) * h
             z == k * h
             w == c * h
  <2>4. y \in Nat /\ (k = c => z = w)
    <3>1. \A a \in Nat : a * h \in Nat
      OBVIOUS
    <3> QED
      BY <2>1, <3>1
  <2>5. y < n /\ n <= w /\ x \in Nat /\ z = x + h /\ x <= y /\ (k < c => z <= y)
    BY <1>2, <2>2, <2>3
  <2> HIDE DEF x, y, z, w
  <2>6. /\ x \in Nat /\ z = x + h /\ x < n /\ (k < c => z <= n)
        /\ Least(z, n) \in Nat /\ Least(z, n) <= n /\ x < Least(z, n)
        /\ Least(z, n) <= x + h /\ Least(z, n) = IF k < c THEN z ELSE n
    <3>1. k < c => z <= n
      BY <1>1, <2>4, <2>5
    <3>2. ~(k < c) => n <= z
      BY <2>1, <2>4, <2>5
    <3> QED
      BY <1>1, <2>4, <2>5, <3>1, <3>2 DEF Least
  <2> QED
    BY <2>6 DEF x, z
<1>5. ASSUME NEW k \in 1 .. c
      PROVE  /\ List(q[k]) /\ Len(q[k]) \in 1 .. h /\ Len(q[k]) = (IF k < c THEN k * h ELSE n) - (k - 1) * h
             /\ \A j \in 1 .. Len(q[k]) : q[k][j] = s[(k - 1) * h + j]
  <2> DEFINE x == (k - 1) * h
             l == Least(k * h, n)
             t == SubSeq(s, x + 1, l)
  <2>1. q[k] = t
    BY <1>3
  <2>2. x \in Nat /\ l \in Nat /\ l <= n /\ x < l /\ l <= x + h /\ l = IF k < c THEN k * h ELSE n
    BY <1>4
  <2> HIDE DEF x, l
  <2>3. s \in Seq(Range(s)) /\ Len(s) = n
    BY <1>1 DEF n
  <2>4. List(t) /\ Len(t) = l - x /\ \A j \in 1 .. l - x : t[j] = s[x + j]
    <3>1. l - x \in Nat /\ x + (l - x) = l /\ x + (l - x) <= Len(s)
      BY <2>2, <2>3
    <3>2. SubSeq(s, x + 1, x + (l - x)) = [j \in 1 .. l - x |-> s[x + j]]
      BY <2>2, <3>1, StretchOf
    <3>3. t = [j \in 1 .. l - x |-> s[x + j]]
      BY <3>1, <3>2
    <3> HIDE DEF t
    <3>4. t = [j \in 1 .. l - x |-> t[j]] /\ \A j \in 1 .. l - x : t[j] = s[x + j]
      BY <3>3
    <3> QED
      BY <3>1, <3>4, ListedFunction
  <2> HIDE DEF t
  <2>5. l - x \in 1 .. h
    <3>1. \A a, b \in Nat : b < a /\ a <= b + h => a - b \in 1 .. h
      OBVIOUS
    <3> QED
      BY <2>2, <3>1
  <2> QED
    BY <2>1, <2>2, <2>4, <2>5 DEF x
<1>6. List(q) /\ Len(q) = c
  <2>1. q = [k \in 1 .. c |-> q[k]]
    BY <1>3
  <2> QED
    BY <1>2, <2>1, ListedFunction
<1>7. List(FlattenSeq(q)) /\ \E o : Placed(o, q, FlattenSeq(q))
  BY <1>2, <1>5, <1>6, FlatPlaces
<1>8. PICK o : Placed(o, q, FlattenSeq(q))
  BY <1>7
<1> DEFINE S == {k \in Nat : k + 1 <= c => o[k + 1] = k * h}
           flat == FlattenSeq(q)
<1>9. \A k \in Nat : k \in S
  <2>1. 0 \in S
    BY <1>8 DEF Placed
  <2>2. ASSUME NEW k \in Nat, k \in S PROVE k + 1 \in S
    <3>1. CASE k + 1 + 1 <= c
      <4>1. k + 1 \in 1 .. c /\ k + 1 < c /\ k + 1 <= c /\ (k + 1) - 1 = k
        BY <1>2, <3>1
      <4>2. o[k + 1 + 1] = o[k + 1] + Len(q[k + 1]) /\ o[k + 1] = k * h
        BY <1>6, <1>8, <2>2, <4>1 DEF Placed
      <4>3. Len(q[k + 1]) = (k + 1) * h - k * h
        BY <1>5, <4>1
      <4>4. k * h \in Nat /\ (k + 1) * h \in Nat
        OBVIOUS
      <4> QED
        BY <4>2, <4>3, <4>4
    <3> QED
      BY <3>1
  <2> HIDE DEF S
  <2> QED
    BY <2>1, <2>2, SetInduction
<1>10. \A k \in 1 .. c : o[k] = (k - 1) * h
  <2>1. \A k \in 1 .. c : k - 1 \in Nat /\ (k - 1) + 1 = k /\ (k - 1) + 1 <= c
    BY <1>2
  <2> QED
    BY <1>9, <2>1
<1>11. Len(flat) = n
  <2>1. o[c + 1] = Len(flat) /\ o[c + 1] = o[c] + Len(q[c]) /\ o[c] = (c - 1) * h /\ c \in 1 .. c
    BY <1>2, <1>6, <1>8, <1>10 DEF Placed
  <2>2. Len(q[c]) = n - (c - 1) * h /\ (c - 1) * h \in Nat
    <3>1. ~(c < c)
      BY <1>2
    <3> QED
      BY <1>4, <1>5, <2>1, <3>1
  <2> DEFINE z == (c - 1) * h
  <2>3. Len(flat) = z + (n - z) /\ z \in Nat
    BY <2>1, <2>2
  <2> HIDE DEF z
  <2> QED
    BY <1>1, <2>3
<1>12. ASSUME NEW i \in 1 .. n PROVE flat[i] = s[i]
  <2> DEFINE k == (i - 1) \div h + 1
             j == i - (k - 1) * h
  <2>1. k \in Nat \ {0} /\ (k - 1) * h \in Nat /\ k * h = (k - 1) * h + h /\ j \in 1 .. h
    BY <1>1, RowOfPlace
  <2> HIDE DEF k
  <2>2. k <= c
    <3> SUFFICES ASSUME c < k PROVE FALSE
      BY <1>2, <2>1
    <3>1. \A a, b \in Nat : a <= b => a * h <= b * h
      OBVIOUS
    <3>2. c * h <= (k - 1) * h
      BY <1>2, <2>1, <3>1
    <3>3. c * h \in Nat
      BY <1>2
    <3> QED
      BY <1>1, <1>2, <2>1, <3>2, <3>3
  <2>3. k \in 1 .. c
    BY <1>2, <2>1, <2>2
  <2>4. j \in 1 .. Len(q[k])
    <3>1. Len(q[k]) = (IF k < c THEN k * h ELSE n) - (k - 1) * h
      BY <1>5, <2>3
    <3> QED
      BY <1>1, <2>1, <3>1
  <2>5. o[k] + j = i /\ (k - 1) * h + j = i
    BY <1>1, <1>10, <2>1, <2>3
  <2> HIDE DEF j
  <2>6. flat[o[k] + j] = q[k][j]
    BY <1>6, <1>8, <2>3, <2>4 DEF Placed
  <2>7. q[k][j] = s[(k - 1) * h + j]
    BY <1>5, <2>3, <2>4
  <2> QED
    BY <2>5, <2>6, <2>7
<1>13. flat = s
  <2>1. flat = [i \in 1 .. n |-> flat[i]]
    <3>1. List(flat)
      BY <1>7
    <3> HIDE DEF flat
    <3>2. DOMAIN flat = 1 .. n /\ flat \in Seq(Range(flat))
      BY <1>11, <3>1, ListShape
    <3> QED
      BY <3>2
  <2>2. s = [i \in 1 .. n |-> s[i]]
    BY <1>1
  <2> HIDE DEF flat
  <2> QED
    BY <1>12, <2>1, <2>2
<1>14. q = [k \in 1 .. c |-> q[k]]
  BY <1>3
<1> QED
  BY <1>2, <1>5, <1>13, <1>14 DEF n, c, q

(* Every place of what was strung together is a place of one list.          *)
Somewhere(q, x) == \E k \in 1 .. Len(q) : \E j \in 1 .. Len(q[k]) : x = q[k][j]
LEMMA PlaceOf ==
  ASSUME NEW q, NEW o, NEW flat, Placed(o, q, flat), Len(q) \in Nat \ {0}, Len(flat) \in Nat,
         \A k \in 1 .. Len(q) : Len(q[k]) \in Nat, NEW i \in 1 .. Len(flat)
  PROVE  Somewhere(q, flat[i])
<1> DEFINE n == Len(q)
           below == {k \in 1 .. n : o[k] < i}
           k == Max(below)
<1>1. 1 \in below /\ below \in SUBSET (1 .. n) /\ n \in Nat
  BY DEF Placed
<1>2. k \in below /\ \A x \in below : x <= k
  <2> HIDE DEF below
  <2> QED
    BY <1>1, Greatest
<1> HIDE DEF k
<1>3. o[k + 1] >= i
  <2>1. CASE k = n
    <3>1. o[k + 1] = Len(flat)
      BY <2>1 DEF Placed
    <3> QED
      BY <3>1
  <2>2. CASE k # n
    <3>1. k + 1 \in 1 .. n /\ ~(k + 1 <= k)
      BY <1>1, <1>2, <2>2
    <3>2. k + 1 \notin below /\ o[k + 1] \in Nat
      BY <1>2, <3>1 DEF Placed
    <3> QED
      BY <3>1, <3>2
  <2> QED
    BY <2>1, <2>2
<1>4. o[k] \in Nat /\ o[k + 1] = o[k] + Len(q[k]) /\ o[k] < i /\ Len(q[k]) \in Nat
  BY <1>2 DEF Placed
<1>5. i - o[k] \in 1 .. Len(q[k]) /\ o[k] + (i - o[k]) = i
  BY <1>3, <1>4
<1>6. flat[o[k] + (i - o[k])] = q[k][i - o[k]]
  BY <1>2, <1>5 DEF Placed
<1> QED
  BY <1>2, <1>5, <1>6 DEF Somewhere

(* The records of a profile: its header, its shapes, and its wavenumbers in *)
(* as many records as a reader expects.  None is too long.                  *)
Waves(n, words) == 1 + (2 * n - 1) \div words
Chartered(r, p, n, words, depths) ==
  /\ List(r) /\ Waves(n, words) \in Nat \ {0} /\ Len(r) = 7 + n + Waves(n, words)
  /\ \A i \in 1 .. Len(r) : ~(r[i].words > words)
  /\ r[1].values[1] = words /\ r[6].values[1] = n
  /\ \A m \in 1 .. n : r[7 + m].values = Shape(p, m, depths)
  /\ FlattenSeq([k \in 1 .. Waves(n, words) |-> r[7 + n + k].values]) = [m \in 1 .. n |-> <<p, m>>]
LEMMA ProfileRecords ==
  ASSUME NEW p, NEW d, NEW n \in Nat \ {0}, NEW words \in Nat, words >= LeastWords, words >= 2,
         words = 2 * (words \div 2), Len(d.modeDepths) \in Nat, Len(d.fluids) \in Nat,
         2 * Len(d.modeDepths) <= words, 3 * Len(d.fluids) <= words
  PROVE  Chartered(ModProfile(p, d, n, words), p, n, words, Len(d.modeDepths))
<1> DEFINE half == words \div 2
           modes == [m \in 1 .. n |-> <<p, m>>]
           chunks == Chunks(modes, half)
           shapes == [m \in 1 .. n |-> Pairs(Shape(p, m, Len(d.modeDepths)))]
           waves == [k \in DOMAIN chunks |-> Pairs(chunks[k])]
           header == ModHeader(p, d, n, words)
           c == (n + half - 1) \div half
<1>1. half \in Nat \ {0} /\ words = 2 * half
  OBVIOUS
<1>2. List(modes) /\ Len(modes) = n
  <2>1. modes = [m \in 1 .. n |-> modes[m]]
    OBVIOUS
  <2> HIDE DEF modes
  <2> QED
    BY <2>1, ListedFunction
<1>3. c = Waves(n, words) /\ c \in Nat \ {0}
  <2>1. c \in Nat \ {0} /\ c = (n - 1) \div half + 1
    BY <1>1, RowCount
  <2>2. (n - 1) \div half = (2 * n - 1) \div words
    <3> HIDE DEF half
    <3> DEFINE x == (n - 1) \div half
               y == (n - 1) % half
    <3>1. x \in Nat /\ y \in 0 .. half - 1 /\ n - 1 = half * x + y
      BY <1>1
    <3> HIDE DEF x, y
    <3>2. 2 * n - 1 = words * x + (2 * y + 1) /\ 2 * y + 1 \in 0 .. words - 1
      <4>1. words * x = 2 * (half * x)
        BY <1>1, <3>1
      <4> DEFINE z == half * x
      <4>2. z \in Nat /\ n - 1 = z + y
        BY <1>1, <3>1
      <4> HIDE DEF z
      <4>3. 2 * n - 1 = 2 * z + (2 * y + 1) /\ 2 * y + 1 \in 0 .. words - 1
        BY <1>1, <3>1, <4>2
      <4> QED
        BY <4>1, <4>3 DEF z
    <3>3. \A w \in Nat \ {0} : \A a \in Nat : \A b \in 0 .. w - 1 : (w * a + b) \div w = a
      OBVIOUS
    <3> DEFINE b == 2 * y + 1
    <3>4. (words * x + b) \div words = x
      <4>1. words \in Nat \ {0} /\ b \in 0 .. words - 1
        BY <3>2
      <4> HIDE DEF b
      <4> QED
        BY <3>1, <3>3, <4>1
    <3>5. (2 * n - 1) \div words = x
      BY <3>2, <3>4
    <3> QED
      BY <3>5 DEF x
  <2> QED
    BY <2>1, <2>2 DEF Waves
<1> HIDE DEF half, modes, c
<1>4. /\ chunks = [k \in 1 .. c |-> chunks[k]] /\ FlattenSeq(chunks) = modes
      /\ \A k \in 1 .. c : List(chunks[k]) /\ Len(chunks[k]) \in 1 .. half
  BY <1>1, <1>2, ChunksWhole DEF c
<1> HIDE DEF chunks
<1>5. /\ waves = [k \in 1 .. c |-> waves[k]] /\ \A k \in 1 .. c : waves[k] = Pairs(chunks[k])
  BY <1>4
<1>6. shapes = [m \in 1 .. n |-> shapes[m]] /\ \A m \in 1 .. n : shapes[m] = Pairs(Shape(p, m, Len(d.modeDepths)))
  OBVIOUS
<1>7. header = [i \in 1 .. 7 |-> header[i]]
  BY DEF ModHeader
<1>8. header[1].values[1] = words /\ header[6].values[1] = n
  BY DEF ModHeader, Payload, Singles
<1>9. \A i \in 1 .. 7 : ~(header[i].words > words)
  <2>1. TitleWords \in 1 .. LeastWords /\ BoundaryWords \in 1 .. LeastWords /\ LeastWords \in Nat
    BY KrakenWritersAssumption
  <2> DEFINE l == Len(d.modeDepths)
             b == Len(d.fluids)
  <2>2. /\ header[1].words = TitleWords /\ header[2].words = 3 * b /\ header[3].words = 2 * b
        /\ header[4].words = 2 * Len(<<d.frequency>>) /\ header[5].words = l /\ header[6].words = Len(<<n>>)
        /\ header[7].words = BoundaryWords
    BY DEF ModHeader, Payload, Singles, Doubles
  <2>3. Len(<<d.frequency>>) = 1 /\ Len(<<n>>) = 1
    OBVIOUS
  <2>4. l \in Nat /\ b \in Nat /\ 2 * l <= words /\ 3 * b <= words
    OBVIOUS
  <2> HIDE DEF header, l, b
  <2>5. /\ ~(TitleWords > words) /\ ~(BoundaryWords > words) /\ ~(3 * b > words) /\ ~(2 * b > words)
        /\ ~(l > words) /\ ~(2 > words) /\ ~(1 > words)
    BY <2>1, <2>4
  <2>6. \A i \in 1 .. 7 : i \in {1, 2, 3, 4, 5, 6, 7}
    OBVIOUS
  <2> QED
    BY <2>2, <2>3, <2>5, <2>6
<1> HIDE DEF header, shapes, waves
<1>10. Len(header) = 7 /\ Len(shapes) = n /\ Len(waves) = c
  BY <1>3, <1>5, <1>6, <1>7, ListedFunction
<1>11. List(header) /\ List(shapes) /\ List(waves)
  BY <1>3, <1>5, <1>6, <1>7, ListedFunction
<1> DEFINE front == header \o shapes
           r == front \o waves
<1>12. ModProfile(p, d, n, words) = r
  BY DEF ModProfile, header, shapes, waves, chunks, half, modes
<1>13. /\ List(front) /\ Len(front) = Len(header) + Len(shapes)
       /\ \A i \in 1 .. Len(header) : front[i] = header[i]
       /\ \A i, j : i \in 1 .. Len(shapes) /\ j = Len(header) + i => front[j] = shapes[i]
  BY <1>11, ListedJoint
<1> HIDE DEF front
<1>14. /\ Len(front) = 7 + n /\ \A i \in 1 .. 7 : i \in 1 .. 7 + n /\ front[i] = header[i]
       /\ \A i \in 1 .. n : 7 + i \in 1 .. 7 + n /\ front[7 + i] = shapes[i]
  <2>1. \A i \in 1 .. 7 : i \in 1 .. 7 + n
    OBVIOUS
  <2>2. \A i \in 1 .. n : 7 + i \in 1 .. 7 + n
    OBVIOUS
  <2> QED
    BY <1>10, <1>13, <2>1, <2>2
<1>15. /\ List(r) /\ Len(r) = Len(front) + Len(waves) /\ \A i \in 1 .. Len(front) : r[i] = front[i]
       /\ \A i, j : i \in 1 .. Len(waves) /\ j = Len(front) + i => r[j] = waves[i]
  <2>1. List(front) /\ List(waves)
    BY <1>11, <1>13
  <2> QED
    BY <2>1, ListedJoint
<1> HIDE DEF r
<1>16. /\ List(r) /\ Len(r) = 7 + n + c /\ \A i \in 1 .. 7 + n : r[i] = front[i]
       /\ \A i \in 1 .. c : r[7 + n + i] = waves[i]
  BY <1>10, <1>14, <1>15
<1>17. \A i \in 1 .. 7 : r[i] = header[i]
  BY <1>14, <1>16
<1>18. \A m \in 1 .. n : r[7 + m] = shapes[m]
  BY <1>14, <1>16
<1>19. \A k \in 1 .. c : r[7 + n + k] = waves[k]
  BY <1>16
<1>20. ASSUME NEW i \in 1 .. Len(r) PROVE ~(r[i].words > words)
  <2>1. CASE i \in 1 .. 7
    BY <1>9, <1>17, <2>1
  <2>2. CASE i \in 8 .. 7 + n
    <3>1. i - 7 \in 1 .. n /\ 7 + (i - 7) = i
      BY <2>2
    <3>2. r[i] = Pairs(Shape(p, i - 7, Len(d.modeDepths)))
      BY <1>6, <1>18, <3>1
    <3>3. Len(Shape(p, i - 7, Len(d.modeDepths))) = Len(d.modeDepths)
      BY DEF Shape
    <3>4. r[i].words = 2 * Len(d.modeDepths)
      BY <3>2, <3>3 DEF Pairs, Payload
    <3> QED
      BY <3>4
  <2>3. CASE i \in 7 + n + 1 .. 7 + n + c
    <3>1. i - (7 + n) \in 1 .. c /\ 7 + n + (i - (7 + n)) = i
      BY <1>3, <2>3
    <3>2. r[i] = Pairs(chunks[i - (7 + n)])
      BY <1>5, <1>19, <3>1
    <3>3. r[i].words = 2 * Len(chunks[i - (7 + n)]) /\ Len(chunks[i - (7 + n)]) \in 1 .. half
      BY <1>4, <3>1, <3>2 DEF Pairs, Payload
    <3> QED
      BY <1>1, <3>3
  <2>4. i \in 1 .. 7 \/ i \in 8 .. 7 + n \/ i \in 7 + n + 1 .. 7 + n + c
    BY <1>3, <1>16
  <2> QED
    BY <2>1, <2>2, <2>3, <2>4
<1>21. r[1].values[1] = words /\ r[6].values[1] = n
  BY <1>8, <1>17
<1>22. \A m \in 1 .. n : r[7 + m].values = Shape(p, m, Len(d.modeDepths))
  BY <1>6, <1>18 DEF Pairs, Payload
<1>23. [k \in 1 .. c |-> r[7 + n + k].values] = chunks
  <2>1. \A k \in 1 .. c : r[7 + n + k].values = chunks[k]
    BY <1>5, <1>19 DEF Pairs, Payload
  <2> QED
    BY <1>4, <2>1
<1> QED
  BY <1>3, <1>4, <1>12, <1>16, <1>20, <1>21, <1>22, <1>23 DEF modes, Chartered

(* The reader goes from profile to profile.                                 *)
LEMMA ReadSteps ==
  ASSUME NEW file, NEW n \in Nat
  PROVE  \E g : /\ g[0].next = 1 /\ \A i \in 1 .. n : g[i] = ReadModes(file.records, g[i - 1].next)
                /\ ReadMod(file, n) = [i \in 1 .. n |-> g[i]]
<1> DEFINE After(g, i) == IF i = 0 THEN [next |-> 1] ELSE ReadModes(file.records, g[i - 1].next)
           Solves(g, k) == g = [i \in 0 .. k |-> After(g, i)]
           S == {k \in Nat : \E g : Solves(g, k)}
           read == CHOOSE g : Solves(g, n)
<1>1. ReadMod(file, n) = [i \in 1 .. n |-> read[i]]
  BY DEF ReadMod
<1> HIDE DEF read
<1>2. 0 \in S
  <2> DEFINE g == [i \in 0 .. 0 |-> [next |-> 1]]
  <2>1. Solves(g, 0)
    OBVIOUS
  <2> QED
    BY <2>1
<1>3. ASSUME NEW k \in Nat, k \in S PROVE k + 1 \in S
  <2>1. PICK g : Solves(g, k)
    BY <1>3
  <2> DEFINE h == [i \in 0 .. k + 1 |-> IF i = k + 1 THEN ReadModes(file.records, g[k].next) ELSE g[i]]
  <2>2. \A i \in 0 .. k : h[i] = g[i] /\ g[i] = After(g, i)
    <3> HIDE DEF After
    <3>1. \A i \in 0 .. k : g[i] = After(g, i)
      BY <2>1
    <3>2. \A i \in 0 .. k : i \in 0 .. k + 1 /\ i # k + 1
      OBVIOUS
    <3> QED
      BY <3>1, <3>2
  <2>3. h[k + 1] = ReadModes(file.records, g[k].next) /\ h = [i \in 0 .. k + 1 |-> h[i]]
    OBVIOUS
  <2> HIDE DEF h
  <2>4. ASSUME NEW i \in 0 .. k + 1 PROVE h[i] = After(h, i)
    <3>1. CASE i = k + 1
      <4>1. i # 0 /\ i - 1 = k /\ k \in 0 .. k
        BY <3>1
      <4>2. h[k] = g[k]
        BY <2>2, <4>1
      <4> QED
        BY <2>3, <3>1, <4>1, <4>2
    <3>2. CASE i # k + 1
      <4>1. i \in 0 .. k /\ (i # 0 => i - 1 \in 0 .. k)
        BY <3>2
      <4>2. h[i] = g[i] /\ g[i] = After(g, i) /\ (i # 0 => h[i - 1] = g[i - 1])
        BY <2>2, <4>1
      <4> QED
        BY <4>2
    <3> QED
      BY <3>1, <3>2
  <2>5. h = [i \in 0 .. k + 1 |-> After(h, i)]
    <3> HIDE DEF After
    <3> QED
      BY <2>3, <2>4
  <2>6. Solves(h, k + 1)
    BY <2>5
  <2> HIDE DEF Solves
  <2> QED
    BY <2>6
<1>4. Nat \subseteq S
  <2> HIDE DEF S
  <2> QED
    BY <1>2, <1>3, SetInduction
<1>5. Solves(read, n)
  <2>1. \E g : Solves(g, n)
    BY <1>4
  <2> HIDE DEF Solves
  <2> QED
    BY <2>1 DEF read
<1>6. \A i \in 0 .. n : read[i] = After(read, i)
  <2> HIDE DEF After
  <2> QED
    BY <1>5
<1>7. read[0].next = 1
  BY <1>6
<1>8. \A i \in 1 .. n : read[i] = ReadModes(file.records, read[i - 1].next)
  BY <1>6
<1> QED
  BY <1>1, <1>7, <1>8

(* The records of each profile of a field that was accepted.                *)
LEMMA ModChartered ==
  ASSUME NEW f, FieldOK(f), Deep(f), NEW n \in Seq(Nat \ {0}), Len(n) = Len(f.profiles),
         NEW p \in 1 .. Len(f.profiles)
  PROVE  Chartered(ModProfile(p, f.profiles[p], n[p], ModWords(f)), p, n[p], ModWords(f),
                   Len(f.profiles[p].modeDepths))
<1> DEFINE words == ModWords(f)
           d == f.profiles[p]
           m == n[p]
<1>1. /\ words \in Nat /\ words >= 2 /\ words >= LeastWords /\ words = 2 * (words \div 2)
      /\ Len(d.modeDepths) \in Nat /\ Len(d.fluids) \in Nat
      /\ 2 * Len(d.modeDepths) <= words /\ 3 * Len(d.fluids) <= words
  BY LongestBounds
<1>2. m \in Nat \ {0}
  BY FieldShape
<1> HIDE DEF words, d, m
<1>3. Chartered(ModProfile(p, d, m, words), p, m, words, Len(d.modeDepths))
  BY <1>1, <1>2, ProfileRecords
<1> QED
  BY <1>3 DEF words, d, m

(* A MOD file without a quota holds the records of every profile, each      *)
(* where the one before it ends.                                            *)
Laid(o, f, n, records) ==
  /\ o[1] = 0 /\ List(records)
  /\ \A p \in 1 .. Len(f.profiles) :
       /\ o[p] \in Nat /\ o[p + 1] <= Len(records)
       /\ o[p + 1] = o[p] + (7 + n[p] + Waves(n[p], ModWords(f)))
       /\ \A j \in 1 .. 7 + n[p] + Waves(n[p], ModWords(f)) :
            records[o[p] + j] = ModProfile(p, f.profiles[p], n[p], ModWords(f))[j].values
LEMMA ModKept ==
  ASSUME NEW f, FieldOK(f), Deep(f), NEW n \in Seq(Nat \ {0}), Len(n) = Len(f.profiles)
  PROVE  /\ ModFile(f, n, NoQuota).ok
         /\ \E o : Laid(o, f, n, ModFile(f, n, NoQuota).records)
<1> DEFINE words == ModWords(f)
           new == NewDirect(words, NoQuota)
           q == [p \in DOMAIN f.profiles |-> ModProfile(p, f.profiles[p], n[p], words)]
           all == FlattenSeq(q)
           count == Len(f.profiles)
<1>1. /\ words \in Nat /\ words >= 2 /\ words >= LeastWords /\ words = 2 * (words \div 2)
      /\ \A i \in 1 .. count : LET d == f.profiles[i] IN
           /\ Len(d.modeDepths) \in Nat \ {0} /\ Len(d.fluids) \in Nat
           /\ 2 * Len(d.modeDepths) <= words /\ 3 * Len(d.fluids) <= words
  BY LongestBounds
<1>2. count \in Nat \ {0} /\ DOMAIN f.profiles = 1 .. count
  BY FieldShape, ListShape DEF FieldOK
<1>3. q = [p \in 1 .. count |-> q[p]] /\ \A p \in 1 .. count : q[p] = ModProfile(p, f.profiles[p], n[p], words)
  BY <1>2
<1> HIDE DEF words, q
<1>4. ASSUME NEW p \in 1 .. count
       PROVE  Chartered(q[p], p, n[p], words, Len(f.profiles[p].modeDepths))
  BY <1>3, ModChartered DEF words
<1>5. ASSUME NEW p \in 1 .. count
      PROVE  /\ List(q[p]) /\ Len(q[p]) = 7 + n[p] + Waves(n[p], words)
             /\ \A i \in 1 .. Len(q[p]) : ~(q[p][i].words > words)
  BY <1>4 DEF Chartered
<1>6. List(q) /\ Len(q) = count
  BY <1>2, <1>3, ListedFunction
<1>7. List(all) /\ \E o : Placed(o, q, all)
  BY <1>2, <1>5, <1>6, FlatPlaces
<1>8. PICK o : Placed(o, q, all)
  BY <1>7
<1> HIDE DEF all
<1>9. Len(all) \in Nat /\ DOMAIN all = 1 .. Len(all)
  BY <1>7, ListShape
<1>10. \A i \in 1 .. Len(all) : ~(all[i].words > words)
  <2>1. Len(q) \in Nat \ {0} /\ \A k \in 1 .. Len(q) : Len(q[k]) \in Nat
    BY <1>2, <1>5, <1>6, ListShape
  <2>2. ASSUME NEW i \in 1 .. Len(all) PROVE Somewhere(q, all[i])
    <3>1. Len(all) \in Nat
      BY <1>9
    <3> QED
      BY <1>8, <2>1, <3>1, PlaceOf
  <2> QED
    BY <1>5, <1>6, <2>2 DEF Somewhere
<1>11. Open(new) /\ new.words = words /\ Len(new.records) = 0
  <2>1. <<>> \in Seq({}) /\ Len(<<>>) = 0
    OBVIOUS
  <2>2. List(<<>>)
    BY <2>1, SequenceListed
  <2>3. new.records = <<>> /\ new.words = words /\ new.ok /\ new.maximum = NoQuota /\ DOMAIN new = FileParts
    BY DEF NewDirect, Fits, FileParts
  <2> HIDE DEF new
  <2> QED
    BY <2>1, <2>2, <2>3 DEF Open
<1> HIDE DEF new
<1> DEFINE file == FoldLeft(Record, new, all)
<1>12. Kept(file, new, all, Len(all))
  BY <1>9, <1>10, <1>11, RecordsKept
<1>13. ModFile(f, n, NoQuota) = file
  BY DEF ModFile, new, all, q, words
<1> HIDE DEF file
<1>14. file.ok /\ \A k \in 1 .. Len(all) : file.records[0 + k] = all[k].values
  BY <1>11, <1>12 DEF Kept, Open
<1>15. ASSUME NEW p \in 1 .. count, NEW j \in 1 .. Len(q[p])
       PROVE  file.records[o[p] + j] = q[p][j].values
  <2>1. all[o[p] + j] = q[p][j] /\ o[p] \in Nat
    BY <1>6, <1>8 DEF Placed
  <2>2. o[p] + j \in 1 .. Len(all)
    <3>1. o[p + 1] <= Len(all) /\ o[p + 1] = o[p] + Len(q[p]) /\ Len(q[p]) \in Nat
      BY <1>5, <1>6, <1>8, ListShape DEF Placed
    <3>2. \A x, l, t \in Nat : x + l <= t => \A i \in 1 .. l : x + i \in 1 .. t
      OBVIOUS
    <3> QED
      BY <1>9, <2>1, <3>1, <3>2
  <2>3. 0 + (o[p] + j) = o[p] + j
    BY <2>1
  <2> QED
    BY <1>14, <2>1, <2>2, <2>3
<1>16. Laid(o, f, n, file.records)
  <2>1. /\ o[1] = 0
        /\ \A p \in 1 .. count : o[p] \in Nat /\ o[p + 1] = o[p] + Len(q[p]) /\ o[p + 1] <= Len(all)
    BY <1>6, <1>8 DEF Placed
  <2>2. List(file.records) /\ Len(file.records) = 0 + Len(all) /\ 0 + Len(all) = Len(all)
    BY <1>9, <1>11, <1>12 DEF Kept, Open
  <2> QED
    BY <1>3, <1>5, <1>15, <2>1, <2>2 DEF Laid, words
<1> QED
  BY <1>13, <1>14, <1>16

(* Where a profile's records begin, a reader finds its shapes and its       *)
(* wavenumbers, and where the next begin.                                   *)
Recovered(read, p, n, depths) ==
  /\ read.shapes = [m \in 1 .. n |-> Shape(p, m, depths)]
  /\ read.wavenumbers = [m \in 1 .. n |-> <<p, m>>]
LEMMA ModesRead ==
  ASSUME NEW f, FieldOK(f), Deep(f), NEW n \in Seq(Nat \ {0}), Len(n) = Len(f.profiles),
         NEW o, NEW records, Laid(o, f, n, records), NEW p \in 1 .. Len(f.profiles)
  PROVE  /\ Recovered(ReadModes(records, o[p] + 1), p, n[p], Len(f.profiles[p].modeDepths))
         /\ ReadModes(records, o[p] + 1).next = o[p + 1] + 1
<1> DEFINE words == ModWords(f)
           r(x) == ModProfile(x, f.profiles[x], n[x], words)
           depths == Len(f.profiles[p].modeDepths)
           k == o[p]
           m == n[p]
           w == Waves(m, words)
<1>1. ASSUME NEW x \in 1 .. Len(f.profiles)
      PROVE  Chartered(r(x), x, n[x], words, Len(f.profiles[x].modeDepths))
  BY ModChartered
<1>2. /\ k \in Nat /\ o[p + 1] = k + (7 + m + w) /\ o[p + 1] <= Len(records) /\ List(records)
      /\ \A j \in 1 .. 7 + m + w : records[k + j] = r(p)[j].values
  BY DEF Laid
<1>3. m \in Nat \ {0} /\ w \in Nat \ {0}
  <2>1. m \in Nat \ {0}
    OBVIOUS
  <2> QED
    BY <1>1, <2>1 DEF Chartered
<1>4. records[1][1] = words
  <2>1. 1 \in 1 .. Len(f.profiles)
    BY FieldShape
  <2>2. n[1] \in Nat \ {0} /\ Waves(n[1], words) \in Nat \ {0} /\ r(1)[1].values[1] = words
    <3>1. n[1] \in Nat \ {0}
      BY <2>1
    <3> QED
      BY <1>1, <2>1, <3>1 DEF Chartered
  <2>3. 1 \in 1 .. 7 + n[1] + Waves(n[1], words)
    BY <2>2
  <2>4. records[0 + 1] = r(1)[1].values
    BY <2>1, <2>3 DEF Laid
  <2> QED
    BY <2>2, <2>4
<1>5. /\ r(p)[6].values[1] = m
      /\ \A i \in 1 .. m : r(p)[7 + i].values = Shape(p, i, depths)
      /\ FlattenSeq([i \in 1 .. w |-> r(p)[7 + m + i].values]) = [i \in 1 .. m |-> <<p, i>>]
  BY <1>1 DEF Chartered
<1> HIDE DEF words, r, depths, k, m
<1>6. records[k + 6] = r(p)[6].values
  <2>1. 6 \in 1 .. 7 + m + w
    BY <1>3
  <2> QED
    BY <1>2, <2>1
<1>7. records[(k + 1) + 5][1] = m
  <2>1. (k + 1) + 5 = k + 6
    BY <1>2
  <2> QED
    BY <1>5, <1>6, <2>1
<1> HIDE DEF w
<1>8. k \in Nat /\ m \in Nat \ {0} /\ w \in Nat \ {0}
  BY <1>2, <1>3
<1>9. /\ (k + 1) + 7 = (k + 7) + 1 /\ (k + 1) + 6 + m = (k + 7) + m
      /\ (k + 1) + 7 + m = (k + 7 + m) + 1 /\ (k + 1) + 6 + m + w = (k + 7 + m) + w
      /\ (k + 1) + 7 + m + w = (k + (7 + m + w)) + 1
      /\ k + 7 \in Nat /\ k + 7 + m \in Nat
  BY <1>8
<1>10. Len(records) \in Nat
  BY <1>2, ListShape
<1>11. (k + 7) + m <= Len(records) /\ (k + 7 + m) + w <= Len(records)
  <2>1. \A l \in Nat : k + (7 + m + w) <= l => (k + 7) + m <= l /\ (k + 7 + m) + w <= l
    BY <1>8
  <2> QED
    BY <1>2, <1>10, <2>1
<1>12. SubSeq(records, (k + 7) + 1, (k + 7) + m) = [i \in 1 .. m |-> Shape(p, i, depths)]
  <2>1. SubSeq(records, (k + 7) + 1, (k + 7) + m) = [i \in 1 .. m |-> records[(k + 7) + i]]
    BY <1>2, <1>9, <1>11, <1>8, StretchOf
  <2>2. ASSUME NEW i \in 1 .. m PROVE records[(k + 7) + i] = Shape(p, i, depths)
    <3>1. (k + 7) + i = k + (7 + i) /\ 7 + i \in 1 .. 7 + m + w
      BY <1>8
    <3> QED
      BY <1>2, <1>5, <3>1
  <2> QED
    BY <2>1, <2>2
<1>13. SubSeq(records, (k + 7 + m) + 1, (k + 7 + m) + w) = [i \in 1 .. w |-> r(p)[7 + m + i].values]
  <2>1. SubSeq(records, (k + 7 + m) + 1, (k + 7 + m) + w) = [i \in 1 .. w |-> records[(k + 7 + m) + i]]
    BY <1>2, <1>9, <1>11, <1>8, StretchOf
  <2>2. ASSUME NEW i \in 1 .. w PROVE records[(k + 7 + m) + i] = r(p)[7 + m + i].values
    <3>1. (k + 7 + m) + i = k + (7 + m + i) /\ 7 + m + i \in 1 .. 7 + m + w
      BY <1>8
    <3> QED
      BY <1>2, <3>1
  <2> QED
    BY <2>1, <2>2
<1> DEFINE read == ReadModes(records, k + 1)
<1>14. /\ read.shapes = SubSeq(records, (k + 1) + 7, (k + 1) + 6 + m)
       /\ read.wavenumbers = FlattenSeq(SubSeq(records, (k + 1) + 7 + m, (k + 1) + 6 + m + w))
       /\ read.next = (k + 1) + 7 + m + w
  BY <1>4, <1>7 DEF ReadModes, w, Waves
<1> HIDE DEF read
<1>15. Recovered(read, p, m, depths)
  BY <1>5, <1>9, <1>12, <1>13, <1>14 DEF Recovered
<1>16. read.next = o[p + 1] + 1
  BY <1>2, <1>9, <1>14
<1> QED
  BY <1>15, <1>16 DEF read, k, m, depths

(* A reader finds the modes of every profile.                               *)
LEMMA ModRead ==
  ASSUME NEW f, FieldOK(f), Deep(f), NEW n \in Seq(Nat \ {0}), Len(n) = Len(f.profiles)
  PROVE  /\ ModFile(f, n, NoQuota).ok
         /\ \A p \in 1 .. Len(f.profiles) :
              Recovered(ReadMod(ModFile(f, n, NoQuota), Len(f.profiles))[p], p, n[p], Len(f.profiles[p].modeDepths))
<1> DEFINE file == ModFile(f, n, NoQuota)
           count == Len(f.profiles)
<1>1. file.ok /\ \E o : Laid(o, f, n, file.records)
  BY ModKept
<1> HIDE DEF file
<1>2. PICK o : Laid(o, f, n, file.records)
  BY <1>1
<1>3. count \in Nat \ {0}
  BY FieldShape
<1>4. PICK g : /\ g[0].next = 1 /\ \A i \in 1 .. count : g[i] = ReadModes(file.records, g[i - 1].next)
               /\ ReadMod(file, count) = [i \in 1 .. count |-> g[i]]
  <2> HIDE DEF count
  <2> QED
    BY <1>3, ReadSteps
<1> DEFINE S == {k \in Nat : k + 1 <= count => g[k].next = o[k + 1] + 1}
<1>5. ASSUME NEW k \in Nat, k + 1 <= count, g[k].next = o[k + 1] + 1
      PROVE  g[k + 1] = ReadModes(file.records, o[k + 1] + 1)
  <2>1. k + 1 \in 1 .. count /\ (k + 1) - 1 = k
    BY <1>3, <1>5
  <2> QED
    BY <1>4, <1>5, <2>1
<1>6. \A k \in Nat : k \in S
  <2>1. 0 \in S
    BY <1>2, <1>4 DEF Laid
  <2>2. ASSUME NEW k \in Nat, k \in S PROVE k + 1 \in S
    <3>1. CASE k + 1 + 1 <= count
      <4>1. k + 1 \in 1 .. count /\ k + 1 <= count
        BY <1>3, <3>1
      <4>2. g[k + 1] = ReadModes(file.records, o[k + 1] + 1)
        BY <1>5, <2>2, <4>1
      <4>3. ReadModes(file.records, o[k + 1] + 1).next = o[k + 1 + 1] + 1
        BY <1>2, <4>1, ModesRead
      <4> QED
        BY <4>2, <4>3
    <3> QED
      BY <3>1
  <2> HIDE DEF S
  <2> QED
    BY <2>1, <2>2, SetInduction
<1>7. ASSUME NEW p \in 1 .. count
      PROVE  Recovered(ReadMod(file, count)[p], p, n[p], Len(f.profiles[p].modeDepths))
  <2>1. p - 1 \in Nat /\ (p - 1) + 1 = p /\ (p - 1) + 1 <= count
    BY <1>3
  <2>2. g[p] = ReadModes(file.records, o[p] + 1)
    BY <1>5, <1>6, <2>1
  <2>3. Recovered(ReadModes(file.records, o[p] + 1), p, n[p], Len(f.profiles[p].modeDepths))
    BY <1>2, ModesRead
  <2> QED
    BY <1>4, <2>2, <2>3
<1> QED
  BY <1>1, <1>7 DEF file

-----------------------------------------------------------------------------
(* The samples of a frequency, and their places among all.                  *)

(* What a number of rows and a place in one are, from the number they make. *)
LEMMA RowAndPlace ==
  \A w \in Nat \ {0} : \A a \in Nat : \A b \in 0 .. w - 1 :
    w * a + b \in Nat /\ (w * a + b) \div w = a /\ (w * a + b) % w = b
OBVIOUS

(* Where the sample of a source, a depth and a range is among all.          *)
At(d, s, z, r) == ((s - 1) * Len(d.receivers) + (z - 1)) * Len(d.ranges) + r
Wide(d) == Len(d.sources) \in Nat \ {0} /\ Len(d.receivers) \in Nat \ {0} /\ Len(d.ranges) \in Nat \ {0}
Spot(d, s, z, r) ==
  LET m == Len(d.receivers)  n == Len(d.ranges)  k == At(d, s, z, r) - 1  x == (s - 1) * m + (z - 1) IN
  /\ k \in Nat /\ k \div n = x /\ k % n = r - 1 /\ x % m = z - 1 /\ k \div (m * n) = s - 1
  /\ x \in Nat /\ x + 1 \in 1 .. Len(d.sources) * m /\ At(d, s, z, r) \in 1 .. Samples(d)
LEMMA PlaceAt ==
  ASSUME NEW d, Wide(d), NEW s \in 1 .. Len(d.sources), NEW z \in 1 .. Len(d.receivers), NEW r \in 1 .. Len(d.ranges)
  PROVE  Spot(d, s, z, r)
<1> DEFINE c == Len(d.sources)
           m == Len(d.receivers)
           n == Len(d.ranges)
           x == (s - 1) * m + (z - 1)
           k == At(d, s, z, r) - 1
<1>1. c \in Nat \ {0} /\ m \in Nat \ {0} /\ n \in Nat \ {0}
  BY DEF Wide
<1>2. s \in 1 .. c /\ z \in 1 .. m /\ r \in 1 .. n
  OBVIOUS
<1>3. At(d, s, z, r) = x * n + r /\ Samples(d) = (c * m) * n
  BY DEF At, Samples
<1> HIDE DEF c, m, n
<1>4. \A a, b \in Nat : a * b \in Nat /\ a * b = b * a
  OBVIOUS
<1>5. x \in Nat /\ x \div m = s - 1 /\ x % m = z - 1
  <2>1. s - 1 \in Nat /\ z - 1 \in 0 .. m - 1
    BY <1>1, <1>2
  <2>2. x = m * (s - 1) + (z - 1)
    BY <1>1, <1>4, <2>1
  <2> HIDE DEF x
  <2> QED
    BY <1>1, <2>1, <2>2, RowAndPlace
<1>6. k = n * x + (r - 1)
  <2>1. x * n = n * x /\ n * x \in Nat
    BY <1>1, <1>4, <1>5
  <2> DEFINE y == n * x
  <2>2. k = y + r - 1 /\ y \in Nat
    BY <1>3, <2>1
  <2> HIDE DEF y, k
  <2> QED
    BY <1>1, <1>2, <2>2 DEF y
<1> HIDE DEF k
<1>7. k \in Nat /\ k \div n = x /\ k % n = r - 1
  <2>1. r - 1 \in 0 .. n - 1
    BY <1>1, <1>2
  <2> DEFINE b == r - 1
  <2>2. b \in 0 .. n - 1 /\ x \in Nat
    BY <1>5, <2>1
  <2> HIDE DEF b, x
  <2>3. n * x + b \in Nat /\ (n * x + b) \div n = x /\ (n * x + b) % n = b
    BY <1>1, <2>2, RowAndPlace
  <2> QED
    BY <1>6, <2>3 DEF b
<1>8. k \div (m * n) = s - 1
  <2> DEFINE b == n * (z - 1) + (r - 1)
  <2>1. k = (m * n) * (s - 1) + b
    <3>1. n * x = n * (m * (s - 1)) + n * (z - 1)
      BY <1>1, <1>2
    <3>2. n * (m * (s - 1)) = (m * n) * (s - 1)
      BY <1>1, <1>2
    <3> DEFINE e == (m * n) * (s - 1)
               g == n * (z - 1)
    <3>3. e \in Nat /\ g \in Nat
      BY <1>1, <1>2, <1>4
    <3>4. k = (e + g) + (r - 1)
      BY <1>6, <3>1, <3>2
    <3> HIDE DEF e, g
    <3>5. k = e + (g + (r - 1))
      BY <1>1, <1>2, <3>3, <3>4
    <3> QED
      BY <3>5 DEF e, g
  <2>2. b \in 0 .. m * n - 1 /\ m * n \in Nat \ {0}
    <3>1. m * n = n * (m - 1) + n /\ n * (z - 1) <= n * (m - 1) /\ n * (z - 1) \in Nat /\ n * (m - 1) \in Nat
      <4>1. \A a, e \in Nat : a <= e => n * a <= n * e
        BY <1>1
      <4>2. z - 1 \in Nat /\ m - 1 \in Nat /\ z - 1 <= m - 1
        BY <1>1, <1>2
      <4>3. \A a \in Nat \ {0} : a * n = n * (a - 1) + n
        BY <1>1
      <4> QED
        BY <1>1, <1>4, <4>1, <4>2, <4>3
    <3> DEFINE e == n * (m - 1)
               g == n * (z - 1)
               h == m * n
    <3>2. h = e + n /\ g <= e /\ g \in Nat /\ e \in Nat
      BY <3>1
    <3> HIDE DEF e, g, h
    <3>3. g + (r - 1) \in 0 .. h - 1 /\ h \in Nat \ {0}
      BY <1>1, <1>2, <3>2
    <3> QED
      BY <3>3 DEF g, h
  <2> HIDE DEF b
  <2>3. s - 1 \in Nat
    BY <1>2
  <2> QED
    BY <2>1, <2>2, <2>3, RowAndPlace
<1>9. x + 1 \in 1 .. c * m
  <2>1. c * m = (c - 1) * m + m /\ (s - 1) * m <= (c - 1) * m /\ (s - 1) * m \in Nat /\ (c - 1) * m \in Nat
    <3>1. \A a, e \in Nat : a <= e => a * m <= e * m
      BY <1>1
    <3>2. s - 1 \in Nat /\ c - 1 \in Nat /\ s - 1 <= c - 1
      BY <1>1, <1>2
    <3>3. \A a \in Nat \ {0} : a * m = (a - 1) * m + m
      BY <1>1
    <3> QED
      BY <1>1, <1>4, <3>1, <3>2, <3>3
  <2> DEFINE e == (c - 1) * m
             g == (s - 1) * m
             h == c * m
  <2>2. h = e + m /\ g <= e /\ g \in Nat /\ e \in Nat /\ x = g + (z - 1)
    BY <2>1
  <2> HIDE DEF e, g, h, x
  <2>3. x + 1 \in 1 .. h
    BY <1>1, <1>2, <2>2
  <2> QED
    BY <2>3 DEF h
<1>10. At(d, s, z, r) \in 1 .. Samples(d)
  <2> DEFINE h == c * m
             i == At(d, s, z, r)
  <2>1. i = x * n + r /\ h \in Nat /\ x \in 0 .. h - 1 /\ Samples(d) = h * n
    BY <1>1, <1>3, <1>4, <1>5, <1>9
  <2> HIDE DEF h, i, x
  <2>2. x * n + n <= h * n /\ x * n \in Nat /\ h * n \in Nat
    <3>1. \A a, e \in Nat : a <= e => a * n <= e * n
      BY <1>1
    <3>2. x + 1 \in Nat /\ x \in Nat /\ x + 1 <= h
      BY <2>1
    <3>3. \A a \in Nat : (a + 1) * n = a * n + n
      BY <1>1
    <3> QED
      BY <1>1, <1>4, <2>1, <3>1, <3>2, <3>3
  <2> DEFINE g == x * n
             e == h * n
  <2>3. i = g + r /\ g + n <= e /\ g \in Nat /\ e \in Nat /\ Samples(d) = e
    BY <2>1, <2>2
  <2> HIDE DEF g, e
  <2>4. i \in 1 .. Samples(d)
    BY <1>1, <1>2, <2>3
  <2> QED
    BY <2>4 DEF i
<1> QED
  BY <1>5, <1>7, <1>8, <1>9, <1>10 DEF Spot, k, m, n, c

(* No two samples share a place.                                            *)
LEMMA PlacesApart ==
  ASSUME NEW d, Wide(d),
         NEW s \in 1 .. Len(d.sources), NEW z \in 1 .. Len(d.receivers), NEW r \in 1 .. Len(d.ranges),
         NEW t \in 1 .. Len(d.sources), NEW y \in 1 .. Len(d.receivers), NEW q \in 1 .. Len(d.ranges),
         At(d, s, z, r) = At(d, t, y, q)
  PROVE  s = t /\ z = y /\ r = q
<1> DEFINE m == Len(d.receivers)
           n == Len(d.ranges)
           k == At(d, s, z, r) - 1
           l == At(d, t, y, q) - 1
<1>1. k % n = r - 1 /\ (k \div n) % m = z - 1 /\ k \div (m * n) = s - 1
  <2>1. Spot(d, s, z, r)
    BY PlaceAt
  <2> QED
    BY <2>1 DEF Spot
<1>2. l % n = q - 1 /\ (l \div n) % m = y - 1 /\ l \div (m * n) = t - 1
  <2>1. Spot(d, t, y, q)
    BY PlaceAt
  <2> QED
    BY <2>1 DEF Spot
<1>3. k = l
  OBVIOUS
<1> HIDE DEF k, l
<1>4. r - 1 = q - 1 /\ z - 1 = y - 1 /\ s - 1 = t - 1
  <2> HIDE DEF m, n
  <2> QED
    BY <1>1, <1>2, <1>3
<1>5. \A a, b \in Int : a - 1 = b - 1 => a = b
  OBVIOUS
<1>6. /\ s \in Int /\ t \in Int /\ z \in Int /\ y \in Int /\ r \in Int /\ q \in Int
  BY DEF Wide
<1> QED
  BY <1>4, <1>5, <1>6

(* The samples that a march has made, source by source, and of the source   *)
(* it is at, range by range: each is of its source, depth and range.        *)
Heard(p, d, source0, range0) ==
  /\ List(p) /\ Len(p) = Samples(d)
  /\ \A s \in 1 .. Len(d.sources) : \A z \in 1 .. Len(d.receivers) : \A r \in 1 .. Len(d.ranges) :
       s < source0 \/ (s = source0 /\ r < range0) => p[At(d, s, z, r)] = <<s, z, r>>

(* One profile's samples are all made at once.                              *)
LEMMA OrderHeard ==
  ASSUME NEW d, Wide(d), NEW source0, NEW range0
  PROVE  Heard(Order(d), d, source0, range0)
<1> DEFINE c == Len(d.sources)
           m == Len(d.receivers)
           n == Len(d.ranges)
           p == Order(d)
<1>1. Samples(d) \in Nat
  <2>1. \A a, b \in Nat : a * b \in Nat
    OBVIOUS
  <2> QED
    BY <2>1 DEF Samples, Wide
<1>2. p = [i \in 1 .. Samples(d) |-> p[i]]
  BY DEF Order
<1>3. \A i \in 1 .. Samples(d) : p[i] = <<(i - 1) \div (m * n) + 1, (((i - 1) \div n) % m) + 1, ((i - 1) % n) + 1>>
  BY DEF Order
<1> HIDE DEF p
<1>4. List(p) /\ Len(p) = Samples(d)
  BY <1>1, <1>2, ListedFunction
<1>5. ASSUME NEW s \in 1 .. c, NEW z \in 1 .. m, NEW r \in 1 .. n
      PROVE  p[At(d, s, z, r)] = <<s, z, r>>
  <2> DEFINE i == At(d, s, z, r)
  <2>1. /\ i \in 1 .. Samples(d) /\ (i - 1) \div (m * n) = s - 1 /\ ((i - 1) \div n) % m = z - 1
        /\ (i - 1) % n = r - 1
    <3>1. Spot(d, s, z, r)
      BY PlaceAt
    <3> QED
      BY <3>1 DEF Spot
  <2> HIDE DEF i
  <2>2. \A a \in Int : (a - 1) + 1 = a
    OBVIOUS
  <2>3. s \in Int /\ z \in Int /\ r \in Int
    BY DEF Wide
  <2>4. p[i] = <<(s - 1) + 1, (z - 1) + 1, (r - 1) + 1>>
    <3> HIDE DEF m, n, c
    <3> QED
      BY <1>3, <2>1
  <2> QED
    BY <2>2, <2>3, <2>4 DEF i
<1> QED
  BY <1>4, <1>5 DEF Heard, p

(* A march makes the samples of a range, and keeps the others.              *)
Receiving(p, d, source0, range0) ==
  [i \in DOMAIN p |->
     LET heard == {iz \in 1 .. Len(d.receivers) :
                     (source0 - 1) * (Samples(d) \div Len(d.sources)) + (iz - 1) * Len(d.ranges) + range0 = i}
     IN  IF heard = {} THEN p[i] ELSE <<source0, Min(heard), range0>>]
LEMMA HeardMore ==
  ASSUME NEW d, Wide(d), NEW p, NEW source0 \in 1 .. Len(d.sources), NEW range0 \in 1 .. Len(d.ranges),
         Heard(p, d, source0, range0)
  PROVE  Heard(Receiving(p, d, source0, range0), d, source0, range0 + 1)
<1> DEFINE c == Len(d.sources)
           m == Len(d.receivers)
           n == Len(d.ranges)
           q == Receiving(p, d, source0, range0)
           heard(i) == {iz \in 1 .. m : At(d, source0, iz, range0) = i}
<1>1. c \in Nat \ {0} /\ m \in Nat \ {0} /\ n \in Nat \ {0}
  BY DEF Wide
<1>2. source0 \in 1 .. c /\ range0 \in 1 .. n
  OBVIOUS
<1>3. ASSUME NEW z \in 1 .. m
      PROVE  (source0 - 1) * (Samples(d) \div c) + (z - 1) * n + range0 = At(d, source0, z, range0)
  <2>1. Samples(d) \div c = m * n
    <3>1. \A a \in Nat \ {0} : \A b \in Nat : (a * b + 0) \div a = b
      BY RowAndPlace
    <3>2. Samples(d) = c * (m * n) + 0 /\ m * n \in Nat
      <4> HIDE DEF c, m, n
      <4>1. (c * m) * n = c * (m * n) + 0 /\ m * n \in Nat
        BY <1>1
      <4> QED
        BY <4>1 DEF Samples, c, m, n
    <3> HIDE DEF c, m, n
    <3> QED
      BY <1>1, <3>1, <3>2
  <2> HIDE DEF c, m, n
  <2>2. (source0 - 1) * (m * n) + (z - 1) * n = ((source0 - 1) * m + (z - 1)) * n
    BY <1>1, <1>2
  <2> QED
    BY <2>1, <2>2 DEF At, m, n
<1>4. \A i \in DOMAIN p : q[i] = IF heard(i) = {} THEN p[i] ELSE <<source0, Min(heard(i)), range0>>
  <2> DEFINE before(i) == {iz \in 1 .. m : (source0 - 1) * (Samples(d) \div c) + (iz - 1) * n + range0 = i}
  <2>1. \A i : before(i) = heard(i)
    BY <1>3
  <2>2. \A i \in DOMAIN p : q[i] = IF before(i) = {} THEN p[i] ELSE <<source0, Min(before(i)), range0>>
    BY DEF Receiving
  <2> HIDE DEF before, heard, q
  <2> QED
    BY <2>1, <2>2
<1>5. DOMAIN p = 1 .. Samples(d) /\ Samples(d) \in Nat
  BY ListShape DEF Heard
<1>6. List(q) /\ Len(q) = Samples(d)
  <2>1. q = [i \in 1 .. Samples(d) |-> q[i]]
    BY <1>5 DEF Receiving
  <2> HIDE DEF q
  <2> QED
    BY <1>5, <2>1, ListedFunction
<1> HIDE DEF q
<1>7. ASSUME NEW s \in 1 .. c, NEW z \in 1 .. m, NEW r \in 1 .. n, s < source0 \/ (s = source0 /\ r < range0 + 1)
      PROVE  q[At(d, s, z, r)] = <<s, z, r>>
  <2> DEFINE i == At(d, s, z, r)
  <2>1. i \in DOMAIN p
    <3>1. Spot(d, s, z, r)
      BY PlaceAt
    <3> QED
      BY <1>5, <3>1 DEF Spot
  <2>2. ASSUME NEW iz \in 1 .. m, At(d, source0, iz, range0) = i
        PROVE  source0 = s /\ iz = z /\ range0 = r
    BY <2>2, PlacesApart
  <2>3. CASE s = source0 /\ r = range0
    <3>1. heard(i) = {z}
      BY <2>2, <2>3
    <3>2. Min({z}) = z
      BY DEF Min
    <3> HIDE DEF i, heard
    <3> QED
      BY <1>4, <2>1, <2>3, <3>1, <3>2 DEF i
  <2>4. CASE ~(s = source0 /\ r = range0)
    <3>1. heard(i) = {}
      BY <2>2, <2>4
    <3>2. s < source0 \/ (s = source0 /\ r < range0)
      BY <1>1, <1>2, <1>7, <2>4
    <3>3. p[i] = <<s, z, r>>
      BY <3>2 DEF Heard
    <3> HIDE DEF i, heard
    <3> QED
      BY <1>4, <2>1, <3>1, <3>3 DEF i
  <2> QED
    BY <2>3, <2>4
<1> QED
  BY <1>6, <1>7 DEF Heard, q

(* A SHD file without a quota holds its header, and a record for each source*)
(* and depth.                                                               *)
LEMMA ShdRead ==
  ASSUME NEW d, Wide(d), NEW p, Heard(p, d, Len(d.sources) + 1, 1),
         NEW s \in 1 .. Len(d.sources), NEW z \in 1 .. Len(d.receivers), NEW r \in 1 .. Len(d.ranges)
  PROVE  ReadShd(Shd(d.sources, d.receivers, d.ranges, FALSE, p, NoQuota)).pressure[s][z][r] = <<s, z, r>>
<1> DEFINE c == Len(d.sources)
           m == Len(d.receivers)
           n == Len(d.ranges)
           words == Max({HeaderWords, RowWords(d.ranges), m, c})
           rows == Rows(d.sources, d.receivers, FALSE)
           header == <<Payload(<<words>>, 21), Payload(<<FALSE>>, 3),
                       Payload(<<c, m, n>>, LeastInteger),
                       Payload(<<"frequency">>, 2), Payload(<<0>>, 2), Payload(<<0>>, 2),
                       Payload(<<0>>, 2), Singles(d.sources), Singles(d.receivers), Doubles(d.ranges)>>
           row(k) == Payload(SubSeq(p, (k - 1) * n + 1, k * n), RowWords(d.ranges))
           body == [k \in 1 .. rows |-> row(k)]
           new == NewDirect(words, NoQuota)
           full == FoldLeft(Record, new, header)
           file == FoldLeft(Record, full, body)
<1>1. c \in Nat \ {0} /\ m \in Nat \ {0} /\ n \in Nat \ {0} /\ s \in 1 .. c /\ z \in 1 .. m /\ r \in 1 .. n
  BY DEF Wide
<1>2. words \in Nat /\ HeaderWords <= words /\ 2 * n <= words /\ m <= words /\ c <= words /\ HeaderWords >= 21
  <2> HIDE DEF c, m
  <2>1. /\ HeaderWords \in Nat \ {0} /\ HeaderWords >= 21
        /\ RowWords(d.ranges) = 2 * n /\ RowWords(d.ranges) \in Nat \ {0}
    BY <1>1, NativeRecordsAssumption DEF RowWords
  <2> DEFINE k == HeaderWords + RowWords(d.ranges) + m + c
             all == {HeaderWords, RowWords(d.ranges), m, c}
  <2>2. k \in Nat /\ all \in SUBSET (1 .. k) /\ all # {}
    BY <1>1, <2>1
  <2>3. /\ HeaderWords \in all /\ RowWords(d.ranges) \in all /\ m \in all /\ c \in all
        /\ all \subseteq Nat
    BY <1>1, <2>1
  <2> HIDE DEF k, all
  <2>4. Max(all) \in all /\ \A x \in all : x <= Max(all)
    BY <2>2, Greatest
  <2> QED
    BY <2>1, <2>3, <2>4 DEF all
<1>3. rows = c * m /\ rows \in Nat
  <2>1. \A a, b \in Nat : a * b \in Nat
    OBVIOUS
  <2> QED
    BY <1>1, <2>1 DEF Rows
<1>4. DOMAIN header = 1 .. 10
  OBVIOUS
<1>5. ASSUME NEW k \in 1 .. 10 PROVE ~(header[k].words > words)
  <2>1. /\ header[1].words = 21 /\ header[2].words = 3 /\ header[3].words = 11 /\ header[4].words = 2
        /\ header[5].words = 2 /\ header[6].words = 2 /\ header[7].words = 2
        /\ header[8].words = c /\ header[9].words = m /\ header[10].words = 2 * n
    BY DEF Payload, Singles, Doubles, LeastInteger
  <2> HIDE DEF header, words, c, m, n
  <2>2. /\ ~(21 > words) /\ ~(3 > words) /\ ~(11 > words) /\ ~(2 > words) /\ ~(c > words) /\ ~(m > words)
        /\ ~(2 * n > words)
    BY <1>1, <1>2, NativeRecordsAssumption
  <2>3. k \in {1, 2, 3, 4, 5, 6, 7, 8, 9, 10}
    OBVIOUS
  <2> QED
    BY <2>1, <2>2, <2>3
<1>6. header[2].values = <<FALSE>> /\ header[3].values = <<c, m, n>>
  BY DEF Payload
<1>7. Open(new) /\ new.words = words /\ Len(new.records) = 0
  <2>1. <<>> \in Seq({}) /\ Len(<<>>) = 0
    OBVIOUS
  <2>2. List(<<>>)
    BY <2>1, SequenceListed
  <2>3. new.records = <<>> /\ new.words = words /\ new.ok /\ new.maximum = NoQuota /\ DOMAIN new = FileParts
    BY DEF NewDirect, Fits, FileParts
  <2> HIDE DEF new
  <2> QED
    BY <2>1, <2>2, <2>3 DEF Open
<1>8. DOMAIN body = 1 .. rows /\ \A k \in 1 .. rows : body[k].words = 2 * n /\ body[k].values = row(k).values
  BY DEF Payload, RowWords
<1> HIDE DEF words, header, body, new, rows
<1>9. Kept(full, new, header, 10)
  BY <1>4, <1>5, <1>7, RecordsKept
<1>10. /\ Open(full) /\ full.words = words /\ Len(full.records) = 10
       /\ \A k \in 1 .. 10 : full.records[k] = header[k].values
  <2>1. \A k \in 1 .. 10 : 0 + k = k
    OBVIOUS
  <2> HIDE DEF full
  <2> QED
    BY <1>7, <1>9, <2>1 DEF Kept
<1> HIDE DEF full
<1>11. Kept(file, full, body, rows)
  <2>1. \A k \in 1 .. rows : ~(body[k].words > full.words)
    <3>1. ~(2 * n > words)
      BY <1>1, <1>2
    <3>2. full.words = words /\ \A k \in 1 .. rows : body[k].words = 2 * n
      BY <1>8, <1>10
    <3> HIDE DEF n
    <3> QED
      BY <3>1, <3>2
  <2> QED
    BY <1>3, <1>8, <1>10, <2>1, RecordsKept
<1>12. /\ Open(file) /\ \A k \in 1 .. 10 : file.records[k] = header[k].values
       /\ \A k \in 1 .. rows : file.records[10 + k] = row(k).values
  <2> HIDE DEF file
  <2> QED
    BY <1>8, <1>10, <1>11 DEF Kept
<1>13. Shd(d.sources, d.receivers, d.ranges, FALSE, p, NoQuota) = [file EXCEPT !.ok = @ /\ Len(p) = rows * n]
  BY DEF Shd, words, rows, header, body, new, full
<1> HIDE DEF file
<1> DEFINE shd == Shd(d.sources, d.receivers, d.ranges, FALSE, p, NoQuota)
           k0 == (s - 1) * m + z
<1>14. shd.records = file.records
  <2>1. DOMAIN file = FileParts
    BY <1>12 DEF Open
  <2> QED
    BY <1>13, <2>1 DEF FileParts
<1> HIDE DEF shd
<1>15. shd.records[2][1] = FALSE /\ shd.records[3][1] = c /\ shd.records[3][2] = m /\ shd.records[3][3] = n
  <2>1. 2 \in 1 .. 10 /\ 3 \in 1 .. 10
    OBVIOUS
  <2>2. shd.records[2] = <<FALSE>> /\ shd.records[3] = <<c, m, n>>
    BY <1>6, <1>12, <1>14, <2>1
  <2> QED
    BY <2>2
<1>16. ReadShd(shd).pressure[s][z][r] = shd.records[10 + (s - 1) * m + z][r]
  <2> HIDE DEF c, m, n
  <2> QED
    BY <1>1, <1>15 DEF ReadShd
<1>17. /\ k0 \in 1 .. rows /\ 10 + (s - 1) * m + z = 10 + k0 /\ (k0 - 1) * n \in Nat
       /\ k0 * n = (k0 - 1) * n + n /\ (k0 - 1) * n + r = At(d, s, z, r) /\ (k0 - 1) * n + n <= Len(p)
  <2> DEFINE x == (s - 1) * m + (z - 1)
  <2>1. x \in Nat /\ x + 1 \in 1 .. c * m
    <3>1. Spot(d, s, z, r)
      BY PlaceAt
    <3> QED
      BY <3>1 DEF Spot
  <2>2. (s - 1) * m \in Nat
    <3>1. \A a, b \in Nat : a * b \in Nat
      OBVIOUS
    <3>2. s - 1 \in Nat
      BY <1>1
    <3> QED
      BY <1>1, <3>1, <3>2
  <2> DEFINE e == (s - 1) * m
             h == c * m
  <2>3. x = e + (z - 1) /\ k0 = e + z /\ 10 + (s - 1) * m + z = (10 + e) + z /\ e \in Nat
    BY <2>2
  <2>4. At(d, s, z, r) = x * n + r
    BY DEF At
  <2>5. Len(p) = h * n
    BY DEF Heard, Samples
  <2>6. h = rows
    BY <1>3
  <2> HIDE DEF e, h, x, k0, c, m, n
  <2>7. k0 = x + 1 /\ (10 + e) + z = 10 + k0 /\ x = k0 - 1
    BY <1>1, <2>1, <2>3
  <2>8. x * n \in Nat /\ (x + 1) * n = x * n + n /\ (x + 1) * n <= h * n
    <3>1. \A a, b \in Nat : a <= b => a * n <= b * n
      BY <1>1
    <3>2. \A a \in Nat : a * n \in Nat /\ (a + 1) * n = a * n + n
      BY <1>1
    <3>3. h \in Nat /\ x + 1 \in Nat /\ x + 1 <= h
      BY <1>3, <2>1, <2>6, <2>7 DEF h
    <3> QED
      BY <2>1, <3>1, <3>2, <3>3
  <2>9. k0 \in 1 .. rows
    BY <2>1, <2>6, <2>7 DEF h
  <2> QED
    BY <2>3, <2>4, <2>5, <2>7, <2>8, <2>9
<1>18. row(k0).values = [j \in 1 .. n |-> p[(k0 - 1) * n + j]]
  <2>1. List(p)
    BY DEF Heard
  <2> DEFINE a == (k0 - 1) * n
  <2>2. a \in Nat /\ a + n <= Len(p) /\ k0 * n = a + n
    BY <1>17
  <2>3. row(k0).values = SubSeq(p, a + 1, k0 * n)
    BY DEF Payload
  <2> HIDE DEF k0, a, n
  <2>4. SubSeq(p, a + 1, a + n) = [j \in 1 .. n |-> p[a + j]]
    BY <1>1, <2>1, <2>2, StretchOf
  <2> QED
    BY <2>2, <2>3, <2>4 DEF a
<1>19. shd.records[10 + k0][r] = p[(k0 - 1) * n + r]
  <2>1. shd.records[10 + k0] = row(k0).values
    BY <1>12, <1>14, <1>17
  <2> HIDE DEF row, k0, n
  <2> QED
    BY <1>1, <1>18, <2>1
<1>20. p[At(d, s, z, r)] = <<s, z, r>>
  <2>1. s < Len(d.sources) + 1
    BY <1>1
  <2> QED
    BY <2>1 DEF Heard
<1> HIDE DEF k0, row
<1> QED
  BY <1>16, <1>17, <1>19, <1>20 DEF shd

-----------------------------------------------------------------------------
(* Every profile that is solved has a mode; and the samples that a march    *)
(* has made are where its source, depth and range are, all of them once the *)
(* frequency is solved.                                                     *)
Sounding ==
  /\ counts \in Seq(Nat \ {0})
  /\ phase = "march" => source \in 1 .. Len(Profile.sources) /\ Heard(pressure, Profile, source, receiver)
  /\ phase = "solved" => Heard(pressure, Profile, Len(Profile.sources) + 1, 1)

(* Nothing is solved at first.                                              *)
LEMMA SoundingInit == Init => Sounding
<1> SUFFICES ASSUME Init PROVE Sounding
  OBVIOUS
<1>1. phase = "idle" /\ counts = <<>>
  BY DEF Init, FieldInit
<1> QED
  BY <1>1 DEF Sounding

(* What solves and marches nothing keeps what was made, and nothing is made *)
(* before there are fields.                                                 *)
LEMMA SoundingElsewhere ==
  ASSUME Sounding, UNCHANGED <<phase, frequency, counts, march, pressure>>, phase = "idle" \/ UNCHANGED fields
  PROVE  Sounding'
<1>1. source' = source /\ receiver' = receiver
  BY DEF march
<1>2. CASE UNCHANGED fields
  <2>1. Profile' = Profile
    BY <1>2 DEF Profile, Profiles, Field
  <2> QED
    BY <1>1, <2>1 DEF Sounding
<1>3. CASE phase = "idle"
  BY <1>3 DEF Sounding
<1> QED
  BY <1>2, <1>3

(* The first profile of a field that is solved has its grids.               *)
LEMMA SoundingWide ==
  ASSUME Fit, frequency \in DOMAIN fields
  PROVE  Wide(Profile) /\ Samples(Profile) \in Nat
<1>1. FieldOK(Field)
  BY DEF Fit, Field
<1>2. 1 \in 1 .. Len(Field.profiles)
  BY <1>1, FieldShape
<1>3. CaseAllowed(Profile)
  BY <1>1, <1>2 DEF FieldOK, Profile, Profiles
<1>4. Wide(Profile)
  BY <1>3, GridLengths DEF Wide
<1>5. \A a, b \in Nat : a * b \in Nat
  OBVIOUS
<1> QED
  BY <1>4, <1>5 DEF Samples, Wide

(* A range of a source is heard by every receiver.                          *)
LEMMA SoundingReceive ==
  ASSUME Fit, Marching, Sounding, Receive
  PROVE  Sounding'
<1> DEFINE d == Profile
           c == Len(d.sources)
           n == Len(d.ranges)
<1>1. phase = "march" /\ frequency \in DOMAIN fields /\ receiver \in 1 .. n
  BY DEF Receive, Marching, Place
<1>2. source \in 1 .. c /\ Heard(pressure, d, source, receiver)
  BY <1>1 DEF Sounding
<1>3. Wide(d) /\ c \in Nat \ {0} /\ n \in Nat \ {0}
  BY <1>1, SoundingWide DEF Wide
<1>4. UNCHANGED <<fields, frequency, counts>>
  BY DEF Receive
<1>5. Profile' = Profile /\ counts' \in Seq(Nat \ {0})
  BY <1>4 DEF Profile, Profiles, Field, Sounding
<1>6. pressure' = Receiving(pressure, d, source, receiver)
  BY DEF Receive, Receiving, Index
<1>7. Heard(pressure', d, source, receiver + 1)
  BY <1>2, <1>3, <1>1, <1>6, HeardMore
<1>8. ASSUME receiver = n PROVE Heard(pressure', d, source + 1, 1)
  <2>1. \A s \in 1 .. c : s < source + 1 => s < source \/ s = source
    BY <1>2, <1>3
  <2>2. \A r \in 1 .. n : r < receiver + 1 /\ ~(r < 1)
    BY <1>3, <1>8
  <2> QED
    BY <1>7, <2>1, <2>2 DEF Heard
<1>9. CASE receiver < n
  <2>1. receiver' = receiver + 1 /\ source' = source /\ phase' = "march"
    BY <1>1, <1>9 DEF Receive
  <2> QED
    BY <1>2, <1>5, <1>7, <2>1 DEF Sounding
<1>10. CASE receiver = n /\ source < c
  <2>1. receiver' = 1 /\ source' = source + 1 /\ phase' = "march"
    BY <1>1, <1>3, <1>10 DEF Receive, BeginSource
  <2>2. source' \in 1 .. c
    BY <1>2, <1>3, <1>10, <2>1
  <2> QED
    BY <1>5, <1>8, <1>10, <2>1, <2>2 DEF Sounding
<1>11. CASE receiver = n /\ source = c
  <2>1. phase' \in {"solved", "failed"}
    BY <1>3, <1>11 DEF Receive
  <2> QED
    BY <1>5, <1>8, <1>11, <2>1 DEF Sounding
<1>12. (receiver < n) \/ (receiver = n /\ source < c) \/ (receiver = n /\ source = c)
  BY <1>1, <1>2, <1>3
<1> QED
  BY <1>9, <1>10, <1>11, <1>12

(* What is solved is heard.                                                 *)
LEMMA SoundingSolve ==
  ASSUME Fit, Marching, Sounding, SolveField \/ NextFrequency
  PROVE  Sounding'
<1>1. CASE NextFrequency
  <2>1. counts' = <<>> /\ phase' \in {"modes", "failed"}
    BY <1>1 DEF NextFrequency
  <2> QED
    BY <2>1 DEF Sounding
<1>2. CASE SolveProfile
  <2>1. phase' \in {"modes", "failed"}
    BY <1>2 DEF SolveProfile
  <2>2. counts' = counts \/ \E n \in Nat \ {0} : counts' = Append(counts, n)
    BY <1>2, KrakenFieldAssumption DEF SolveProfile
  <2>3. counts' \in Seq(Nat \ {0})
    BY <2>2 DEF Sounding
  <2> QED
    BY <2>1, <2>3 DEF Sounding
<1>3. ASSUME SolveField, phase \in {"modes", "march"}, UNCHANGED <<fields, frequency, counts>>
      PROVE  Profile' = Profile /\ counts' \in Seq(Nat \ {0}) /\ Wide(Profile) /\ Samples(Profile) \in Nat
  <2>1. Profile' = Profile /\ counts' \in Seq(Nat \ {0})
    BY <1>3 DEF Profile, Profiles, Field, Sounding
  <2> QED
    BY <1>3, <2>1, SoundingWide DEF Marching
<1>4. CASE Synthesize
  <2>1. Profile' = Profile /\ counts' \in Seq(Nat \ {0}) /\ Wide(Profile)
    BY <1>3, <1>4 DEF Synthesize, SolveField
  <2>2. phase' = "failed" \/ (phase' = "solved" /\ pressure' = Order(Profile))
    BY <1>4 DEF Synthesize
  <2>3. Heard(Order(Profile), Profile, Len(Profile.sources) + 1, 1)
    BY <2>1, OrderHeard
  <2> QED
    BY <2>1, <2>2, <2>3 DEF Sounding
<1>5. CASE StartMarch
  <2>1. Profile' = Profile /\ counts' \in Seq(Nat \ {0}) /\ Wide(Profile) /\ Samples(Profile) \in Nat
    BY <1>3, <1>5 DEF StartMarch, SolveField
  <2>2. \/ phase' = "failed"
        \/ /\ phase' = "march" /\ source' = 1 /\ receiver' = 1
           /\ pressure' = [i \in 1 .. Samples(Profile) |-> <<>>]
    BY <1>5 DEF StartMarch, BeginSource
  <2>3. CASE phase' = "failed"
    BY <2>1, <2>3 DEF Sounding
  <2>4. CASE phase' # "failed"
    <3>1. pressure' = [i \in 1 .. Samples(Profile) |-> pressure'[i]]
      BY <2>2, <2>4
    <3>2. List(pressure') /\ Len(pressure') = Samples(Profile)
      BY <2>1, <3>1, ListedFunction
    <3>3. 1 \in 1 .. Len(Profile.sources)
      BY <2>1 DEF Wide
    <3>4. \A s \in 1 .. Len(Profile.sources) : ~(s < 1)
      OBVIOUS
    <3>5. \A r \in 1 .. Len(Profile.ranges) : ~(r < 1)
      OBVIOUS
    <3>6. Heard(pressure', Profile, 1, 1)
      BY <3>2, <3>4, <3>5 DEF Heard
    <3> QED
      BY <2>1, <2>2, <2>4, <3>3, <3>6 DEF Sounding
  <2> QED
    BY <2>3, <2>4
<1>6. CASE Cross
  <2>1. UNCHANGED <<fields, frequency, phase, counts, source, receiver, pressure>>
    BY <1>6 DEF Cross
  <2>2. Profile' = Profile
    BY <2>1 DEF Profile, Profiles, Field
  <2> QED
    BY <2>1, <2>2 DEF Sounding
<1>7. CASE Receive
  BY <1>7, SoundingReceive
<1> QED
  BY <1>1, <1>2, <1>4, <1>5, <1>6, <1>7 DEF SolveField

(* Every step keeps what is known of the samples.                           *)
LEMMA SoundingStep == Acceptance /\ Marching /\ Sounding /\ [Next]_vars => Sounding'
<1> SUFFICES ASSUME Acceptance, Marching, Sounding, [Next]_vars PROVE Sounding'
  OBVIOUS
<1>1. CASE NextStep
  BY <1>1, SoundingSolve DEF NextStep, Acceptance
<1>2. CASE FinishLoad \/ LoadDocument
  <2>1. stage \in {"load", "read"} /\ UNCHANGED <<frequency, phase, counts, march, pressure>>
    BY <1>2 DEF FinishLoad, LoadDocument
  <2>2. phase = "idle"
    BY <2>1 DEF Acceptance
  <2> QED
    BY <2>1, <2>2, SoundingElsewhere
<1>3. CASE UNCHANGED fieldVars
  BY <1>3, SoundingElsewhere DEF fieldVars
<1>4. CASE ~(NextStep \/ FinishLoad \/ LoadDocument)
  <2>1. UNCHANGED fieldVars
    BY <1>4 DEF Next, vars, ReadPair, DiscoverProfile, EndDiscovery, ReadTable, ReadPattern, BeginLoad, LoadProfile,
       ExportCase, Run, WriteHdf5, WriteMod, WriteShd, Account, Failed, Publish, Over
  <2> QED
    BY <1>3, <2>1
<1> QED
  BY <1>1, <1>2, <1>4

(* A reader of the native files finds every profile's shapes and            *)
(* wavenumbers, wherever the profiles before it end, and the pressure of    *)
(* each source, depth and range (kraken_native.rs, native.rs): ReadBack,    *)
(* for every request, number of modes and length of a record.               *)
THEOREM ResultsReadBack == Spec => []ReadBack
<1>1. Init => Acceptance /\ Marching /\ Sized /\ Ledger /\ Sounding
  BY AcceptanceInit, SizedInit, LedgerInit, SoundingInit
<1>2. Acceptance /\ Marching /\ Sized /\ Ledger /\ Sounding /\ [Next]_vars =>
        (Acceptance /\ Marching /\ Sized /\ Ledger /\ Sounding)'
  BY AcceptanceStep, SizedStep, LedgerStep, SoundingStep
<1>3. Acceptance /\ Marching /\ Sized /\ Ledger /\ Sounding => ReadBack
  <2> SUFFICES ASSUME Acceptance, Marching, Sized, Ledger, Sounding, writing = "mod"
               PROVE  ReadBack
    BY DEF ReadBack
  <2> DEFINE file == ModFile(Field, counts, NoQuota)
             shd == ReadShd(ShdFile(Field, pressure, NoQuota))
             read == ReadMod(file, Len(Profiles))
  <2>1. phase = "solved"
    BY DEF Ledger
  <2>2. /\ FieldOK(Field) /\ Deep(Field) /\ Len(counts) = Len(Field.profiles)
        /\ counts \in Seq(Nat \ {0}) /\ frequency \in DOMAIN fields /\ Fit
    BY <2>1, SolvedField DEF Sounding, Ledger, Acceptance
  <2>3. /\ file.ok
        /\ \A p \in 1 .. Len(Profiles) : Recovered(read[p], p, counts[p], Len(Profiles[p].modeDepths))
    BY <2>2, ModRead DEF Profiles
  <2>4. DOMAIN Profiles = 1 .. Len(Profiles)
    BY <2>2, ListShape DEF FieldOK, Profiles
  <2>5. ASSUME NEW s \in 1 .. Len(Profile.sources), NEW z \in 1 .. Len(Profile.receivers),
               NEW r \in 1 .. Len(Profile.ranges)
        PROVE  shd.pressure[s][z][r] = <<s, z, r>>
    <3>1. Wide(Profile) /\ Heard(pressure, Profile, Len(Profile.sources) + 1, 1)
      BY <2>1, <2>2, SoundingWide DEF Sounding
    <3>2. ShdFile(Field, pressure, NoQuota) =
            Shd(Profile.sources, Profile.receivers, Profile.ranges, FALSE, pressure, NoQuota)
      BY DEF ShdFile, Profile, Profiles
    <3> DEFINE d == Profile
    <3>3. ReadShd(Shd(d.sources, d.receivers, d.ranges, FALSE, pressure, NoQuota)).pressure[s][z][r] = <<s, z, r>>
      <4> HIDE DEF d
      <4>1. /\ Wide(d) /\ Heard(pressure, d, Len(d.sources) + 1, 1)
            /\ s \in 1 .. Len(d.sources) /\ z \in 1 .. Len(d.receivers) /\ r \in 1 .. Len(d.ranges)
        BY <3>1 DEF d
      <4> QED
        BY <4>1, ShdRead
    <3> QED
      BY <3>2, <3>3
  <2> HIDE DEF file, shd, read
  <2>6. /\ file.ok
        /\ \A p \in DOMAIN Profiles :
             /\ read[p].shapes = [m \in 1 .. counts[p] |-> Shape(p, m, Len(Profiles[p].modeDepths))]
             /\ read[p].wavenumbers = [m \in 1 .. counts[p] |-> <<p, m>>]
    BY <2>3, <2>4 DEF Recovered
  <2> QED
    BY <2>5, <2>6 DEF ReadBack, file, shd, read
<1> QED
  BY <1>1, <1>2, <1>3, PTL DEF Spec
=============================================================================
