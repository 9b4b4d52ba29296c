----------------------------- MODULE BellhopRun -----------------------------
(****************************************************************************)
(* One simulation (bellhop/src/solver/mod.rs, run) and what it retains of   *)
(* the influence of its rays (solver/influence.rs, apply_contribution).     *)
(*                                                                         *)
(* A job is what the solver takes from a case.  Rays are traced source by   *)
(* source and angle by angle; where a ray passes near a receiver it leaves  *)
(* an arrival, an eigenray or a pressure there, until a limit ends the run. *)
(* The geometry that decides what a ray leaves, and how strong it is, is    *)
(* abstract: a ray leaves anything anywhere.                                *)
(****************************************************************************)
EXTENDS Integers, Sequences, FiniteSets

CONSTANTS
  Limits,             \* SimulationLimits
  ReferenceArrivals,  \* the least share of a receiver in the arrivals
  Loudest,            \* bound: no amplitude is above it
  NotFinite           \* the amplitude of an arrival at a negative range

LimitNames == {"rays", "steps", "points", "receiver", "arrivals", "eigenrays",
               "eigenrayPoints", "cells"}
ASSUME RunAssumption ==
  /\ Limits \in [LimitNames -> Nat] /\ ReferenceArrivals \in Nat \ {0}
  /\ Loudest \in Nat \ {0} /\ NotFinite \notin 0 .. Loudest

VARIABLES
  phase,      \* "idle", "tracing", "influence", "done" or "failed"
  job,        \* what is simulated
  source,     \* the source of the ray, 1 ..
  ray,        \* the launch angle of the ray, 1 ..
  length,     \* how many states the ray has
  receivers,  \* what each receiver of this source has, range by range
  rays,       \* the ray set of this source
  counts,     \* InfluenceCounts, and all points that were traced
  result,     \* the sources that are finished
  dropped     \* the strongest arrival that each receiver turned away

runVars == <<phase, job, source, ray, length, receivers, rays, counts, result, dropped>>

FieldRun(j) == j.kind \in {"C", "S", "I"}
Supported(j) ==
  CASE j.kind = "R" -> TRUE
    [] j.kind = "E" -> j.family \in {"hatCartesian", "hatCentered", "gaussianCartesian", "simple"}
    [] j.kind = "A" -> j.family \in {"hatCartesian", "hatCentered", "gaussianCartesian"}
    [] OTHER -> j.family \in {"hatCartesian", "hatCentered", "gaussianCartesian", "simple",
                              "cervenyCartesian", "cervenyCentered"}

DepthCount(j) == IF j.irregular THEN 1 ELSE Len(j.depths)
ReceiverCount(j) == Len(j.ranges) * DepthCount(j)

(* Receivers go range by range; on an irregular grid each range has its own *)
(* depth.                                                                  *)
RangeAt(j, i) == j.ranges[((i - 1) \div DepthCount(j)) + 1]
DepthAt(j, i) == IF j.irregular THEN j.depths[i] ELSE j.depths[((i - 1) % DepthCount(j)) + 1]

RayCount(j) == Len(j.angles) * Len(j.sources)
TooSmall(j) ==
  \/ Limits.steps < 2
  \/ Limits.points < RayCount(j)
  \/ j.kind = "A" /\ (Limits.receiver = 0 \/ Limits.arrivals = 0)
  \/ j.kind = "E" /\ (Limits.eigenrays = 0 \/ Limits.eigenrayPoints = 0)

Refusal(j) ==
  \/ ~Supported(j)
  \/ FieldRun(j) /\ ReceiverCount(j) * Len(j.sources) > Limits.cells
  \/ RayCount(j) > Limits.rays
  \/ TooSmall(j)
  \/ j.writes

(* No receiver may keep more than its share of all arrivals.               *)
PerReceiver(j) ==
  LET n == IF ReceiverCount(j) = 0 THEN 1 ELSE ReceiverCount(j)
      share == IF Limits.arrivals \div n < ReferenceArrivals THEN ReferenceArrivals
                                                             ELSE Limits.arrivals \div n
  IN  IF Limits.receiver < share THEN Limits.receiver ELSE share

Untouched(j) == [i \in 1 .. ReceiverCount(j) |-> IF FieldRun(j) THEN 0 ELSE <<>>]
NothingDropped(j) == [i \in 1 .. ReceiverCount(j) |-> 0]

-----------------------------------------------------------------------------
RunInit ==
  /\ phase = "idle" /\ source = 0 /\ ray = 0 /\ length = 0
  /\ receivers = <<>> /\ rays = <<>> /\ result = <<>> /\ dropped = <<>>
  /\ counts = [points |-> 0, arrivals |-> 0, eigenrays |-> 0, eigenrayPoints |-> 0]

Fails == phase' = "failed" /\ UNCHANGED <<job, source, ray, length, receivers, rays, counts, result, dropped>>

(* A source without a ray would be finished at once: a case has an angle.   *)
Begin ==
  /\ phase = "idle" /\ ~Refusal(job)
  /\ phase' = "tracing" /\ source' = 1 /\ ray' = 1
  /\ receivers' = Untouched(job) /\ dropped' = NothingDropped(job)
  /\ UNCHANGED <<job, length, rays, counts, result>>

(* A request that is refused, or a sound speed that cannot be used.         *)
Refuse == phase = "idle" /\ Fails

(* trace_ray fails on an invalid state, or returns n states.                *)
TraceFails == phase = "tracing" /\ Fails

TooManyPoints(n) ==
  /\ phase = "tracing" /\ counts.points + n > Limits.points
  /\ Fails

Trace(n) ==
  /\ phase = "tracing" /\ counts.points + n <= Limits.points
  /\ phase' = "influence" /\ length' = n
  /\ counts' = [counts EXCEPT !.points = @ + n]
  /\ rays' = IF job.kind = "R" THEN Append(rays, [angle |-> job.angles[ray], points |-> n]) ELSE rays
  /\ UNCHANGED <<job, source, ray, receivers, result, dropped>>

-----------------------------------------------------------------------------
(* What a ray leaves at a receiver.                                        *)

At(i) == phase = "influence" /\ i \in DOMAIN receivers
Receives(i, what) == receivers' = [receivers EXCEPT ![i] = what]
Elsewhere == UNCHANGED <<phase, job, source, ray, length, rays, result>>

(* An eigenray has the states of the ray up to the k-th.                   *)
EigenrayFits(k) == counts.eigenrays < Limits.eigenrays /\ counts.eigenrayPoints + k <= Limits.eigenrayPoints
AddEigenray(i, k) ==
  /\ At(i) /\ job.kind = "E" /\ k <= length /\ EigenrayFits(k)
  /\ Receives(i, Append(receivers[i], [angle |-> job.angles[ray], points |-> k]))
  /\ counts' = [counts EXCEPT !.eigenrays = @ + 1, !.eigenrayPoints = @ + k]
  /\ Elsewhere /\ UNCHANGED dropped

EigenrayLimit(i, k) ==
  /\ At(i) /\ job.kind = "E" /\ k <= length /\ ~EigenrayFits(k)
  /\ Fails

AddPressure(i, p) ==
  /\ At(i) /\ FieldRun(job) /\ receivers[i] + p <= Loudest
  /\ Receives(i, receivers[i] + p)
  /\ Elsewhere /\ UNCHANGED <<counts, dropped>>

(* An arrival that is close enough to the last one is added to it.          *)
CombineArrival(i, amplitude) ==
  /\ At(i) /\ job.kind = "A" /\ receivers[i] # <<>>
  /\ receivers[i][Len(receivers[i])] + amplitude <= Loudest
  /\ Receives(i, [receivers[i] EXCEPT ![Len(receivers[i])] = @ + amplitude])
  /\ Elsewhere /\ UNCHANGED <<counts, dropped>>

Full(i) == Len(receivers[i]) >= PerReceiver(job)
(* Mutant: the last arrival gives way.                                     *)
LastOne(arrivals, w) == w = Len(arrivals)

FirstWeakest(arrivals, w) ==
  /\ \A k \in DOMAIN arrivals : arrivals[w] <= arrivals[k]
  /\ \A k \in 1 .. w - 1 : arrivals[w] < arrivals[k]

(* A full receiver drops the weaker of its weakest arrival and the new one. *)
ReplaceWeakest(i, amplitude) ==
  /\ At(i) /\ job.kind = "A" /\ Full(i)
  /\ \E w \in DOMAIN receivers[i] :
       /\ FirstWeakest(receivers[i], w)
       /\ LET stronger == amplitude > receivers[i][w]
              lost == IF stronger THEN receivers[i][w] ELSE amplitude
          IN  /\ IF stronger THEN Receives(i, [receivers[i] EXCEPT ![w] = amplitude])
                             ELSE UNCHANGED receivers
              /\ dropped' = [dropped EXCEPT ![i] = IF lost > @ THEN lost ELSE @]
  /\ Elsewhere /\ UNCHANGED counts

AddArrival(i, amplitude) ==
  /\ At(i) /\ job.kind = "A" /\ ~Full(i) /\ counts.arrivals < Limits.arrivals
  /\ Receives(i, Append(receivers[i], amplitude))
  /\ counts' = [counts EXCEPT !.arrivals = @ + 1]
  /\ Elsewhere /\ UNCHANGED dropped

ArrivalLimit(i) ==
  /\ At(i) /\ job.kind = "A" /\ ~Full(i) /\ counts.arrivals >= Limits.arrivals
  /\ Fails

-----------------------------------------------------------------------------
(* Spreading: nothing for a line source, but a point source has no pressure *)
(* at range zero and no finite arrival at a negative range.                 *)
Scaled(i) ==
  CASE job.line -> receivers[i]
    [] FieldRun(job) /\ RangeAt(job, i) = 0 -> 0
    [] job.kind = "A" /\ RangeAt(job, i) < 0 -> [k \in DOMAIN receivers[i] |-> NotFinite]
    [] OTHER -> receivers[i]

Finished == [depth |-> job.sources[source], rays |-> rays,
             receivers |-> [i \in DOMAIN receivers |->
               [range |-> RangeAt(job, i), depth |-> DepthAt(job, i), left |-> Scaled(i)]]]

NextRay ==
  /\ phase = "influence" /\ ray < Len(job.angles)
  /\ phase' = "tracing" /\ ray' = ray + 1
  /\ UNCHANGED <<job, source, length, receivers, rays, counts, result, dropped>>

NextSource ==
  /\ phase = "influence" /\ ray = Len(job.angles) /\ source < Len(job.sources)
  /\ phase' = "tracing" /\ source' = source + 1 /\ ray' = 1
  /\ result' = Append(result, Finished)
  /\ receivers' = Untouched(job) /\ dropped' = NothingDropped(job) /\ rays' = <<>>
  /\ UNCHANGED <<job, length, counts>>

Complete ==
  /\ phase = "influence" /\ ray = Len(job.angles) /\ source = Len(job.sources)
  /\ phase' = "done" /\ result' = Append(result, Finished)
  /\ UNCHANGED <<job, source, ray, length, receivers, rays, counts, dropped>>

Simulate ==
  \/ Begin \/ Refuse \/ TraceFails
  \/ \E n \in 1 .. Limits.steps : Trace(n) \/ TooManyPoints(n)
  \/ \E i \in DOMAIN receivers :
       \/ \E k \in 1 .. Limits.steps : AddEigenray(i, k) \/ EigenrayLimit(i, k)
       \/ \E a \in 1 .. Loudest :
            AddPressure(i, a) \/ CombineArrival(i, a) \/ ReplaceWeakest(i, a) \/ AddArrival(i, a)
       \/ ArrivalLimit(i)
  \/ NextRay \/ NextSource \/ Complete

-----------------------------------------------------------------------------
RunTypeOK ==
  /\ phase \in {"idle", "tracing", "influence", "done", "failed"}
  /\ phase \in {"tracing", "influence"} => source \in DOMAIN job.sources /\ ray \in DOMAIN job.angles
  /\ DOMAIN receivers = DOMAIN dropped

(* The share of a receiver holds, and what it turned away is nowhere        *)
(* stronger than what it kept: its arrivals are the strongest it was given, *)
(* however they came and were combined (add_arrival).                      *)
Strongest ==
  job.kind = "A" =>
    \A i \in DOMAIN receivers :
      /\ Len(receivers[i]) <= PerReceiver(job)
      /\ dropped[i] > 0 => Len(receivers[i]) = PerReceiver(job)
      /\ \A k \in DOMAIN receivers[i] : dropped[i] <= receivers[i][k]
=============================================================================
