--------------------------- MODULE BellhopWriters ---------------------------
(****************************************************************************)
(* The files of a BELLHOP result (output/src/bellhop_native.rs and          *)
(* output/src/bellhop.rs), and what a reader of each finds in it.  A native *)
(* text file is the sequence of its numbers; an HDF5 group is a record of   *)
(* its arrays.  The solver's receivers go range by range, the readers of    *)
(* native files depth by depth.                                            *)
(****************************************************************************)
EXTENDS BellhopRun, NativeRecords

Flat(s) == FlattenSeq(s)
Counted(s) == <<Len(s)>> \o s
CountedAll(lists) == Flat([k \in DOMAIN lists |-> Counted(lists[k])])
Selected(s, i) == <<s[i]>>

(* RAY: the rays of all sources, each with its number of points.            *)
RayLines(r) == <<r.angle, r.points>> \o [k \in 1 .. r.points |-> k]
RaysOf(j, s) == s.rays \o (IF j.kind = "E" THEN Flat([i \in DOMAIN s.receivers |-> s.receivers[i].left]) ELSE <<>>)
RayFile(j, results) ==
  LET all == Flat([s \in DOMAIN results |-> RaysOf(j, results[s])])
  IN  <<Len(j.sources), Len(j.angles)>> \o Flat([k \in DOMAIN all |-> RayLines(all[k])])

(* ARR: of one receiver of an irregular grid, or of all, in the reader's    *)
(* order; the grid must be whole and every arrival finite.                  *)
(* Mutant: in the order of the solver.                                     *)
ArrivalOrderKept(j, i) == i
ArrivalOrder(j, i) == ((i - 1) % Len(j.ranges)) * Len(j.depths) + (i - 1) \div Len(j.ranges) + 1

ArrivalFile(j, results, only) ==
  LET axis(s) == IF only = 0 THEN s ELSE Selected(s, only)
      expected == Len(j.ranges) * (IF only = 0 THEN Len(j.depths) ELSE 1)
      order == IF only = 0 THEN [i \in 1 .. expected |-> ArrivalOrder(j, i)] ELSE <<only>>
      of(s) == [i \in DOMAIN order |-> results[s].receivers[order[i]].left]
      most(lists) == Max({Len(list) : list \in Range(lists)} \cup {0})
      block(s) == <<most(of(s))>> \o CountedAll(of(s))
      whole == \A s \in DOMAIN results : Len(results[s].receivers) = expected
      finite == \A s \in DOMAIN results : \A i \in DOMAIN order : NotFinite \notin Range(of(s)[i])
  IN  IF whole /\ finite
        THEN [ok |-> TRUE, numbers |-> CountedAll(<<j.sources, axis(j.depths), axis(j.ranges)>>)
                                       \o Flat([s \in DOMAIN results |-> block(s)])]
        ELSE [ok |-> FALSE, numbers |-> <<>>]

ArrivalFiles(j, results) ==
  IF j.irregular THEN [i \in DOMAIN j.ranges |-> ArrivalFile(j, results, i)]
                 ELSE <<ArrivalFile(j, results, 0)>>

(* SHD: results are transposed to the rows of the reader.                   *)
FieldRowsKept(j, results) ==
  Flat([s \in DOMAIN results |-> [i \in DOMAIN results[s].receivers |-> results[s].receivers[i].left]])

FieldRows(j, results) ==
  LET depths == DepthCount(j)
      line(s, d) == [k \in DOMAIN j.ranges |-> results[s].receivers[(k - 1) * depths + d].left]
  IN  Flat([s \in DOMAIN results |-> Flat([d \in 1 .. depths |-> line(s, d)])])

FieldFile(j, results) ==
  Shd(j.sources, j.depths, j.ranges, j.irregular, FieldRows(j, results), NoQuota)

-----------------------------------------------------------------------------
(* HDF5: values of all receivers or rays in one array, with the offsets at  *)
(* which each of them begins and the last one ends.                         *)

Offsets(lists) ==
  LET begun[k \in 0 .. Len(lists)] == IF k = 0 THEN 0 ELSE begun[k - 1] + Len(lists[k])
  IN  [k \in 1 .. Len(lists) + 1 |-> begun[k - 1]]

Lists(s) == [i \in DOMAIN s.receivers |-> s.receivers[i].left]
EveryReceiver(results) == Flat([s \in DOMAIN results |-> results[s].receivers])
EveryList(results) == Flat([s \in DOMAIN results |-> Lists(results[s])])
ReceiverOffsets(results) == Offsets([s \in DOMAIN results |-> results[s].receivers])
PointsOf(list) == Flat([k \in DOMAIN list |-> [i \in 1 .. list[k].points |-> i]])
PointOffsets(list) == Offsets([k \in DOMAIN list |-> [i \in 1 .. list[k].points |-> i]])

RayGroup(results) ==
  LET all == Flat([s \in DOMAIN results |-> results[s].rays]) IN
  [sources |-> [s \in DOMAIN results |-> results[s].depth],
   owner |-> Flat([s \in DOMAIN results |-> [k \in DOMAIN results[s].rays |-> s - 1]]),
   angles |-> [k \in DOMAIN all |-> all[k].angle],
   points |-> PointsOf(all), pointOffset |-> PointOffsets(all)]

ReceiverGroup(results) ==
  LET all == EveryReceiver(results) IN
  [sources |-> [s \in DOMAIN results |-> results[s].depth],
   receiverOffset |-> ReceiverOffsets(results),
   ranges |-> [i \in DOMAIN all |-> all[i].range], depths |-> [i \in DOMAIN all |-> all[i].depth]]

ArrivalGroup(results) ==
  [at |-> ReceiverGroup(results),
   offset |-> Offsets(EveryList(results)), amplitudes |-> Flat(EveryList(results))]

EigenrayGroup(results) ==
  LET lists == EveryList(results)
      all == Flat(lists)
  IN  [at |-> ReceiverGroup(results), offset |-> Offsets(lists),
       owner |-> Flat([i \in DOMAIN lists |-> [k \in DOMAIN lists[i] |-> i - 1]]),
       angles |-> [k \in DOMAIN all |-> all[k].angle],
       points |-> PointsOf(all), pointOffset |-> PointOffsets(all)]

FieldGroup(results) ==
  [at |-> ReceiverGroup(results), pressure |-> EveryList(results)]

-----------------------------------------------------------------------------
(* The readers.  They know a file and its format, never the result.         *)

(* Where things stand that come one after the other, when the one at a      *)
(* place is followed by the one at next of it.                             *)
Walk(next, from, n) ==
  LET place[k \in 0 .. n] == IF k = 0 THEN from ELSE next[place[k - 1]] IN place

(* Lists, each after the number of its values.                              *)
ReadLists(numbers, from, n) ==
  LET place == Walk([at \in DOMAIN numbers |-> at + 1 + numbers[at]], from, n)
  IN  [lists |-> [k \in 1 .. n |-> SubSeq(numbers, place[k - 1] + 1, place[k - 1] + numbers[place[k - 1]])],
       next |-> place[n]]

(* The axes, and the lists of each source after the longest of them.        *)
ReadArrivals(numbers) ==
  LET axes == ReadLists(numbers, 1, 3)
      sources == axes.lists[1]
      depths == axes.lists[2]
      ranges == axes.lists[3]
      count == Len(depths) * Len(ranges)
      block == Walk([at \in DOMAIN numbers |-> ReadLists(numbers, at + 1, count).next], axes.next, Len(sources))
      of(s) == ReadLists(numbers, block[s - 1] + 1, count).lists
  IN  [sources |-> sources, depths |-> depths, ranges |-> ranges, next |-> block[Len(sources)],
       arrivals |-> [s \in DOMAIN sources |-> [d \in DOMAIN depths |-> [r \in DOMAIN ranges |->
                      of(s)[(d - 1) * Len(ranges) + r]]]]]

(* The rays of a RAY file to its end, as angles and numbers of points.      *)
ReadRays(numbers) ==
  LET over(at) == at > Len(numbers)
      place == Walk([at \in 1 .. Len(numbers) + 1 |-> IF over(at) THEN at ELSE at + 2 + numbers[at + 1]],
                    3, Len(numbers))
      count == Min({k \in 0 .. Len(numbers) : over(place[k])})
  IN  [k \in 1 .. count |-> [angle |-> numbers[place[k - 1]], points |-> numbers[place[k - 1] + 1]]]

(* What stands in an array from one offset to the next.                     *)
Slice(s, offsets, i) == SubSeq(s, offsets[i] + 1, offsets[i + 1])

(* Each receiver of each source in a group, with its range and depth and    *)
(* what is left at it.                                                     *)
ReadReceivers(group, left) ==
  [s \in DOMAIN group.sources |->
     [depth |-> group.sources[s],
      receivers |-> [i \in 1 .. group.receiverOffset[s + 1] - group.receiverOffset[s] |->
        LET n == group.receiverOffset[s] + i
        IN  [range |-> group.ranges[n], depth |-> group.depths[n], left |-> left[n]]]]]

RayAt(group, k) == [angle |-> group.angles[k], points |-> Len(Slice(group.points, group.pointOffset, k))]
=============================================================================
