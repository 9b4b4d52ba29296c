--------------------------- MODULE NativeRecords ---------------------------
(****************************************************************************)
(* Direct-access records and the SHD file made of them (output/src/native.  *)
(* rs), with the reader the format is for.  Every record has the same       *)
(* number of words; a shorter payload is padded, a longer one refused, and  *)
(* so is a record beyond the quota.  A payload keeps its values and how     *)
(* many words they take.                                                    *)
(****************************************************************************)
EXTENDS Integers, Sequences, SequencesExt, FiniteSetsExt

CONSTANTS HeaderWords,  \* 41: the shortest record that holds a header
          NoQuota       \* what a file that may have any number of words has for its maximum

ASSUME NativeRecordsAssumption == HeaderWords \in Nat /\ HeaderWords >= 21 /\ NoQuota \notin Nat

Payload(values, words) == [values |-> values, words |-> words]
Singles(s) == Payload(s, Len(s))
Doubles(s) == Payload(s, 2 * Len(s))
LeastInteger == 11      \* seven counts and two doubles

Fits(words, maximum) == maximum = NoQuota \/ words <= maximum

(* Direct::new and Direct::record: a file that fails stays failed.          *)
NewDirect(words, maximum) ==
  [words |-> words, written |-> 0, maximum |-> maximum, records |-> <<>>, ok |-> Fits(words, maximum)]
Record(file, payload) ==
  IF ~file.ok THEN file
  ELSE IF payload.words > file.words \/ ~Fits(file.written + file.words, file.maximum)
    THEN [file EXCEPT !.ok = FALSE]
    ELSE [file EXCEPT !.written = @ + file.words, !.records = Append(@, payload.values)]

Rows(sources, depths, irregular) == Len(sources) * (IF irregular THEN 1 ELSE Len(depths))
RowWords(ranges) == 2 * Len(ranges)

(* The pressures come source by source, depth by depth, range by range; a   *)
(* value too few or too many fails the file.                               *)
Shd(sources, depths, ranges, irregular, pressure, maximum) ==
  LET words == Max({HeaderWords, RowWords(ranges), Len(depths), Len(sources)})
      rows == Rows(sources, depths, irregular)
      n == Len(ranges)
      header == <<Payload(<<words>>, 21), Payload(<<irregular>>, 3),
                  Payload(<<Len(sources), Len(depths), n>>, LeastInteger),
                  Payload(<<"frequency">>, 2), Payload(<<0>>, 2), Payload(<<0>>, 2),
                  Payload(<<0>>, 2), Singles(sources), Singles(depths), Doubles(ranges)>>
      row(k) == Payload(SubSeq(pressure, (k - 1) * n + 1, k * n), RowWords(ranges))
      full == FoldLeft(Record, NewDirect(words, maximum), header)
      file == FoldLeft(Record, full, [k \in 1 .. rows |-> row(k)])
  IN  [file EXCEPT !.ok = @ /\ Len(pressure) = rows * n]

(* What a reader of the format finds: the record after the ten of the       *)
(* header for each source and depth, and its value for each range.          *)
ReadShd(file) ==
  LET r == file.records
      irregular == r[2][1]
      depths == IF irregular THEN 1 ELSE r[3][2]
  IN  [sources |-> r[8], depths |-> r[9], ranges |-> r[10], irregular |-> irregular,
       pressure |-> [s \in 1 .. r[3][1] |-> [d \in 1 .. depths |->
                      [k \in 1 .. r[3][3] |-> r[10 + (s - 1) * depths + d][k]]]]]
=============================================================================
