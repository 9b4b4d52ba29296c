---------------------------- MODULE KrakenWriters ----------------------------
(****************************************************************************)
(* What a solved frequency of KRAKEN takes in the results (output/src/      *)
(* kraken.rs and kraken_native.rs): the datasets of HDF5, the MOD file of   *)
(* every profile's modes and the SHD file of the pressures, in words of     *)
(* four bytes.  A shape is the mode and the sample it is of, a wavenumber   *)
(* the mode.                                                               *)
(****************************************************************************)
EXTENDS KrakenField, NativeRecords

CONSTANTS
  LeastWords,     \* 32: the shortest record of a MOD file
  TitleWords,     \* 25: a header with its counts and title
  BoundaryWords   \* 13: two half-spaces

ASSUME KrakenWritersAssumption ==
  LeastWords \in Nat /\ LeastWords >= 2 /\ {TitleWords, BoundaryWords} \subseteq 1 .. LeastWords

-----------------------------------------------------------------------------
(* HDF5: the bytes of the datasets, which a budget bounds.  The first       *)
(* profile of several is described again among the others, its modes not.   *)

Doubled(n) == 2 * n
ElasticWords(d) == TotalOf(d.tops \o d.bottoms, LAMBDA l : Doubled(6 * Len(l.profile)))
ModeWords(d, n) == Doubled(Len(d.modeDepths) + 5 * n + 2 * n * Len(d.modeDepths))
FieldWords(d) ==
  Doubled(Len(d.sources) + Len(d.receivers) + Len(d.ranges) + Len(d.offsets)) + 2 * Samples(d)
FrequencyWords(f, n) ==
  LET first == f.profiles[1]
      sequence == Doubled(Len(f.profiles)) + TotalOf(f.profiles, ElasticWords)
                  + Total([i \in 1 .. Len(n) - 1 |-> ModeWords(f.profiles[i + 1], n[i + 1])])
  IN  ElasticWords(first) + ModeWords(first, n[1]) + FieldWords(first)
      + (IF Len(f.profiles) > 1 THEN sequence ELSE 0)
HeaderPayload(fs) == Doubled(Len(fs))
PressureWords(f) == 2 * Samples(f.profiles[1])

-----------------------------------------------------------------------------
(* MOD: the profiles one after the other, each with a header of seven       *)
(* records, a record for each shape, and as many wavenumbers in a record as *)
(* are whole.                                                              *)

Longest(f) ==
  Max({LeastWords} \cup {2 * Len(d.modeDepths) : d \in Range(f.profiles)}
                   \cup {3 * Len(d.fluids) : d \in Range(f.profiles)})
(* Mutant: a record may have an odd number of words.                        *)
ModWordsOdd(f) == Longest(f)
ModWords(f) == Longest(f) + (Longest(f) % 2)

Shape(p, mode, depths) == [z \in 1 .. depths |-> <<p, mode, z>>]
Chunks(s, n) ==
  [k \in 1 .. (Len(s) + n - 1) \div n |-> SubSeq(s, (k - 1) * n + 1, Least(k * n, Len(s)))]
ModHeader(p, d, n, words) ==
  LET media == Len(d.fluids) IN
  <<Payload(<<words, media, Len(d.modeDepths)>>, TitleWords), Payload(<<media>>, 3 * media),
    Payload(<<media>>, 2 * media), Doubles(<<d.frequency>>), Singles(d.modeDepths), Singles(<<n>>),
    Payload(<<d.surface, d.bottom>>, BoundaryWords)>>
Pairs(s) == Payload(s, 2 * Len(s))
ModProfile(p, d, n, words) ==
  LET wavenumbers == Chunks([m \in 1 .. n |-> <<p, m>>], words \div 2) IN
  ModHeader(p, d, n, words)
  \o [m \in 1 .. n |-> Pairs(Shape(p, m, Len(d.modeDepths)))]
  \o [k \in DOMAIN wavenumbers |-> Pairs(wavenumbers[k])]
ModFile(f, n, maximum) ==
  FoldLeft(Record, NewDirect(ModWords(f), maximum),
           FlattenSeq([p \in DOMAIN f.profiles |-> ModProfile(p, f.profiles[p], n[p], ModWords(f))]))
ShdFile(f, values, maximum) ==
  LET d == f.profiles[1] IN Shd(d.sources, d.receivers, d.ranges, FALSE, values, maximum)

(* A reader of the format: FIELD and PLOTMODE of the Acoustics Toolbox,     *)
(* which count in words, not in pairs, where the next profile begins.       *)
ReadModes(records, from) ==
  LET words == records[1][1]
      n == records[from + 5][1]
      wavenumbers == 1 + (2 * n - 1) \div words
  IN  [shapes |-> SubSeq(records, from + 7, from + 6 + n),
       wavenumbers |-> FlattenSeq(SubSeq(records, from + 7 + n, from + 6 + n + wavenumbers)),
       next |-> from + 7 + n + wavenumbers]
ReadMod(file, profiles) ==
  LET read[p \in 0 .. profiles] ==
        IF p = 0 THEN [next |-> 1] ELSE ReadModes(file.records, read[p - 1].next)
  IN  [p \in 1 .. profiles |-> read[p]]
=============================================================================
