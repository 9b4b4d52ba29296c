--------------------------- MODULE LegacyRecords ---------------------------
(****************************************************************************)
(* List-directed records of the legacy BELLHOP inputs (bellhop/src/input/   *)
(* legacy/records.rs).  A reader keeps the number of lines it has used.     *)
(* Fields are read across lines until there are enough of them or a slash   *)
(* ends the record; what follows on the last line is never read.            *)
(*                                                                         *)
(* A line is a sequence of lexemes: values, values with a repeat count,     *)
(* commas, slashes, comments, blanks and quotes that are never closed.  A   *)
(* value is a number or the characters of a text.  A line that is at least  *)
(* as long as the columns of a fixed-width record is wide, and then holds   *)
(* one lexeme per column.                                                  *)
(****************************************************************************)
EXTENDS Integers, Sequences, SequencesExt

CONSTANT NaN  \* an integer above every number of an input, for "nan"

Number(n) == [number |-> n]
Text(characters) == [text |-> characters]
Missing == [missing |-> TRUE]

Atom(value) == [kind |-> "atom", count |-> 1, value |-> value]
Repeat(n, value) == [kind |-> "atom", count |-> n, value |-> value]
Blank == [kind |-> "blank"]
Comma == [kind |-> "comma"]
Slash == [kind |-> "slash"]
Comment == [kind |-> "comment"]
OpenQuote == [kind |-> "quote"]

Line(lexemes) == [lexemes |-> lexemes, wide |-> FALSE]
WideLine(lexemes) == [lexemes |-> lexemes, wide |-> TRUE]

Given(slot) == slot # Missing
IsNumber(slot) == slot \in [number : Int]

(* The characters of an option, blank beyond its end; no option is a digit *)
(* except the two that fixed_width could take from a number.               *)
Characters(slot) == IF IsNumber(slot) THEN <<"0">> ELSE slot.text
Character(slot, i) ==
  IF i <= Len(Characters(slot)) THEN Characters(slot)[i] ELSE " "

-----------------------------------------------------------------------------
(* A comma stands for a missing value when it follows another comma or      *)
(* nothing at all; a comment hides the rest of its line.                   *)
Lex(seen, lexeme) ==
  IF seen.stop \/ lexeme.kind = "blank" THEN seen
  ELSE CASE lexeme.kind = "comment" -> [seen EXCEPT !.stop = TRUE]
         [] lexeme.kind = "quote" -> [seen EXCEPT !.stop = TRUE, !.ok = FALSE]
         [] lexeme.kind = "comma" ->
              [seen EXCEPT !.comma = TRUE,
                 !.tokens = IF seen.comma \/ ~seen.value THEN Append(@, Atom(Missing)) ELSE @]
         [] lexeme.kind = "slash" -> [seen EXCEPT !.tokens = Append(@, Slash)]
         [] OTHER -> [seen EXCEPT !.tokens = Append(@, lexeme), !.comma = FALSE, !.value = TRUE]

TokenizeLine(line) ==
  LET After[n \in 0 .. Len(line.lexemes)] ==
        IF n = 0 THEN [tokens |-> <<>>, comma |-> FALSE, value |-> FALSE, stop |-> FALSE, ok |-> TRUE]
                 ELSE Lex(After[n - 1], line.lexemes[n])
  IN  After[Len(line.lexemes)]

Enough(record, expected) == record.ended \/ Len(record.slots) >= expected

(* Adds a token to a record that is not full; no repeat count overfills it. *)
AppendToken(record, token, expected) ==
  IF Enough(record, expected) THEN record
  ELSE IF token.kind = "slash" THEN [record EXCEPT !.ended = TRUE]
  ELSE [record EXCEPT !.slots =
          SubSeq(@ \o [i \in 1 .. token.count |-> token.value], 1,
                 IF Len(@) + token.count < expected THEN Len(@) + token.count ELSE expected)]

(* Adds the tokens of a line until the record is full or a slash ends it.   *)
AppendSlots(record, tokens, expected) ==
  LET After[n \in 0 .. Len(tokens)] ==
        IF n = 0 THEN record ELSE AppendToken(After[n - 1], tokens[n], expected)
  IN  After[Len(tokens)]

UseTokens(record, t, expected) ==
  [AppendSlots(record, IF t.ok THEN t.tokens ELSE <<>>, expected) EXCEPT !.used = @ + 1, !.ok = t.ok]

UseLine(record, line, expected) ==
  IF record.ok /\ ~Enough(record, expected)
    THEN UseTokens(record, TokenizeLine(line), expected) ELSE record

(* Reads `expected` fields from the lines after the first `used`.           *)
Closed(record, expected) == [record EXCEPT !.ok = @ /\ Enough(record, expected)]
ReadFields(lines, used, expected) ==
  LET After[n \in used .. Len(lines)] ==
        IF n = used THEN [slots |-> <<>>, ended |-> FALSE, ok |-> TRUE, used |-> used]
                    ELSE UseLine(After[n - 1], lines[n], expected)
  IN  Closed(After[Len(lines)], expected)

(* One field per column of a wide line; of any other line, list-directed.   *)
ReadFixedWidthFields(lines, used, columns) ==
  IF used < Len(lines) /\ lines[used + 1].wide
    THEN [slots |-> [i \in 1 .. columns |->
                       LET lexeme == lines[used + 1].lexemes[i]
                       IN  IF lexeme.kind = "blank" THEN Missing ELSE lexeme.value],
          ended |-> FALSE, ok |-> TRUE, used |-> used + 1]
    ELSE ReadFields(lines, used, columns)

(* Every one of `expected` values is there.                                 *)
RequiredAtoms(record, expected) ==
  record.ok /\ Len(record.slots) = expected /\ \A i \in 1 .. expected : Given(record.slots[i])

(* The values before the first missing one, all of them, or one or two ends *)
(* of an equidistant table of at least three.                              *)
ExplicitCount(slots) ==
  LET gaps == {i \in DOMAIN slots : ~Given(slots[i])}
  IN  IF gaps = {} THEN Len(slots) ELSE Min(gaps) - 1

Expand(explicit, count) ==
  LET n == Len(explicit)
      last == explicit[IF n < 2 THEN 1 ELSE 2].number
  IN  IF \E i \in 1 .. n : ~IsNumber(explicit[i]) THEN <<>>
      ELSE IF n = count THEN [i \in 1 .. count |-> explicit[i].number]
      ELSE IF count >= 3 /\ n \in {1, 2}
        THEN [i \in 1 .. count |->
                IF NaN \in {explicit[1].number, last} THEN NaN
                ELSE explicit[1].number + ((i - 1) * (last - explicit[1].number)) \div (count - 1)]
      ELSE <<>>
ExpandVector(slots, count) == Expand(SubSeq(slots, 1, ExplicitCount(slots)), count)
=============================================================================
