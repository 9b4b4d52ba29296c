--------------------------- MODULE BellhopCommand ---------------------------
(****************************************************************************)
(* The `bellhop` subcommands of the command line (cli/src/bellhop.rs):      *)
(* validate, run and export, from the files of a case to an exit code.  The *)
(* environment is read first, then each auxiliary file it asks for, then    *)
(* the whole is checked (bellhop/src/input/legacy/mod.rs); a JSON document  *)
(* is read at once.  What is accepted is simulated step by step             *)
(* (BellhopRun) and written (BellhopWriters).                               *)
(****************************************************************************)
EXTENDS BellhopCase, BellhopWriters

CONSTANT Requests  \* commands, each with its input: files or a document

(* A value that is there or not, like the optional parts of a document.     *)
Optional(option) == option = <<>> \/ option = <<option[1]>>

ASSUME RequestsAssumption ==
  \A r \in Requests :
    /\ DOMAIN r.input \in {{"files"}, {"document"}}
    /\ "document" \in DOMAIN r.input =>
         /\ Optional(r.input.document)
         /\ \A doc \in Range(r.input.document) \ {Malformed} :
              /\ \A part \in {doc.rangeDependent, doc.top.shape, doc.bottom.shape,
                             doc.top.table, doc.bottom.table, doc.pattern} : Optional(part)
              /\ \A list \in {doc.points, doc.top.material, doc.bottom.material} :
                   list \in Seq([{"depth", "speed", "density"} -> Int])
              /\ \A list \in {doc.sources, doc.depths, doc.ranges, doc.angles} : list \in Seq(Int)
              /\ DOMAIN doc.run = {"kind", "encoding", "family", "pattern", "irregular", "line"}

VARIABLES
  command, input,
  stage,       \* "read", "auxiliary", "loaded", "running" or "over"
  environment, \* what the environment file says, once it is accepted
  pending,     \* the auxiliary files that are still to be read
  parts,       \* the auxiliary files that were understood
  report,      \* the diagnostics so far
  paths,       \* the files that were read
  definition,  \* the case: none or one
  document,    \* what export printed: none or one
  exit         \* the exit code, -1 while the command runs

loadVars == <<command, input, environment, pending, parts, report, paths>>
vars == <<loadVars, stage, definition, document, exit, runVars>>

Nothing == [ssp |-> <<>>, ati |-> <<>>, bty |-> <<>>, brc |-> <<>>, trc |-> <<>>,
            irc |-> <<>>, sbp |-> <<>>]
NoJob == [kind |-> "none"]

(* What the solver takes from a case.                                      *)
Job(d) ==
  LET e == d.environment IN
  [kind |-> e.run.kind, family |-> e.run.family, sources |-> e.sources, depths |-> e.depths,
   ranges |-> e.ranges, irregular |-> e.run.irregular, line |-> e.run.line,
   angles |-> IF Present(e.selected) THEN <<e.angles[e.selected[1]]>> ELSE e.angles,
   writes |-> "W" \in {e.top.condition, e.bottom.condition}]

Ask(e, extension, marked) == IF marked THEN <<extension>> ELSE <<>>
Auxiliaries(e) ==
  Ask(e, "ssp", e.interpolation = "Q") \o Ask(e, "ati", e.top.shaped) \o
  Ask(e, "bty", e.bottom.shaped) \o Ask(e, "brc", e.bottom.condition = "F") \o
  Ask(e, "trc", e.top.condition = "F") \o Ask(e, "irc", e.bottom.condition = "P") \o
  Ask(e, "sbp", e.run.pattern)

ParseAuxiliary(extension, lines, e) ==
  CASE extension = "ssp" -> ParseRangeDependentSoundSpeed(lines, Column(e.points, "depth"))
    [] extension = "ati" -> ParseBoundaryShape(lines, TRUE, e.topDepth)
    [] extension = "bty" -> ParseBoundaryShape(lines, FALSE, e.bottomDepth)
    [] extension \in {"brc", "trc"} -> ParseReflectionCoefficients(lines)
    [] extension = "irc" -> ParseInternalReflection(lines)
    [] OTHER -> ParseSourceBeamPattern(lines)

Definition(e, p) ==
  [environment |-> e, soundSpeed |-> p.ssp, altimetry |-> p.ati, bathymetry |-> p.bty,
   topReflection |-> p.trc, bottomReflection |-> p.brc, internalReflection |-> p.irc, pattern |-> p.sbp]

(* What was understood, without what only the parser needs.                *)
Understanding(r) ==
  [f \in DOMAIN r.value \ {"atBottom", "isTop", "limit", "width"} |-> r.value[f]]
Preflight(e) == SetToSeq(ValidateEnvironment(e))

-----------------------------------------------------------------------------
Init ==
  /\ \E r \in Requests : command = r.command /\ input = r.input
  /\ stage = "read" /\ exit = -1
  /\ environment = <<>> /\ pending = <<>> /\ parts = Nothing
  /\ report = <<>> /\ paths = {} /\ definition = <<>> /\ document = <<>>
  /\ job = NoJob /\ RunInit

Exits(code) == stage' = "over" /\ exit' = code
Keeping(what) == UNCHANGED <<command, input, what>>

(* validate exits with success when it renders no error; no other command   *)
(* does.                                                                   *)
Rejected(diagnostics) ==
  /\ report' = diagnostics
  /\ Exits(IF command = "validate" /\ ~HasErrors(diagnostics) THEN 0 ELSE 2)
  /\ UNCHANGED definition

(* A case is accepted with its warnings alone.                              *)
Judge(d, diagnostics) ==
  IF HasErrors(diagnostics) THEN Rejected(diagnostics)
  ELSE /\ report' = diagnostics /\ definition' = <<d>>
       /\ stage' = "loaded" /\ UNCHANGED exit

Legacy == "files" \in DOMAIN input
Lines(extension) == IF extension \in DOMAIN input.files THEN <<input.files[extension]>> ELSE <<>>

ReadEnvironment ==
  /\ stage = "read" /\ Legacy
  /\ IF Lines("env") = <<>> THEN Rejected(<<Error("input")>>) /\ UNCHANGED <<environment, pending, paths>>
     ELSE \E r \in {ParseEnvironment(Lines("env")[1])} :
            /\ paths' = {"env"}
            /\ IF ~r.ok THEN Rejected(r.report) /\ UNCHANGED <<environment, pending>>
               ELSE \E e \in {Understanding(r)} :
                      IF HasErrors(Preflight(e))
                        THEN Rejected(r.report \o Preflight(e)) /\ UNCHANGED <<environment, pending>>
                        ELSE /\ environment' = e /\ pending' = Auxiliaries(e) /\ report' = r.report
                             /\ stage' = "auxiliary" /\ UNCHANGED <<exit, definition>>
  /\ Keeping(<<parts, document, runVars>>)

Understood(extension, r) ==
  IF r.ok THEN parts' = [parts EXCEPT ![extension] = <<Understanding(r)>>] /\ UNCHANGED report
  ELSE report' = Append(report, ErrorOf(extension, r.report[1].what)) /\ UNCHANGED parts

(* Mutant: a file takes the place of the one recorded before it.           *)
ReadAuxiliaryLast ==
  /\ stage = "auxiliary" /\ pending # <<>>
  /\ LET extension == Head(pending)
     IN  IF Lines(extension) = <<>>
           THEN report' = Append(report, ErrorOf(extension, "read")) /\ UNCHANGED <<parts, paths>>
           ELSE /\ paths' = {"env", extension}
                /\ \E r \in {ParseAuxiliary(extension, Lines(extension)[1], environment)} :
                     Understood(extension, r)
  /\ pending' = Tail(pending)
  /\ Keeping(<<stage, environment, definition, document, exit, runVars>>)

(* A file that is missing or wrong is one diagnostic, and the next is read. *)
ReadAuxiliary ==
  /\ stage = "auxiliary" /\ pending # <<>>
  /\ LET extension == Head(pending)
     IN  IF Lines(extension) = <<>>
           THEN report' = Append(report, ErrorOf(extension, "read")) /\ UNCHANGED <<parts, paths>>
           ELSE /\ paths' = paths \cup {extension}
                /\ \E r \in {ParseAuxiliary(extension, Lines(extension)[1], environment)} :
                     Understood(extension, r)
  /\ pending' = Tail(pending)
  /\ Keeping(<<stage, environment, definition, document, exit, runVars>>)

(* Mutant: what the preflight warned of is forgotten when a file fails.     *)
DefineForgetting ==
  /\ stage = "auxiliary" /\ pending = <<>>
  /\ IF HasErrors(report) THEN Rejected(report)
     ELSE LET d == Definition(environment, parts) IN Judge(d, Checked(d, report))
  /\ Keeping(<<environment, pending, parts, paths, document, runVars>>)

Define ==
  /\ stage = "auxiliary" /\ pending = <<>>
  /\ IF HasErrors(report) THEN Rejected(report \o Preflight(environment))
     ELSE LET d == Definition(environment, parts) IN Judge(d, Checked(d, report))
  /\ Keeping(<<environment, pending, parts, paths, document, runVars>>)

ReadDocument ==
  /\ stage = "read" /\ ~Legacy
  /\ IF input.document = <<>> THEN Rejected(<<Error("input")>>) /\ UNCHANGED paths
     ELSE /\ paths' = {"json"}
          /\ LET doc == Decoded(input.document[1]) IN
             IF doc = Malformed THEN Rejected(<<Error("json")>>)
             ELSE Judge(IntoCase(doc), LoadDocument(doc))
  /\ Keeping(<<environment, pending, parts, document, runVars>>)

-----------------------------------------------------------------------------
Case == definition[1]

Validate ==
  /\ stage = "loaded" /\ command = "validate"
  /\ Exits(0)
  /\ UNCHANGED <<loadVars, definition, document, runVars>>

(* What a document cannot say of a case.                                    *)
Unwritable == ErrorOf("export", "export")

(* The document is printed, unless the case has none or printing fails.     *)
(* A number of it that is not finite is printed as null (see Decoded).     *)
ExportCase ==
  /\ stage = "loaded" /\ command = "export"
  /\ IF Exportable(Case)
       THEN \/ document' = <<Export(Case)>> /\ Exits(0)
            \/ UNCHANGED document /\ Exits(4)
       ELSE report' = Append(report, Unwritable) /\ UNCHANGED document /\ Exits(2)
  /\ IF Exportable(Case) THEN UNCHANGED report ELSE TRUE
  /\ UNCHANGED <<command, input, environment, pending, parts, paths, definition, runVars>>

Run ==
  /\ stage = "loaded" /\ command = "run"
  /\ stage' = "running" /\ job' = Job(Case)
  /\ UNCHANGED <<loadVars, definition, document, exit, phase, source, ray, length, receivers, rays,
                 counts, result, dropped>>

Step == stage = "running" /\ Simulate /\ UNCHANGED <<loadVars, stage, definition, document, exit>>

Written ==
  CASE job.kind = "A" -> \A f \in Range(ArrivalFiles(job, result)) : f.ok
    [] FieldRun(job) -> FieldFile(job, result).ok
    [] OTHER -> TRUE

(* Publication may fail (DirectoryPublication), and a native file cannot    *)
(* hold every result; HDF5 alone holds them all.                           *)
Write ==
  /\ stage = "running"
  /\ \/ phase = "failed" /\ Exits(3)
     \/ phase = "done" /\ \E native \in BOOLEAN : (native => Written) /\ Exits(0)
     \/ phase = "done" /\ Exits(4)
  /\ UNCHANGED <<loadVars, definition, document, runVars>>

Over == stage = "over" /\ UNCHANGED vars

Next ==
  \/ ReadEnvironment \/ ReadAuxiliary \/ Define \/ ReadDocument
  \/ Validate \/ ExportCase \/ Run \/ Step \/ Write \/ Over

Spec == Init /\ [][Next]_vars
-----------------------------------------------------------------------------
(* Properties.                                                             *)

Accepted == definition # <<>>

(* What should be said of files: all that is wrong with the first of these  *)
(* that is not right: the syntax of the environment, its values, the        *)
(* auxiliary files it asks for, the whole.  Warnings are never lost.        *)
ToSay(files, e, readings) ==
  LET missing == Range(Auxiliaries(e)) \ DOMAIN files
      wrong == {x \in DOMAIN readings : ~readings[x].ok}
      part(x) == IF x \in DOMAIN readings THEN <<Understanding(readings[x])>> ELSE <<>>
  IN  ValidateEnvironment(e) \cup
      (IF HasErrors(Preflight(e)) THEN {}
       ELSE IF missing \cup wrong # {}
         THEN {ErrorOf(x, "read") : x \in missing} \cup
              {ErrorOf(x, readings[x].report[1].what) : x \in wrong}
         ELSE ValidateDefinition(Definition(e, [x \in DOMAIN Nothing |-> part(x)])))

Readings(files, e) ==
  [x \in Range(Auxiliaries(e)) \cap DOMAIN files |-> ParseAuxiliary(x, files[x], e)]

(* Every command says each thing once, and all that is to be said of its    *)
(* files; it refuses them exactly when some of it is an error.             *)
Reported ==
  stage \notin {"read", "auxiliary"} /\ Legacy /\ "env" \in DOMAIN input.files =>
    LET said == Range(report) \ {Unwritable} IN
    /\ Len(report) = Cardinality(Range(report))
    /\ Accepted = \A n \in said : n.severity = "warning"
    /\ \A r \in {ParseEnvironment(input.files.env)} :
         said = Range(r.report) \cup
           UNION {ToSay(input.files, e, Readings(input.files, e)) : e \in {Understanding(x) : x \in {x \in {r} : x.ok}}}

(* "A primary or auxiliary path actually read under the selected acoustic   *)
(* options": what is protected from being overwritten is what the accepted  *)
(* case was made of (CONTEXT.md, Consumed input).                          *)
Consumed ==
  Accepted /\ Legacy => paths = {"env"} \cup {x \in DOMAIN parts : Present(parts[x])}

(* The densities of a medium are the same, or one last place beside.        *)
Alike(s, t) ==
  /\ DOMAIN t = DOMAIN s
  /\ \A i \in DOMAIN s : /\ t[i] = [s[i] EXCEPT !.density = t[i].density]
                         /\ t[i].density - s[i].density \in -1 .. 1

(* Nothing asks whether the depth of a half-space, or a density in kg/m3,   *)
(* is a finite number.                                                     *)
Readable(d) ==
  LET e == d.environment IN
  \A list \in {e.points, e.top.material, e.bottom.material} :
    \A i \in DOMAIN list : Finite(list[i].depth) /\ Finite(Thousandfold(list[i].density))

(* An exported document is read again exactly when the half-spaces and      *)
(* densities of the case can be printed: as the same case but for the       *)
(* encoding of arrivals, which has no place in it, and last places of       *)
(* densities; with the warnings of the case but not of the parser; and from *)
(* then on exported as itself (json.rs, load_case_document, export).  The   *)
(* guide promises more, that every exported file is accepted.              *)
RoundTrip ==
  document # <<>> =>
    LET doc == document[1]
        e == Case.environment
        again == IntoCase(doc)
        f == again.environment
        said == LoadDocument(doc)
    IN  /\ (Decoded(doc) # Malformed) = Readable(Case)
        /\ Readable(Case) =>
             /\ again = [Case EXCEPT !.environment =
                  [e EXCEPT !.run.encoding = IF e.run.kind = "A" THEN "ascii" ELSE "none",
                            !.points = f.points, !.top.material = f.top.material,
                            !.bottom.material = f.bottom.material]]
             /\ Alike(e.points, f.points)
             /\ Alike(e.top.material, f.top.material) /\ Alike(e.bottom.material, f.bottom.material)
             /\ ~HasErrors(said) /\ Range(said) \subseteq Range(report)
             /\ Exportable(again) /\ Export(again) = [doc EXCEPT !.run = f.run]

Matches(f) ==
  /\ Len(f.depths) >= 2 /\ Len(f.ranges) >= 2 /\ Len(f.speeds) = Len(f.depths)
  /\ \A row \in Range(f.speeds) : Len(row) = Len(f.ranges)

(* What the solver takes from a case without asking: the angles, the depth  *)
(* of each range of an irregular grid, the matrix, tables, shapes and       *)
(* intervals that its options name (solver/mod.rs, ssp.rs, boundary.rs,     *)
(* reflection.rs, influence.rs).                                           *)
Sufficient(d) ==
  LET e == d.environment
      j == Job(d)
      two(option) == \A t \in Range(option) : Len(t.points) >= 2
      shape(option) == \A t \in Range(option) : Present(t.points)
  IN  /\ Present(j.angles) /\ Present(j.sources) /\ Present(j.ranges) /\ Present(j.depths)
      /\ j.irregular => Len(j.depths) = Len(j.ranges)
      /\ e.interpolation # "A" => Len(e.points) >= 2
      /\ e.interpolation = "Q" => Present(d.soundSpeed) /\ Matches(d.soundSpeed[1])
      /\ e.top.condition = "F" => Present(d.topReflection)
      /\ e.bottom.condition = "F" => Present(d.bottomReflection)
      /\ e.bottom.condition = "P" => Present(d.internalReflection)
      /\ two(d.topReflection) /\ two(d.bottomReflection) /\ two(d.internalReflection)
      /\ two(d.pattern) /\ shape(d.altimetry) /\ shape(d.bathymetry)
      /\ e.run.family \in Cerveny => Present(e.cerveny)
      /\ e.run.family \in {"gaussianCentered"} => ~Supported(j)

(* An accepted case has all of it.                                         *)
Usable == Accepted => Sufficient(Case)

Storing(n, list) == n + Len(list)
Stored(lists) == FoldLeft(Storing, 0, lists)

(* The arrivals that are counted are those that are there, over all sources *)
(* and receivers; no receiver has more than its share, nor the run more     *)
(* than its total, and what was turned away was the weakest.               *)
Retained ==
  job.kind = "A" =>
    /\ Strongest
    /\ counts.arrivals = Stored(EveryList(result)) + (IF phase = "done" THEN 0 ELSE Stored(receivers))
    /\ counts.arrivals <= Limits.arrivals

(* A reader of a native file finds for each source, depth and range what    *)
(* the solver has for it, and nothing else; so does a reader of HDF5.       *)
SameReceivers(at, left) ==
  ReadReceivers(at, left) = [s \in DOMAIN result |-> [depth |-> result[s].depth, receivers |-> result[s].receivers]]

(* The receiver of a depth and a range, as the solver counts them.          *)
Here(d, r) == (r - 1) * DepthCount(job) + d

SameArrivals(only) ==
  LET numbers == ArrivalFile(job, result, only).numbers
      read == ReadArrivals(numbers)
  IN  /\ read.next = Len(numbers) + 1 /\ read.sources = job.sources
      /\ \A s \in DOMAIN read.sources : \A d \in DOMAIN read.depths : \A r \in DOMAIN read.ranges :
           LET receiver == result[s].receivers[IF only = 0 THEN Here(d, r) ELSE only] IN
           /\ read.depths[d] = receiver.depth /\ read.ranges[r] = receiver.range
           /\ read.arrivals[s][d][r] = receiver.left

ArrivalsBack ==
  LET group == ArrivalGroup(result)
      left == [n \in DOMAIN group.at.ranges |-> Slice(group.amplitudes, group.offset, n)]
  IN  /\ Written => \A only \in IF job.irregular THEN DOMAIN job.ranges ELSE {0} : SameArrivals(only)
      /\ SameReceivers(group.at, left)

FieldBack ==
  LET read == ReadShd(FieldFile(job, result))
      group == FieldGroup(result)
  IN  /\ Written /\ read.sources = job.sources
      /\ \A s \in DOMAIN job.sources : \A d \in 1 .. DepthCount(job) : \A r \in DOMAIN job.ranges :
           read.pressure[s][d][r] = result[s].receivers[Here(d, r)].left
      /\ SameReceivers(group.at, group.pressure)

RaysBack ==
  LET traced == [s \in DOMAIN result |-> result[s].rays]
      left(s) == IF job.kind = "E" THEN Flat(Lists(result[s])) ELSE <<>>
      group == RayGroup(result)
  IN  /\ ReadRays(RayFile(job, result)) = Flat([s \in DOMAIN result |-> result[s].rays \o left(s)])
      /\ [k \in DOMAIN group.angles |-> RayAt(group, k)] = Flat(traced)

EigenraysBack ==
  LET group == EigenrayGroup(result)
      eigenray(n, k) == RayAt(group, group.offset[n] + k)
  IN  SameReceivers(group.at, [n \in DOMAIN group.at.ranges |->
        [k \in 1 .. group.offset[n + 1] - group.offset[n] |-> eigenray(n, k)]])

ReadBack ==
  phase = "done" =>
    /\ job.kind = "A" => ArrivalsBack
    /\ FieldRun(job) => FieldBack
    /\ job.kind \notin {"A", "C", "S", "I"} => RaysBack
    /\ job.kind = "E" => EigenraysBack
=============================================================================
