---------------------------- MODULE KrakenCommand ----------------------------
(****************************************************************************)
(* The `kraken` subcommands of the command line (cli/src/kraken.rs): run    *)
(* and export, from the files of a case to an exit code.  The environment   *)
(* file holds a profile after another and the FIELD file says how many;     *)
(* what tables they ask for is discovered first, then the tables are read,  *)
(* then all is read again and made into fields (kraken/src/input).  These   *)
(* are solved (KrakenField), and each is written when it is (KrakenWriters, *)
(* output/src/kraken.rs), within a quota of words of four bytes.            *)
(****************************************************************************)
EXTENDS KrakenWriters

CONSTANTS
  Requests,       \* sets of commands, each with a solver and a document or files
  Overhead,       \* what an HDF5 file takes beside its datasets
  ReportWords,    \* what the report takes for a frequency
  ManifestWords   \* what the manifest of the results takes

ASSUME KrakenCommandAssumption == {Overhead, ReportWords, ManifestWords} \subseteq Nat

(* A document is none or one; its fields, their profiles and the media of   *)
(* these are lists, as the files are of lines; a quota is a number of words.*)
List(s) == s \in Seq(Range(s))
Layered(d) == List(d.fluids) /\ List(d.tops) /\ List(d.bottoms)
ASSUME RequestsAssumption ==
  \A few \in Requests : \A r \in few :
    /\ r.maximum \in Nat
    /\ IF "files" \in DOMAIN r THEN \A x \in DOMAIN r.files : List(r.files[x])
       ELSE List(r.document) /\ \A d \in Range(r.document) :
              List(d.fields) /\ \A f \in Range(d.fields) :
                List(f.profiles) /\ \A p \in Range(f.profiles) : Layered(p)

VARIABLES
  request,
  stage,     \* "read", "discover", "tables", "pattern", "load", "loaded", "running", "over"
  asked,     \* the tables that are still to be read
  resources, \* the tables and the pattern: none or the lines of each
  loading,   \* the fields so far, and what the load keeps count of
  fault,     \* why the load failed, and whether a reader says so
  document,  \* what export printed: none or one
  writing,   \* what is to be written of a solved frequency
  payload, native, report, \* the words of datasets, MOD and SHD, and report
  exit       \* the exit code, -1 while the command runs

loadVars == <<request, asked, resources, loading, fault>>
writeVars == <<writing, payload, native, report>>
vars == <<loadVars, stage, document, writeVars, exit, fieldVars>>

Extensions == <<"trc", "brc", "irc">>
NoResources == [x \in {"trc", "brc", "irc", "sbp"} |-> <<>>]
NotLoading == [reader |-> <<>>, profile |-> 0, sequences |-> <<>>, charged |-> 0, used |-> {}]

Init ==
  /\ (\E few \in Requests : request \in few) /\ stage = "read" /\ exit = -1
  /\ asked = {} /\ resources = NoResources /\ loading = NotLoading /\ document = <<>>
  /\ fault = [by |-> "nobody", what |-> ""]
  /\ writing = "none" /\ payload = 0 /\ native = 0 /\ report = 0
  /\ FieldInit

Exits(code) == stage' = "over" /\ exit' = code
Rejected(why) == fault' = [by |-> "load", what |-> why] /\ Exits(2)
Unread(r) == fault' = [by |-> "reader", what |-> r.what] /\ Exits(2)
GoesOn(next) == stage' = next /\ UNCHANGED <<exit, fault>>

-----------------------------------------------------------------------------
(* Loading files.                                                          *)

Legacy == "files" \in DOMAIN request
HasFile(x) == x \in DOMAIN request.files
File(x) == request.files[x]
Solver == request.solver

TablesOf(e) ==
  (IF e.surface = "reflection" THEN {"trc"} ELSE {}) \cup
  (CASE e.bottom = "reflection" -> {"brc"} [] e.bottom = "impedance" -> {"irc"} [] OTHER -> {})

ReadPair ==
  /\ stage = "read" /\ Legacy
  /\ IF ~(HasFile("env") /\ HasFile("flp")) THEN Rejected("input") /\ UNCHANGED loading
     ELSE \E r \in {NewReader(File("env"))} :
            IF ~r.ok THEN Unread(r) /\ UNCHANGED loading
            ELSE GoesOn("discover") /\ loading' = [NotLoading EXCEPT !.reader = r]
  /\ UNCHANGED <<request, asked, resources, document, writeVars, fieldVars>>

(* Between profiles a reader has its records and how many are used.         *)
Ready(r) ==
  [records |-> r.records, used |-> r.used, tokens |-> <<>>, slash |-> FALSE, ok |-> TRUE, what |-> "input",
   value |-> <<>>]

(* Mutant: the last profile alone asks for its tables.                      *)
DiscoverLast ==
  /\ stage = "discover" /\ More(loading.reader)
  /\ \E r \in {ReadEnvironment(loading.reader, Solver)} :
       IF ~r.ok THEN Unread(r) /\ UNCHANGED loading
       ELSE /\ GoesOn("discover")
            /\ loading' = [loading EXCEPT !.reader = Ready(r), !.used = TablesOf(Environment(r.value))]
  /\ UNCHANGED <<request, asked, resources, document, writeVars, fieldVars>>

(* Every profile of the environment file asks for its tables.               *)
DiscoverProfile ==
  /\ stage = "discover" /\ More(loading.reader)
  /\ \E r \in {ReadEnvironment(loading.reader, Solver)} :
       IF ~r.ok THEN Unread(r) /\ UNCHANGED loading
       ELSE /\ GoesOn("discover")
            /\ loading' = [loading EXCEPT !.reader = Ready(r), !.used = @ \cup TablesOf(Environment(r.value))]
  /\ UNCHANGED <<request, asked, resources, document, writeVars, fieldVars>>
EndDiscovery ==
  /\ stage = "discover" /\ ~More(loading.reader)
  /\ GoesOn("tables") /\ asked' = loading.used
  /\ UNCHANGED <<request, resources, loading, document, writeVars, fieldVars>>

(* The tables are read in the order of their extensions.                    *)
NextTable == Extensions[Min({i \in DOMAIN Extensions : Extensions[i] \in asked})]
ReadTable ==
  /\ stage = "tables" /\ asked # {}
  /\ IF ~HasFile(NextTable) THEN Rejected("input") /\ UNCHANGED <<asked, resources>>
     ELSE /\ resources' = [resources EXCEPT ![NextTable] = <<File(NextTable)>>]
          /\ asked' = asked \ {NextTable} /\ GoesOn("tables")
  /\ UNCHANGED <<request, loading, document, writeVars, fieldVars>>

(* The FIELD file is read for whether it asks for a pattern, which is read. *)
ReadPattern ==
  /\ stage = "tables" /\ asked = {}
  /\ \E r \in {ParseField(File("flp"))} :
       IF ~r.ok THEN Unread(r) /\ UNCHANGED resources
       ELSE IF ~FieldOf(r.value).asked THEN GoesOn("pattern") /\ UNCHANGED resources
       ELSE IF ~HasFile("sbp") THEN Rejected("input") /\ UNCHANGED resources
       ELSE GoesOn("pattern") /\ resources' = [resources EXCEPT !["sbp"] = <<File("sbp")>>]
  /\ UNCHANGED <<request, asked, loading, document, writeVars, fieldVars>>

BeginLoad ==
  /\ stage = "pattern"
  /\ GoesOn("load") /\ loading' = [NotLoading EXCEPT !.reader = NewReader(File("env"))]
  /\ UNCHANGED <<request, asked, resources, document, writeVars, fieldVars>>

(* A table for a boundary that asks for it, as far as it can be read.       *)
Tables(e, parsed, kind, missing) ==
  CASE parsed = <<>> -> [ok |-> FALSE, what |-> missing, table |-> NoTable]
    [] ~parsed[1].ok -> [ok |-> FALSE, what |-> "table", table |-> NoTable]
    [] OTHER -> LET v == parsed[1].value IN
                [ok |-> TableValid(kind, v, e.frequency), what |-> "table", table |-> v]
Parsed(x, Parse(_)) == [i \in DOMAIN resources[x] |-> Parse(resources[x][i])]
Plain == [ok |-> TRUE, what |-> "", table |-> NoTable]
SurfaceTable(e) ==
  IF e.surface = "reflection" THEN Tables(e, Parsed("trc", ParseReflectionTable), e.surface, "missing table")
  ELSE Plain
BottomTable(e) ==
  CASE e.bottom = "reflection" -> Tables(e, Parsed("brc", ParseReflectionTable), e.bottom, "missing table")
    [] e.bottom = "impedance" -> Tables(e, Parsed("irc", ParseImpedanceTable), e.bottom, "missing table")
    [] OTHER -> Plain
Pattern(field) ==
  CASE ~field.asked -> [Plain EXCEPT !.ok = resources["sbp"] = <<>>, !.what = "unexpected pattern"]
    [] field.asked /\ resources["sbp"] = <<>> -> [Plain EXCEPT !.ok = FALSE, !.what = "missing pattern"]
    [] OTHER -> LET r == ParseSourcePattern(resources["sbp"][1]) IN
                [ok |-> r.ok, what |-> "pattern", table |-> [points |-> IF r.ok THEN r.value.points ELSE <<>>]]

(* The profile at every frequency: the tables it asks for, room for the     *)
(* whole, and definitions that are cases, meshed if there is a band.        *)
DefinitionsOf(e, field) ==
  [i \in DOMAIN e.frequencies |->
     Definition(e, field, SurfaceTable(e).table, BottomTable(e).table, Pattern(field).table.points, Solver,
                e.frequencies[i])]
FirstFault(e, field, definitions) ==
  CASE ~BottomTable(e).ok -> BottomTable(e).what
    [] BottomTable(e).ok /\ ~SurfaceTable(e).ok -> SurfaceTable(e).what
    [] BottomTable(e).ok /\ SurfaceTable(e).ok /\ ~Pattern(field).ok -> Pattern(field).what
    [] OTHER ->
         IF Stored(e, field, SurfaceTable(e).table, BottomTable(e).table, Pattern(field).table.points)
              * Len(e.frequencies) > MaxValues THEN "frequencies"
         ELSE IF \A d \in Range(definitions) : CaseAllowed(d) /\ (e.broadband => Meshed(d)) THEN "" ELSE "case"

(* Mutant: the ranges of the profiles are not charged.                      *)
ChargeProfiles(field, definitions) == loading.charged + TotalOf(definitions, InputValues)

(* A profile joins the sequence of each frequency, which all have; the      *)
(* ranges are charged with the first.                                      *)
Charge(field, definitions) ==
  loading.charged + TotalOf(definitions, InputValues)
  + (IF loading.profile = 0 THEN Len(field.profiles) * Len(definitions) ELSE 0)
Joins(definitions) ==
  loading.profile # 0 =>
    /\ DOMAIN definitions = DOMAIN loading.sequences
    /\ \A i \in DOMAIN definitions : definitions[i].frequency = loading.sequences[i][1].frequency
Joined(definitions) ==
  IF loading.profile = 0 THEN [i \in DOMAIN definitions |-> <<definitions[i]>>]
  ELSE [i \in DOMAIN definitions |-> Append(loading.sequences[i], definitions[i])]

TheField == FieldOf(ParseField(File("flp")).value)
Join(r, e, field, definitions) ==
  LET wrong == FirstFault(e, field, definitions) IN
  IF wrong # "" THEN Rejected(wrong) /\ UNCHANGED loading
  ELSE IF ~Joins(definitions) THEN Rejected("frequencies") /\ UNCHANGED loading
  ELSE IF Charge(field, definitions) > MaxValues THEN Rejected("profiles") /\ UNCHANGED loading
  ELSE /\ GoesOn("load")
       /\ loading' = [reader |-> Ready(r), profile |-> loading.profile + 1,
                      sequences |-> Joined(definitions), charged |-> Charge(field, definitions),
                      used |-> loading.used \cup TablesOf(e)]
LoadProfile ==
  /\ stage = "load"
  /\ \E field \in {TheField} :
       /\ loading.profile < Len(field.profiles)
       /\ \E r \in {ReadEnvironment(loading.reader, Solver)} :
            IF ~r.ok THEN Unread(r) /\ UNCHANGED loading
            ELSE \E e \in {Environment(r.value)} : \E definitions \in {DefinitionsOf(e, field)} :
                   Join(r, e, field, definitions)
  /\ UNCHANGED <<request, asked, resources, document, writeVars, fieldVars>>

(* Nothing is left of the environments, every table was for one of them,    *)
(* and each sequence of profiles is a field.                               *)
FieldsOf(field) ==
  [i \in DOMAIN loading.sequences |->
     [profiles |-> loading.sequences[i], starts |-> field.profiles, propagation |-> field.propagation]]
Unused == {x \in {"trc", "brc", "irc"} : resources[x] # <<>>} \ loading.used
FinishLoad ==
  /\ stage = "load"
  /\ \E field \in {TheField} :
       /\ loading.profile = Len(field.profiles)
       /\ CASE More(loading.reader) -> Rejected("input") /\ UNCHANGED fields
            [] ~More(loading.reader) /\ Unused # {} -> Rejected("unexpected table") /\ UNCHANGED fields
            [] OTHER -> IF \A f \in Range(FieldsOf(field)) : FieldCaseAllowed(f)
                          THEN fields' = FieldsOf(field) /\ GoesOn("loaded")
                          ELSE Rejected("case") /\ UNCHANGED fields
  /\ UNCHANGED <<request, asked, resources, loading, document, writeVars, frequency, phase, limit, counts,
                 march, pressure>>

(* A document has its fields; the solver that is asked for must be its own. *)
LoadDocument ==
  /\ stage = "read" /\ ~Legacy
  /\ IF request.document = <<>> \/ ~DocumentAllowed(request.document[1])
       THEN Rejected("document") /\ UNCHANGED fields
     ELSE IF Solver \notin {"any", request.document[1].fields[1].profiles[1].solver}
       THEN Rejected("solver") /\ UNCHANGED fields
     ELSE fields' = request.document[1].fields /\ GoesOn("loaded")
  /\ UNCHANGED <<request, asked, resources, loading, document, writeVars, frequency, phase, limit, counts,
                 march, pressure>>

-----------------------------------------------------------------------------
(* Exporting: a document that is too long is refused, and printing may      *)
(* fail.                                                                   *)
ExportCase ==
  /\ stage = "loaded" /\ request.command = "export"
  /\ IF ~SequencesAllowed(fields) THEN Rejected("export") /\ UNCHANGED document
     ELSE \/ document' = <<Document(fields)>> /\ Exits(0) /\ UNCHANGED fault
          \/ UNCHANGED document /\ Exits(4) /\ UNCHANGED fault
          \/ Rejected("oversized") /\ UNCHANGED document
  /\ UNCHANGED <<request, asked, resources, loading, writeVars, fieldVars>>

-----------------------------------------------------------------------------
(* Running.                                                                *)

Maximum == request.maximum
Hdf5 == request.format # "legacy"
Native == request.format # "hdf5"
Hdf5File == IF Hdf5 THEN payload + Overhead ELSE 0
Directory == Hdf5File + native + report

Fails(code) == Exits(code) /\ UNCHANGED writing
Proceeds(next) == writing' = next /\ UNCHANGED <<stage, exit>>

(* The pressures are known to fit before anything is solved, then what      *)
(* describes the run.                                                      *)
Admitted == Maximum > 0 /\ TotalOf(fields, PressureWords) <= Maximum
Run ==
  /\ stage = "loaded" /\ request.command = "run"
  /\ IF Admitted /\ (Hdf5 => HeaderPayload(fields) + Overhead <= Maximum)
       THEN /\ stage' = "running" /\ UNCHANGED exit
            /\ payload' = IF Hdf5 THEN HeaderPayload(fields) ELSE 0
       ELSE Exits(4) /\ UNCHANGED payload
  /\ UNCHANGED <<loadVars, document, writing, native, report, fieldVars>>

FirstProduct == CASE Hdf5 -> "hdf5" [] OTHER -> "mod"
NextStep ==
  /\ stage = "running" /\ writing = "none"
  /\ SolveField \/ NextFrequency
  /\ writing' = IF phase' = "solved" THEN FirstProduct ELSE "none"
  /\ UNCHANGED <<loadVars, stage, document, payload, native, report, exit>>

(* The datasets are in the budget, and then the file in the quota.          *)
WriteHdf5 ==
  /\ stage = "running" /\ writing = "hdf5"
  /\ payload' = payload + FrequencyWords(Field, counts)
  /\ IF payload' + Overhead > Maximum THEN Fails(4) ELSE Proceeds(IF Native THEN "mod" ELSE "account")
  /\ UNCHANGED <<loadVars, document, native, report, fieldVars>>

(* Mutant: what is left is counted once for both files.                     *)
RemainingAtFirst == Maximum - (Directory - (IF writing = "shd" THEN ModFile(Field, counts, NoQuota).written ELSE 0))

(* A native file has what the directory leaves of the quota.                *)
Remaining == Maximum - Directory

WriteNative(file, next) ==
  /\ native' = native + file.written
  /\ IF file.ok THEN Proceeds(next) ELSE Fails(4)
WriteMod ==
  /\ stage = "running" /\ writing = "mod"
  /\ IF Remaining < 0 THEN Fails(4) /\ UNCHANGED native
     ELSE \E file \in {ModFile(Field, counts, Remaining)} : WriteNative(file, "shd")
  /\ UNCHANGED <<loadVars, document, payload, report, fieldVars>>
WriteShd ==
  /\ stage = "running" /\ writing = "shd"
  /\ IF Remaining < 0 THEN Fails(4) /\ UNCHANGED native
     ELSE \E file \in {ShdFile(Field, pressure, Remaining)} : WriteNative(file, "account")
  /\ UNCHANGED <<loadVars, document, payload, report, fieldVars>>

(* The report is written, and the whole is in the quota.                    *)
Account ==
  /\ stage = "running" /\ writing = "account"
  /\ report' = report + ReportWords
  /\ IF Directory + ReportWords > Maximum THEN Fails(4) ELSE Proceeds("none")
  /\ UNCHANGED <<loadVars, document, payload, native, fieldVars>>

Failed ==
  /\ stage = "running" /\ phase = "failed" /\ Exits(3)
  /\ UNCHANGED <<loadVars, document, writeVars, fieldVars>>

(* The results are published when no frequency is left, with a manifest     *)
(* that the quota has room for (DirectoryPublication tells how it may fail).*)
Publish ==
  /\ stage = "running" /\ writing = "none" /\ phase = "solved" /\ frequency = Len(fields)
  /\ \/ Directory + ManifestWords <= Maximum /\ Exits(0)
     \/ Exits(4)
  /\ UNCHANGED <<loadVars, document, writeVars, fieldVars>>

Over == stage = "over" /\ UNCHANGED vars

Next ==
  \/ ReadPair \/ DiscoverProfile \/ EndDiscovery \/ ReadTable \/ ReadPattern \/ BeginLoad
  \/ LoadProfile \/ FinishLoad \/ LoadDocument \/ ExportCase \/ Run \/ NextStep
  \/ WriteHdf5 \/ WriteMod \/ WriteShd \/ Account \/ Failed \/ Publish \/ Over

Spec == Init /\ [][Next]_vars
-----------------------------------------------------------------------------
(* Properties.                                                             *)

(* What is discovered in the files is what the load takes: no profile lacks *)
(* a table that it asks for, and none is read that no profile asks for,     *)
(* though discovery reads every profile of one file and the load as many as *)
(* the other says (legacy::field_table_extensions and load_field_cases_     *)
(* with_resources).                                                        *)
Discovered ==
  /\ fault.by = "load" =>
       fault.what \notin {"missing table", "unexpected table", "missing pattern", "unexpected pattern"}
  /\ Legacy /\ fields # <<>> =>
       {x \in {"trc", "brc", "irc"} : resources[x] # <<>>} =
         UNION {TablesOf(d) : d \in UNION {Range(f.profiles) : f \in Range(fields)}}

(* Every case that is accepted, from files as from a document, can be       *)
(* exported, and its document is accepted again: what the loader charges    *)
(* for storage before and after it converts the materials is no less than   *)
(* what the document is charged (legacy/mod.rs, json.rs).                   *)
Exportable == stage = "loaded" => SequencesAllowed(fields) /\ DocumentAllowed(Document(fields))

(* The weight of a sample of a coupled profile is the integral of the       *)
(* inverse of its density between the samples beside it, wherever no        *)
(* interface lies between the sample and the one above, whatever interfaces *)
(* and grids of both profiles were accepted (FieldCase::new and project).   *)
(* A profile that ends above the last one has no medium for what is below,  *)
(* unless it has a half-space.                                             *)
Overlap(from, to, top, bottom) ==
  LET width == Least(to, bottom) - (IF from > top THEN from ELSE top) IN IF width > 0 THEN width ELSE 0
Integral(d, from, to) ==
  [m \in 1 .. Below(d) |->
     IF m = Below(d) THEN Overlap(from, to, FluidBottom(d), to) ELSE Overlap(from, to, TopOf(d, m), Interface(d, m))]
Exact(left, right) ==
  LET z == Grid(left, right)
      weights == Weights(left, right)
      near(i) == IF i \in DOMAIN z THEN z[i] ELSE IF i = 0 THEN z[1] ELSE LastOf(z)
      clear(i) == \A k \in 1 .. Len(right.fluids) : ~(near(i - 1) < Interface(right, k) /\ Interface(right, k) < z[i])
  IN  \A i \in DOMAIN z : clear(i) => weights[i] = Integral(right, near(i - 1), near(i + 1))
Quadrature ==
  stage = "loaded" =>
    \A f \in Range(fields) : f.propagation = "coupled" =>
      \A i \in 1 .. Len(f.profiles) - 1 :
        LET left == f.profiles[i]  right == f.profiles[i + 1] IN
        IsHalfSpace(right.bottom) \/ FluidBottom(left) <= FluidBottom(right) => Exact(left, right)

(* At a receiver, what its modes were advanced by is the way from the       *)
(* source, piece by piece, each in the stretch of the profile whose         *)
(* wavenumbers it took; and it has no mode that a profile there lacks.      *)
Way == Append(pieces, Piece(ReceiverRange))
StretchStart(s) ==
  CASE s = 1 -> 0 [] s > 1 /\ Coupled -> Field.starts[s - 1] + Field.starts[s] [] OTHER -> Start(s)
Marched ==
  phase = "march" /\ (Ahead => ReceiverRange <= Boundary) =>
    /\ Way[1][2] = 0 /\ \A i \in 1 .. Len(Way) - 1 : Way[i][3] = Way[i + 1][2]
    /\ \A i \in DOMAIN Way :
         LET s == Way[i][1] IN
         /\ StretchStart(s) <= Way[i][2] /\ Way[i][2] <= Way[i][3]
         /\ s < Len(Profiles) => Way[i][3] <= StretchStart(s + 1)
    /\ live <= counts[segment] /\ (~Coupled /\ Ahead => live <= counts[segment + 1])
    /\ segment = 1 => live <= Profile.limit

(* The native files of a run never take the directory past its quota, not   *)
(* even while they are written; and what is published is every frequency,   *)
(* within the quota.                                                       *)
Within ==
  /\ Native /\ writing \in {"shd", "account"} /\ report = ReportWords * (frequency - 1) => Directory <= Maximum
  /\ exit = 0 /\ request.command = "run" =>
       /\ frequency = Len(fields) /\ phase = "solved" /\ writing = "none"
       /\ Directory + ManifestWords <= Maximum /\ report = ReportWords * frequency

(* A reader of the native files finds every profile's samples, shapes and   *)
(* wavenumbers, wherever the profiles before it end, and the pressure of    *)
(* each source, depth and range.                                           *)
ReadBack ==
  writing = "mod" =>
    LET file == ModFile(Field, counts, NoQuota)
        shd == ReadShd(ShdFile(Field, pressure, NoQuota))
        read == ReadMod(file, Len(Profiles))
    IN  /\ file.ok
        /\ \A p \in DOMAIN Profiles :
             /\ read[p].shapes = [m \in 1 .. counts[p] |-> Shape(p, m, Len(Profiles[p].modeDepths))]
             /\ read[p].wavenumbers = [m \in 1 .. counts[p] |-> <<p, m>>]
        /\ \A s \in 1 .. Len(Profile.sources), z \in 1 .. Len(Profile.receivers), r \in 1 .. Len(Profile.ranges) :
             shd.pressure[s][z][r] = <<s, z, r>>
=============================================================================
