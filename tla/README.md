# bellhop-rs in TLA+

bellhop-rs ("Pelagic") traces acoustic rays (BELLHOP), computes normal modes
(KRAKEN), and offers both through a command line and the first also through an
HTTP service. The numerics are single-threaded and deterministic; what is hard
to test lies around them and in their control flow: files that several
processes publish into the same place, requests that outlive their clients,
limits that must hold however long a run gets, and walks over tables whose
index must not be one off.

This directory holds TLA+ modules translated from the Rust sources, TLC
configurations that check them on small instances, and TLAPS proofs that the
main properties hold for every instance. `PROJECT.json` says for every
definition which source lines it stands for, and lists runs, mutants, findings,
hazards and theorems.

To check a run: `tlc -workers 2 -config MCX_y.cfg MCX`; to check proofs:
`tlapm X_proofs.tla`.

## The system

| component | source | state it keeps | operations | hard behaviour |
|---|---|---|---|---|
| result directory publication | `output/src/directory.rs` | the output directory, `.pelagic-lock`, `.pelagic-stage`, `.pelagic-backup` on disk; a `Transaction` per writer | `publish`: begin, write, install, rollback, drop | concurrent writers, a failure or crash between any two file-system calls, programs that ignore the lock |
| HDF5 file publication | `output/src/publication.rs` | `<output>.tmp` and `<output>` on disk | `publish`, `TemporaryOutput::drop` | the same; the scratch is found again by name |
| HTTP service | `server/src/lib.rs`, `main.rs` | two kinds of semaphore, requests in flight, blocking closures | layers, handlers, worker pool, shutdown | timeouts, disconnects, closures that cannot be cancelled |
| BELLHOP run and ray tracing | `bellhop/src/solver/mod.rs` and the integrator, boundary and reflection beside it | the states of a ray, segment indices, total counters | `run`, `trace_ray`, `step_2d`, `reflect_2d` | limits at their boundary, order of the tests that end a ray |
| BELLHOP influence | `bellhop/src/solver/influence.rs` | receiver index, arrivals, eigenrays, pressure | one walk per beam family, `add_arrival` | an index that follows a ray back and forth; a bounded list that replaces its weakest member |
| BELLHOP sound speed | `bellhop/src/solver/ssp.rs` | segment indices | interpolation | search at a knot |
| BELLHOP input | `bellhop/src/input`, `case.rs` | a cursor in a file | readers, validation, documents | list-directed records that cross lines; seven files that one file asks for |
| KRAKEN modal solver | `kraken/src/solver/modes.rs`, `refinement.rs`, ... | brackets, mesh levels, Richardson table | root isolation, mesh refinement | loops under a work budget, numbers of roots that differ between meshes |
| KRAKEN field | `kraken/src/solver/field.rs` | result so far, shrinking limits | frequency scan, range-dependent fields | a failure in the middle of a scan; a march that must not skip or repeat a stretch |
| KRAKEN input | `kraken/src/input`, `case.rs`, `solver/{layers,elastic,reflection}.rs` | a cursor in a file | readers, discovery of tables, validation, documents | the same files read twice by different rules; storage charged before it is known |
| result writers | `output/src/{native,kraken,bellhop,kraken_native,bellhop_native}.rs` | words written, record number, budgets | direct records, text tables, datasets | sizes at a limit, orders of receivers |
| command line | `cli/src` | none | load, judge, run, publish | every error has one exit code and nothing is half done |

Interactions: the command line loads a case, runs a solver under its limits and
hands a closure that writes the result to one of the two publication modules.
The service parses a case, runs the solver in a blocking closure that owns a
worker permit, and answers. Solvers share nothing but their arguments. The
publication modules know other processes only through the file system.

What makes each part correct:

* *publication*: the output is the previous complete group or the new one,
  at every moment somebody may look or the process may die; nobody's files but
  one's own are touched; two writers exclude each other.
* *service*: permits are conserved; only a request that passed every check costs
  work; every request ends; an answer is truthful and final.
* *run*: limits are never exceeded and never refuse what fits; a ray's
  termination says why it ended; counters equal what they count.
* *influence*: a receiver is visited once by the segment that passes it.
* *modes*: no root twice, none skipped, loops end, tables stay aligned.
* *input*: all that is wrong is said, once; what is accepted is usable by the
  solver, survives its own document, and was made of the files that are protected.
* *field*: every stretch of range is walked once, in the profile that holds there.
* *writers*: nothing over a budget reaches the disk; a reader of a file finds what
  the solver had.

## Modules

| module | role |
|---|---|
| `ResultFiles` | names, contents, groups and manifests of a result directory |
| `ResultDirectory` | abstract: a directory that changes by whole publications only |
| `DirectoryPublication` | `directory.rs`, call by call; implements `ResultDirectory` |
| `DirectoryPublication_proofs` | its theorems, the refinement among them |
| `FilePublication`, `FilePublication_proofs` | `publication.rs` on inodes and names |
| `SimulationService`, `SimulationService_proofs` | the HTTP service |
| `ReceiverSweep`, `ReceiverSweep_proofs` | the walks over receivers of `influence.rs` |
| `RayTracing`, `RayTracing_proofs` | one ray: `trace_ray`, `step_2d`, `reflect_2d`, segment searches |
| `LegacyRecords` | list-directed and fixed-width records of the legacy files |
| `BellhopInput` | the parsers of a BELLHOP environment and its auxiliary files |
| `BellhopCase` | `Case::from_definition`, and the JSON document both ways |
| `BellhopRun` | a whole simulation: limits, counters, and what each receiver keeps |
| `NativeRecords` | direct-access records, the SHD file, and its reader |
| `BellhopWriters` | the native files and HDF5 groups of a BELLHOP result, and their readers |
| `BellhopCommand`, `BellhopCommand_proofs` | composes the six above: `validate`, `export` and `run`; theorems about the command and about a run by itself |
| `KrakenModes`, `KrakenModes_proofs` | eigenvalues of one profile: counts, brackets, secants, meshes, Richardson table |
| `KrakenInput` | the parsers of KRAKEN's environment, field and table files |
| `KrakenCase` | what makes a KRAKEN definition a case, a sequence a field, and a list of fields a document |
| `KrakenField` | frequencies, profiles, the march over ranges, the weights of a projection |
| `KrakenWriters` | sizes of the HDF5 datasets, the MOD and SHD files and their readers |
| `KrakenCommand`, `KrakenCommand_proofs` | composes them with `NativeRecords`: `export` and `run` |
| `MC*` | constants, reductions and symmetry for TLC |

### DirectoryPublication

State: the regular files of the output, the stage and the backup, which
directories exist, and per writer its program counter and the fields of
`Transaction` (`created_output`, `owned`, `retain`, what was `moved` and
`installed`). Every action is one file-system call, or a run of calls that
nobody else can tell apart because they only read while the lock is held. Each
action has the outcomes the call can have. `Crash` ends a writer before any
call and leaves the disk as it is. `Drop` is the label `"drop"` and is reached
by every error path.

Abstractions. A file is a value; hashing is equality of values and never
collides. `read_dir` and the map iterate in some order: the model takes any,
except where the code fixes the manifest's place (last to move and to link,
first to come back). The checks of `install` before its first move are one
step. Links to directories, symlinks and special files are `Foreign`, an alias
of an input is `InputFile`. What a directory weighs is a
constant operator, `Size`: nothing is assumed of it but that it is a number. The quota
is tested when the manifest is in the stage with the artifacts, and a group that is too
large together with it is refused before anything is moved. What other
programs do is add (`Appear`) or exchange (`Replace`) a directory entry;
writing through a hard link of a file in place is not modelled, and the guide
declares programs that ignore the lock outside its protection.

`Spec` has writers only, `CrowdedSpec` adds programs that add files,
`OpenSpec` also those that replace them. `UnrelatedKept` is claimed for added
files: between the second verification and the rename of an old file another
program may exchange it, which no system call of the code could exclude.

`Settled`, the refinement mapping, is the group a keeper may rely on: the output
as it was when the lock was taken until the new manifest is linked, the output
afterwards.

### FilePublication

Names and inodes are kept apart because the code mixes them: the scratch is
written through a handle and measured, synced, installed and removed by name.
`Drop` runs on every path, also after the rename has given the name away; that
is the finding below. Overwriting installs by rename, not overwriting by hard
link and removal. `Disciplined` is what the properties need: a single caller, or
nobody overwrites.

### SimulationService

Stages of a request: `gate` (waiting for the permit of its route's
`ConcurrencyLimit`), `checks` (admitted; waiting for its body), `queue` (waiting
for a worker slot), `result` (its closure runs), `answered`, `gone`. A closure is
a second process (`work`) that owns the worker slot and ends whenever it
likes; if its request is over its outcome is `discarded`. The order of the
checks is that of the layers and of the handler; everything from the arrival of
the body to the queue happens without an `await` and is one action. Semaphores
of tokio are FIFO: `ahead` is the set of requests that were there first. The
layer stack is applied to each route, so each route has its own concurrency
limit. A `Tick` waits for admissions and deadlines that are due (timers are not
late by a tick).

Not modelled: a semaphore that is closed (production code never closes one), the
OpenAPI documents, the serializer's buffer (its verdict is an outcome).

### ReceiverSweep

Every beam family walks along the states of a ray and tries receivers of a
table of ranges. The module has the five ways to do so that `influence.rs` has:
the Cartesian hat and Gaussian carry one index with them, moving it towards the
end of each segment; ray-centered hats and both kinds of Cerveny beam look up
an index for each end and visit what is between; the simple Gaussian makes
one pass. `"walk"` is the loop over receivers inside a segment, `"segment"` the
loop over states around it. Ranges are integers. What a receiver gets (and the
depths below each range) does not steer the walk and is left out; tests that
compare a step with 1000 units in the last place are a choice between being
short and not, which only a step of at most 1 has.

`visits` and `reach` are history variables: how often the current segment tried
each receiver, and how far a simple Gaussian has come.

What `Swept` and `Passed` do not claim, because the code does not do it:

* a receiver exactly at the end of a segment that runs towards smaller ranges,
  or at the range a ray starts from, may not be tried, since a segment is
  half-open at its larger end;
* the Cartesian walk begins at the first receiver ahead of the source; if all
  receivers are behind it (`unwrap_or(0)`) the first segment may miss some;
* families that look up indices never try the first of several receivers
  (`receiver_a + 1 ..= receiver_b`) and are exact for even spacing only;
* the first segment of a ray-centered hat whose first state has a horizontal
  normal starts at the sentinel range `1.0e10` (`Far`) and index 0.

### RayTracing

One ray from its launch to its termination. `Step` is `step_2d` with the
lookup of boundary segments after it and the decision whether a boundary was
crossed, `Reflect` and `ReflectFails` are the two outcomes of `reflect_2d`,
`Test` is the end of an iteration of `trace_ray`.

The abstraction is a lattice: one sound speed, integer coordinates, eight
headings, boundaries that are level or rise or fall at 45 degrees. What the
code takes the least of, what it divides, and on which side of a line a point
lies are then exact integers, and everything that makes floating point hard is
one constant: a landing point is off by up to `Rounding`, which is less than the
smallest step. Consequences:

* With one sound speed both calls of `reduce_step` in a step give the same, and
  the model has one. Refraction, `p`, `q`, phases and travel times are left out.
* A ray outside a boundary and parallel to it divides by zero. That gives
  a step below any limit and so the smallest one (`BoundaryStep` 0). One that is
  reflected while parallel to its boundary divides zero by zero; the reflection
  fails unless the curvature condition is `Zero`, so it may (`Grazes`).
* A table of reflection coefficients may hold magnitudes above one: a lossy
  reflection changes `loud` either way.
* A beam shift moves a ray along its boundary after the segments were looked up;
  they are stale until the next step. Where boundaries are not level the
  segment that is checked for the next step is then not the one the ray is in, and
  the step may pass over the ends of boundary segments *and*, since `reduce_step`
  takes both limits from one pair of intervals, over ranges of the sound speed.
  `KnotsRespected` therefore claims ranges only where segments are `Tracked`: in
  waters without a shift, or with level boundaries. Layers it claims everywhere.
* The first and last depth of the profile are no interfaces: rays below the last
  depth stay in the last layer.
* `consecutive_small_steps` is counted by the code and read by nobody; it is left
  out. Curvilinear boundaries, whose frames are interpolated, are not modelled.

`Contained` and `Alternating` are claimed between level boundaries. A step may
overshoot a boundary by the smallest step and rounding; the reflected ray
starts outside and, its next step being at least the smallest, comes back up to
rounding. That is also the only way in which a ray in level water can end as
`EscapedBoundary`, and `Contained` bounds it. With sloping boundaries rays do
leave through corners, and the code has the termination for them.

### BellhopCommand and what it composes

`bellhop validate`, `export` and `run` from the files of a case to an exit code.
The stages are those of `cli/src/bellhop.rs` and `load_legacy_case`: read and
parse the environment, judge it alone (`Preflight`), read every auxiliary file
it asks for (`ReadAuxiliary`, one action per file: a file may be missing, wrong,
or understood, and the pass goes on), put the definition together, judge the
whole, and then print, simulate or write. A document is read in one step.

*Readers.* A line is a sequence of lexemes (value, repeat, comma, slash, comment,
blank, unterminated quote), so that what the list-directed reader does with
them is modelled and how characters form them is not. A parser is a function
from a reading (lines, how many of them are used, the slots of the last record,
what has been understood) to a reading; it stops at its first error. All of
`env.rs`, the five shapes of auxiliary files of `auxiliary.rs`, and every check
of `case.rs` are translated. A diagnostic says what it is of
(the case, an auxiliary file, the export), its severity, and one name for its code, field
and message.

*Documents.* `Export` and `IntoCase` differ where the code converts: options
that are letters in files are presence in documents, densities change unit, and
the encoding of arrivals has no place in a document. A density counts its last
places: times 1000 it is rounded to a multiple of `Spacing`, or is too much for a
double (`Overflow`), and divided by 1000 it is rounded again, so that it may come
back one place beside. Between the two lies text. `serde_json` prints a number
that is not finite as `null` and reads `null` as no number; `Decoded` refuses a
document with one (`Legible`) before anything is made of it. Of the materials of
a shaped boundary the model keeps the speed alone: their densities are converted
like those of a half-space.

*Run* (`BellhopRun`). `Refusal` holds the checks of `run` in their order;
`Trace` charges points, and `AddArrival`, `ReplaceWeakest`, `CombineArrival`,
`AddEigenray` and `AddPressure` are the five things that a ray can leave at a
receiver. Which ray leaves what where is free; `RayTracing` and `ReceiverSweep`
are about that. `dropped`, a history variable, is the strongest arrival a
receiver has turned away.

*Writers.* A native file is the sequence of its numbers, an HDF5 group a record
of arrays. Readers (external) are written from the format the code names:
source by source, depth by depth, range by range. The solver keeps receivers
range by range.

### KrakenModes

An eigenvalue is an odd place on an axis, a probe an even one. `Count` is the
Sturm count, an oracle. Three searches: bisection of each root (a fluid),
brackets shared by all roots and Brent's method in each (the first two meshes
under an elastic half-space on top), secants with deflation (layers, KRAKENC, the
other meshes) which may find any eigenvalue in any order, miss some, leave the
limits or fail. After each mesh `Accept` is `ModalRefinement::advance`: it
shortens the table when roots are lost, refuses a gain, extrapolates
(`Richardson`) and decides whether the column at two thirds has settled.
Eigenvalues drift from mesh to mesh by up to `Drift`.

`Aligned` says that columns, table and shapes have one length, and that in a fluid
each column extrapolates the mode that its shape is of, as long as no eigenvalue
crosses the upper limit (`exited`). When one does, the list shifts by one at its
*head* while `refinement.rs:137-142` truncates its *tail*: the remaining columns
then extrapolate neighbouring modes under the shape of another, although the
comment there says "Keep only the surviving first-mesh shapes". `SurvivorsKept` says
that they are, and the run `kraken_modes_exiting` refutes it.

### KrakenCommand and what it composes

`kraken export` and `run`. `ReadPair` reads the environment and field files;
`DiscoverProfile` parses one profile after another and gathers the tables they
ask for, until `EndDiscovery` finds no record left; `ReadTable` and
`ReadPattern` read those; `BeginLoad`, one `LoadProfile` per profile the field file asks
for, and `FinishLoad` parse all of it again, charge its storage twice (as
written, and as converted for each frequency), and make the fields. Then
`ExportCase`, or `Run`: the pressures are admitted, `NextStep` is one step of
`KrakenField`, and each solved frequency goes to the HDF5 file, the MOD file, the
SHD file and the report, under one quota, before the next is begun.

*Readers.* KRAKEN's records differ from BELLHOP's: a file is cut into records
first, and what is left over is an error. A medium or a half-space is a tuple of
depth, two speeds, density and two losses.

*Cases.* `CaseAllowed` and `FieldCaseAllowed` are `Case::from_definition` and
`FieldCase::new` with the validations of `layers.rs`, `elastic.rs` and
`reflection.rs`; only the verdict is kept of their reports.

*Field.* How many modes a profile has is an oracle. The march of one source
keeps the segment, the last range and, as history, the pieces of range by which
its modes were advanced with the profile of each; `pressure` records of which
source, depth and range each sample is made. `Weights` is the quadrature of
`project`, over sample lengths and media instead of densities.

`Quadrature` has a condition that the code deserves a word about: a left profile
that reaches below a right one which ends in vacuum or on a rigid bottom is accepted,
and the samples below it have no density. The division by zero ends as
"field pressure is not finite" (KR0302), never as a wrong number.

*Quota.* Words of four bytes. What an HDF5 file takes beyond its datasets is
the constant `Overhead`, reports and manifest are constants.

## Runs

| run | question | states | bounds |
|---|---|---|---|
| `directory_shared` | two writers, one directory, crashes, failures and a quota | 818k | 1 artifact name, 3 contents, one of them too large, 2 publications each |
| `directory_crowded` | files of other programs; every publication ends | 401k | 1 writer, 2 names, 1 foreign file |
| `file_disciplined` | callers that do not overwrite each other | 72k | 3 callers, 2 calls each |
| `file_overwriting` | finding | 14k | 2 callers |
| `service_checks` | permits, order of checks, truthful answers, every request and shutdown end | 310k | 2 simulations and a request of 5 other kinds, 1 worker, timeout 1 |
| `service_deadline` | finding | small | 2 requests, timeout 2 |
| `receiver_sweep` | every ray over every table, in each beam family | 14k | 6 tables of 1 to 4 receivers, 10 positions |
| `ray_tracing` | every ray in level, shallow, range-dependent, shelving and rough water | 83k | 5 waters, 2 sources, 8 headings, 8 states, smallest step 2, rounding 1 |
| `bellhop_command` | validate, export and run from files and documents | 67k | two cases with up to two records changed, every auxiliary file missing, wrong or understood; runs of 1 to 2 sources, angles, ranges and depths |
| `kraken_modes` | spectra, searches and refinement | 427k | 3 eigenvalues in and around the limits, 3 meshes, 3 halvings, root limit 2 |
| `kraken_modes_exiting` | finding | small | 2 eigenvalues in a fluid |
| `kraken_command` | export and run from files and documents | 77k | profiles with up to two records changed, 1 to 3 profiles under every field file, two coupled profiles on every grid of 4 to 7 samples with 1 or 2 interfaces, 3 formats in 11 quotas |

Why the bounds suffice: interference between writers needs two writers, and a
second publication by one to meet what its first, or the other's crash, left
behind; orders of moves, links and restorations need two files and the
manifest; a third caller is needed in
`FilePublication` for a name freed by one and reserved by another while a third
still looks. One worker and three requests give a holder, a first and a second
in the queue of the slot, and on the route of the first simulation a holder and one
that waits; what is wrong with the third differs. A ray of `receiver_sweep` may move between any two positions at
each of unboundedly many steps; four receivers are a first, a last and two
between. A ray of eight states reflects up to three times, at both boundaries and
in the corner of a slope, overshoots, shifts and runs into its limit; a
smallest step of 2 with a base of 5 gives full, cut and smallest steps. One tick distinguishes before and at the deadline.
Two changed records in one file let one defect hide another, or
not; the parsers are sequential, so a third would only repeat one of them.
Two sources, depths and ranges tell the orders of a writer apart. Three
eigenvalues give a first, a last and one between, or two at one place; a root limit of
2 is below their number. Two interfaces are needed to share a sample, and seven
samples give each two of its own; three profiles give a march a stretch
that is neither first nor last. The quotas of `kraken_command` end before, at and after each product. In
`directory_shared` one content is at the quota by itself and above it with the
manifest. A `Spacing` of 1024 makes some densities come back as they were and some beside;
the least density is 900, so that 1000 times it is at `Overflow` already.
Beyond the bounds the theorems speak.

Deadlock is not an error in these runs: all publications may be done, all
requests may have ended, a ray ends.

Fairness. `Terminates` assumes that a writer that is not killed is scheduled;
every one of its calls returns. `EveryRequestEnds` assumes what tokio does by
itself: the clock, handing out of permits, delivery of answers and timeouts.
`Terminates` is checked with other programs adding files, in the fair form of
`CrowdedSpec`. `WalkEnds` assumes that a loop that can go on does.
That a modal solve ends is `Nearer`, which needs no fairness but a variant:
every step lowers a triple of naturals, so a solve that is scheduled ends.
Nothing is assumed of clients or of simulations. `ShutdownEnds` has in its
premise that simulations end.

## Proofs

* Lock exclusion, type correctness and ownership of scratch hold under
  `OpenSpec`, for all writers and names. The inductive invariant
  `OwnershipInv` says what each program counter implies about `owned` and
  that one writer at most owns anything. It does not depend on what is in the
  output, which is why other programs cannot break it.
* `NothingLost` and `Atomic` (the refinement of `ResultDirectory`) hold under
  `Spec`. `AtomicInv` adds `Progress(w)`: for each program counter, what of
  the previous and the new group is where. It is needed because neither
  property says what a rollback will find.
* `CommitMarker` and `UnrelatedKept` hold under `CrowdedSpec`, among programs that
  add files at any time. `MarkerInv` adds `Marking(w)` to the ownership: what a
  writer has linked is in the output as it was staged until it takes it back, what
  it moves away are files of the previous group, and the manifest is still to be
  linked for as long as anything is. A file that appears meanwhile cannot be one of
  them, because a name that is linked is taken.
* `CompleteOnly`, `DestinationKept`, `ScratchOwned`, `HonestAnswer` hold for
  disciplined callers by `PublishInv`: who holds the name of the scratch, what
  has been closed before installation, and what was published by whom.
* `Conservation`, `TypeOK`, `WorkEarned`, `AnswersStand` of the service by
  `ServiceInv`, where `Story(r)` ties the stage of a request to its work, reply
  and checks; `Conservation` needs finitely many requests, which is assumed.
* `IndexInTable`, `SegmentsSwept` and `MetAtFirstPassage` hold for every table
  and every ray. `SweepInv` keeps the index of the Cartesian walk adjacent to
  the end of the last segment (no receiver between the two) and says what
  the receivers already walked past have got; without adjacency a ray that turns
  between two receivers would lose or repeat one. `PassageInv` says that the
  receivers before a simple Gaussian's index are those its ray has got past.
* `ReceiversPassed` says the same of the beams that look up an index for each end
  of a segment. `PassedInv` says which receivers between the two indices are done
  (`Marked`); that these are the ones inside the segment needs the index of a
  place in an evenly spaced table, for tables of any length (`EvenTable`).
* `RayTypes`, `RaysAdvance`, `RaysContained` and `BouncesAlternate` hold for every
  water, step, rounding below the smallest step, and number of states. Types are
  inductive once `TypeInv` adds that a ray which is to step or to reflect has room
  for one more state. The other two rest on `FlatInv`: whoever is at or beyond a
  level boundary at the start of a step heads inward; whoever is to be
  reflected has just crossed the boundary it heads for; whoever was outside is
  back within twice the rounding; the heading says which bounce is next.
  `StepReaches` is the geometric fact: a step that is not the smallest ends at the
  boundary ahead or before it.

* `KnotsNotPassed`: a step passes no layer, range or corner. `Following` is what it
  needs: the segments a ray carries hold the place where it is, on both sides.
  The proof found the property false as it had stood: it claimed ranges in every
  water, and a shift over a shaped boundary makes the code step over them (above).
  `TerminationTruthful`: `Reasons` ties each termination to what the last states
  show, `Pending` keeps it `StepLimit` until then.
* `Bracketing` and `Nearer` of a modal solve hold for any number of eigenvalues and
  wherever a finer mesh moves them. `SolveInv` adds to the brackets where each
  search is and how many roots it has. That a probe made for one root spoils no
  other bracket is `SplitInv`; that a finer mesh never has more secants to run than
  roots were found bounds them (`AcceptInv`). `Nearer` then follows action by
  action from the triple meshes and stages, roots, halvings.
* `NoRootMissed`: a search with counts finds every eigenvalue of its limits once, in
  order. `SpectrumInv` carries, for bisections, how narrow each interval is by now
  (`Narrowing`), for brackets, that each is closed on the next (`BracketsClosed`),
  and for both that what was found is a beginning of the spectrum (`Found`).
  `GridAssumption` is what the code's 64 and 50 halvings are there for: they come
  down to neighbouring places of the axis, by widths each at most twice the next.
* `ColumnsAligned`: `Widths` says how long roots, columns and shapes of each mesh
  are, whatever happens; `OneModeEach` that in a fluid column `m` is of mode `m` on
  every mesh until an eigenvalue crosses the upper limit, from which one follows
  `Richardson` through the table. After such a crossing only the lengths are claimed.
* `InputsConsumed`: what a case was made of is what was read. `Consumption` follows the
  auxiliary files one at a time: those read so far are those understood so far,
  unless an error was reported, which refuses the case. It needs that no reader
  forgets a diagnostic, and that a reader which understood nothing reported
  something; both are lemmas about every parser of `BellhopInput`.
* `AcceptedUsable`: `Soundness` says that a definition stands only after the checks of
  `case.rs`, and `Sufficient` follows from their having reported nothing.
* `CasesRetain`: `Retained` holds of every case that a command accepts and simulates.
  `AddedKeeps`, `RaisedKeeps` and `ReplacedKeeps` say of one receiver what each
  kind of arrival does to it, the inductive part being that a receiver with room
  has turned nothing away; `Held` says that the counter is the sum of what all receivers
  of all sources store (`Tallied`), which gives the limit. `Simulating` ties this to the
  case: a run has the job of the accepted case, and such a job has lists of sources,
  ranges, depths and angles and at least one source and one angle. That they are lists is
  followed through readers, sorting and expansion (`SortedListed`, `ExpandedListed`);
  that they are not empty is `AcceptedUsable`. `ArrivalsRetained` is the same of a
  run by itself (`RunSpec`), for every such job.
* `FilesReported`: what a command says of files is what is to be said of them, once.
  `Telling` describes the report halfway: what the parser warned of, then one
  diagnostic for each auxiliary file that was read and failed. It needs that no parser
  repeats itself or says what a check says (`ParserWarnings`, `Finding`), that no file
  is asked for twice (`AskedDistinct`), and that a diagnostic carries what it is of.
* `ExportsReturn`: a document that was printed is read again exactly when the depths of
  half-spaces and all densities in kg/m3 are finite (`LegibleExport`: all other
  numbers of an accepted case are, by the checks or by the readers), and then as the
  case it is of. `DensityReturned` is the arithmetic of the two roundings.
  `Carrying` says what is known of a case when it is judged: `Content` gives each record
  that a reader understood its fields (`Knows`, followed through every parser), so that
  `IntoCase` undoes `Export` field by field; that the checks of a document find nothing
  in it that the checks of the case did not is shown check by check.
* `ResultsReadBack` of BELLHOP: a reader of its files finds what the simulation left.
  `Gridded` says that a source that is done has every receiver of the grid, each at its
  place with its range and depth (`Located`), and that every ray is an angle and a
  number of points. A text file has no records, so that a reader is a walk (`Walk`),
  each place found from the number that stands at the last; a writer's offsets are sums
  of lengths. `WalkKnown` says that a walk is whatever begins where it does and goes on
  as it does; the offsets of the lists that were strung together do (`FlatPlaces`,
  `PartsStrung`), first for the axes, then for the lists of one source (`ListsRead`),
  then source by source (`ArrivalsRead`), and for rays to the end of the file. That the
  reader's receiver is the solver's is arithmetic of two orders of a grid (`EvenFlat`),
  which the transposition of `ArrivalOrder` and of `FieldRows` has to undo. HDF5 groups
  are cut at their offsets (`ReceiversBack`).
* `CasesExport`: every accepted KRAKEN case may be exported, and its document is accepted
  again. `Sized` carries the types of all profiles that have been read and that what
  the load has charged is no less than what the document is charged (`Charge` against
  `InputValues`, profile by profile), for files, bands of frequencies and documents alike.
* `ResultsWithin`: `Ledger` is the account of a run halfway through a frequency: what
  datasets, MOD and SHD files and the report have taken, and what is still to be
  allowed. The quota that a native file is opened with is what remains at that point, so
  that no file passes it while it is written.
* `ResultsReadBack`: a reader of the MOD and SHD files finds what was solved. `Sounding`
  says that every profile that is solved has a mode and that each sample a march has made
  is at the place of its source, depth and range (`Heard`; `PlaceAt` and `PlacesApart`
  are the arithmetic of those places). The records of a profile are as many as a reader
  expects and none is too long (`ProfileRecords`: writer and reader count the records
  of the wavenumbers in different ways, and agree because a record has an even number of
  words); records that fit are kept in order (`RecordsKept`), those of several
  profiles one after the other (`FlatPlaces`); the reader then comes from profile to
  profile to where each begins (`ModesRead`, `ModRead`), and to each row of
  pressures (`ShdRead`).
* `WayMarched`: at every receiver the modes were advanced by the whole way from the
  source, piece by piece, each in its stretch. `Marching` keeps a march between the
  start of its stretch and the nearer of receiver and next boundary; that
  stretches follow one another, and receivers too, is what an accepted field
  is checked for, so `Acceptance` follows every profile from the file or document
  that it came from through the checks to the solver.
* `TablesDiscovered`: discovery and load read the same file, but stop for different
  reasons, the one at its end and the other after as many profiles as the field
  file names. `Tracing` says that there is a trail of readings, each the outcome of
  parsing the one before it; discovery stands at its end, the load at a place on
  it, and each has gathered what the profiles before its place ask for. A reader at the
  end of its records understands nothing (`NothingUnderstood`), so the load cannot
  pass the end of the trail; it accepts nothing when records are left, so it
  cannot stop before. Hence what it has used is what was read.
* `QuadratureExact`: the code gives a sample one correction for one interface, and that
  is the integral for any two neighbouring profiles of an accepted field, with any
  number of media and samples. `Acceptance` gives each profile its checks. From
  them, `Stencils`: no two interfaces lie between a sample and the next, which is
  what `StencilsResolved` is for, although it compares only counts of samples
  (`AbovePlace` turns a count into a place). Then the medium that the code follows, one
  interface at a sample, is the one that the sample lies in (`FollowedMedium`, by
  induction over the samples), and a weight is an integral over one medium or over
  two beside one another (`IntegralIn`, `Weighed`). The union of both grids is a fold,
  whose value `GridShape` gives: the samples of the next profile and, rising, the
  deeper ones of the last.

Assumptions on constants are those named in the modules: shapes of the tables, that
rounding is less than the smallest step, `GridAssumption`, finitely many requests of
the service, a quota and sizes that are natural numbers (`QuotaAssumption`), that 1000 times a
density is rounded to 512 or 1024 of its last places, as a double is
(`DensityAssumption`), records long enough for the headers of their format
(`NativeRecordsAssumption`, `KrakenWritersAssumption`: the code's 41 and 32 words are; the
mark for no quota is no number), and that requests of the two commands are what
a command line can give (`RequestsAssumption`: a document or files; of a document, what
its schema gives, so that lists of numbers are sequences of integers, points and
materials have their three fields, and an option is there or not). Of files nothing is
assumed but that they are sequences of lines.

Only model-checked: liveness (`Terminates`, `EveryRequestEnds`, `ShutdownEnds`,
`WalkEnds`) and anything with `ENABLED`, which TLAPS' provers do not handle. Every
invariant and every action property of a passing run is a theorem.
Folds and flattenings *are* reasoned about where a theorem needs them: a fold of the
community modules has a value once the recursive function behind it is shown to
exist, which `BellhopCommand_proofs` does for several of them by induction over a
set of indices and `KrakenCommand_proofs` for the grid of two profiles, for records and
for lists strung together. `SortSeq`,
`SelectSeq` and `@@` cannot be expanded by the prover; `Sorted` says which positions a
sorted list has, so that its length is known although its order is not.
Type correctness of the proved modules, `FilePublication`'s, `NothingLost` among
other programs and `Advancing` (every step of a ray goes forward) are proved and no
longer run. No module declares a RECURSIVE operator.

## Findings

* `file_overwriting`: with `--overwrite`, `TemporaryOutput::drop` removes
  `<output>.tmp` by name after a successful rename has freed the name for
  another process. Two overwriting processes and three calls suffice for an
  unfinished file to be installed and reported as a success.
* `service_deadline`: the timeout is documented as end to end, including the
  wait for a worker; the wait for the route's concurrency permit precedes the
  start of its clock.
* `kraken_modes_exiting`: when an eigenvalue leaves at the upper limit on a finer mesh,
  `advance` drops the shape and columns of the last mode, which survives, and keeps
  those of the first, which does not. Its comment says that the surviving ones are
  kept.

A third disagreement needs no run of its own, since `RoundTrip` says exactly where it is
(`Readable`): the guide (`docs/bellhop/json.md:73`) says that the command line accepts an
exported document wherever it accepts an environment file. The depth of a half-space is
read with `parse_f64`, which takes NaN and infinity, and `case.rs` never checks it; such a
case is accepted and simulated, but its document holds `"depth_m": null` and is refused as
malformed. A density that overflows in kg/m3 does the same.

## Plan

The modules were written in the order of what matters most: publication and its
atomicity, the service, the walks over receivers, one ray, the run with its
limits, modes and refinement, the field and its march, records and writers, and
the two readers around them. What is left:

* KRAKEN's mode shapes and the interpolation between their samples, which the march
  uses but does not follow;
* curvilinear boundaries in `RayTracing`.

Composition stays at the interfaces: a solver is a closure to the service and to
the publication modules, which already model every outcome it may have; the two
command modules compose reader, judge, solver and writers.

## Not modelled

By choice: amplitudes, interpolation, dispersion functions and other
floating-point results (data a bounded model cannot judge); characters, wording
and layout of text; argument parsing; OpenAPI documents and the serializer's
buffer; tests and benchmarks. Of the input: the size limit of a file, units of
angles and levels in BELLHOP, extremes of a spline between nodes and the mesh totals
of elastic layers in KRAKEN, depths that single precision rounds onto one
another, titles, the last place of a phase that goes from degrees to radians and back.
What a ray does with segments that a beam shift has left stale over a shaped boundary
has no property (only that they stay within their tables is proved), nor has the
early return of the frequency scan, which is a guard of `NextFrequency`. Of the output: the physical size of an HDF5 file and its
attributes, the scaling by a source pattern.
