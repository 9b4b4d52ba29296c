------------------------ MODULE DirectoryPublication ------------------------
(****************************************************************************)
(* Writers that publish file groups into one shared result directory:      *)
(* directory::publish and its Transaction (crates/output/src/directory.rs).*)
(*                                                                         *)
(* Every writer is a process of its own that knows the others only through *)
(* the file system.  pc names the system call (or the run of calls nobody  *)
(* can tell apart under the lock) the writer is about to make; any of them *)
(* may fail, and a writer may die before any of them.  What a dead writer  *)
(* left on disk stays there.                                               *)
(*                                                                         *)
(* Environment is the doing of programs that do not honour the lock: they  *)
(* add, replace and remove directory entries at any moment.                *)
(****************************************************************************)
EXTENDS ResultFiles

CONSTANTS
  Writers,      \* processes that publish into the directory
  MaxRuns,      \* bound: publications a writer starts
  MaxForeign    \* bound: entries changed by programs outside the protocol

ASSUME BoundsAssumption == MaxRuns \in Nat /\ MaxForeign \in Nat

VARIABLES
  dirs,         \* which of the directories exist
  out,          \* the regular files of the result directory
  stage,        \* the regular files of .pelagic-stage
  backup,       \* the regular files of .pelagic-backup
  pc,           \* where each writer stands
  created,      \* Transaction.created_output
  owned,        \* Transaction.owned
  retain,       \* Transaction.retain: set, or about to be (a failed rollback)
  old,          \* the manifest read by install, or NoFile
  todo,         \* files the current loop of install has still to visit
  target,       \* the file verified last
  moved,        \* files renamed into the backup and not yet restored
  installed,    \* files linked into the output and not yet uninstalled
  base,         \* history: the output when the lock was last taken
  committed,    \* history: the new manifest was linked since then
  runs,         \* publications started by each writer
  foreign       \* entries changed from outside

disk == <<dirs, out, stage, backup>>
transaction == <<created, owned, retain, old, todo, target, moved, installed>>
history == <<base, committed>>
bounds == <<runs, foreign>>
vars == <<disk, pc, transaction, history, bounds>>

Scratch == {"lock", "stage", "backup"}
AllDirs == Scratch \cup {"output"}

Labels == {"idle", "mkdir", "controls", "lock", "stage", "write", "validate",
           "seal", "backup", "move", "rename", "link", "commit", "uninstall",
           "unlink", "restore", "drop"}

(* What a writer and Seal put into the scratch.                            *)
Products == {d \in Directories : \A f \in Files : d[f] \notin {InputFile, Foreign}}

TypeOK ==
  /\ dirs \subseteq AllDirs
  /\ out \in Directories /\ stage \in Products /\ backup \in Directories
  /\ pc \in [Writers -> Labels]
  /\ created \in [Writers -> BOOLEAN]
  /\ owned \in [Writers -> SUBSET Scratch]
  /\ retain \in [Writers -> BOOLEAN]
  /\ old \in [Writers -> Groups \cup {NoFile}]
  /\ todo \in [Writers -> SUBSET Files]
  /\ target \in [Writers -> Files]
  /\ moved \in [Writers -> SUBSET Files]
  /\ installed \in [Writers -> SUBSET Files]
  /\ base \in Directories
  /\ committed \in BOOLEAN
  /\ runs \in [Writers -> 0 .. MaxRuns]
  /\ foreign \in 0 .. MaxForeign

Init ==
  /\ \/ dirs = {} /\ out = EmptyDirectory
     \/ dirs = {"output"} /\ out \in Directories
  /\ stage = EmptyDirectory /\ backup = EmptyDirectory
  /\ pc = [w \in Writers |-> "idle"]
  /\ created = [w \in Writers |-> FALSE]
  /\ owned = [w \in Writers |-> {}]
  /\ retain = [w \in Writers |-> FALSE]
  /\ old = [w \in Writers |-> NoFile]
  /\ todo = [w \in Writers |-> {}]
  /\ target = [w \in Writers |-> MANIFEST]
  /\ moved = [w \in Writers |-> {}]
  /\ installed = [w \in Writers |-> {}]
  /\ base = out
  /\ committed = FALSE
  /\ runs = [w \in Writers |-> 0]
  /\ foreign = 0

-----------------------------------------------------------------------------
(* Control flow.                                                           *)

At(w, label) == pc[w] = label
Goto(w, label) == pc' = [pc EXCEPT ![w] = label]

(* An error before anything was moved: `?` returns and Drop cleans up.     *)
Abandon(w) == Goto(w, "drop")

(* A writer about to leave publish (Drop done, or nothing to drop) forgets *)
(* its Transaction; so does one that dies.                                 *)
Forget(w) ==
  /\ Goto(w, "idle")
  /\ created' = [created EXCEPT ![w] = FALSE]
  /\ owned' = [owned EXCEPT ![w] = {}]
  /\ retain' = [retain EXCEPT ![w] = FALSE]
  /\ old' = [old EXCEPT ![w] = NoFile]
  /\ todo' = [todo EXCEPT ![w] = {}]
  /\ target' = [target EXCEPT ![w] = MANIFEST]
  /\ moved' = [moved EXCEPT ![w] = {}]
  /\ installed' = [installed EXCEPT ![w] = {}]

(* create_dir refuses an existing entry; a mutant adopts it, as            *)
(* create_dir_all would.                                                   *)
CreateDirAll(dir) == dirs' = dirs \cup {dir}
CreateDir(dir) == dir \notin dirs /\ dirs' = dirs \cup {dir}

(* hard_link needs its source and refuses an existing destination; a mutant*)
(* replaces it, as rename would.                                           *)
RenameOver(file, f) == file # NoFile /\ out' = [out EXCEPT ![f] = file]
HardLink(file, f) ==
  /\ file # NoFile /\ out[f] = NoFile
  /\ out' = [out EXCEPT ![f] = file]

Own(w, dir) == owned' = [owned EXCEPT ![w] = @ \cup {dir}]
Disown(w, dir) == owned' = [owned EXCEPT ![w] = @ \ {dir}]

-----------------------------------------------------------------------------
(* Transaction::begin.                                                     *)

Begin(w) ==
  /\ At(w, "idle") /\ runs[w] < MaxRuns
  /\ runs' = [runs EXCEPT ![w] = @ + 1]
  /\ IF "output" \in dirs THEN Goto(w, "controls") ELSE Goto(w, "mkdir")
  /\ UNCHANGED <<disk, transaction, history, foreign>>

(* Between symlink_metadata and create_dir another writer may have created *)
(* the directory: create_dir refuses, and nothing is dropped yet.          *)
CreateOutput(w) ==
  /\ At(w, "mkdir")
  /\ \/ /\ CreateDir("output")
        /\ created' = [created EXCEPT ![w] = TRUE]
        /\ Goto(w, "controls")
        /\ UNCHANGED <<owned, retain, old, todo, target, moved, installed>>
     \/ Forget(w) /\ UNCHANGED dirs
  /\ UNCHANGED <<out, stage, backup, history, bounds>>

(* The transaction does not exist yet, so an error leaves a directory just *)
(* created where it is.                                                    *)
ProtectControls(w) ==
  /\ At(w, "controls")
  /\ \/ out[MANIFEST] # InputFile /\ Goto(w, "lock") /\ UNCHANGED transaction
     \/ Forget(w)
  /\ UNCHANGED <<disk, history, bounds>>

(* Mutant: the lock is pushed on owned before it is created.               *)
TakeLockEager(w) ==
  /\ At(w, "lock")
  /\ Own(w, "lock")
  /\ \/ /\ "output" \in dirs /\ CreateDir("lock")
        /\ base' = out /\ committed' = FALSE
        /\ Goto(w, "stage")
     \/ Abandon(w) /\ UNCHANGED <<dirs, history>>
  /\ UNCHANGED <<out, stage, backup, created, retain, old, todo, target,
                 moved, installed, bounds>>

TakeLock(w) ==
  /\ At(w, "lock")
  /\ \/ /\ "output" \in dirs /\ CreateDir("lock")
        /\ Own(w, "lock")
        /\ base' = out /\ committed' = FALSE
        /\ Goto(w, "stage")
     \/ Abandon(w) /\ UNCHANGED <<dirs, owned, history>>
  /\ UNCHANGED <<out, stage, backup, created, retain, old, todo, target,
                 moved, installed, bounds>>

ReserveStage(w) ==
  /\ At(w, "stage")
  /\ \/ /\ "backup" \notin dirs /\ CreateDir("stage")
        /\ Own(w, "stage")
        /\ Goto(w, "write")
     \/ Abandon(w) /\ UNCHANGED <<dirs, owned>>
  /\ UNCHANGED <<out, stage, backup, created, retain, old, todo, target,
                 moved, installed, history, bounds>>

(* The caller's writer: it fills the scratch with a group, or fails having *)
(* written part of one.                                                    *)
Write(w) ==
  /\ At(w, "write")
  /\ \E group \in Groups :
       stage' = [f \in Files |-> IF f \in DOMAIN group THEN group[f] ELSE NoFile]
  /\ Goto(w, "validate") \/ Abandon(w)
  /\ UNCHANGED <<dirs, out, backup, transaction, history, bounds>>

-----------------------------------------------------------------------------
(* Transaction::install, up to the first move.                             *)

StagedNames == {n \in Names : stage[n] # NoFile}
StagedGroup == [n \in StagedNames |-> stage[n]]

Protected(file) == file # InputFile

(* verify(), with missing_ok; a mutant that trusts every file.             *)
UnmodifiedAlways(file, expected) == TRUE
Unmodified(file, expected) == file = NoFile \/ Bytes(file) = expected

(* Everything that can be refused is refused before any previous product   *)
(* is touched: an unreadable manifest, a modified or aliased old artifact, *)
(* an unrelated file under a new name.                                     *)
Validate(w) ==
  /\ At(w, "validate")
  /\ \/ /\ out[MANIFEST] \in Groups \cup {NoFile}
        /\ \A n \in OwnedNames(out) :
             Protected(out[n]) /\ Unmodified(out[n], out[MANIFEST][n])
        /\ \A n \in StagedNames :
             Protected(out[n]) /\ (out[n] = NoFile \/ n \in OwnedNames(out))
        /\ old' = [old EXCEPT ![w] = out[MANIFEST]]
        /\ Goto(w, "seal")
     \/ Abandon(w) /\ UNCHANGED old
  /\ UNCHANGED <<disk, created, owned, retain, todo, target, moved, installed,
                 history, bounds>>

(* check_quota: whatever the scratch holds is counted, the manifest as any *)
(* other file.                                                             *)
OverQuota(d) == Size(d) > Maximum
Sealed == [stage EXCEPT ![MANIFEST] = StagedGroup]

(* Mutant: the quota is checked before the manifest is written.            *)
SealUncounted(w) ==
  /\ At(w, "seal")
  /\ \/ ~OverQuota(stage) /\ stage' = Sealed /\ Goto(w, "backup")
     \/ stage' \in {stage, Sealed} /\ Abandon(w)
  /\ UNCHANGED <<dirs, out, backup, transaction, history, bounds>>

(* The new manifest joins its artifacts in the scratch before the quota is *)
(* checked and everything is synced.                                       *)
Seal(w) ==
  /\ At(w, "seal")
  /\ \/ ~OverQuota(Sealed) /\ stage' = Sealed /\ Goto(w, "backup")
     \/ stage' \in {stage, Sealed} /\ Abandon(w)
  /\ UNCHANGED <<dirs, out, backup, transaction, history, bounds>>

OldFiles(w) ==
  IF old[w] = NoFile THEN {} ELSE DOMAIN old[w] \cup {MANIFEST}

Expected(w, f) == IF f = MANIFEST THEN old[w] ELSE old[w][f]

MakeBackup(w) ==
  /\ At(w, "backup")
  /\ \/ /\ CreateDir("backup")
        /\ Own(w, "backup")
        /\ todo' = [todo EXCEPT ![w] = OldFiles(w)]
        /\ Goto(w, "move")
     \/ Abandon(w) /\ UNCHANGED <<dirs, owned, todo>>
  /\ UNCHANGED <<out, stage, backup, created, retain, old, target, moved,
                 installed, history, bounds>>

-----------------------------------------------------------------------------
(* Transaction::install, the installation.                                 *)

(* Both loops visit the artifacts and then the manifest.  The order of the *)
(* artifacts is the manifest file's own, so any order is possible.         *)
(* Mutant: the manifest is a file like any other.                          *)
VisitsAnyOrder(w, f) == f \in todo[w]
Visits(w, f) == f \in todo[w] /\ (f = MANIFEST => todo[w] = {MANIFEST})

Visited(w, f) == todo' = [todo EXCEPT ![w] = @ \ {f}]

(* Mutants: an error only drops the scratch; a rename is tried again.      *)
StartRollbackNever(w) == Abandon(w) /\ UNCHANGED todo
StartRollbackRetry(w) ==
  IF At(w, "rename") THEN Goto(w, "move") /\ UNCHANGED todo
  ELSE Goto(w, "uninstall") /\ todo' = [todo EXCEPT ![w] = {}]
StartRollback(w) ==
  /\ Goto(w, "uninstall")
  /\ todo' = [todo EXCEPT ![w] = {}]

(* protect and verify once more, just before the move.                     *)
VerifyOld(w) ==
  /\ At(w, "move")
  /\ \E f \in Files :
       /\ Visits(w, f)
       /\ \/ out[f] = NoFile /\ Visited(w, f) /\ UNCHANGED <<pc, target>>
          \/ /\ out[f] # NoFile /\ Protected(out[f])
             /\ Unmodified(out[f], Expected(w, f))
             /\ target' = [target EXCEPT ![w] = f]
             /\ Goto(w, "rename")
             /\ UNCHANGED todo
          \/ StartRollback(w) /\ UNCHANGED target
  /\ UNCHANGED <<disk, created, owned, retain, old, moved, installed, history,
                 bounds>>

(* rename takes whatever stands under the verified name by now.            *)
MoveOld(w) ==
  /\ At(w, "rename")
  /\ LET f == target[w] IN
     \/ /\ out[f] # NoFile
        /\ backup' = [backup EXCEPT ![f] = out[f]]
        /\ out' = [out EXCEPT ![f] = NoFile]
        /\ moved' = [moved EXCEPT ![w] = @ \cup {f}]
        /\ Visited(w, f)
        /\ Goto(w, "move")
     \/ StartRollback(w) /\ UNCHANGED <<out, backup, moved>>
  /\ UNCHANGED <<dirs, stage, created, owned, retain, old, target, installed,
                 history, bounds>>

AllMoved(w) ==
  /\ At(w, "move") /\ todo[w] = {}
  /\ todo' = [todo EXCEPT ![w] = StagedNames \cup {MANIFEST}]
  /\ Goto(w, "link")
  /\ UNCHANGED <<disk, created, owned, retain, old, target, moved, installed,
                 history, bounds>>

(* hard_link never replaces a destination that appeared meanwhile.  The    *)
(* manifest comes last and is the commit marker.                           *)
Link(w) ==
  /\ At(w, "link")
  /\ \E f \in Files :
       /\ Visits(w, f)
       /\ \/ /\ HardLink(stage[f], f)
             /\ installed' = [installed EXCEPT ![w] = @ \cup {f}]
             /\ Visited(w, f)
             /\ committed' = (f = MANIFEST)
             /\ Goto(w, IF f = MANIFEST THEN "commit" ELSE "link")
          \/ StartRollback(w) /\ UNCHANGED <<out, installed, committed>>
  /\ UNCHANGED <<dirs, stage, backup, created, owned, retain, old, target,
                 moved, base, bounds>>

(* A directory tree whose removal failed half way keeps some of its files. *)
Leftover(tree) ==
  {[f \in Files |-> IF f \in kept THEN tree[f] ELSE NoFile] :
     kept \in SUBSET Files}

RemoveBackup(w) ==
  /\ At(w, "commit")
  /\ \/ /\ dirs' = dirs \ {"backup"}
        /\ backup' = EmptyDirectory
        /\ Disown(w, "backup")
        /\ UNCHANGED retain
     \/ /\ backup' \in Leftover(backup)
        /\ retain' = [retain EXCEPT ![w] = TRUE]
        /\ UNCHANGED <<dirs, owned>>
  /\ Goto(w, "drop")
  /\ UNCHANGED <<out, stage, created, old, todo, target, moved, installed,
                 history, bounds>>

-----------------------------------------------------------------------------
(* Transaction::rollback.  A file that cannot be taken out or put back is  *)
(* reported and the others are still tried; a scratch file that cannot be  *)
(* fingerprinted ends the rollback at once.                                *)

(* Mutant: a rollback that failed cleans up like one that succeeded.       *)
KeepNothing(w) == UNCHANGED retain
KeepEverything(w) == retain' = [retain EXCEPT ![w] = TRUE]

VerifyInstalled(w) ==
  /\ At(w, "uninstall")
  /\ \E f \in installed[w] :
       \/ /\ Bytes(out[f]) = stage[f]
          /\ target' = [target EXCEPT ![w] = f]
          /\ Goto(w, "unlink")
          /\ UNCHANGED <<retain, installed>>
       \/ /\ KeepEverything(w)
          /\ installed' = [installed EXCEPT ![w] = @ \ {f}]
          /\ UNCHANGED <<pc, target>>
       \/ KeepEverything(w) /\ Goto(w, "drop") /\ UNCHANGED <<target, installed>>
  /\ UNCHANGED <<disk, created, owned, old, todo, moved, history, bounds>>

RemoveInstalled(w) ==
  /\ At(w, "unlink")
  /\ LET f == target[w] IN
     /\ \/ /\ out[f] # NoFile
           /\ out' = [out EXCEPT ![f] = NoFile]
           /\ UNCHANGED retain
        \/ KeepEverything(w) /\ UNCHANGED out
     /\ installed' = [installed EXCEPT ![w] = @ \ {f}]
  /\ Goto(w, "uninstall")
  /\ UNCHANGED <<dirs, stage, backup, created, owned, old, todo, target, moved,
                 history, bounds>>

AllUninstalled(w) ==
  /\ At(w, "uninstall") /\ installed[w] = {}
  /\ Goto(w, "restore")
  /\ UNCHANGED <<disk, transaction, history, bounds>>

(* Last moved, first restored: the manifest comes back before the files.   *)
Restore(w) ==
  /\ At(w, "restore")
  /\ \E f \in moved[w] :
       /\ MANIFEST \in moved[w] => f = MANIFEST
       /\ \/ HardLink(backup[f], f) /\ UNCHANGED retain
          \/ KeepEverything(w) /\ UNCHANGED out
       /\ moved' = [moved EXCEPT ![w] = @ \ {f}]
  /\ UNCHANGED <<dirs, stage, backup, pc, created, owned, old, todo, target,
                 installed, history, bounds>>

AllRestored(w) ==
  /\ At(w, "restore") /\ moved[w] = {}
  /\ Goto(w, "drop")
  /\ UNCHANGED <<disk, transaction, history, bounds>>

-----------------------------------------------------------------------------
(* Drop for Transaction.                                                   *)

DropRetained(w) ==
  /\ At(w, "drop") /\ retain[w]
  /\ Forget(w)
  /\ UNCHANGED <<disk, history, bounds>>

(* Owned scratch goes in reverse order of creation, the lock last.         *)
LastOwned(w) == IF "backup" \in owned[w] THEN "backup"
                ELSE IF "stage" \in owned[w] THEN "stage" ELSE "lock"

Tree(dir) == IF dir = "stage" THEN stage ELSE backup

(* A failed removal is a warning; the next scratch is removed all the same.*)
RemoveScratch(w) ==
  /\ At(w, "drop") /\ ~retain[w] /\ owned[w] # {}
  /\ LET dir == LastOwned(w) IN
     /\ dirs' \in {dirs, dirs \ {dir}}
     /\ stage' \in IF dir = "stage" /\ dir \in dirs' THEN Leftover(stage)
                   ELSE {IF dir = "stage" THEN EmptyDirectory ELSE stage}
     /\ backup' \in IF dir = "backup" /\ dir \in dirs' THEN Leftover(backup)
                    ELSE {IF dir = "backup" THEN EmptyDirectory ELSE backup}
     /\ Disown(w, dir)
  /\ UNCHANGED <<out, pc, created, retain, old, todo, target, moved, installed,
                 history, bounds>>

(* remove_dir succeeds only on a directory without any entry.              *)
RemoveOutput(w) ==
  /\ At(w, "drop") /\ ~retain[w] /\ owned[w] = {}
  /\ \/ created[w] /\ dirs = {"output"} /\ out = EmptyDirectory /\ dirs' = {}
     \/ UNCHANGED dirs
  /\ Forget(w)
  /\ UNCHANGED <<out, stage, backup, history, bounds>>

-----------------------------------------------------------------------------
(* What happens around the code.                                           *)

(* The process dies; nothing of it is left but its files.                  *)
Crash(w) ==
  /\ ~At(w, "idle")
  /\ Forget(w)
  /\ UNCHANGED <<disk, history, bounds>>

Appear(f) ==
  /\ "output" \in dirs /\ foreign < MaxForeign
  /\ out[f] = NoFile
  /\ \E file \in {Foreign, InputFile} : out' = [out EXCEPT ![f] = file]
  /\ foreign' = foreign + 1
  /\ UNCHANGED <<dirs, stage, backup, pc, transaction, history, runs>>

Replace(f) ==
  /\ "output" \in dirs /\ foreign < MaxForeign
  /\ out[f] # NoFile
  /\ \E file \in ContentKinds : out' = [out EXCEPT ![f] = file]
  /\ foreign' = foreign + 1
  /\ UNCHANGED <<dirs, stage, backup, pc, transaction, history, runs>>

-----------------------------------------------------------------------------
Advance(w) ==
  \/ CreateOutput(w)    \/ ProtectControls(w) \/ TakeLock(w)
  \/ ReserveStage(w)    \/ Write(w)           \/ Validate(w)
  \/ Seal(w)            \/ MakeBackup(w)      \/ VerifyOld(w)
  \/ MoveOld(w)         \/ AllMoved(w)        \/ Link(w)
  \/ RemoveBackup(w)    \/ VerifyInstalled(w) \/ RemoveInstalled(w)
  \/ AllUninstalled(w)  \/ Restore(w)         \/ AllRestored(w)
  \/ DropRetained(w)    \/ RemoveScratch(w)   \/ RemoveOutput(w)

Next == \E w \in Writers : Begin(w) \/ Advance(w) \/ Crash(w)

(* Only writers that honour the lock.                                      *)
Spec == Init /\ [][Next]_vars

(* Other programs add files to the directory.                              *)
CrowdedSpec == Init /\ [][Next \/ \E f \in Files : Appear(f)]_vars

(* Other programs add, replace and remove files of the directory.          *)
Environment == \E f \in Files : Appear(f) \/ Replace(f)
OpenSpec == Init /\ [][Next \/ Environment]_vars

(* A writer that is not killed is scheduled again and again, whatever other *)
(* programs add meanwhile.                                                 *)
FairSpec == CrowdedSpec /\ \A w \in Writers : WF_vars(Advance(w))

-----------------------------------------------------------------------------
(* Properties.                                                             *)

Holds(w) == "lock" \in owned[w]

Outside == {"idle", "mkdir", "controls", "lock"}

(* Two writers are never both inside a transaction: .pelagic-lock is taken *)
(* by create_dir, which refuses an existing directory, and is the last     *)
(* scratch to be dropped.  A writer past it still holds it, or is dropping *)
(* the nothing it owns.                                                    *)
LockExclusive ==
  \A v, w \in Writers :
    /\ owned[v] # {} /\ owned[w] # {} => v = w
    /\ pc[w] \notin Outside \cup {"drop"} => Holds(w)
    /\ Holds(w) => "lock" \in dirs

(* Until the new manifest is in place every file of the previous group is  *)
(* where it was or in the backup, at every moment a failure or a crash may *)
(* make final.                                                             *)
NothingLost ==
  "lock" \in dirs /\ ~committed =>
    \A f \in Files : base[f] \in {NoFile, out[f], backup[f]}

(* The manifest is the commit marker: once it is linked, everything it     *)
(* names is there as it was written, whatever other programs add.          *)
CommitMarker ==
  "lock" \in dirs /\ committed =>
    \A f \in OwnedNames(out) : out[f] = out[MANIFEST][f]

(* Scratch belongs to the transaction that created it: nobody else fills,  *)
(* empties or removes a stage, a backup or a lock it finds there, and what *)
(* exists is never adopted.                                                *)
Disturbed(dir) ==
  \/ dir \in dirs /\ dir \notin dirs'
  \/ dir \in {"stage", "backup"} /\ Tree(dir)' # Tree(dir)

ScratchExclusive ==
  [][\A dir \in Scratch :
       /\ Disturbed(dir) => \E w \in Writers : dir \in owned[w] /\ Holds(w)
       /\ dir \in dirs => \A w \in Writers : dir \in owned'[w] => dir \in owned[w]]_vars

(* A file another program added, or an alias of an input, is never moved,  *)
(* replaced or removed by a publication, however late it appears.          *)
UnrelatedKept ==
  [][\A f \in Files : out[f] \in {Foreign, InputFile} => out'[f] = out[f]]_vars

(* Every publication comes to an end, whichever of its calls fail.         *)
Terminates == \A w \in Writers : ~At(w, "idle") ~> At(w, "idle")

(* The directory its keepers rely on: what was there before the lock was   *)
(* taken, until the new manifest is linked.                                *)
Settled == IF "lock" \in dirs /\ ~committed THEN base ELSE out

Publication == INSTANCE ResultDirectory WITH result <- Settled

(* A publication, with all its steps, failures and crashes, is one atomic  *)
(* replacement of the owned group or none at all.                          *)
Atomic == Publication!Spec
=============================================================================
