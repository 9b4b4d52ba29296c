-------------------------- MODULE FilePublication --------------------------
(****************************************************************************)
(* Concurrent calls that publish one HDF5 file under the same name:        *)
(* publication::publish and its TemporaryOutput                            *)
(* (crates/output/src/publication.rs).                                     *)
(*                                                                         *)
(* A file is an inode, told apart from the names it has.  A call writes    *)
(* through the handle it got from create_excl, but measures, syncs,        *)
(* installs and removes its scratch by name: what the name `<output>.tmp`  *)
(* stands for at that moment.                                              *)
(****************************************************************************)
EXTENDS Naturals, FiniteSets

CONSTANTS
  Callers,      \* threads or processes that may call publish
  MaxCalls,     \* bound: calls of each of them
  NoFile,       \* the target of a name with no file
  Previous,     \* a complete file from an earlier time
  InputFile,    \* a consumed input, or an alias of one
  Foreign       \* a file another program put under the output's name

ASSUME CallsAssumption == MaxCalls \in Nat

VARIABLES
  callers,      \* the callers that take part
  overwriting,  \* those of them that pass overwrite = true
  pc,           \* where each call stands
  calls,        \* calls begun by each caller
  tmp,          \* the inode named <output>.tmp
  output,       \* the inode named <output>
  complete,     \* inodes that were written, flushed and closed
  answer        \* what the caller's latest call will return

setup == <<callers, overwriting>>
vars == <<setup, pc, calls, tmp, output, complete, answer>>

(* The inode created by the current call of a caller.                      *)
Scratch(c) == <<c, calls[c]>>
Inodes == Callers \X (1 .. MaxCalls)
OldFiles == {Previous, InputFile, Foreign}

ASSUME FilesAssumption ==
  /\ NoFile \notin OldFiles /\ NoFile \notin Inodes
  /\ OldFiles \cap Inodes = {}
  /\ InputFile \notin {Previous, Foreign}

(* Where a call stands between the reservation and the end of its closure. *)
Reserved == {"write", "close", "measure", "sync", "install"}
Labels == Reserved \cup {"idle", "create", "drop"}

TypeOK ==
  /\ callers \subseteq Callers /\ overwriting \subseteq callers
  /\ pc \in [Callers -> Labels]
  /\ calls \in [Callers -> 0 .. MaxCalls]
  /\ tmp \in Inodes \cup {NoFile}
  /\ output \in Inodes \cup OldFiles \cup {NoFile}
  /\ complete \subseteq Inodes
  /\ answer \in [Callers -> {"none", "ok", "error"}]

Init ==
  /\ callers \in SUBSET Callers /\ overwriting \in SUBSET callers
  /\ pc = [c \in Callers |-> "idle"]
  /\ calls = [c \in Callers |-> 0]
  /\ tmp = NoFile
  /\ output \in {NoFile, Previous, InputFile}
  /\ complete = {}
  /\ answer = [c \in Callers |-> "none"]

Goto(c, label) == pc' = [pc EXCEPT ![c] = label]
Answer(c, a) == answer' = [answer EXCEPT ![c] = a]

(* An error after the scratch was reserved: the closure returns it and     *)
(* TemporaryOutput is dropped.                                             *)
Fail(c) == Goto(c, "drop") /\ Answer(c, "error")

-----------------------------------------------------------------------------
(* protect_inputs and the early check of the destination.  An error here   *)
(* returns before anything is reserved.                                    *)
Begin(c) ==
  /\ pc[c] = "idle" /\ c \in callers /\ calls[c] < MaxCalls
  /\ calls' = [calls EXCEPT ![c] = @ + 1]
  /\ \/ /\ output # InputFile
        /\ output = NoFile \/ c \in overwriting
        /\ Goto(c, "create") /\ Answer(c, "none")
     \/ Answer(c, "error") /\ UNCHANGED pc
  /\ UNCHANGED <<setup, tmp, output, complete>>

(* Mutant: the cleanup guard is built before create_excl.                  *)
CreateScratchGuarded(c) ==
  /\ pc[c] = "create"
  /\ \/ /\ tmp = NoFile
        /\ tmp' = Scratch(c)
        /\ Goto(c, "write")
        /\ UNCHANGED answer
     \/ Fail(c) /\ UNCHANGED tmp
  /\ UNCHANGED <<setup, calls, output, complete>>

(* File::create_excl: the scratch is reserved, or the call returns with    *)
(* nothing to drop.                                                        *)
CreateScratch(c) ==
  /\ pc[c] = "create"
  /\ \/ /\ tmp = NoFile
        /\ tmp' = Scratch(c)
        /\ Goto(c, "write")
        /\ UNCHANGED answer
     \/ Goto(c, "idle") /\ Answer(c, "error") /\ UNCHANGED tmp
  /\ UNCHANGED <<setup, calls, output, complete>>

(* The schema writer, through the open handle.                             *)
Write(c) ==
  /\ pc[c] = "write"
  /\ \/ Goto(c, "close") /\ UNCHANGED answer
     \/ Fail(c)
  /\ UNCHANGED <<setup, calls, tmp, output, complete>>

(* Mutant: an error of flush or close is ignored.                          *)
CloseUnchecked(c) ==
  /\ pc[c] = "close"
  /\ complete' \in {complete, complete \cup {Scratch(c)}}
  /\ Goto(c, "measure")
  /\ UNCHANGED <<setup, calls, tmp, output, answer>>

(* flush and close; the handle still leads to the inode of the call.       *)
Close(c) ==
  /\ pc[c] = "close"
  /\ \/ /\ complete' = complete \cup {Scratch(c)}
        /\ Goto(c, "measure") /\ UNCHANGED answer
     \/ Fail(c) /\ UNCHANGED complete
  /\ UNCHANGED <<setup, calls, tmp, output>>

(* check_file_size, by name.                                               *)
Measure(c) ==
  /\ pc[c] = "measure"
  /\ \/ tmp # NoFile /\ Goto(c, "sync") /\ UNCHANGED answer
     \/ Fail(c)
  /\ UNCHANGED <<setup, calls, tmp, output, complete>>

(* OpenOptions::open and sync_all, by name.                                *)
Sync(c) ==
  /\ pc[c] = "sync"
  /\ \/ tmp # NoFile /\ Goto(c, "install") /\ UNCHANGED answer
     \/ Fail(c)
  /\ UNCHANGED <<setup, calls, tmp, output, complete>>

(* Mutant: rename whatever `overwrite` says.                               *)
InstallRenaming(c) ==
  /\ pc[c] = "install"
  /\ \/ /\ tmp # NoFile
        /\ tmp' = NoFile /\ output' = tmp
        /\ Goto(c, "drop") /\ Answer(c, "ok")
     \/ Fail(c) /\ UNCHANGED <<tmp, output>>
  /\ UNCHANGED <<setup, calls, complete>>

(* Mutant: a destination that appeared meanwhile is taken for our own.     *)
InstallExistingOk(c) ==
  /\ pc[c] = "install"
  /\ \/ /\ tmp # NoFile
        /\ tmp' = IF c \in overwriting THEN NoFile ELSE tmp
        /\ output' = IF c \in overwriting \/ output = NoFile THEN tmp ELSE output
        /\ Goto(c, "drop") /\ Answer(c, "ok")
     \/ Fail(c) /\ UNCHANGED <<tmp, output>>
  /\ UNCHANGED <<setup, calls, complete>>

(* rename replaces the destination and frees the scratch's name;           *)
(* hard_link refuses a destination and leaves the scratch to Drop.         *)
Install(c) ==
  /\ pc[c] = "install"
  /\ \/ /\ tmp # NoFile
        /\ IF c \in overwriting THEN tmp' = NoFile
                                ELSE output = NoFile /\ tmp' = tmp
        /\ output' = tmp
        /\ Goto(c, "drop") /\ Answer(c, "ok")
     \/ Fail(c) /\ UNCHANGED <<tmp, output>>
  /\ UNCHANGED <<setup, calls, complete>>

(* TemporaryOutput::drop removes whatever has the scratch's name; a failed *)
(* removal is only reported.                                               *)
Drop(c) ==
  /\ pc[c] = "drop"
  /\ tmp' \in {tmp, NoFile}
  /\ Goto(c, "idle")
  /\ UNCHANGED <<setup, calls, output, complete, answer>>

-----------------------------------------------------------------------------
(* The process dies and leaves its scratch behind.                         *)
Crash(c) ==
  /\ pc[c] # "idle"
  /\ Goto(c, "idle") /\ Answer(c, "none")
  /\ UNCHANGED <<setup, calls, tmp, output, complete>>

(* Another program creates the destination.                                *)
Appear ==
  /\ output = NoFile
  /\ output' = Foreign
  /\ UNCHANGED <<setup, pc, calls, tmp, complete, answer>>

Step(c) ==
  \/ Begin(c) \/ CreateScratch(c) \/ Write(c) \/ Close(c) \/ Measure(c)
  \/ Sync(c) \/ Install(c) \/ Drop(c) \/ Crash(c)

Next == Appear \/ \E c \in Callers : Step(c)

Spec == Init /\ [][Next]_vars

(* One caller on its own, or several of whom none overwrites.              *)
Disciplined ==
  \/ \E c \in Callers : callers \subseteq {c}
  \/ overwriting = {}

DisciplinedInit == Init /\ Disciplined
DisciplinedSpec == DisciplinedInit /\ [][Next]_vars

-----------------------------------------------------------------------------
(* Properties.                                                             *)

(* What stands under the output's name was written, flushed and closed     *)
(* before it got there: a failure, a crash or another call never makes an  *)
(* unfinished file visible as a result.                                    *)
CompleteOnly == output \in Inodes => output \in complete

(* A destination that exists, however late it appeared, is replaced only   *)
(* by a call that overwrites, and an input never.                          *)
DestinationKept ==
  [][output # output' => \/ output = NoFile
                         \/ output # InputFile /\ overwriting # {}]_vars

(* Scratch is exclusively owned: a reserved <output>.tmp is renamed or     *)
(* removed only by the call that created it.                               *)
ScratchOwned ==
  [][tmp # tmp' =>
       \/ tmp = NoFile
       \/ \E c \in Callers : tmp = Scratch(c) /\ pc[c] \in {"install", "drop"}]_vars

(* A call that answers Ok has published the very file it wrote, complete.  *)
HonestAnswer ==
  [][\A c \in Callers :
       pc[c] = "drop" /\ pc'[c] = "idle" /\ answer'[c] = "ok" =>
         output = Scratch(c) /\ output \in complete]_vars
=============================================================================
