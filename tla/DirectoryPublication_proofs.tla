--------------------- MODULE DirectoryPublication_proofs ---------------------
(****************************************************************************)
(* Theorems about DirectoryPublication for every set of writers, names and *)
(* contents, whatever system calls fail and whoever dies where: among      *)
(* writers that honour the lock a publication is atomic and loses nothing  *)
(* before it commits; among programs that add files its commit marker can  *)
(* be trusted and their files stay; whatever other programs do, no two     *)
(* writers are ever inside and nobody touches the scratch of another.      *)
(****************************************************************************)
EXTENDS DirectoryPublication, TLAPS

-----------------------------------------------------------------------------
(* Facts about directories.                                                *)

(* A directory with the content of one file replaced is a directory.       *)
LEMMA UpdatedDirectory ==
  ASSUME NEW d \in Directories, NEW f \in Files, NEW x \in Contents(f)
  PROVE  [d EXCEPT ![f] = x] \in Directories
  BY DEF Directories, Contents

(* A file of a directory has one of the contents its name allows.          *)
LEMMA FileContents ==
  ASSUME NEW d \in Directories, NEW f \in Files
  PROVE  d[f] \in Contents(f)
  BY DEF Directories

(* Having no file, or a file Pelagic does not own, is possible everywhere. *)
LEMMA KindsAllowed ==
  ASSUME NEW f \in Files
  PROVE  ContentKinds \subseteq Contents(f)
  BY DEF Contents

(* A directory without files is a directory.                               *)
LEMMA EmptyIsDirectory == EmptyDirectory \in Directories
  BY DEF EmptyDirectory, Directories, Contents, ContentKinds

(* What is left of a directory after an interrupted removal is one too.    *)
LEMMA LeftoverDirectory ==
  ASSUME NEW d \in Directories, NEW x \in Leftover(d)
  PROVE  /\ x \in Directories
         /\ d \in Products => x \in Products
<1>1. PICK kept \in SUBSET Files :
        x = [f \in Files |-> IF f \in kept THEN d[f] ELSE NoFile]
  BY DEF Leftover
<1>2. x \in Directories
  BY <1>1 DEF Directories, Contents, ContentKinds
<1>3. \A f \in Files : x[f] \in {d[f], NoFile}
  BY <1>1
<1> QED
  BY <1>2, <1>3, ContentAssumption DEF Products

(* A scratch without files holds nothing but products.                     *)
LEMMA EmptyIsProduct == EmptyDirectory \in Products
  BY EmptyIsDirectory, ContentAssumption DEF EmptyDirectory, Products

(* A writer's group makes a directory of its own.                          *)
LEMMA WrittenDirectory ==
  ASSUME NEW group \in Groups
  PROVE  [f \in Files |-> IF f \in DOMAIN group THEN group[f] ELSE NoFile]
           \in Products
<1> DEFINE d == [f \in Files |-> IF f \in DOMAIN group THEN group[f] ELSE NoFile]
<1>1. PICK S \in SUBSET Names : group \in [S -> Data]
  BY DEF Groups
<1>2. \A f \in Files : d[f] \in Contents(f)
  BY <1>1, NamesAssumption DEF Contents, ContentKinds, Files
<1>3. \A f \in Files : Contents(f) \subseteq Groups \cup Data \cup ContentKinds
  BY DEF Contents
<1>4. \A f \in Files : d[f] \in Data \cup {NoFile}
  BY <1>1
<1>5. \A f \in Files : d[f] \notin {InputFile, Foreign}
  BY <1>4, ContentAssumption DEF ContentKinds
<1> QED
  BY <1>2, <1>3, <1>5 DEF Directories, Products

(* What a writer staged is a group.                                        *)
LEMMA StagedIsGroup ==
  ASSUME stage \in Products
  PROVE  StagedGroup \in Groups
<1>1. \A n \in Names : stage[n] \in Data \cup {NoFile}
  BY NamesAssumption DEF Products, Directories, Contents, ContentKinds, Files
<1>2. StagedNames \in SUBSET Names
  BY DEF StagedNames
<1>3. StagedGroup \in [StagedNames -> Data]
  BY <1>1 DEF StagedGroup, StagedNames
<1> QED
  BY <1>2, <1>3 DEF Groups

(* The scratch remains one when its manifest is added.                     *)
LEMMA SealedIsProduct ==
  ASSUME stage \in Products
  PROVE  [stage EXCEPT ![MANIFEST] = StagedGroup] \in Products
<1>1. StagedGroup \in Groups
  BY StagedIsGroup
<1>2. MANIFEST \in Files /\ StagedGroup \in Contents(MANIFEST)
  BY <1>1 DEF Files, Contents
<1>3. [stage EXCEPT ![MANIFEST] = StagedGroup] \in Directories
  BY <1>2, UpdatedDirectory DEF Products
<1>4. StagedGroup \notin {InputFile, Foreign}
  BY <1>1, ContentAssumption DEF Groups, ContentKinds
<1> QED
  BY <1>3, <1>4 DEF Products, Directories

-----------------------------------------------------------------------------
(* Type correctness.                                                       *)

(* Forgetting a transaction resets its variables to values of their types. *)
LEMMA ForgetType ==
  ASSUME TypeOK, NEW w \in Writers, Forget(w)
  PROVE  /\ pc' \in [Writers -> Labels]
         /\ created' \in [Writers -> BOOLEAN]
         /\ owned' \in [Writers -> SUBSET Scratch]
         /\ retain' \in [Writers -> BOOLEAN]
         /\ old' \in [Writers -> Groups \cup {NoFile}]
         /\ todo' \in [Writers -> SUBSET Files]
         /\ target' \in [Writers -> Files]
         /\ moved' \in [Writers -> SUBSET Files]
         /\ installed' \in [Writers -> SUBSET Files]
  BY DEF TypeOK, Forget, Goto, Labels, Files

(* Moving to a label, owning and disowning scratch keep the types.         *)
LEMMA GotoType ==
  ASSUME TypeOK, NEW w \in Writers, NEW label \in Labels, Goto(w, label)
  PROVE  pc' \in [Writers -> Labels]
  BY DEF TypeOK, Goto

LEMMA OwnType ==
  ASSUME TypeOK, NEW w \in Writers, NEW dir \in Scratch,
         Own(w, dir) \/ Disown(w, dir)
  PROVE  owned' \in [Writers -> SUBSET Scratch]
  BY DEF TypeOK, Own, Disown

(* Every variable keeps its type, whatever other programs do.              *)
LEMMA TypeStep ==
  ASSUME TypeOK, [Next \/ Environment]_vars
  PROVE  TypeOK'
<1> USE DEF disk, transaction, history, bounds
<1>1. CASE UNCHANGED vars
  BY <1>1 DEF TypeOK, vars
<1>2. ASSUME NEW w \in Writers, Begin(w)
      PROVE  TypeOK'
  BY <1>2, BoundsAssumption DEF TypeOK, Begin, At, Goto, Labels
<1>3. ASSUME NEW w \in Writers, Crash(w)
      PROVE  TypeOK'
  BY <1>3, ForgetType DEF TypeOK, Crash
<1>4. ASSUME NEW w \in Writers, Advance(w)
      PROVE  TypeOK'
  <2>1. CASE CreateOutput(w)
    BY <2>1, ForgetType DEF TypeOK, CreateOutput, CreateDir, Goto, Labels, AllDirs
  <2>2. CASE ProtectControls(w)
    BY <2>2, ForgetType DEF TypeOK, ProtectControls, Goto, Labels
  <2>3. CASE TakeLock(w)
    <3>1. "lock" \in Scratch /\ "stage" \in Labels /\ "drop" \in Labels
      BY DEF Scratch, Labels
    <3>2. pc' \in [Writers -> Labels] /\ owned' \in [Writers -> SUBSET Scratch]
      BY <2>3, <3>1, GotoType, OwnType DEF TypeOK, TakeLock, Abandon
    <3> QED
      BY <2>3, <3>1, <3>2 DEF TypeOK, TakeLock, CreateDir, AllDirs
  <2>4. CASE ReserveStage(w)
    <3>1. "stage" \in Scratch /\ "write" \in Labels /\ "drop" \in Labels
      BY DEF Scratch, Labels
    <3>2. pc' \in [Writers -> Labels] /\ owned' \in [Writers -> SUBSET Scratch]
      BY <2>4, <3>1, GotoType, OwnType DEF TypeOK, ReserveStage, Abandon
    <3> QED
      BY <2>4, <3>1, <3>2 DEF TypeOK, ReserveStage, CreateDir, AllDirs
  <2>5. CASE Write(w)
    BY <2>5, WrittenDirectory DEF TypeOK, Write, Abandon, Goto, Labels
  <2>6. CASE Validate(w)
    BY <2>6 DEF TypeOK, Validate, Abandon, Goto, Labels
  <2>7. CASE Seal(w)
    BY <2>7, SealedIsProduct DEF TypeOK, Seal, Sealed, Abandon, Goto, Labels
  <2>8. CASE MakeBackup(w)
    <3>1. OldFiles(w) \subseteq Files
      BY DEF TypeOK, OldFiles, Files, Groups
    <3>2. "backup" \in Scratch /\ "move" \in Labels /\ "drop" \in Labels
      BY DEF Scratch, Labels
    <3>3. pc' \in [Writers -> Labels] /\ owned' \in [Writers -> SUBSET Scratch]
      BY <2>8, <3>2, GotoType, OwnType DEF TypeOK, MakeBackup, Abandon
    <3> QED
      BY <2>8, <3>1, <3>2, <3>3 DEF TypeOK, MakeBackup, CreateDir, AllDirs
  <2>9. CASE VerifyOld(w)
    BY <2>9 DEF TypeOK, VerifyOld, Visited, StartRollback, Goto, Labels
  <2>10. CASE MoveOld(w)
    <3>1. target[w] \in Files /\ NoFile \in Contents(target[w])
      BY DEF TypeOK, Contents, ContentKinds
    <3>2. /\ out' \in Directories /\ backup' \in Directories
      BY <2>10, <3>1, UpdatedDirectory, FileContents DEF TypeOK, MoveOld
    <3> QED
      BY <2>10, <3>1, <3>2
      DEF TypeOK, MoveOld, Visited, StartRollback, Goto, Labels
  <2>11. CASE AllMoved(w)
    BY <2>11 DEF TypeOK, AllMoved, Goto, Labels, StagedNames, Files
  <2>12. CASE Link(w)
    <3>1. out' \in Directories
      BY <2>12, UpdatedDirectory, FileContents DEF TypeOK, Link, HardLink, Products
    <3>2. {"commit", "link", "uninstall"} \subseteq Labels
      BY DEF Labels
    <3>3. pc' \in [Writers -> Labels]
      BY <2>12, <3>2 DEF TypeOK, Link, StartRollback, Goto
    <3>4. todo' \in [Writers -> SUBSET Files]
      BY <2>12 DEF TypeOK, Link, Visited, StartRollback
    <3>5. installed' \in [Writers -> SUBSET Files]
      BY <2>12 DEF TypeOK, Link
    <3>6. committed' \in BOOLEAN
      BY <2>12 DEF TypeOK, Link
    <3> QED
      BY <2>12, <3>1, <3>3, <3>4, <3>5, <3>6 DEF TypeOK, Link
  <2>13. CASE RemoveBackup(w)
    BY <2>13, EmptyIsDirectory, LeftoverDirectory
    DEF TypeOK, RemoveBackup, Disown, Goto, Labels
  <2>14. CASE VerifyInstalled(w)
    <3>1. PICK f \in installed[w] :
            \/ Goto(w, "unlink") /\ target' = [target EXCEPT ![w] = f]
               /\ UNCHANGED <<retain, installed>>
            \/ KeepEverything(w) /\ installed' = [installed EXCEPT ![w] = @ \ {f}]
               /\ UNCHANGED <<pc, target>>
            \/ KeepEverything(w) /\ Goto(w, "drop") /\ UNCHANGED <<target, installed>>
      BY <2>14 DEF VerifyInstalled
    <3>2. f \in Files /\ "unlink" \in Labels /\ "drop" \in Labels
      BY DEF TypeOK, Labels
    <3>3. pc' \in [Writers -> Labels]
      BY <3>1, <3>2, GotoType DEF TypeOK
    <3>4. /\ target' \in [Writers -> Files]
          /\ installed' \in [Writers -> SUBSET Files]
          /\ retain' \in [Writers -> BOOLEAN]
      BY <3>1, <3>2 DEF TypeOK, KeepEverything
    <3> QED
      BY <2>14, <3>3, <3>4 DEF TypeOK, VerifyInstalled
  <2>15. CASE RemoveInstalled(w)
    <3>1. target[w] \in Files /\ NoFile \in Contents(target[w])
      BY DEF TypeOK, Contents, ContentKinds
    <3>2. out' \in Directories
      BY <2>15, <3>1, UpdatedDirectory DEF TypeOK, RemoveInstalled
    <3> QED
      BY <2>15, <3>2 DEF TypeOK, RemoveInstalled, KeepEverything, Goto, Labels
  <2>16. CASE AllUninstalled(w)
    BY <2>16 DEF TypeOK, AllUninstalled, Goto, Labels
  <2>17. CASE Restore(w)
    <3>1. out' \in Directories
      BY <2>17, UpdatedDirectory, FileContents DEF TypeOK, Restore, HardLink
    <3> QED
      BY <2>17, <3>1 DEF TypeOK, Restore, KeepEverything
  <2>18. CASE AllRestored(w)
    BY <2>18 DEF TypeOK, AllRestored, Goto, Labels
  <2>19. CASE DropRetained(w)
    BY <2>19, ForgetType DEF TypeOK, DropRetained
  <2>20. CASE RemoveScratch(w)
    <3>1. stage' \in Products
      BY <2>20, EmptyIsProduct, LeftoverDirectory DEF TypeOK, RemoveScratch, Products
    <3>2. backup' \in Directories
      BY <2>20, EmptyIsDirectory, LeftoverDirectory DEF TypeOK, RemoveScratch
    <3>3. dirs' \subseteq AllDirs /\ owned' \in [Writers -> SUBSET Scratch]
      BY <2>20 DEF TypeOK, RemoveScratch, Disown
    <3> QED
      BY <2>20, <3>1, <3>2, <3>3 DEF TypeOK, RemoveScratch
  <2>21. CASE RemoveOutput(w)
    BY <2>21, ForgetType DEF TypeOK, RemoveOutput
  <2> QED
    BY <1>4, <2>1, <2>2, <2>3, <2>4, <2>5, <2>6, <2>7, <2>8, <2>9, <2>10, <2>11,
       <2>12, <2>13, <2>14, <2>15, <2>16, <2>17, <2>18, <2>19, <2>20, <2>21
    DEF Advance
<1>5. ASSUME NEW f \in Files, Appear(f) \/ Replace(f)
      PROVE  TypeOK'
  <2>1. out' \in Directories
    BY <1>5, UpdatedDirectory, KindsAllowed
    DEF TypeOK, Appear, Replace, ContentKinds
  <2> QED
    BY <1>5, <2>1, BoundsAssumption DEF TypeOK, Appear, Replace
<1> QED
  BY <1>1, <1>2, <1>3, <1>4, <1>5 DEF Next, Environment

(* The initial state is well typed.                                        *)
LEMMA TypeInit == Init => TypeOK
<1> SUFFICES ASSUME Init PROVE TypeOK
  OBVIOUS
<1>1. dirs \subseteq AllDirs /\ out \in Directories /\ base \in Directories
  BY EmptyIsDirectory DEF Init, AllDirs
<1>2. stage \in Products /\ backup \in Directories
  BY EmptyIsDirectory, EmptyIsProduct DEF Init
<1>3. pc \in [Writers -> Labels] /\ target \in [Writers -> Files]
  BY DEF Init, Labels, Files
<1>4. runs \in [Writers -> 0 .. MaxRuns] /\ foreign \in 0 .. MaxForeign
  BY BoundsAssumption DEF Init
<1> QED
  BY <1>1, <1>2, <1>3, <1>4 DEF Init, TypeOK

(* Every variable of the publication protocol keeps its type, even when    *)
(* other programs add, replace and remove files of the directory.          *)
THEOREM TypeCorrect == OpenSpec => []TypeOK
  BY TypeInit, TypeStep, PTL DEF OpenSpec

-----------------------------------------------------------------------------
(* Exclusive ownership of the scratch.                                     *)

Installing == {"move", "rename", "link", "commit", "uninstall", "unlink", "restore"}

(* One writer's claim: what it owns exists, the lock is dropped last, and  *)
(* it owns what the step it stands at works on.                            *)
Claim(u) ==
  /\ owned[u] \subseteq dirs
  /\ owned[u] # {} => "lock" \in owned[u]
  /\ pc[u] \in Outside => owned[u] = {}
  /\ pc[u] \notin Outside \cup {"drop"} => "lock" \in owned[u]
  /\ pc[u] \in {"write", "validate", "seal"} => "stage" \in owned[u]
  /\ pc[u] \in Installing => "backup" \in owned[u]

OneOwner == \A u, v \in Writers : owned[u] # {} /\ owned[v] # {} => u = v

(* The inductive strengthening of LockExclusive.                           *)
OwnershipInv == TypeOK /\ OneOwner /\ \A u \in Writers : Claim(u)

(* A step of one writer that leaves the claims of the others alone, does   *)
(* not remove what they own and enters a transaction only through the lock *)
(* keeps ownership exclusive.                                              *)
LEMMA OwnershipFrame ==
  ASSUME OwnershipInv, TypeOK', NEW w \in Writers,
         \A u \in Writers \ {w} : pc'[u] = pc[u] /\ owned'[u] = owned[u],
         dirs \subseteq dirs' \/ owned[w] # {} \/ dirs = {"output"},
         owned'[w] # {} => owned[w] # {} \/ "lock" \notin dirs,
         Claim(w)'
  PROVE  OwnershipInv'
<1>1. \A u \in Writers \ {w} : owned[w] # {} => owned[u] = {}
  BY DEF OwnershipInv, OneOwner
<1>2. \A u \in Writers \ {w} : dirs = {"output"} => owned[u] = {}
  BY DEF OwnershipInv, Claim
<1>3. \A u \in Writers \ {w} : Claim(u)'
  BY <1>1, <1>2 DEF OwnershipInv, Claim
<1>4. \A u \in Writers \ {w} : owned'[w] # {} => owned'[u] = {}
  BY <1>1 DEF OwnershipInv, Claim
<1>5. OneOwner'
  BY <1>4 DEF OwnershipInv, OneOwner
<1> QED
  BY <1>3, <1>5 DEF OwnershipInv

(* The steps of a writer change no other writer's place or possessions.    *)
LEMMA OthersStay ==
  ASSUME TypeOK, NEW w \in Writers, Begin(w) \/ Advance(w) \/ Crash(w)
  PROVE  \A u \in Writers \ {w} : pc'[u] = pc[u] /\ owned'[u] = owned[u]
<1> USE DEF TypeOK, Goto, transaction
<1>1. CASE Begin(w)
  BY <1>1 DEF Begin
<1>2. CASE Crash(w)
  BY <1>2 DEF Crash, Forget
<1>3. CASE CreateOutput(w)
  BY <1>3 DEF CreateOutput, Forget
<1>4. CASE ProtectControls(w)
  BY <1>4 DEF ProtectControls, Forget
<1>5. CASE TakeLock(w)
  BY <1>5 DEF TakeLock, Abandon, Own
<1>6. CASE ReserveStage(w)
  BY <1>6 DEF ReserveStage, Abandon, Own
<1>7. CASE Write(w)
  BY <1>7 DEF Write, Abandon
<1>8. CASE Validate(w)
  BY <1>8 DEF Validate, Abandon
<1>9. CASE Seal(w)
  BY <1>9 DEF Seal, Sealed, Abandon
<1>10. CASE MakeBackup(w)
  BY <1>10 DEF MakeBackup, Abandon, Own
<1>11. CASE VerifyOld(w)
  BY <1>11 DEF VerifyOld, StartRollback
<1>12. CASE MoveOld(w)
  BY <1>12 DEF MoveOld, StartRollback
<1>13. CASE AllMoved(w)
  BY <1>13 DEF AllMoved
<1>14. CASE Link(w)
  BY <1>14 DEF Link, StartRollback
<1>15. CASE RemoveBackup(w)
  BY <1>15 DEF RemoveBackup, Disown
<1>16. CASE VerifyInstalled(w)
  BY <1>16 DEF VerifyInstalled
<1>17. CASE RemoveInstalled(w)
  BY <1>17 DEF RemoveInstalled
<1>18. CASE AllUninstalled(w)
  BY <1>18 DEF AllUninstalled
<1>19. CASE Restore(w)
  BY <1>19 DEF Restore
<1>20. CASE AllRestored(w)
  BY <1>20 DEF AllRestored
<1>21. CASE DropRetained(w)
  BY <1>21 DEF DropRetained, Forget
<1>22. CASE RemoveScratch(w)
  BY <1>22 DEF RemoveScratch, Disown, LastOwned
<1>23. CASE RemoveOutput(w)
  BY <1>23 DEF RemoveOutput, Forget
<1> QED
  BY <1>1, <1>2, <1>3, <1>4, <1>5, <1>6, <1>7, <1>8, <1>9, <1>10, <1>11, <1>12, <1>13, <1>14, <1>15, <1>16, <1>17, <1>18, <1>19, <1>20, <1>21, <1>22, <1>23 DEF Advance

(* Ownership stays exclusive, whatever other programs do.                  *)
LEMMA OwnershipStep ==
  ASSUME OwnershipInv, [Next \/ Environment]_vars
  PROVE  OwnershipInv'
<1> USE DEF disk, transaction
<1>1. TypeOK /\ TypeOK'
  BY TypeStep DEF OwnershipInv
<1>2. CASE UNCHANGED vars
  BY <1>1, <1>2 DEF OwnershipInv, OneOwner, Claim, vars
<1>3. ASSUME NEW w \in Writers, Begin(w) \/ Advance(w) \/ Crash(w)
      PROVE  OwnershipInv'
  <2> USE DEF OwnershipInv, TypeOK, Claim, Outside, Installing, At, Goto, CreateDir
  <2>1. SUFFICES /\ Claim(w)'
                 /\ dirs \subseteq dirs' \/ owned[w] # {} \/ dirs = {"output"}
                 /\ owned'[w] # {} => owned[w] # {} \/ "lock" \notin dirs
    BY <1>1, <1>3, OthersStay, OwnershipFrame
  <2>2. CASE Begin(w)
    BY <1>1, <2>2 DEF Begin
  <2>3. CASE Crash(w)
    BY <1>1, <2>3 DEF Crash, Forget
  <2>4. CASE CreateOutput(w)
    BY <1>1, <2>4 DEF CreateOutput, Forget
  <2>5. CASE ProtectControls(w)
    BY <1>1, <2>5 DEF ProtectControls, Forget
  <2>6. CASE TakeLock(w)
    BY <1>1, <2>6 DEF TakeLock, Abandon, Own
  <2>7. CASE ReserveStage(w)
    BY <1>1, <2>7 DEF ReserveStage, Abandon, Own
  <2>8. CASE Write(w)
    BY <1>1, <2>8 DEF Write, Abandon
  <2>9. CASE Validate(w)
    BY <1>1, <2>9 DEF Validate, Abandon
  <2>10. CASE Seal(w)
    BY <1>1, <2>10 DEF Seal, Sealed, Abandon
  <2>11. CASE MakeBackup(w)
    BY <1>1, <2>11 DEF MakeBackup, Abandon, Own
  <2>12. CASE VerifyOld(w)
    BY <1>1, <2>12 DEF VerifyOld, StartRollback
  <2>13. CASE MoveOld(w)
    BY <1>1, <2>13 DEF MoveOld, StartRollback
  <2>14. CASE AllMoved(w)
    BY <1>1, <2>14 DEF AllMoved
  <2>15. CASE Link(w)
    BY <1>1, <2>15 DEF Link, StartRollback
  <2>16. CASE RemoveBackup(w)
    BY <1>1, <2>16 DEF RemoveBackup, Disown
  <2>17. CASE VerifyInstalled(w)
    BY <1>1, <2>17 DEF VerifyInstalled
  <2>18. CASE RemoveInstalled(w)
    BY <1>1, <2>18 DEF RemoveInstalled
  <2>19. CASE AllUninstalled(w)
    BY <1>1, <2>19 DEF AllUninstalled
  <2>20. CASE Restore(w)
    BY <1>1, <2>20 DEF Restore
  <2>21. CASE AllRestored(w)
    BY <1>1, <2>21 DEF AllRestored
  <2>22. CASE DropRetained(w)
    BY <1>1, <2>22 DEF DropRetained, Forget
  <2>23. CASE RemoveScratch(w)
    BY <1>1, <2>23 DEF RemoveScratch, Disown, LastOwned, Scratch
  <2>24. CASE RemoveOutput(w)
    BY <1>1, <2>24 DEF RemoveOutput, Forget
  <2> QED
    BY <1>3, <2>2, <2>3, <2>4, <2>5, <2>6, <2>7, <2>8, <2>9, <2>10, <2>11, <2>12, <2>13, <2>14, <2>15, <2>16, <2>17, <2>18, <2>19, <2>20, <2>21, <2>22, <2>23, <2>24 DEF Advance
<1>4. ASSUME NEW f \in Files, Appear(f) \/ Replace(f)
      PROVE  OwnershipInv'
  BY <1>1, <1>4 DEF OwnershipInv, OneOwner, Claim, Appear, Replace
<1> QED
  BY <1>2, <1>3, <1>4 DEF Next, Environment

(* Ownership is exclusive at every moment of every run.                    *)
LEMMA Ownership == OpenSpec => []OwnershipInv
<1>1. Init => OwnershipInv
  BY TypeInit DEF Init, OwnershipInv, OneOwner, Claim, Outside, Installing
<1> QED
  BY <1>1, OwnershipStep, PTL DEF OpenSpec

(* Two writers are never inside a transaction at once, however many there  *)
(* are, whatever fails, whoever dies and whatever other programs do.       *)
THEOREM Exclusive == OpenSpec => []LockExclusive
<1>1. OwnershipInv => LockExclusive
  BY DEF OwnershipInv, OneOwner, Claim, LockExclusive, Holds
<1> QED
  BY <1>1, Ownership, PTL

(* No publication touches scratch it does not own.                         *)
THEOREM ScratchOwned == OpenSpec => ScratchExclusive
<1> USE DEF Disturbed
<1>1. ASSUME OwnershipInv, NEW w \in Writers, Begin(w) \/ Advance(w) \/ Crash(w),
             NEW dir \in Scratch, Disturbed(dir)
      PROVE  dir \in owned[w] /\ Holds(w)
  <2>1. CASE Write(w) \/ Seal(w)
    BY <1>1, <2>1 DEF OwnershipInv, Claim, Write, Seal, Sealed, At, Tree, Holds, Scratch
  <2>2. CASE MoveOld(w)
    BY <1>1, <2>2 DEF OwnershipInv, Claim, MoveOld, At, Tree, Holds, Scratch, Installing
  <2>3. CASE RemoveBackup(w)
    BY <1>1, <2>3
    DEF OwnershipInv, Claim, RemoveBackup, At, Tree, Holds, Scratch, Installing
  <2>4. CASE RemoveScratch(w)
    <3>1. LastOwned(w) \in owned[w] /\ Holds(w)
      BY <2>4, <1>1 DEF RemoveScratch, LastOwned, OwnershipInv, Claim, Holds,
                        TypeOK, Scratch
    <3>2. dir = LastOwned(w)
      BY <1>1, <2>4 DEF RemoveScratch, Tree, Scratch
    <3> QED
      BY <3>1, <3>2
  <2>5. CASE RemoveOutput(w)
    BY <1>1, <2>5 DEF RemoveOutput, Tree, Scratch
  <2>6. CASE Begin(w) \/ Crash(w) \/ CreateOutput(w) \/ ProtectControls(w)
             \/ TakeLock(w) \/ ReserveStage(w) \/ Validate(w) \/ MakeBackup(w)
    BY <1>1, <2>6 DEF Begin, Crash, CreateOutput, ProtectControls, TakeLock,
                      ReserveStage, Validate, MakeBackup, CreateDir, disk, Tree
  <2>7. CASE VerifyOld(w) \/ AllMoved(w) \/ Link(w) \/ VerifyInstalled(w)
             \/ RemoveInstalled(w) \/ AllUninstalled(w) \/ Restore(w)
             \/ AllRestored(w) \/ DropRetained(w)
    BY <1>1, <2>7 DEF VerifyOld, AllMoved, Link, VerifyInstalled, RemoveInstalled,
                      AllUninstalled, Restore, AllRestored, DropRetained, disk, Tree
  <2> QED
    BY <1>1, <2>1, <2>2, <2>3, <2>4, <2>5, <2>6, <2>7 DEF Advance
<1>2. ASSUME NEW dir \in Scratch, Disturbed(dir), Environment \/ UNCHANGED vars
      PROVE  FALSE
  BY <1>2 DEF Environment, Appear, Replace, vars, disk, Tree
<1>3. ASSUME OwnershipInv, NEW w \in Writers, Begin(w) \/ Advance(w) \/ Crash(w),
             NEW dir \in Scratch, dir \in dirs, dir \in owned'[w]
      PROVE  dir \in owned[w]
  <2>1. CASE TakeLock(w)
    BY <1>3, <2>1 DEF OwnershipInv, TypeOK, TakeLock, CreateDir, Own
  <2>2. CASE ReserveStage(w)
    BY <1>3, <2>2 DEF OwnershipInv, TypeOK, ReserveStage, CreateDir, Own
  <2>3. CASE MakeBackup(w)
    BY <1>3, <2>3 DEF OwnershipInv, TypeOK, MakeBackup, CreateDir, Own
  <2>4. CASE RemoveBackup(w) \/ RemoveScratch(w)
    BY <1>3, <2>4 DEF OwnershipInv, TypeOK, RemoveBackup, RemoveScratch, Disown
  <2>5. CASE Crash(w) \/ DropRetained(w) \/ RemoveOutput(w) \/ CreateOutput(w)
             \/ ProtectControls(w)
    BY <1>3, <2>5 DEF OwnershipInv, TypeOK, Crash, DropRetained, RemoveOutput,
                      CreateOutput, ProtectControls, Forget, transaction
  <2>6. CASE Begin(w) \/ Write(w) \/ Validate(w) \/ Seal(w) \/ VerifyOld(w)
             \/ MoveOld(w) \/ AllMoved(w) \/ Link(w) \/ VerifyInstalled(w)
             \/ RemoveInstalled(w) \/ AllUninstalled(w) \/ Restore(w) \/ AllRestored(w)
    BY <1>3, <2>6 DEF Begin, Write, Validate, Seal, Sealed, VerifyOld, MoveOld, AllMoved, Link,
       VerifyInstalled, RemoveInstalled, AllUninstalled, Restore, AllRestored, transaction
  <2> QED
    BY <1>3, <2>1, <2>2, <2>3, <2>4, <2>5, <2>6 DEF Advance
<1>4. OwnershipInv /\ [Next \/ Environment]_vars =>
        [\A dir \in Scratch :
           /\ Disturbed(dir) => \E w \in Writers : dir \in owned[w] /\ Holds(w)
           /\ dir \in dirs =>
                \A w \in Writers : dir \in owned'[w] => dir \in owned[w]]_vars
  <2> SUFFICES ASSUME OwnershipInv, Next \/ Environment, NEW dir \in Scratch
               PROVE  /\ Disturbed(dir) => \E w \in Writers : dir \in owned[w] /\ Holds(w)
                      /\ dir \in dirs =>
                           \A w \in Writers : dir \in owned'[w] => dir \in owned[w]
    OBVIOUS
  <2>1. CASE Environment
    BY <1>2, <2>1 DEF Environment, Appear, Replace, transaction
  <2>2. ASSUME NEW w \in Writers, Begin(w) \/ Advance(w) \/ Crash(w)
        PROVE  /\ Disturbed(dir) => \E u \in Writers : dir \in owned[u] /\ Holds(u)
               /\ dir \in dirs =>
                    \A u \in Writers : dir \in owned'[u] => dir \in owned[u]
    BY <1>1, <1>3, <2>2, OthersStay DEF OwnershipInv
  <2> QED
    BY <2>1, <2>2 DEF Next
<1> QED
  BY <1>4, Ownership, PTL DEF OpenSpec, ScratchExclusive

-----------------------------------------------------------------------------
(* Atomicity among writers that honour the lock.  The invariant: what the  *)
(* writer inside the transaction has done so far.                          *)

Fresh(u) == moved[u] = {} /\ installed[u] = {} /\ ~retain[u]

(* What Validate established, of the directory as it was found.            *)
Replaces ==
  /\ base[MANIFEST] \in Groups \cup {NoFile}
  /\ \A n \in OwnedNames(base) :
       base[n] = NoFile \/ (base[n] # InputFile /\ Bytes(base[n]) = base[MANIFEST][n])
  /\ \A n \in StagedNames : base[n] = NoFile \/ n \in OwnedNames(base)

Moving(u) ==
  /\ ~retain[u] /\ installed[u] = {}
  /\ todo[u] \subseteq OldFiles(u) /\ moved[u] \subseteq OldFiles(u)
  /\ \A f \in Files :
       /\ f \in moved[u] => out[f] = NoFile /\ backup[f] = base[f]
       /\ f \notin moved[u] => out[f] = base[f]
       /\ f \in OldFiles(u) \ todo[u] => out[f] = NoFile

Linking(u) ==
  /\ ~retain[u]
  /\ installed[u] \cap todo[u] = {} /\ MANIFEST \in todo[u]
  /\ installed[u] \cup todo[u] = StagedNames \cup {MANIFEST}
  /\ moved[u] \subseteq OldFiles(u)
  /\ \A f \in Files :
       /\ f \in moved[u] => backup[f] = base[f]
       /\ f \in installed[u] => out[f] = stage[f] /\ (base[f] = NoFile \/ f \in moved[u])
       /\ f \notin installed[u] /\ f \in moved[u] => out[f] = NoFile
       /\ f \notin installed[u] /\ f \notin moved[u] => out[f] = base[f]
       /\ f \in OldFiles(u) \ moved[u] => base[f] = NoFile

RollingBack(u) ==
  \A f \in Files :
    /\ f \in moved[u] => backup[f] = base[f]
    /\ f \in installed[u] => base[f] = NoFile \/ backup[f] = base[f]
    /\ ~retain[u] =>
         /\ f \notin installed[u] /\ f \in moved[u] => out[f] = NoFile
         /\ f \notin installed[u] /\ f \notin moved[u] => out[f] = base[f]
         /\ f \in installed[u] /\ f \notin moved[u] => base[f] = NoFile

Preparing == {"stage", "write", "validate", "seal", "backup"}
Rolling == {"uninstall", "unlink", "restore"}

Progress(u) ==
  /\ pc[u] \in Outside \cup Preparing => Fresh(u)
  /\ pc[u] \in Preparing => out = base
  /\ pc[u] \in {"seal", "backup", "move", "rename", "link"} =>
       old[u] = base[MANIFEST] /\ Replaces
  /\ pc[u] \in {"backup", "move", "rename", "link"} =>
       stage[MANIFEST] = StagedGroup /\ ~OverQuota(stage)
  /\ pc[u] \in Preparing \cup {"move", "rename", "link"} \cup Rolling => ~committed
  /\ pc[u] \in {"move", "rename"} => Moving(u)
  /\ pc[u] = "rename" => target[u] \in todo[u]
  /\ pc[u] = "link" => Linking(u)
  /\ pc[u] \in Rolling => RollingBack(u)
  /\ pc[u] = "unlink" => target[u] \in installed[u]
  /\ pc[u] = "restore" => installed[u] = {}
  /\ pc[u] = "commit" => committed
  /\ pc[u] = "drop" /\ owned[u] # {} => committed \/ retain[u] \/ out = base

AtomicInv == OwnershipInv /\ NothingLost /\ \A u \in Writers : Progress(u)

-----------------------------------------------------------------------------
(* The other writers.                                                      *)

(* A step of one writer leaves the transactions of the others alone.       *)
LEMMA OthersRemember ==
  ASSUME TypeOK, NEW w \in Writers, Begin(w) \/ Advance(w) \/ Crash(w)
  PROVE  \A u \in Writers \ {w} :
           /\ retain'[u] = retain[u] /\ old'[u] = old[u] /\ todo'[u] = todo[u]
           /\ target'[u] = target[u] /\ moved'[u] = moved[u]
           /\ installed'[u] = installed[u]
<1> USE DEF TypeOK, transaction
<1>1. CASE Begin(w)
  BY <1>1 DEF Begin
<1>2. CASE Crash(w)
  BY <1>2 DEF Crash, Forget
<1>3. CASE CreateOutput(w)
  BY <1>3 DEF CreateOutput, Forget
<1>4. CASE ProtectControls(w)
  BY <1>4 DEF ProtectControls, Forget
<1>5. CASE TakeLock(w)
  BY <1>5 DEF TakeLock
<1>6. CASE ReserveStage(w)
  BY <1>6 DEF ReserveStage
<1>7. CASE Write(w)
  BY <1>7 DEF Write
<1>8. CASE Validate(w)
  BY <1>8 DEF Validate
<1>9. CASE Seal(w)
  BY <1>9 DEF Seal
<1>10. CASE MakeBackup(w)
  BY <1>10 DEF MakeBackup
<1>11. CASE VerifyOld(w)
  BY <1>11 DEF VerifyOld, StartRollback, Visited
<1>12. CASE MoveOld(w)
  BY <1>12 DEF MoveOld, StartRollback, Visited
<1>13. CASE AllMoved(w)
  BY <1>13 DEF AllMoved
<1>14. CASE Link(w)
  BY <1>14 DEF Link, StartRollback, Visited
<1>15. CASE RemoveBackup(w)
  BY <1>15 DEF RemoveBackup
<1>16. CASE VerifyInstalled(w)
  BY <1>16 DEF VerifyInstalled, KeepEverything
<1>17. CASE RemoveInstalled(w)
  BY <1>17 DEF RemoveInstalled, KeepEverything
<1>18. CASE AllUninstalled(w)
  BY <1>18 DEF AllUninstalled
<1>19. CASE Restore(w)
  BY <1>19 DEF Restore, KeepEverything
<1>20. CASE AllRestored(w)
  BY <1>20 DEF AllRestored
<1>21. CASE DropRetained(w)
  BY <1>21 DEF DropRetained, Forget
<1>22. CASE RemoveScratch(w)
  BY <1>22 DEF RemoveScratch
<1>23. CASE RemoveOutput(w)
  BY <1>23 DEF RemoveOutput, Forget
<1> QED
  BY <1>1, <1>2, <1>3, <1>4, <1>5, <1>6, <1>7, <1>8, <1>9, <1>10, <1>11, <1>12, <1>13, <1>14, <1>15, <1>16, <1>17, <1>18, <1>19, <1>20, <1>21, <1>22, <1>23 DEF Advance

(* A writer that owns nothing changes no file, unless it takes the lock.   *)
LEMMA BystanderHarmless ==
  ASSUME OwnershipInv, NEW w \in Writers, owned[w] = {}, "lock" \in dirs,
         Begin(w) \/ Advance(w) \/ Crash(w)
  PROVE  UNCHANGED <<out, stage, backup, base, committed>>
<1>1. pc[w] \in Outside \cup {"drop"}
  BY DEF OwnershipInv, Claim
<1>2. Begin(w) \/ Crash(w) \/ CreateOutput(w) \/ ProtectControls(w)
        \/ TakeLock(w) \/ DropRetained(w) \/ RemoveOutput(w)
  BY <1>1 DEF Advance, ReserveStage, Write, Validate, Seal, Sealed, MakeBackup, VerifyOld,
     MoveOld, AllMoved, Link, RemoveBackup, VerifyInstalled, RemoveInstalled,
     AllUninstalled, Restore, AllRestored, RemoveScratch, At, Outside
<1> QED
  BY <1>2 DEF Begin, Crash, CreateOutput, ProtectControls, TakeLock, DropRetained,
     RemoveOutput, CreateDir, disk, history

(* A step of one writer does not disturb the progress of another.          *)
LEMMA OthersProgress ==
  ASSUME AtomicInv, OwnershipInv', NEW w \in Writers,
         Begin(w) \/ Advance(w) \/ Crash(w),
         NEW u \in Writers, u # w
  PROVE  Progress(u)'
<1>1. /\ pc'[u] = pc[u] /\ owned'[u] = owned[u] /\ retain'[u] = retain[u]
      /\ old'[u] = old[u] /\ todo'[u] = todo[u] /\ target'[u] = target[u]
      /\ moved'[u] = moved[u] /\ installed'[u] = installed[u]
  BY OthersStay, OthersRemember DEF AtomicInv, OwnershipInv
<1>2. CASE owned[u] = {}
  <2>1. pc'[u] \in Outside \cup {"drop"} /\ owned'[u] = {}
    BY <1>1, <1>2 DEF AtomicInv, OwnershipInv, Claim
  <2> QED
    BY <1>1, <2>1 DEF AtomicInv, Progress, Outside, Preparing, Rolling, Fresh
<1>3. CASE owned[u] # {}
  <2>1. owned[w] = {} /\ "lock" \in dirs
    BY <1>3 DEF AtomicInv, OwnershipInv, OneOwner, Claim
  <2>2. UNCHANGED <<out, stage, backup, base, committed>>
    BY <2>1, BystanderHarmless DEF AtomicInv
  <2> QED
    BY <1>1, <2>2 DEF AtomicInv, Progress, Fresh, Replaces, Moving, Linking,
       RollingBack, OldFiles, StagedGroup, StagedNames, OwnedNames
<1> QED
  BY <1>2, <1>3

-----------------------------------------------------------------------------
(* The writer that moves.                                                  *)

(* A transaction that is gone makes no progress to speak of.               *)
LEMMA Forgotten ==
  ASSUME TypeOK, NEW w \in Writers, Forget(w)
  PROVE  Progress(w)'
  BY DEF Forget, Goto, TypeOK, Progress, Preparing, Rolling, Fresh

(* The previous group's files, by the manifest of the directory as found.  *)
LEMMA OldFilesOwned ==
  ASSUME NEW w \in Writers, old[w] = base[MANIFEST], Replaces
  PROVE  /\ OldFiles(w) \subseteq Files
         /\ OldFiles(w) \cap Names = OwnedNames(base)
         /\ MANIFEST \notin OldFiles(w) => base[MANIFEST] = NoFile
<1>1. NoFile \notin Groups
  BY ContentAssumption DEF Groups, ContentKinds
<1>2. \A g \in Groups : DOMAIN g \subseteq Names
  BY DEF Groups
<1> QED
  BY <1>1, <1>2, NamesAssumption DEF OldFiles, OwnedNames, Replaces, Files

(* The steps of begin, and of install up to the first move.                *)
LEMMA PreparationProgress ==
  ASSUME AtomicInv, OwnershipInv', NEW w \in Writers,
         \/ Begin(w) \/ CreateOutput(w) \/ ProtectControls(w) \/ TakeLock(w)
         \/ ReserveStage(w) \/ Write(w) \/ Validate(w) \/ Seal(w) \/ MakeBackup(w)
  PROVE  Progress(w)' /\ NothingLost'
<1> USE DEF AtomicInv, OwnershipInv, TypeOK, Goto, At, disk, history, transaction,
            CreateDir, HardLink
<1>1. CASE Begin(w)
  BY <1>1 DEF Begin, Progress, Outside, Preparing, Rolling, Fresh, NothingLost
<1>2. CASE CreateOutput(w) \/ ProtectControls(w)
  <2>1. Progress(w)'
    BY <1>2, Forgotten DEF CreateOutput, ProtectControls, Progress, Outside, Preparing,
                           Rolling, Fresh
  <2> QED
    BY <1>2, <2>1 DEF CreateOutput, ProtectControls, NothingLost
<1>3. CASE TakeLock(w)
  <2>1. Progress(w)'
    BY <1>3 DEF TakeLock, Abandon, Own, Progress, Outside, Preparing, Rolling, Fresh,
                Claim
  <2> QED
    BY <1>3, <2>1 DEF TakeLock, NothingLost
<1>4. CASE ReserveStage(w)
  BY <1>4 DEF ReserveStage, Abandon, Progress, Preparing, Rolling, Fresh, NothingLost
<1>5. CASE Write(w)
  BY <1>5 DEF Write, Abandon, Progress, Preparing, Rolling, Fresh, NothingLost
<1>6. CASE Validate(w)
  BY <1>6 DEF Validate, Abandon, Progress, Preparing, Rolling, Fresh, NothingLost,
              Replaces, Protected, Unmodified, StagedNames
<1>7. CASE Seal(w)
  <2>1. StagedNames' = StagedNames /\ StagedGroup' = StagedGroup
    BY <1>7, NamesAssumption DEF Seal, Sealed, StagedNames, StagedGroup, Products, Directories, Files
  <2>2. ASSUME stage' = Sealed PROVE stage'[MANIFEST] = StagedGroup'
    BY <2>1, <2>2 DEF Sealed, Files, Products, Directories
  <2>3. CASE ~OverQuota(Sealed) /\ stage' = Sealed /\ Goto(w, "backup")
    <3>1. ~OverQuota(stage)' /\ stage'[MANIFEST] = StagedGroup'
      BY <2>2, <2>3 DEF OverQuota
    <3> QED
      BY <1>7, <2>1, <2>3, <3>1 DEF Seal, Progress, Preparing, Rolling, Fresh, NothingLost, Replaces
  <2>4. CASE Abandon(w)
    BY <1>7, <2>1, <2>4 DEF Seal, Abandon, Progress, Preparing, Rolling, Fresh, NothingLost, Replaces
  <2> QED
    BY <1>7, <2>3, <2>4 DEF Seal
<1>8. CASE MakeBackup(w)
  <2>1. StagedNames' = StagedNames /\ StagedGroup' = StagedGroup
    BY <1>8 DEF MakeBackup, StagedNames, StagedGroup
  <2> QED
    BY <1>8, <2>1 DEF MakeBackup, Abandon, Progress, Preparing, Rolling, Fresh, NothingLost,
                      Replaces, Moving, OldFiles
<1> QED
  BY <1>1, <1>2, <1>3, <1>4, <1>5, <1>6, <1>7, <1>8

(* The loops of install, and the removal of the backup.                    *)
LEMMA InstallationProgress ==
  ASSUME AtomicInv, OwnershipInv', NEW w \in Writers,
         \/ VerifyOld(w) \/ MoveOld(w) \/ AllMoved(w) \/ Link(w) \/ RemoveBackup(w)
  PROVE  Progress(w)' /\ NothingLost'
<1> USE DEF AtomicInv, OwnershipInv, TypeOK, Goto, At, disk, history, transaction,
            CreateDir, HardLink
<1> USE DEF Progress, Outside, Preparing, Rolling, Fresh, NothingLost
<1>1. ASSUME UNCHANGED <<stage, base, old>>
      PROVE  /\ StagedNames' = StagedNames /\ StagedGroup' = StagedGroup
             /\ (Replaces <=> Replaces') /\ OldFiles(w)' = OldFiles(w)
  BY <1>1 DEF StagedNames, StagedGroup, Replaces, OldFiles
<1>2. CASE VerifyOld(w)
  BY <1>1, <1>2 DEF VerifyOld, Visited, Visits, StartRollback, Moving, RollingBack
<1>3. CASE MoveOld(w)
  <2>1. CASE StartRollback(w) /\ UNCHANGED <<out, backup, moved>>
    BY <1>3, <2>1 DEF MoveOld, StartRollback, Moving, RollingBack
  <2>2. CASE ~(StartRollback(w) /\ UNCHANGED <<out, backup, moved>>)
    <3> DEFINE t == target[w]
    <3>1. /\ t \in Files /\ t \in todo[w] /\ out[t] # NoFile
          /\ out' = [out EXCEPT ![t] = NoFile]
          /\ backup' = [backup EXCEPT ![t] = out[t]]
          /\ moved' = [moved EXCEPT ![w] = @ \cup {t}]
          /\ todo' = [todo EXCEPT ![w] = @ \ {t}]
          /\ pc' = [pc EXCEPT ![w] = "move"]
          /\ UNCHANGED <<stage, retain, old, target, installed, base, committed>>
      BY <1>3, <2>2 DEF MoveOld, Visited
    <3>2. Moving(w)
      BY <1>3 DEF MoveOld
    <3>3. out[t] = base[t] /\ t \in OldFiles(w)
      BY <3>1, <3>2 DEF Moving
    <3>4. \A f \in Files : /\ out'[f] = IF f = t THEN NoFile ELSE out[f]
                          /\ backup'[f] = IF f = t THEN base[t] ELSE backup[f]
      BY <3>1, <3>3 DEF Directories
    <3>5. moved'[w] = moved[w] \cup {t} /\ todo'[w] = todo[w] \ {t}
          /\ installed'[w] = {} /\ ~retain'[w] /\ pc'[w] = "move"
      BY <3>1, <3>2 DEF Moving
    <3>6. Moving(w)'
      BY <1>1, <3>1, <3>2, <3>3, <3>4, <3>5 DEF Moving
    <3>7. NothingLost'
      BY <1>3, <3>1, <3>4 DEF MoveOld
    <3> QED
      BY <1>1, <1>3, <3>1, <3>5, <3>6, <3>7 DEF MoveOld
  <2> QED
    BY <2>1, <2>2
<1>4. CASE AllMoved(w)
  BY <1>1, <1>4 DEF AllMoved, Moving, Linking
<1>5. CASE Link(w)
  BY <1>1, <1>5 DEF Link, Visits, Visited, StartRollback, Linking, RollingBack, Directories
<1>6. CASE RemoveBackup(w)
  BY <1>6 DEF RemoveBackup
<1> QED
  BY <1>2, <1>3, <1>4, <1>5, <1>6

(* The rollback.                                                           *)
LEMMA RollbackProgress ==
  ASSUME AtomicInv, OwnershipInv', NEW w \in Writers,
         \/ VerifyInstalled(w) \/ RemoveInstalled(w) \/ AllUninstalled(w)
         \/ Restore(w) \/ AllRestored(w)
  PROVE  Progress(w)' /\ NothingLost'
<1> USE DEF AtomicInv, OwnershipInv, TypeOK, Goto, At, disk, history, transaction,
            CreateDir, HardLink
<1> USE DEF Progress, Outside, Preparing, Rolling, Fresh, NothingLost
<1>1. CASE VerifyInstalled(w)
  BY <1>1 DEF VerifyInstalled, KeepEverything, RollingBack
<1>2. CASE RemoveInstalled(w)
  BY <1>2 DEF RemoveInstalled, KeepEverything, RollingBack, Directories
<1>3. CASE AllUninstalled(w)
  BY <1>3 DEF AllUninstalled, RollingBack
<1>4. CASE Restore(w)
  BY <1>4 DEF Restore, KeepEverything, RollingBack, Directories
<1>5. CASE AllRestored(w)
  BY <1>5 DEF AllRestored, RollingBack, Directories
<1> QED
  BY <1>1, <1>2, <1>3, <1>4, <1>5

(* Drop, and death.                                                        *)
LEMMA DropProgress ==
  ASSUME AtomicInv, OwnershipInv', NEW w \in Writers,
         DropRetained(w) \/ RemoveScratch(w) \/ RemoveOutput(w) \/ Crash(w)
  PROVE  Progress(w)' /\ NothingLost'
<1> USE DEF AtomicInv, OwnershipInv, disk, history
<1>1. CASE DropRetained(w) \/ RemoveOutput(w) \/ Crash(w)
  <2>1. Progress(w)'
    BY <1>1, Forgotten DEF DropRetained, RemoveOutput, Crash
  <2> QED
    BY <1>1, <2>1 DEF DropRetained, RemoveOutput, Crash, NothingLost
<1>2. CASE RemoveScratch(w)
  <2>1. "lock" \in dirs /\ (committed \/ out = base)
    BY <1>2 DEF RemoveScratch, Claim, Progress, At
  <2>2. UNCHANGED <<out, base, committed, pc, retain>> /\ pc[w] = "drop"
    BY <1>2 DEF RemoveScratch, At
  <2>3. Progress(w)'
    BY <2>1, <2>2 DEF Progress, Outside, Preparing, Rolling
  <2> QED
    BY <2>1, <2>2, <2>3 DEF NothingLost
<1> QED
  BY <1>1, <1>2

-----------------------------------------------------------------------------
(* The theorems.                                                           *)

(* Every step of such writers preserves the invariant.                     *)
LEMMA AtomicStep ==
  ASSUME AtomicInv, [Next]_vars
  PROVE  AtomicInv'
<1>1. OwnershipInv'
  BY OwnershipStep DEF AtomicInv
<1>2. CASE UNCHANGED vars
  BY <1>1, <1>2 DEF AtomicInv, NothingLost, Progress, vars, disk, transaction, history,
     Fresh, Replaces, Moving, Linking, RollingBack, OldFiles, StagedGroup, StagedNames
<1>3. ASSUME NEW w \in Writers, Begin(w) \/ Advance(w) \/ Crash(w)
      PROVE  AtomicInv'
  <2>1. Progress(w)' /\ NothingLost'
    BY <1>1, <1>3, PreparationProgress, InstallationProgress, RollbackProgress,
       DropProgress DEF Advance
  <2>2. \A u \in Writers \ {w} : Progress(u)'
    BY <1>1, <1>3, OthersProgress
  <2> QED
    BY <1>1, <2>1, <2>2 DEF AtomicInv
<1> QED
  BY <1>2, <1>3 DEF Next

(* The invariant holds at every moment among writers that honour the lock. *)
LEMMA AtomicAlways == Spec => []AtomicInv
<1>1. Init => OwnershipInv
  BY TypeInit DEF Init, OwnershipInv, OneOwner, Claim, Outside, Installing
<1>2. Init => AtomicInv
  BY <1>1 DEF Init, AtomicInv, NothingLost, Progress, Outside, Preparing, Rolling, Fresh
<1> QED
  BY <1>2, AtomicStep, PTL DEF Spec

(* Before the new manifest is linked, no file of the previous group is     *)
(* ever missing from both the directory and the backup, so that a failure, *)
(* a failed rollback or a death at any point leaves it recoverable.        *)
THEOREM Recoverable == Spec => []NothingLost
<1>1. AtomicInv => NothingLost
  BY DEF AtomicInv
<1> QED
  BY <1>1, AtomicAlways, PTL

(* The abstract directory and the concrete one speak of the same files.    *)
LEMMA SameFiles ==
  /\ Publication!Files = Files /\ Publication!Groups = Groups
  /\ Publication!Directories = Directories
  /\ \A d : Publication!OwnedNames(d) = OwnedNames(d)
  /\ Publication!EmptyDirectory = EmptyDirectory
  /\ \A x : Publication!Bytes(x) = Bytes(x)
<1>1. Publication!Files = Files /\ Publication!Groups = Groups
  BY DEF Publication!Files, Files, Publication!Groups, Groups
<1>2. Publication!Directories = Directories
  BY <1>1 DEF Publication!Directories, Directories, Publication!Contents, Contents,
     Publication!ContentKinds, ContentKinds
<1>3. \A d : Publication!OwnedNames(d) = OwnedNames(d)
  BY <1>1 DEF Publication!OwnedNames, OwnedNames
<1>4. Publication!EmptyDirectory = EmptyDirectory
  BY <1>1 DEF Publication!EmptyDirectory, EmptyDirectory
<1>5. \A x : Publication!Bytes(x) = Bytes(x)
  BY DEF Publication!Bytes, Bytes
<1> QED
  BY <1>1, <1>2, <1>3, <1>4, <1>5

(* A sealed scratch is what its group and the manifest are by themselves.  *)
LEMMA SealedFits ==
  ASSUME stage \in Products, stage[MANIFEST] = StagedGroup, ~OverQuota(stage)
  PROVE  Publication!WithinQuota(StagedGroup)
<1> DEFINE alone == Publication!Replaced(EmptyDirectory, StagedGroup)
<1>1. alone = [f \in Files |-> alone[f]]
  BY SameFiles DEF Publication!Replaced
<1>2. stage \in Directories /\ stage = [f \in Files |-> stage[f]]
  BY DEF Products, Directories
<1>o. OwnedNames(EmptyDirectory) = {}
  BY ContentAssumption DEF OwnedNames, EmptyDirectory, Groups, ContentKinds, Files
<1>3. ASSUME NEW f \in Files PROVE alone[f] = stage[f]
  <2>1. /\ DOMAIN StagedGroup = StagedNames /\ MANIFEST \notin StagedNames
        /\ \A n \in StagedNames : StagedGroup[n] = stage[n]
        /\ f # MANIFEST /\ f \notin StagedNames => stage[f] = NoFile
        /\ EmptyDirectory[f] = NoFile
    BY NamesAssumption DEF StagedGroup, StagedNames, EmptyDirectory, Files
  <2>2. CASE f = MANIFEST
    BY <1>o, <2>1, <2>2, SameFiles DEF Publication!Replaced
  <2>3. CASE f # MANIFEST /\ f \in StagedNames
    BY <1>o, <2>1, <2>3, SameFiles DEF Publication!Replaced
  <2>4. CASE f # MANIFEST /\ f \notin StagedNames
    BY <2>1, <2>4, SameFiles DEF Publication!Replaced
  <2> QED
    BY <2>2, <2>3, <2>4
<1>4. alone = stage
  BY <1>1, <1>2, <1>3
<1>5. Size(stage) \in Nat /\ ~(Size(stage) > Maximum)
  BY <1>2, QuotaAssumption DEF OverQuota
<1>6. Size(stage) <= Maximum
  <2> DEFINE size == Size(stage)
  <2>1. size \in Nat /\ ~(size > Maximum)
    BY <1>5
  <2> HIDE DEF size
  <2>2. size <= Maximum
    BY <2>1, QuotaAssumption
  <2> QED
    BY <2>2 DEF size
<1> QED
  BY <1>4, <1>6, SameFiles DEF Publication!WithinQuota

(* Linking the manifest turns the directory as it was found into the       *)
(* directory with the owned group replaced.                                *)
LEMMA CommitStep ==
  ASSUME AtomicInv, NEW w \in Writers, Link(w), committed'
  PROVE  \E group \in Publication!Groups : Publication!Publish(group)
<1> USE DEF AtomicInv, OwnershipInv, TypeOK
<1>1. pc[w] = "link" /\ ~committed /\ Linking(w) /\ "lock" \in dirs
  BY DEF Link, At, Progress, Rolling, Preparing, Claim, Outside
<1>2. /\ out[MANIFEST] = NoFile /\ todo[w] = {MANIFEST}
      /\ out' = [out EXCEPT ![MANIFEST] = stage[MANIFEST]]
      /\ UNCHANGED <<dirs, base>>
  BY <1>1 DEF Link, HardLink, Visits
<1>3. installed[w] = StagedNames
  BY <1>1, <1>2, NamesAssumption DEF Linking, StagedNames
<1>4. old[w] = base[MANIFEST] /\ Replaces /\ stage[MANIFEST] = StagedGroup
      /\ ~OverQuota(stage)
  BY <1>1 DEF Progress
<1>5. /\ OldFiles(w) \subseteq Files /\ OldFiles(w) \cap Names = OwnedNames(base)
  BY <1>4, OldFilesOwned
<1>6. StagedGroup \in Groups /\ DOMAIN StagedGroup = StagedNames
  BY StagedIsGroup DEF StagedGroup
<1>7. Settled = base /\ Settled' = out'
  BY <1>1, <1>2 DEF Settled
<1>q. Publication!WithinQuota(StagedGroup)
  BY <1>4, <1>6, SealedFits
<1>8. Publication!Replaceable(base, StagedGroup)
  BY <1>4, <1>6, <1>q, SameFiles DEF Publication!Replaceable, Replaces
<1>9. \A f \in Files : out'[f] = Publication!Replaced(base, StagedGroup)[f]
  <2> SUFFICES ASSUME NEW f \in Files
               PROVE  out'[f] = Publication!Replaced(base, StagedGroup)[f]
    OBVIOUS
  <2>1. CASE f = MANIFEST
    <3>1. f \notin DOMAIN StagedGroup /\ f \notin OwnedNames(base)
      BY <1>5, <1>6, <2>1, NamesAssumption DEF StagedNames
    <3> QED
      BY <1>2, <1>4, <2>1, <3>1, SameFiles DEF Publication!Replaced, Directories
  <2>2. CASE f # MANIFEST /\ f \in StagedNames
    BY <1>1, <1>2, <1>3, <1>6, <2>2, SameFiles
    DEF Publication!Replaced, Linking, StagedGroup
  <2>3. CASE f # MANIFEST /\ f \notin StagedNames
    <3>1. f \in Names /\ (f \in OldFiles(w) <=> f \in OwnedNames(base))
      BY <1>5, <2>3 DEF Files
    <3>2. out'[f] = IF f \in OwnedNames(base) THEN NoFile ELSE base[f]
      BY <1>1, <1>2, <1>3, <2>3, <3>1 DEF Linking, Directories
    <3> QED
      BY <1>6, <2>3, <3>2, SameFiles DEF Publication!Replaced
  <2> QED
    BY <2>1, <2>2, <2>3
<1>10. out' = Publication!Replaced(base, StagedGroup)
  <2>1. out' = [f \in Files |-> out'[f]]
    BY <1>2 DEF Directories
  <2>2. Publication!Replaced(base, StagedGroup)
          = [f \in Files |-> Publication!Replaced(base, StagedGroup)[f]]
    BY SameFiles DEF Publication!Replaced
  <2> QED
    BY <1>9, <2>1, <2>2
<1> QED
  BY <1>6, <1>7, <1>8, <1>10, SameFiles DEF Publication!Publish

(* Every other step leaves what the keepers rely on as it is.              *)
LEMMA StutterStep ==
  ASSUME AtomicInv, AtomicInv', NEW w \in Writers,
         Begin(w) \/ Advance(w) \/ Crash(w),
         ~(Link(w) /\ committed')
  PROVE  UNCHANGED Settled
<1> USE DEF Settled, disk, history, CreateDir
<1>1. CASE Begin(w) \/ Crash(w) \/ CreateOutput(w) \/ ProtectControls(w) \/ Write(w)
             \/ ReserveStage(w) \/ Validate(w) \/ Seal(w) \/ MakeBackup(w)
  BY <1>1 DEF Begin, Crash, CreateOutput, ProtectControls, Write, ReserveStage,
              Validate, Seal, Sealed, MakeBackup
<1>2. CASE TakeLock(w)
  BY <1>2 DEF TakeLock
<1>3. CASE VerifyOld(w) \/ AllMoved(w) \/ VerifyInstalled(w) \/ AllUninstalled(w)
             \/ AllRestored(w) \/ DropRetained(w) \/ RemoveBackup(w) \/ RemoveOutput(w)
  BY <1>3 DEF VerifyOld, AllMoved, VerifyInstalled, AllUninstalled, AllRestored,
              DropRetained, RemoveBackup, RemoveOutput
<1>4. CASE MoveOld(w) \/ RemoveInstalled(w) \/ Restore(w) \/ Link(w)
  <2>1. "lock" \in dirs /\ ~committed
    BY <1>4 DEF AtomicInv, OwnershipInv, Claim, Progress, Preparing, Rolling, Outside,
       MoveOld, RemoveInstalled, Restore, Link, At
  <2>2. dirs' = dirs /\ base' = base /\ ~committed'
    BY <1>4, <2>1 DEF MoveOld, RemoveInstalled, Restore, Link
  <2> QED
    BY <2>1, <2>2
<1>5. CASE RemoveScratch(w)
  <2>1. "lock" \in dirs /\ (committed \/ out = base)
    BY <1>5 DEF RemoveScratch, AtomicInv, OwnershipInv, Claim, Progress, At
  <2>2. UNCHANGED <<out, base, committed>>
    BY <1>5 DEF RemoveScratch
  <2> QED
    BY <2>1, <2>2
<1> QED
  BY <1>1, <1>2, <1>3, <1>4, <1>5 DEF Advance

(* A publication by writers that honour the lock is one atomic replacement *)
(* of the owned group, or none at all: DirectoryPublication implements     *)
(* ResultDirectory.                                                        *)
THEOREM Atomicity == Spec => Atomic
<1>1. Init => Publication!Init
  BY SameFiles, EmptyIsDirectory DEF Init, Publication!Init, Settled
<1>2. AtomicInv /\ AtomicInv' /\ [Next]_vars => [Publication!Next]_Settled
  <2> SUFFICES ASSUME AtomicInv, AtomicInv', [Next]_vars
               PROVE  Publication!Next \/ UNCHANGED Settled
    OBVIOUS
  <2>1. CASE UNCHANGED vars
    BY <2>1 DEF vars, disk, history, Settled
  <2>2. ASSUME NEW w \in Writers, Begin(w) \/ Advance(w) \/ Crash(w)
        PROVE  Publication!Next \/ UNCHANGED Settled
    BY <2>2, CommitStep, StutterStep DEF Publication!Next
  <2> QED
    BY <2>1, <2>2 DEF Next
<1> QED
  BY <1>1, <1>2, AtomicAlways, PTL DEF Spec, Atomic, Publication!Spec

-----------------------------------------------------------------------------
(* A directory that other programs add files to.  The invariant: what is   *)
(* installed and what is about to be moved is the transaction's own.       *)

Installed(u) ==
  \A f \in installed[u] : stage[f] # NoFile /\ out[f] = stage[f]

Marking(u) ==
  /\ pc[u] \notin Outside \cup {"drop", "commit"} => ~committed
  /\ pc[u] \in Outside \cup Preparing \cup {"move", "rename"} => installed[u] = {}
  /\ pc[u] \in {"backup", "move", "rename", "link"} => stage[MANIFEST] = StagedGroup
  /\ pc[u] \in {"move", "rename"} => todo[u] \subseteq OldFiles(u)
  /\ pc[u] = "rename" => out[target[u]] \notin ContentKinds
  /\ pc[u] = "link" =>
       /\ MANIFEST \in todo[u] /\ installed[u] \cap todo[u] = {}
       /\ installed[u] \cup todo[u] = StagedNames \cup {MANIFEST}
  /\ pc[u] \in {"link", "uninstall", "unlink"} => Installed(u)
  /\ pc[u] = "unlink" => target[u] \in installed[u]

MarkerInv == OwnershipInv /\ CommitMarker /\ \A u \in Writers : Marking(u)

Crowd == \E f \in Files : Appear(f)

(* A step of one writer does not disturb what another has installed.       *)
LEMMA OthersMarking ==
  ASSUME MarkerInv, OwnershipInv', NEW w \in Writers,
         Begin(w) \/ Advance(w) \/ Crash(w),
         NEW u \in Writers, u # w
  PROVE  Marking(u)'
<1>1. /\ pc'[u] = pc[u] /\ owned'[u] = owned[u]
      /\ old'[u] = old[u] /\ todo'[u] = todo[u] /\ target'[u] = target[u]
      /\ installed'[u] = installed[u]
  BY OthersStay, OthersRemember DEF MarkerInv, OwnershipInv
<1>2. CASE owned[u] = {}
  <2>1. pc'[u] \in Outside \cup {"drop"}
    BY <1>1, <1>2 DEF MarkerInv, OwnershipInv, Claim
  <2> QED
    BY <1>1, <2>1 DEF MarkerInv, Marking, Outside, Preparing
<1>3. CASE owned[u] # {}
  <2>1. owned[w] = {} /\ "lock" \in dirs
    BY <1>3 DEF MarkerInv, OwnershipInv, OneOwner, Claim
  <2>2. UNCHANGED <<out, stage, backup, base, committed>>
    BY <2>1, BystanderHarmless DEF MarkerInv
  <2> QED
    BY <1>1, <2>2 DEF MarkerInv, Marking, Installed, OldFiles, StagedGroup, StagedNames
<1> QED
  BY <1>2, <1>3

(* A step that changes no file of the output and does not reset the commit *)
(* keeps its marker.                                                       *)
LEMMA SameMarker ==
  ASSUME CommitMarker, UNCHANGED out,
         "lock" \in dirs' /\ committed' => "lock" \in dirs /\ committed
  PROVE  CommitMarker'
BY DEF CommitMarker, OwnedNames

(* What may be moved is a file of the previous group.                      *)
LEMMA ExpectedKnown ==
  ASSUME TypeOK, NEW w \in Writers, NEW f \in OldFiles(w), NEW file,
         file # NoFile, Protected(file), Unmodified(file, Expected(w, f))
  PROVE  file \notin ContentKinds
<1>1. Bytes(file) = Expected(w, f) /\ file # InputFile /\ Bytes(file) = file
  BY DEF Unmodified, Protected, Bytes
<1>2. old[w] \in Groups
  BY DEF TypeOK, OldFiles
<1>3. Expected(w, f) \in Groups \cup Data
  <2>1. CASE f = MANIFEST
    BY <1>2, <2>1 DEF Expected
  <2>2. CASE f # MANIFEST
    <3>1. f \in DOMAIN old[w]
      BY <2>2 DEF OldFiles
    <3> QED
      BY <1>2, <2>2, <3>1 DEF Expected, Groups
  <2> QED
    BY <2>1, <2>2
<1>4. (Groups \cup Data) \cap ContentKinds = {}
  BY ContentAssumption DEF Groups
<1> QED
  BY <1>1, <1>3, <1>4

(* The steps of begin, and of install up to the first move.                *)
LEMMA PreparationMarking ==
  ASSUME MarkerInv, OwnershipInv', NEW w \in Writers,
         \/ Begin(w) \/ CreateOutput(w) \/ ProtectControls(w) \/ TakeLock(w)
         \/ ReserveStage(w) \/ Write(w) \/ Validate(w) \/ Seal(w) \/ MakeBackup(w)
  PROVE  Marking(w)' /\ CommitMarker'
<1>1. CommitMarker'
  <2>1. UNCHANGED out /\ ("lock" \in dirs' /\ committed' => "lock" \in dirs /\ committed)
    BY DEF Begin, CreateOutput, ProtectControls, TakeLock, ReserveStage, Write, Validate, Seal, Sealed,
           MakeBackup, disk, history, CreateDir
  <2> QED
    BY <2>1, SameMarker DEF MarkerInv
<1>t. /\ pc \in [Writers -> Labels] /\ installed \in [Writers -> SUBSET Files]
      /\ todo \in [Writers -> SUBSET Files] /\ stage \in Products /\ Marking(w)
  BY DEF MarkerInv, OwnershipInv, TypeOK
<1>2. CASE Begin(w) \/ CreateOutput(w) \/ ProtectControls(w)
  <2>1. pc[w] \in Outside /\ installed[w] = {}
    BY <1>2, <1>t DEF Begin, CreateOutput, ProtectControls, At, Outside, Marking
  <2>2. pc'[w] \in Outside /\ installed'[w] = {}
    BY <1>2, <1>t, <2>1 DEF Begin, CreateOutput, ProtectControls, Forget, Goto, Outside, transaction
  <2> QED
    BY <1>1, <2>2 DEF Marking, Outside
<1>3. CASE TakeLock(w)
  <2>1. installed'[w] = {} /\ (pc'[w] = "drop" \/ (pc'[w] = "stage" /\ ~committed'))
    BY <1>3, <1>t DEF TakeLock, Abandon, Goto, At, Outside, Marking
  <2> QED
    BY <1>1, <2>1 DEF Marking, Outside
<1>4. CASE ReserveStage(w) \/ Write(w) \/ Validate(w)
  <2>1. pc[w] \in {"stage", "write", "validate"} /\ installed[w] = {} /\ ~committed
    BY <1>4, <1>t DEF ReserveStage, Write, Validate, At, Marking, Outside, Preparing
  <2>2. pc'[w] \in {"drop", "write", "validate", "seal"} /\ installed'[w] = {} /\ ~committed'
    BY <1>4, <1>t, <2>1 DEF ReserveStage, Write, Validate, Abandon, Goto, transaction, history
  <2> QED
    BY <1>1, <2>2 DEF Marking, Outside
<1>5. CASE Seal(w)
  <2>1. installed'[w] = {} /\ ~committed' /\ pc'[w] \in {"drop", "backup"}
    BY <1>5, <1>t DEF Seal, Sealed, Abandon, Goto, At, Marking, Outside, Preparing, transaction, history
  <2>2. StagedNames' = StagedNames /\ StagedGroup' = StagedGroup
    BY <1>5, <1>t, NamesAssumption DEF Seal, Sealed, StagedNames, StagedGroup, Products, Directories, Files
  <2>3. pc'[w] = "backup" => stage'[MANIFEST] = StagedGroup'
    BY <1>5, <1>t, <2>2 DEF Seal, Sealed, Abandon, Goto, Products, Directories, Files
  <2> QED
    BY <1>1, <2>1, <2>3 DEF Marking, Outside
<1>6. CASE MakeBackup(w)
  <2>1. /\ installed'[w] = {} /\ ~committed' /\ pc'[w] \in {"drop", "move"}
        /\ stage[MANIFEST] = StagedGroup
    BY <1>6, <1>t DEF MakeBackup, Abandon, Goto, At, Marking, Outside, Preparing, history
  <2>2. StagedGroup' = StagedGroup /\ OldFiles(w)' = OldFiles(w) /\ stage' = stage
    BY <1>6 DEF MakeBackup, StagedNames, StagedGroup, OldFiles
  <2>3. pc'[w] = "move" => todo'[w] \subseteq OldFiles(w)'
    BY <1>6, <1>t, <2>2 DEF MakeBackup, Abandon, Goto
  <2> QED
    BY <1>1, <2>1, <2>2, <2>3 DEF Marking, Outside
<1> QED
  BY <1>1, <1>2, <1>3, <1>4, <1>5, <1>6

(* The loops of install.                                                   *)
LEMMA InstallationMarking ==
  ASSUME MarkerInv, OwnershipInv', NEW w \in Writers,
         VerifyOld(w) \/ MoveOld(w) \/ AllMoved(w) \/ Link(w)
  PROVE  Marking(w)' /\ CommitMarker'
<1> USE DEF MarkerInv, OwnershipInv, TypeOK, Goto, At, disk, history, transaction
<1>0. ~committed
  BY DEF VerifyOld, MoveOld, AllMoved, Link, Marking, Outside
<1>s. UNCHANGED <<stage, old>> => /\ StagedNames' = StagedNames /\ StagedGroup' = StagedGroup
                                  /\ OldFiles(w)' = OldFiles(w)
  BY DEF StagedNames, StagedGroup, OldFiles
<1>1. CASE VerifyOld(w)
  <2>1. CommitMarker'
    BY <1>0, <1>1 DEF VerifyOld, CommitMarker
  <2>2. Marking(w)'
    <3>1. PICK f \in Files :
            /\ Visits(w, f)
            /\ \/ out[f] = NoFile /\ Visited(w, f) /\ UNCHANGED <<pc, target>>
               \/ /\ out[f] # NoFile /\ Protected(out[f])
                  /\ Unmodified(out[f], Expected(w, f))
                  /\ target' = [target EXCEPT ![w] = f]
                  /\ pc' = [pc EXCEPT ![w] = "rename"]
                  /\ UNCHANGED todo
               \/ StartRollback(w) /\ UNCHANGED target
      BY <1>1 DEF VerifyOld
    <3>2. f \in OldFiles(w)
      BY <1>1, <3>1 DEF VerifyOld, Visits, Marking
    <3>3. out[f] # NoFile /\ Protected(out[f]) /\ Unmodified(out[f], Expected(w, f)) =>
            out[f] \notin ContentKinds
      BY <3>2, ExpectedKnown
    <3> QED
      BY <1>1, <1>s, <3>1, <3>3 DEF VerifyOld, Visited, StartRollback, Marking, Outside, Preparing,
                                    Installed
  <2> QED
    BY <2>1, <2>2
<1>2. CASE MoveOld(w)
  BY <1>0, <1>2, <1>s DEF MoveOld, Visited, StartRollback, CommitMarker, Marking, Outside,
                          Preparing, Installed
<1>3. CASE AllMoved(w)
  BY <1>0, <1>3, <1>s DEF AllMoved, CommitMarker, Marking, Outside, Preparing, Installed
<1>4. CASE Link(w)
  <2>1. PICK f \in Files :
          /\ Visits(w, f)
          /\ \/ /\ HardLink(stage[f], f)
                /\ installed' = [installed EXCEPT ![w] = @ \cup {f}]
                /\ Visited(w, f)
                /\ committed' = (f = MANIFEST)
                /\ pc' = [pc EXCEPT ![w] = IF f = MANIFEST THEN "commit" ELSE "link"]
             \/ StartRollback(w) /\ UNCHANGED <<out, installed, committed>>
    BY <1>4 DEF Link
  <2>2. CASE StartRollback(w) /\ UNCHANGED <<out, installed, committed>>
    BY <1>0, <1>4, <2>2 DEF Link, StartRollback, CommitMarker, Marking, Outside, Preparing,
                            Installed
  <2>3. CASE HardLink(stage[f], f) /\ installed' = [installed EXCEPT ![w] = @ \cup {f}]
             /\ Visited(w, f) /\ committed' = (f = MANIFEST)
             /\ pc' = [pc EXCEPT ![w] = IF f = MANIFEST THEN "commit" ELSE "link"]
    <3>1. /\ out[f] = NoFile /\ stage[f] # NoFile /\ out' = [out EXCEPT ![f] = stage[f]]
          /\ todo' = [todo EXCEPT ![w] = @ \ {f}]
          /\ UNCHANGED <<stage, old, dirs>> /\ pc[w] = "link"
      BY <1>4, <2>3 DEF Link, HardLink, Visited
    <3>2. f \in todo[w] /\ (f = MANIFEST => todo[w] = {MANIFEST})
      BY <2>1 DEF Visits
    <3>3. \A g \in Files : out'[g] = IF g = f THEN stage[f] ELSE out[g]
      BY <3>1 DEF Directories
    <3>4. /\ MANIFEST \in todo[w] /\ installed[w] \cap todo[w] = {}
          /\ installed[w] \cup todo[w] = StagedNames \cup {MANIFEST}
          /\ Installed(w) /\ stage[MANIFEST] = StagedGroup
      BY <3>1 DEF Marking
    <3>5. StagedNames' = StagedNames /\ StagedGroup' = StagedGroup
      BY <1>s, <3>1
    <3>6. CASE f # MANIFEST
      <4>1. ~committed' /\ pc'[w] = "link" /\ installed'[w] = installed[w] \cup {f} /\ todo'[w] = todo[w] \ {f}
        BY <2>3, <3>1, <3>6
      <4>2. Installed(w)'
        BY <3>1, <3>3, <3>4, <4>1 DEF Installed
      <4> QED
        BY <3>1, <3>2, <3>4, <3>5, <3>6, <4>1, <4>2 DEF Marking, Outside, Preparing, CommitMarker
    <3>7. CASE f = MANIFEST
      <4>1. pc'[w] = "commit"
        BY <2>3, <3>7
      <4>2. todo[w] = {MANIFEST} /\ installed[w] = StagedNames
        BY <3>2, <3>4, <3>7, NamesAssumption DEF StagedNames
      <4>3. out'[MANIFEST] = StagedGroup /\ StagedGroup \in Groups /\ DOMAIN StagedGroup = StagedNames
        BY <3>3, <3>4, <3>7, StagedIsGroup DEF StagedGroup, Files
      <4>4. OwnedNames(out)' = StagedNames
        BY <4>3 DEF OwnedNames
      <4>5. ASSUME NEW n \in StagedNames PROVE out'[n] = StagedGroup[n]
        <5>1. out[n] = stage[n] /\ n # MANIFEST /\ n \in Files
          BY <3>4, <4>2, NamesAssumption DEF Installed, StagedNames, Files
        <5> QED
          BY <3>3, <3>7, <5>1 DEF StagedGroup
      <4>6. CommitMarker'
        BY <4>3, <4>4, <4>5 DEF CommitMarker
      <4> QED
        BY <4>1, <4>6 DEF Marking, Outside, Preparing
    <3> QED
      BY <3>6, <3>7
  <2> QED
    BY <2>1, <2>2, <2>3
<1> QED
  BY <1>1, <1>2, <1>3, <1>4

(* The rollback, the drop and death.                                       *)
LEMMA CleanupMarking ==
  ASSUME MarkerInv, OwnershipInv', NEW w \in Writers,
         \/ RemoveBackup(w) \/ VerifyInstalled(w) \/ RemoveInstalled(w) \/ AllUninstalled(w)
         \/ Restore(w) \/ AllRestored(w) \/ DropRetained(w) \/ RemoveScratch(w)
         \/ RemoveOutput(w) \/ Crash(w)
  PROVE  Marking(w)' /\ CommitMarker'
<1> USE DEF MarkerInv, OwnershipInv, TypeOK, Goto, At, disk, history, transaction
<1>1. CASE VerifyInstalled(w)
  BY <1>1 DEF VerifyInstalled, KeepEverything, CommitMarker, OwnedNames, Marking, Outside,
              Preparing, Installed
<1>2. CASE RemoveInstalled(w)
  BY <1>2 DEF RemoveInstalled, KeepEverything, CommitMarker, Marking, Outside, Preparing,
              Installed, Directories
<1>3. CASE AllUninstalled(w) \/ AllRestored(w)
  BY <1>3 DEF AllUninstalled, AllRestored, CommitMarker, OwnedNames, Marking, Outside, Preparing,
              Installed
<1>4. CASE Restore(w)
  BY <1>4 DEF Restore, KeepEverything, CommitMarker, Marking, Outside, Preparing, Installed
<1>5. CASE RemoveBackup(w) \/ RemoveScratch(w)
  <2>1. CommitMarker'
    <3>1. UNCHANGED out /\ ("lock" \in dirs' /\ committed' => "lock" \in dirs /\ committed)
      BY <1>5 DEF RemoveBackup, RemoveScratch
    <3> QED
      BY <3>1, SameMarker
  <2>2. pc'[w] = "drop"
    BY <1>5 DEF RemoveBackup, RemoveScratch
  <2> QED
    BY <2>1, <2>2 DEF Marking, Outside, Preparing
<1>6. CASE DropRetained(w) \/ RemoveOutput(w) \/ Crash(w)
  <2>1. CommitMarker'
    <3>1. UNCHANGED out /\ ("lock" \in dirs' /\ committed' => "lock" \in dirs /\ committed)
      BY <1>6 DEF DropRetained, RemoveOutput, Crash
    <3> QED
      BY <3>1, SameMarker
  <2>2. pc'[w] = "idle" /\ installed'[w] = {}
    BY <1>6 DEF DropRetained, RemoveOutput, Crash, Forget
  <2> QED
    BY <2>1, <2>2 DEF Marking, Outside, Preparing
<1> QED
  BY <1>1, <1>2, <1>3, <1>4, <1>5, <1>6

(* A new file takes a name no file had.                                    *)
LEMMA CrowdMarking ==
  ASSUME MarkerInv, Crowd
  PROVE  MarkerInv'
<1>1. PICK g \in Files :
        /\ out[g] = NoFile /\ (\E file \in {Foreign, InputFile} : out' = [out EXCEPT ![g] = file])
        /\ UNCHANGED <<dirs, stage, backup, pc, transaction, history, runs>>
  BY DEF Crowd, Appear
<1>2. out \in Directories /\ \A f \in Files : out[f] # NoFile => out'[f] = out[f]
  BY <1>1 DEF MarkerInv, OwnershipInv, TypeOK, Directories
<1>3. out'[g] \in {Foreign, InputFile}
  BY <1>1, <1>2 DEF Directories
<1>4. OwnershipInv'
  <2>1. [Next \/ Environment]_vars
    BY DEF Crowd, Environment
  <2> QED
    BY <2>1, OwnershipStep DEF MarkerInv
<1>5. CommitMarker'
  <2> SUFFICES ASSUME "lock" \in dirs, committed, NEW f \in OwnedNames(out)'
               PROVE  out'[f] = out'[MANIFEST][f]
    BY <1>1 DEF CommitMarker, history
  <2>1. MANIFEST \in Files /\ Foreign \notin Groups /\ InputFile \notin Groups /\ NoFile \notin Groups
    BY ContentAssumption DEF Files, Groups, ContentKinds
  <2>2. out'[MANIFEST] \in Groups /\ f \in DOMAIN out'[MANIFEST]
    BY DEF OwnedNames
  <2>3. out'[MANIFEST] = out[MANIFEST]
    BY <1>2, <1>3, <2>1, <2>2, <1>1 DEF Directories
  <2>4. f \in OwnedNames(out) /\ f \in Names /\ out[MANIFEST][f] \in Data
    BY <2>2, <2>3 DEF OwnedNames, Groups
  <2>5. out[f] = out[MANIFEST][f]
    BY <2>4 DEF MarkerInv, CommitMarker
  <2>6. out[f] # NoFile
    BY <2>4, <2>5, ContentAssumption DEF ContentKinds
  <2> QED
    BY <1>2, <2>3, <2>4, <2>5, <2>6 DEF Files
<1>6. ASSUME NEW u \in Writers PROVE Marking(u)'
  <2>1. UNCHANGED <<stage, pc, old, todo, target, installed, committed>>
    BY <1>1 DEF transaction, history
  <2>2. Marking(u) /\ installed[u] \subseteq Files /\ target[u] \in Files
    BY DEF MarkerInv, OwnershipInv, TypeOK
  <2>3. Installed(u) => Installed(u)'
    BY <1>2, <2>1, <2>2 DEF Installed
  <2>4. out[target[u]] \notin ContentKinds => out'[target[u]] \notin ContentKinds
    BY <1>2, <2>2 DEF ContentKinds
  <2>5. StagedNames' = StagedNames /\ StagedGroup' = StagedGroup /\ OldFiles(u)' = OldFiles(u)
    BY <2>1 DEF StagedNames, StagedGroup, OldFiles
  <2> QED
    BY <2>1, <2>2, <2>3, <2>4, <2>5 DEF Marking
<1> QED
  BY <1>4, <1>5, <1>6 DEF MarkerInv

LEMMA MarkerStep ==
  ASSUME MarkerInv, [Next \/ Crowd]_vars
  PROVE  MarkerInv'
<1>1. OwnershipInv'
  <2>1. [Next \/ Environment]_vars
    BY DEF Crowd, Environment
  <2> QED
    BY <2>1, OwnershipStep DEF MarkerInv
<1>2. CASE UNCHANGED vars
  BY <1>1, <1>2 DEF MarkerInv, CommitMarker, OwnedNames, Marking, Installed, vars, disk,
     transaction, history, OldFiles, StagedGroup, StagedNames
<1>3. ASSUME NEW w \in Writers, Begin(w) \/ Advance(w) \/ Crash(w)
      PROVE  MarkerInv'
  <2>1. Marking(w)' /\ CommitMarker'
    BY <1>1, <1>3, PreparationMarking, InstallationMarking, CleanupMarking DEF Advance
  <2>2. \A u \in Writers \ {w} : Marking(u)'
    BY <1>1, <1>3, OthersMarking
  <2> QED
    BY <1>1, <2>1, <2>2 DEF MarkerInv
<1> QED
  BY <1>2, <1>3, CrowdMarking DEF Next

LEMMA MarkerAlways == CrowdedSpec => []MarkerInv
<1>1. Init => OwnershipInv
  BY TypeInit DEF Init, OwnershipInv, OneOwner, Claim, Outside, Installing
<1>2. Init => MarkerInv
  BY <1>1 DEF Init, MarkerInv, CommitMarker, Marking, Outside, Preparing
<1> QED
  BY <1>2, MarkerStep, PTL DEF CrowdedSpec, Crowd

(* The manifest can be trusted as the commit marker: whatever other        *)
(* programs add to the directory, whatever fails and whoever dies, once it *)
(* is linked everything it names is there as it was written.               *)
THEOREM CommitTrusted == CrowdedSpec => []CommitMarker
<1>1. MarkerInv => CommitMarker
  BY DEF MarkerInv
<1> QED
  BY <1>1, MarkerAlways, PTL

(* No publication moves, replaces or removes a file that another program   *)
(* added, not even one that appears under a name of the group while the    *)
(* group is being installed or rolled back.                                *)
THEOREM ForeignKept == CrowdedSpec => UnrelatedKept
<1> DEFINE Kept == \A f \in Files : out[f] \in {Foreign, InputFile} => out'[f] = out[f]
<1>1. MarkerInv /\ [Next \/ Crowd]_vars => [Kept]_vars
  <2> SUFFICES ASSUME MarkerInv, Next \/ Crowd, NEW f \in Files, out[f] \in {Foreign, InputFile}
               PROVE  out'[f] = out[f]
    OBVIOUS
  <2>t. TypeOK /\ out \in Directories /\ Foreign # NoFile /\ InputFile # NoFile
    BY ContentAssumption DEF MarkerInv, OwnershipInv, TypeOK
  <2>1. CASE Crowd
    BY <2>1, <2>t DEF Crowd, Appear, Directories
  <2>2. ASSUME NEW w \in Writers, MoveOld(w) PROVE out'[f] = out[f]
    <3>1. out[target[w]] \notin ContentKinds
      BY <2>2 DEF MoveOld, At, MarkerInv, Marking
    <3>2. target[w] # f
      BY <3>1 DEF ContentKinds
    <3> QED
      BY <2>2, <2>t, <3>2 DEF MoveOld, Directories
  <2>3. ASSUME NEW w \in Writers, RemoveInstalled(w) PROVE out'[f] = out[f]
    <3>1. out[target[w]] = stage[target[w]] /\ target[w] \in Files
      BY <2>3, <2>t DEF RemoveInstalled, At, MarkerInv, Marking, Installed, TypeOK
    <3>2. stage[target[w]] \notin {InputFile, Foreign}
      BY <2>t, <3>1 DEF TypeOK, Products
    <3>3. target[w] # f
      BY <3>1, <3>2
    <3> QED
      BY <2>3, <2>t, <3>3 DEF RemoveInstalled, Directories
  <2>4. ASSUME NEW w \in Writers, Link(w) \/ Restore(w) PROVE out'[f] = out[f]
    BY <2>4, <2>t DEF Link, Restore, HardLink, Directories
  <2>5. ASSUME NEW w \in Writers, ~(MoveOld(w) \/ RemoveInstalled(w) \/ Link(w) \/ Restore(w)),
               Begin(w) \/ Advance(w) \/ Crash(w)
        PROVE  out'[f] = out[f]
    BY <2>5 DEF Advance, Begin, Crash, CreateOutput, ProtectControls, TakeLock, ReserveStage, Write,
       Validate, Seal, Sealed, MakeBackup, VerifyOld, AllMoved, RemoveBackup, VerifyInstalled,
       AllUninstalled, AllRestored, DropRetained, RemoveScratch, RemoveOutput, disk
  <2> QED
    BY <2>1, <2>2, <2>3, <2>4, <2>5 DEF Next
<1> QED
  BY <1>1, MarkerAlways, PTL DEF CrowdedSpec, Crowd, UnrelatedKept
=============================================================================
