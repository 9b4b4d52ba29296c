----------------------- MODULE FilePublication_proofs -----------------------
(****************************************************************************)
(* Theorems about FilePublication for every set of callers and number of   *)
(* calls, under the discipline that makes them true.                       *)
(****************************************************************************)
EXTENDS FilePublication, TLAPS

(* The values that stand for files are told apart.                         *)
USE FilesAssumption, CallsAssumption

(* A call that has reserved the scratch and not yet ended holds its name:  *)
(* only a rename of its own takes it away.                                 *)
HoldsScratch ==
  \A c \in Callers :
    /\ pc[c] # "idle" => c \in callers
    /\ pc[c] \in Reserved => tmp = Scratch(c)
    /\ pc[c] = "drop" => \/ tmp = Scratch(c)
                         \/ tmp = NoFile /\ c \in overwriting

(* From the end of Close on, the call's inode is complete.                 *)
ClosedBefore ==
  \A c \in Callers :
    pc[c] \in {"measure", "sync", "install"} => Scratch(c) \in complete

(* Between the installation and the end of the call, an Ok is true.        *)
Published ==
  \A c \in Callers :
    pc[c] = "drop" /\ answer[c] = "ok" =>
      output = Scratch(c) /\ output \in complete

(* Nothing is under way while the destination is an input.                 *)
InputGuarded == output = InputFile => \A c \in Callers : pc[c] = "idle"

PublishInv ==
  InputGuarded /\ TypeOK /\ Disciplined /\ HoldsScratch /\ ClosedBefore /\ Published /\ CompleteOnly

-----------------------------------------------------------------------------
(* Types.                                                                  *)

(* The scratch of a call is one of the inodes calls create.                *)
LEMMA ScratchType ==
  ASSUME TypeOK, NEW c \in Callers, calls[c] > 0
  PROVE  Scratch(c) \in Inodes
  BY DEF TypeOK, Scratch, Inodes

(* A call that is under way has been counted.                              *)
Counted == \A c \in Callers : pc[c] # "idle" => calls[c] > 0

(* Every step keeps the types, and counts the calls it begins.             *)
LEMMA TypeStep ==
  ASSUME TypeOK, Counted, [Next]_vars
  PROVE  TypeOK' /\ Counted'
<1>1. CASE UNCHANGED vars
  BY <1>1 DEF vars, setup, TypeOK, Counted
<1>2. CASE Appear
  BY <1>2 DEF Appear, setup, TypeOK, Counted, OldFiles
<1>3. ASSUME NEW c \in Callers, Step(c)
      PROVE  TypeOK' /\ Counted'
  <2>0. Labels = {"write", "close", "measure", "sync", "install",
                  "idle", "create", "drop"}
    BY DEF Labels, Reserved
  <2>1. CASE Begin(c)
    BY <2>0, <2>1 DEF Begin, Goto, Answer, setup, TypeOK, Counted
  <2>2. CASE CreateScratch(c)
    BY <2>0, <2>2, ScratchType
       DEF CreateScratch, Goto, Answer, setup, TypeOK, Counted
  <2>3. CASE Write(c)
    BY <2>0, <2>3 DEF Write, Fail, Goto, Answer, setup, TypeOK, Counted
  <2>4. CASE Close(c)
    BY <2>0, <2>4, ScratchType
       DEF Close, Fail, Goto, Answer, setup, TypeOK, Counted
  <2>5. CASE Measure(c)
    BY <2>0, <2>5 DEF Measure, Fail, Goto, Answer, setup, TypeOK, Counted
  <2>6. CASE Sync(c)
    BY <2>0, <2>6 DEF Sync, Fail, Goto, Answer, setup, TypeOK, Counted
  <2>7. CASE Install(c)
    BY <2>0, <2>7 DEF Install, Fail, Goto, Answer, setup, TypeOK, Counted
  <2>8. CASE Drop(c)
    BY <2>0, <2>8 DEF Drop, Goto, setup, TypeOK, Counted
  <2>9. CASE Crash(c)
    BY <2>0, <2>9 DEF Crash, Goto, Answer, setup, TypeOK, Counted
  <2> QED
    BY <1>3, <2>1, <2>2, <2>3, <2>4, <2>5, <2>6, <2>7, <2>8, <2>9 DEF Step
<1> QED
  BY <1>1, <1>2, <1>3 DEF Next

(* The variables keep their types whoever takes part, with or without the  *)
(* discipline.                                                             *)
THEOREM FileTypes == Spec => []TypeOK
<1>1. Init => TypeOK /\ Counted
  BY DEF Init, TypeOK, Counted, Labels, OldFiles
<1>2. TypeOK /\ Counted /\ [Next]_vars => (TypeOK /\ Counted)'
  BY TypeStep
<1> QED
  BY <1>1, <1>2, PTL DEF Spec

-----------------------------------------------------------------------------
(* The invariant.                                                          *)

(* Two calls under way never have the same scratch.                        *)
LEMMA ScratchDistinct ==
  ASSUME NEW c \in Callers, NEW d \in Callers, Scratch(c) = Scratch(d)
  PROVE  c = d
  BY DEF Scratch

(* While a call holds the scratch no other call is past its reservation.   *)
LEMMA Alone ==
  ASSUME PublishInv, Counted, NEW c \in Callers, NEW d \in Callers, c # d,
         pc[c] \in Reserved \cup {"drop"}
  PROVE  pc[d] \in {"idle", "create"}
<1>1. Scratch(c) # Scratch(d) /\ Scratch(c) # NoFile
  <2>1. Scratch(c) \in Inodes
    BY ScratchType DEF PublishInv, Counted, Reserved
  <2> QED
    BY <2>1, ScratchDistinct
<1>2. pc[d] \in Reserved => Scratch(d) # NoFile
  BY ScratchType DEF PublishInv, Counted, Reserved
<1>3. overwriting # {} => pc[d] = "idle" \/ pc[c] = "idle"
  BY DEF PublishInv, Disciplined, HoldsScratch
<1>4. ~(pc[d] \in Reserved \cup {"drop"})
  BY <1>1, <1>2, <1>3 DEF PublishInv, HoldsScratch, Reserved
<1> QED
  BY <1>4 DEF PublishInv, TypeOK, Labels

(* With no scratch left, only a lone caller can be past its reservation.   *)
LEMMA NobodyReserved ==
  ASSUME PublishInv, Counted, NEW c \in Callers, NEW d \in Callers, c # d,
         pc[c] = "create", tmp = NoFile
  PROVE  pc[d] \in {"idle", "create"}
<1>1. pc[d] \in Reserved => Scratch(d) # NoFile
  BY ScratchType DEF PublishInv, Counted, Reserved
<1>2. pc[d] = "drop" => Scratch(d) # NoFile
  BY ScratchType DEF PublishInv, Counted
<1>3. overwriting # {} => pc[d] = "idle"
  BY DEF PublishInv, Disciplined, HoldsScratch
<1>4. ~(pc[d] \in Reserved \cup {"drop"})
  BY <1>1, <1>2, <1>3 DEF PublishInv, HoldsScratch, Reserved
<1> QED
  BY <1>4 DEF PublishInv, TypeOK, Labels

(* Every step of disciplined callers keeps the invariant.                  *)
LEMMA PublishStep ==
  ASSUME PublishInv, Counted, [Next]_vars
  PROVE  PublishInv'
<1> USE DEF PublishInv
<1>t. TypeOK'
  BY TypeStep
<1>1. CASE UNCHANGED vars
  BY <1>1, <1>t DEF vars, setup, InputGuarded, Disciplined, HoldsScratch, ClosedBefore,
     Published, CompleteOnly, Scratch
<1>2. CASE Appear
  <2>1. \A c \in Callers : Scratch(c)' = Scratch(c)
    BY <1>2 DEF Appear, Scratch
  <2>2. \A c \in Callers : pc[c] # "idle" => Scratch(c) \in Inodes
    BY ScratchType DEF Counted
  <2> QED
    BY <1>2, <1>t, <2>1, <2>2 DEF Appear, setup, InputGuarded, Disciplined,
       HoldsScratch, ClosedBefore, Published, CompleteOnly, OldFiles
<1>3. ASSUME NEW c \in Callers, Step(c)
      PROVE  PublishInv'
  <2>d. Disciplined'
    BY <1>3 DEF Step, Begin, CreateScratch, Write, Close, Measure, Sync,
       Install, Drop, Crash, setup, Disciplined
  <2>p. pc \in [Callers -> Labels] /\ answer \in [Callers -> {"none", "ok", "error"}]
    BY DEF TypeOK
  <2>i. pc[c] # "idle" => c \in callers /\ Scratch(c) \in Inodes
    BY ScratchType DEF Counted, HoldsScratch
  <2>a. ASSUME pc[c] \in Reserved \cup {"drop"}, NEW d \in Callers, d # c
        PROVE  pc[d] \in {"idle", "create"}
    BY <2>a, Alone
  <2> USE <1>t, <2>d, <2>p, <2>i
      DEF setup, InputGuarded, HoldsScratch, ClosedBefore, Published, CompleteOnly,
          Reserved, Goto, Answer
  <2>1. CASE Begin(c)
    <3>1. \A e \in Callers : e # c => Scratch(e)' = Scratch(e)
      BY <2>1 DEF Begin, Scratch, TypeOK
    <3>2. pc'[c] \in {"idle", "create"}
      BY <2>1 DEF Begin
    <3> QED
      BY <2>1, <3>1, <3>2 DEF Begin
  <2>2. CASE CreateScratch(c)
    <3>1. \A e \in Callers : Scratch(e)' = Scratch(e)
      BY <2>2 DEF CreateScratch, Scratch
    <3> QED
      BY <2>2, <3>1, NobodyReserved DEF CreateScratch
  <2>3. CASE Write(c)
    <3>1. \A e \in Callers : Scratch(e)' = Scratch(e)
      BY <2>3 DEF Write, Scratch
    <3> QED
      BY <2>3, <3>1, <2>a DEF Write, Fail
  <2>4. CASE Close(c)
    <3>1. \A e \in Callers : Scratch(e)' = Scratch(e)
      BY <2>4 DEF Close, Scratch
    <3> QED
      BY <2>4, <3>1, <2>a DEF Close, Fail
  <2>5. CASE Measure(c)
    <3>1. \A e \in Callers : Scratch(e)' = Scratch(e)
      BY <2>5 DEF Measure, Scratch
    <3> QED
      BY <2>5, <3>1, <2>a DEF Measure, Fail
  <2>6. CASE Sync(c)
    <3>1. \A e \in Callers : Scratch(e)' = Scratch(e)
      BY <2>6 DEF Sync, Scratch
    <3> QED
      BY <2>6, <3>1, <2>a DEF Sync, Fail
  <2>7. CASE Install(c)
    <3>1. \A e \in Callers : Scratch(e)' = Scratch(e)
      BY <2>7 DEF Install, Scratch
    <3>2. tmp = Scratch(c) /\ tmp \in Inodes /\ tmp # InputFile
      BY <2>7, FilesAssumption DEF Install, OldFiles
    <3> QED
      BY <2>7, <3>1, <3>2, <2>a DEF Install, Fail
  <2>8. CASE Drop(c)
    <3>1. \A e \in Callers : Scratch(e)' = Scratch(e)
      BY <2>8 DEF Drop, Scratch
    <3> QED
      BY <2>8, <3>1, <2>a DEF Drop
  <2>9. CASE Crash(c)
    <3>1. \A e \in Callers : Scratch(e)' = Scratch(e)
      BY <2>9 DEF Crash, Scratch
    <3> QED
      BY <2>9, <3>1 DEF Crash
  <2> QED
    BY <1>3, <2>1, <2>2, <2>3, <2>4, <2>5, <2>6, <2>7, <2>8, <2>9 DEF Step
<1> QED
  BY <1>1, <1>2, <1>3 DEF Next

(* The invariant holds from the start.                                     *)
LEMMA PublishInit ==
  ASSUME Init, Disciplined
  PROVE  PublishInv /\ Counted
<1>1. TypeOK
  BY DEF Init, TypeOK, Labels, OldFiles
<1> QED
  BY <1>1, FilesAssumption DEF Init, PublishInv, InputGuarded, Counted, HoldsScratch, ClosedBefore, Published,
     CompleteOnly, OldFiles, Reserved

(* The invariant holds in every state disciplined callers reach.           *)
LEMMA PublishInvariant == DisciplinedSpec => [](PublishInv /\ Counted)
<1>1. Init /\ Disciplined => PublishInv /\ Counted
  BY PublishInit
<1>2. PublishInv /\ Counted /\ [Next]_vars => (PublishInv /\ Counted)'
  BY PublishStep, TypeStep DEF PublishInv
<1> QED
  BY <1>1, <1>2, PTL DEF DisciplinedSpec, DisciplinedInit

-----------------------------------------------------------------------------
(* What follows.                                                           *)

(* No failure, crash or interleaving of disciplined callers makes a file   *)
(* visible that was not written, flushed and closed.                       *)
THEOREM Completeness == DisciplinedSpec => []CompleteOnly
  BY PublishInvariant, PTL DEF PublishInv

(* A reserved scratch loses its name only by the hand that reserved it.    *)
THEOREM ScratchOwnership == DisciplinedSpec => ScratchOwned
<1>1. PublishInv /\ Counted /\ [Next]_vars =>
        [tmp # tmp' =>
           \/ tmp = NoFile
           \/ \E c \in Callers :
                tmp = Scratch(c) /\ pc[c] \in {"install", "drop"}]_vars
  <2> SUFFICES ASSUME PublishInv, [Next]_vars, tmp # tmp', tmp # NoFile
               PROVE  \E c \in Callers :
                        tmp = Scratch(c) /\ pc[c] \in {"install", "drop"}
    OBVIOUS
  <2>1. PICK c \in Callers : Step(c)
    BY DEF Next, Appear, vars
  <2>2. Install(c) \/ Drop(c)
    BY <2>1 DEF Step, Begin, CreateScratch, Write, Close, Measure, Sync, Crash
  <2> QED
    BY <2>2 DEF Install, Drop, PublishInv, HoldsScratch, Reserved
<1> QED
  BY <1>1, PublishInvariant, PTL DEF DisciplinedSpec, DisciplinedInit, ScratchOwned

(* A destination is replaced only by a caller that may, an input never.    *)
THEOREM DestinationSafe == DisciplinedSpec => DestinationKept
<1>1. PublishInv /\ Counted /\ [Next]_vars =>
        [output # output' => \/ output = NoFile
                             \/ output # InputFile /\ overwriting # {}]_vars
  <2> SUFFICES ASSUME PublishInv, [Next]_vars, output # output', output # NoFile
               PROVE  output # InputFile /\ overwriting # {}
    OBVIOUS
  <2>1. PICK c \in Callers : Install(c)
    BY DEF Next, Appear, vars, Step, Begin, CreateScratch, Write, Close,
       Measure, Sync, Drop, Crash
  <2>2. overwriting # {}
    BY <2>1 DEF Install, Fail
  <2>3. pc[c] # "idle"
    BY <2>1 DEF Install
  <2> QED
    BY <2>2, <2>3 DEF PublishInv, InputGuarded
<1> QED
  BY <1>1, PublishInvariant, PTL DEF DisciplinedSpec, DisciplinedInit, DestinationKept

(* An Ok tells the truth: the caller's own file is published, complete.    *)
THEOREM Honesty == DisciplinedSpec => HonestAnswer
<1>1. PublishInv /\ Counted /\ [Next]_vars =>
        [\A c \in Callers :
           pc[c] = "drop" /\ pc'[c] = "idle" /\ answer'[c] = "ok" =>
             output = Scratch(c) /\ output \in complete]_vars
  <2> SUFFICES ASSUME PublishInv, [Next]_vars, NEW c \in Callers,
                      pc[c] = "drop", pc'[c] = "idle", answer'[c] = "ok"
               PROVE  output = Scratch(c) /\ output \in complete
    BY Zenon
  <2>1. PICK d \in Callers : Step(d)
    BY DEF Next, Appear, vars
  <2>2. d = c
    BY <2>1 DEF Step, Begin, CreateScratch, Write, Close, Measure, Sync,
       Install, Drop, Crash, Fail, Goto, PublishInv, TypeOK
  <2>3. Drop(c)
    BY <2>1, <2>2 DEF Step, Begin, CreateScratch, Write, Close, Measure, Sync,
       Install, Crash, Answer, PublishInv, TypeOK
  <2>4. answer[c] = "ok"
    BY <2>3 DEF Drop
  <2> QED
    BY <2>4 DEF PublishInv, Published
<1> QED
  BY <1>1, PublishInvariant, PTL DEF DisciplinedSpec, DisciplinedInit, HonestAnswer
=============================================================================
