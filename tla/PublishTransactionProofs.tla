---------------------- MODULE PublishTransactionProofs ----------------------
(***************************************************************************)
(* The publication of the strict-ingest gate, for every list of targets,    *)
(* every number of failing calls, and with or without crashes: its type,    *)
(* that it loses nothing, and that it implements AtomicPublication.         *)
(***************************************************************************)
EXTENDS PublishTransaction, SequenceTheorems, TLAPS

Ops == DOMAIN plan

\* The backup of operation i holds what its target held before.
Backed(i) == backup[i] = before[plan[i]]

Preparing == step \in {"stage", "backup"}
Committing == step \in {"remove", "rename"}
Undoing == step \in {"undo_remove", "undo_copy"}

\* What is prepared can be put back: nothing is touched before every operation is,
\* and the rollback starts at the last that is.
BackupInv ==
    /\ Preparing => disk = before /\ \A i \in 1..(at - 1) : Backed(i)
    /\ Committing => \A i \in Ops : Backed(i)
    /\ Undoing => \A i \in 1..at : Backed(i)

\* A file that changed is a target with a backup.
TouchedInv ==
    \A p \in Paths : disk[p] = before[p] \/ \E i \in Ops : plan[i] = p /\ Backed(i)

\* The operations before the one in hand are committed; its own target may have been
\* one of theirs, and is removed again.
CommitInv ==
    /\ step = "remove" => \A i \in 1..(at - 1) : disk[plan[i]] = "new"
    /\ step = "rename" => \A i \in 1..(at - 1) : disk[plan[i]] = "new" \/ plan[i] = Target
    /\ step = "published" => \A i \in Ops : disk[plan[i]] = "new"

\* After one failure the rollback has no other: what it has passed is as before, and
\* the target it is about to copy back is removed.
UndoInv ==
    /\ Undoing => faults >= 1
    /\ Undoing /\ faults = 1 =>
          /\ \A p \in Paths : disk[p] = before[p] \/ \E i \in 1..at : plan[i] = p
          /\ step = "undo_copy" => disk[Target] = "absent"
    /\ step = "refused" /\ faults <= 1 => disk = before

Inv == TypeOK /\ plan # <<>> /\ BackupInv /\ TouchedInv /\ CommitInv /\ UndoInv

-----------------------------------------------------------------------------
(* The inductive invariant. *)

\* The operations are numbered from 1, there is one, and each has a target.
LEMMA PlanFacts ==
    ASSUME plan \in Plans, plan # <<>>
    PROVE  /\ plan \in Seq(Paths)
           /\ Len(plan) \in Nat \ {0}
           /\ Ops = 1..Len(plan)
           /\ \A i \in Ops : plan[i] \in Paths
<1>1. plan \in Seq(Paths)
  BY PlansAreLists
<1> QED BY <1>1, LenProperties, ElementOfSeq, EmptySeq DEF Ops

\* The initial state has the invariant.
LEMMA InitInv == Init => Inv
<1> SUFFICES ASSUME Init PROVE Inv
  OBVIOUS
<1> USE DEF Init
<1>1. Len(plan) \in Nat \ {0} /\ Ops = 1..Len(plan)
  BY PlanFacts
<1>2. TypeOK
  BY <1>1, FaultsAreBounded DEF TypeOK, Versions, Steps, Ended
<1> QED BY <1>2 DEF Inv, BackupInv, TouchedInv, CommitInv, UndoInv,
                    Preparing, Committing, Undoing

\* Staging touches neither the files nor the backups.
LEMMA StageInv == Inv /\ (RefuseDuplicate \/ Stage) => Inv'
<1> SUFFICES ASSUME Inv, RefuseDuplicate \/ Stage PROVE Inv'
  OBVIOUS
<1> USE DEF Inv, RefuseDuplicate, Stage
<1>1. TypeOK'
  BY DEF TypeOK, Steps, Ended
<1>2. BackupInv'
  BY DEF BackupInv, Backed, Preparing, Committing, Undoing, Ops
<1>3. TouchedInv' /\ CommitInv' /\ UndoInv'
  BY DEF TouchedInv, Backed, CommitInv, UndoInv, BackupInv, Preparing, Undoing, Target, Ops
<1> QED BY <1>1, <1>2, <1>3

\* A failure before anything is touched undoes what has a backup.
LEMMA PreparationFailsInv == Inv /\ (StageFails \/ BackUpFails) => Inv'
<1> SUFFICES ASSUME Inv, StageFails \/ BackUpFails PROVE Inv'
  OBVIOUS
<1> USE DEF Inv, StageFails, BackUpFails, Fault, Undo
<1>1. Len(plan) \in Nat \ {0} /\ Ops = 1..Len(plan) /\ at \in 1..Len(plan)
  BY PlanFacts DEF TypeOK, Steps, Ended
<1>2. TypeOK'
  BY <1>1, FaultsAreBounded DEF TypeOK, Steps, Ended
<1>3. BackupInv'
  BY <1>1 DEF BackupInv, Backed, Preparing, Committing, Undoing, Ops
<1>4. TouchedInv' /\ CommitInv'
  BY DEF TouchedInv, Backed, CommitInv, Ops
<1>5. UndoInv'
  BY DEF UndoInv, BackupInv, Preparing, Undoing, TypeOK
<1> QED BY <1>2, <1>3, <1>4, <1>5

\* The backup is of what the target held before.
LEMMA BackUpInv == Inv /\ BackUp => Inv'
<1> SUFFICES ASSUME Inv, BackUp PROVE Inv'
  OBVIOUS
<1> USE DEF Inv, BackUp, Target
<1>1. Len(plan) \in Nat \ {0} /\ Ops = 1..Len(plan) /\ at \in 1..Len(plan)
  BY PlanFacts DEF TypeOK, Steps, Ended
<1>2. plan[at] \in Paths /\ disk = before
  BY <1>1, PlanFacts DEF BackupInv, Preparing, TypeOK
<1>3. /\ backup' \in [Ops -> {"absent", "old"}]
      /\ \A i \in Ops : backup'[i] = IF i = at THEN before[plan[i]] ELSE backup[i]
  BY <1>1, <1>2 DEF TypeOK, Ops
<1>4. TypeOK'
  BY <1>1, <1>3 DEF TypeOK, Steps, Ended, Ops
<1>5. \A i \in 1..at : Backed(i)'
  BY <1>1, <1>3 DEF BackupInv, Preparing, Backed
<1>6. BackupInv'
  BY <1>1, <1>2, <1>5 DEF BackupInv, Preparing, Committing, Undoing, Ops
<1>7. TouchedInv' /\ CommitInv' /\ UndoInv'
  BY <1>1, <1>2 DEF TouchedInv, CommitInv, UndoInv, Undoing
<1> QED BY <1>4, <1>6, <1>7

\* A commit touches only its own target, which has a backup.
LEMMA CommitStepInv == Inv /\ (Remove \/ Rename) => Inv'
<1> SUFFICES ASSUME Inv, Remove \/ Rename PROVE Inv'
  OBVIOUS
<1> USE DEF Inv, Remove, Rename, Target
<1>1. Len(plan) \in Nat \ {0} /\ Ops = 1..Len(plan) /\ at \in 1..Len(plan)
  BY PlanFacts DEF TypeOK, Steps, Ended
<1>2. \A i \in Ops : plan[i] \in Paths
  BY PlanFacts DEF TypeOK
<1>3. \A p \in Paths : p # plan[at] => disk'[p] = disk[p]
  BY DEF TypeOK
<1>4. TypeOK'
  BY <1>1, <1>2 DEF TypeOK, Versions, Steps, Ended
<1>5. BackupInv' /\ \A i \in Ops : Backed(i)'
  BY <1>1 DEF BackupInv, Backed, Preparing, Committing, Undoing, Ops
<1>6. TouchedInv'
  BY <1>1, <1>3, <1>5 DEF TouchedInv, Backed, Ops
<1>7. CommitInv'
  BY <1>1, <1>2, <1>3 DEF CommitInv, TypeOK, Ops
<1>8. UndoInv'
  BY DEF UndoInv, Undoing
<1> QED BY <1>4, <1>5, <1>6, <1>7, <1>8

\* A failing commit starts the rollback at the last operation.
LEMMA CommitFailsInv == Inv /\ CommitFails => Inv'
<1> SUFFICES ASSUME Inv, CommitFails PROVE Inv'
  OBVIOUS
<1> USE DEF Inv, CommitFails, Fault, Undo
<1>1. Len(plan) \in Nat \ {0} /\ Ops = 1..Len(plan)
  BY PlanFacts DEF TypeOK
<1>2. TypeOK'
  BY <1>1, FaultsAreBounded DEF TypeOK, Steps, Ended
<1>3. BackupInv'
  BY <1>1 DEF BackupInv, Backed, Preparing, Committing, Undoing, Ops
<1>4. TouchedInv' /\ CommitInv'
  BY <1>1 DEF TouchedInv, Backed, CommitInv, Ops
<1>5. UndoInv'
  BY <1>1 DEF UndoInv, TouchedInv, Undoing, TypeOK
<1> QED BY <1>2, <1>3, <1>4, <1>5

\* A removal of the rollback, made or not.
LEMMA UndoRemoveInv == Inv /\ (UndoRemove \/ UndoRemoveFails) => Inv'
<1> SUFFICES ASSUME Inv, UndoRemove \/ UndoRemoveFails PROVE Inv'
  OBVIOUS
<1> USE DEF Inv, UndoRemove, UndoRemoveFails, Fault, Target
<1>1. /\ Len(plan) \in Nat \ {0} /\ Ops = 1..Len(plan) /\ at \in 1..Len(plan)
      /\ \A i \in Ops : plan[i] \in Paths
  BY PlanFacts DEF TypeOK, Steps, Ended
<1>2. \A p \in Paths : p # plan[at] => disk'[p] = disk[p]
  BY DEF TypeOK
<1>3. TypeOK'
  BY <1>1, FaultsAreBounded DEF TypeOK, Versions, Steps, Ended
<1>4. BackupInv' /\ Backed(at)'
  BY <1>1 DEF BackupInv, Backed, Preparing, Committing, Undoing
<1>5. TouchedInv'
  BY <1>1, <1>2, <1>4 DEF TouchedInv, Backed, Ops
<1>6. CommitInv' /\ UndoInv'
  BY <1>1, <1>2 DEF CommitInv, UndoInv, Undoing, TypeOK
<1> QED BY <1>3, <1>4, <1>5, <1>6

\* A target that is copied back, or was absent, is as before; one whose copy fails
\* keeps its backup.
LEMMA UndoCopyInv == Inv /\ (UndoCopy \/ UndoCopyFails) => Inv'
<1> SUFFICES ASSUME Inv, UndoCopy \/ UndoCopyFails PROVE Inv'
  OBVIOUS
<1> USE DEF Inv, UndoCopy, UndoCopyFails, Fault, Undo, Target
<1>1. /\ Len(plan) \in Nat \ {0} /\ Ops = 1..Len(plan) /\ at \in 1..Len(plan)
      /\ \A i \in Ops : plan[i] \in Paths
  BY PlanFacts DEF TypeOK, Steps, Ended
<1>2. \A p \in Paths : p # plan[at] => disk'[p] = disk[p]
  BY DEF TypeOK
<1>3. TypeOK'
  BY <1>1, FaultsAreBounded DEF TypeOK, Versions, Steps, Ended
<1>4. BackupInv' /\ Backed(at) /\ \A i \in Ops : Backed(i) => Backed(i)'
  BY <1>1 DEF BackupInv, Backed, Preparing, Committing, Undoing, Ops
<1>5. TouchedInv'
  BY <1>1, <1>2, <1>4 DEF TouchedInv, Backed, Ops
<1>6. CommitInv'
  BY DEF CommitInv
<1>7. ASSUME faults' = 1 PROVE UndoInv'
  <2>1. UndoCopy /\ faults = 1 /\ disk[plan[at]] = "absent"
    BY <1>7 DEF UndoInv, Undoing, TypeOK
  <2>2. disk'[plan[at]] = before[plan[at]]
    BY <1>1, <1>4, <2>1 DEF Backed, TypeOK
  <2>3. \A p \in Paths : disk'[p] = before[p] \/ \E i \in 1..(at - 1) : plan[i] = p
    BY <1>1, <1>2, <2>1, <2>2 DEF UndoInv, Undoing
  <2>4. at = 1 => disk' = before
    BY <1>3, <2>1, <2>3 DEF TypeOK
  <2> QED BY <2>1, <2>3, <2>4 DEF UndoInv, Undoing
<1>8. ASSUME faults' # 1 PROVE UndoInv'
  BY <1>8 DEF UndoInv, Undoing, TypeOK
<1> QED BY <1>3, <1>4, <1>5, <1>6, <1>7, <1>8

\* Every step keeps the invariant.
LEMMA NextInv == Inv /\ [Next]_vars => Inv'
<1>1. Inv /\ Crash => Inv'
  BY DEF Inv, Crash, TypeOK, Steps, Ended, BackupInv, TouchedInv, CommitInv, UndoInv,
         Backed, Preparing, Committing, Undoing, Target, Ops
<1>2. Inv /\ UNCHANGED vars => Inv'
  BY DEF vars, Inv, TypeOK, BackupInv, TouchedInv, CommitInv, UndoInv,
         Backed, Preparing, Committing, Undoing, Target, Ops
<1> QED BY <1>1, <1>2, StageInv, PreparationFailsInv, BackUpInv, CommitStepInv,
           CommitFailsInv, UndoRemoveInv, UndoCopyInv DEF Next, Calls

\* What the theorems below rest on.
LEMMA SpecInv == Spec => []Inv
BY InitInv, NextInv, PTL DEF Spec

-----------------------------------------------------------------------------
(* What it means. *)

\* The plan, the files, the backups and the counters keep their types through every
\* failure and crash.
THEOREM TypeCorrect == Spec => []TypeOK
BY SpecInv, PTL DEF Inv

\* Whatever calls fail, and at every moment at which the process may die, what a file
\* held before the approval is on disk or in the backup of an operation on it.
THEOREM NothingLost == Spec => []NothingIsLost
<1>1. Inv => NothingIsLost
  BY DEF Inv, TouchedInv, Backed, Ops, NothingIsLost
<1> QED BY <1>1, SpecInv, PTL

-----------------------------------------------------------------------------
(* The refinement. *)

\* The publication is seen as open, with all files as before, until it ends.
LEMMA InitImplements == Init => Atomic!Init
<1> SUFFICES ASSUME Init PROVE Atomic!Init
  OBVIOUS
<1>1. Targets \subseteq Paths
  BY PlanFacts DEF Init, Targets, Ops
<1> QED BY <1>1 DEF Init, Outcome, Ended, Atomic!Init

\* A call that does not end the publication is not seen; the one that ends it
\* publishes, refuses or breaks it; and nothing is done after it.
LEMMA NextImplements ==
    ASSUME Inv, [Next]_vars
    PROVE  [Atomic!Next]_(Atomic!publication)
<1>1. Inv'
  BY NextInv
<1>2. UNCHANGED <<plan, before>> /\ Targets' = Targets /\ Ops' = Ops
  BY DEF Next, Calls, RefuseDuplicate, Stage, StageFails, BackUp, BackUpFails, Remove, Rename,
         CommitFails, UndoRemove, UndoRemoveFails, UndoCopy, UndoCopyFails, Crash, vars, Targets, Ops
<1>3. CASE step \in Ended
  <2>1. UNCHANGED vars
    BY <1>3 DEF Next, Calls, RefuseDuplicate, Stage, StageFails, BackUp, BackUpFails, Remove, Rename,
         CommitFails, UndoRemove, UndoRemoveFails, UndoCopy, UndoCopyFails, Crash, Ended
  <2> QED BY <2>1, <1>2 DEF vars, Atomic!publication, Outcome
<1>4. CASE step \notin Ended /\ step' \notin Ended
  <2>1. Outcome = "open" /\ Outcome' = "open"
    BY <1>4 DEF Outcome, Ended
  <2> QED BY <1>2, <1>4, <2>1 DEF Atomic!publication
<1>5. CASE step \notin Ended /\ step' \in Ended
  <2>1. Outcome = "open"
    BY <1>5 DEF Outcome, Ended
  <2>2. \A p \in Paths : disk'[p] = before[p] \/ \E i \in Ops : plan[i] = p
    BY <1>1, <1>2 DEF Inv, TouchedInv
  <2>3. CASE step' = "published"
    <3>1. Outcome' = "published"
      BY <2>3 DEF Outcome, Ended
    <3>2. \A p \in Paths : disk'[p] = IF p \in Targets THEN "new" ELSE before[p]
      BY <1>1, <1>2, <2>2, <2>3 DEF Inv, CommitInv, Targets, Ops
    <3>3. disk' = [p \in Paths |-> IF p \in Targets THEN "new" ELSE before[p]]
      BY <1>1, <3>2 DEF Inv, TypeOK
    <3> QED BY <1>2, <1>5, <2>1, <3>1, <3>3 DEF Atomic!Next, Atomic!Publish
  <2>4. CASE step' = "refused" /\ ~(faults' > 1)
    <3>1. Outcome' = "refused"
      BY <2>4 DEF Outcome, Ended
    <3>2. disk' = before
      BY <1>1, <1>2, <2>4 DEF Inv, UndoInv, TypeOK
    <3> QED BY <1>2, <1>5, <2>1, <3>1, <3>2 DEF Atomic!Next, Atomic!Refuse
  <2>5. CASE step' = "crashed" \/ (step' = "refused" /\ faults' > 1)
    <3>1. Outcome' = "broken"
      BY <2>5 DEF Outcome, Ended
    <3>2. \A p \in Paths \ Targets : disk'[p] = before[p]
      BY <2>2 DEF Targets, Ops
    <3> QED BY <1>2, <1>5, <2>1, <3>1, <3>2 DEF Atomic!Next, Atomic!Break
  <2> QED BY <1>5, <2>3, <2>4, <2>5 DEF Ended
<1> QED BY <1>3, <1>4, <1>5

\* As long as at most one call fails and the process lives, every file of the
\* publication is replaced or none was touched, whichever call failed, whatever
\* existed before and though a target is named twice; a publication that reports
\* success has replaced all of them; and no other file is ever touched.
THEOREM PublicationIsAtomic == Spec => ImplementsAtomicPublication
BY InitImplements, NextImplements, SpecInv, PTL DEF Spec, ImplementsAtomicPublication, Atomic!Spec
=============================================================================
