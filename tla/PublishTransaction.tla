------------------------- MODULE PublishTransaction -------------------------
(***************************************************************************)
(* One publication of the strict-ingest gate, file by file:                 *)
(* commit_with_rollback and rollback_prepared of src/apps/llm-wiki/         *)
(* src-tauri/src/ingest_gate.rs.                                            *)
(*                                                                          *)
(* Every operation is first staged in .llm-wiki/transactions/<id>/new and   *)
(* its target copied to .../backup; then each target is removed and the     *)
(* staged file renamed over it; an error undoes all that was prepared.  An  *)
(* action is one file-system call, and any call may fail.  The caller holds *)
(* PROJECT_GATE throughout, so nothing else of the gate runs in between.    *)
(***************************************************************************)
EXTENDS Naturals, Sequences

CONSTANTS
    Paths,      \* files, told apart as target_key does: case is ignored
    Plans,      \* the lists of targets a publication may have
    MaxFaults,  \* bound: file-system calls that fail
    Crashes     \* whether the process may die

ASSUME PlansAreLists == Plans \subseteq Seq(Paths)

ASSUME FaultsAreBounded == MaxFaults \in Nat /\ Crashes \in BOOLEAN

VARIABLES
    plan,     \* the targets, in the order of the operations
    before,   \* what the files held when the approval began
    disk,     \* what the files hold
    backup,   \* what the backup of each operation holds
    step,     \* the call to be made
    at,       \* the operation it is made for
    faults    \* calls that have failed

vars == <<plan, before, disk, backup, step, at, faults>>

Versions == {"absent", "old", "new", "torn"}

Ended == {"published", "refused", "crashed"}

Steps == {"stage", "backup", "remove", "rename", "undo_remove", "undo_copy"} \cup Ended

TypeOK ==
    /\ plan \in Plans
    /\ before \in [Paths -> {"absent", "old"}]
    /\ disk \in [Paths -> Versions]
    /\ backup \in [DOMAIN plan -> {"absent", "old"}]
    /\ step \in Steps
    /\ at \in 0..Len(plan)
    /\ faults \in 0..MaxFaults
    /\ step \in Steps \ Ended => at # 0

Init ==
    /\ plan \in Plans
    /\ plan # <<>>
    /\ before \in [Paths -> {"absent", "old"}]
    /\ disk = before
    /\ backup = [i \in DOMAIN plan |-> "absent"]
    /\ step = "stage"
    /\ at = 1
    /\ faults = 0

Target == plan[at]

Fault ==
    /\ faults < MaxFaults
    /\ faults' = faults + 1

\* Mutant: the rollback starts without looking whether anything was prepared.
UndoAlways(n) ==
    /\ at' = n
    /\ step' = "undo_remove"

\* rollback_prepared starts at the last of n prepared operations; with none it
\* only discards the transaction directory.
Undo(n) ==
    /\ at' = n
    /\ step' = IF n = 0 THEN "refused" ELSE "undo_remove"

-----------------------------------------------------------------------------
(* Preparation. *)

RepeatsTarget == \E i \in 1..(at - 1) : plan[i] = Target

\* Two operations with one target: refused before anything is undone.
RefuseDuplicate ==
    /\ step = "stage"
    /\ RepeatsTarget
    /\ step' = "refused"
    /\ UNCHANGED <<plan, before, disk, backup, at, faults>>

Stage ==
    /\ step = "stage"
    /\ ~RepeatsTarget
    /\ step' = "backup"
    /\ UNCHANGED <<plan, before, disk, backup, at, faults>>

StageFails ==
    /\ step = "stage"
    /\ ~RepeatsTarget
    /\ Fault
    /\ Undo(at - 1)
    /\ UNCHANGED <<plan, before, disk, backup>>

\* Mutant: only the first target is backed up.
BackUpFirst ==
    /\ step = "backup"
    /\ backup' = IF at = 1 THEN [backup EXCEPT ![at] = disk[Target]] ELSE backup
    /\ IF at < Len(plan) THEN step' = "stage" /\ at' = at + 1
                         ELSE step' = "remove" /\ at' = 1
    /\ UNCHANGED <<plan, before, disk, faults>>

BackUp ==
    /\ step = "backup"
    /\ backup' = [backup EXCEPT ![at] = disk[Target]]
    /\ IF at < Len(plan) THEN step' = "stage" /\ at' = at + 1
                         ELSE step' = "remove" /\ at' = 1
    /\ UNCHANGED <<plan, before, disk, faults>>

BackUpFails ==
    /\ step = "backup"
    /\ disk[Target] # "absent"
    /\ Fault
    /\ Undo(at - 1)
    /\ UNCHANGED <<plan, before, disk, backup>>

-----------------------------------------------------------------------------
(* Commit: an error undoes every prepared operation, committed or not. *)

Remove ==
    /\ step = "remove"
    /\ disk' = [disk EXCEPT ![Target] = "absent"]
    /\ step' = "rename"
    /\ UNCHANGED <<plan, before, backup, at, faults>>

Rename ==
    /\ step = "rename"
    /\ disk' = [disk EXCEPT ![Target] = "new"]
    /\ IF at < Len(plan) THEN step' = "remove" /\ at' = at + 1
                         ELSE step' = "published" /\ at' = at
    /\ UNCHANGED <<plan, before, backup, faults>>

\* Mutant: only the operations already committed are undone.
CommitFailsShort ==
    /\ step \in {"remove", "rename"}
    /\ Fault
    /\ Undo(at - 1)
    /\ UNCHANGED <<plan, before, disk, backup>>

CommitFails ==
    /\ step \in {"remove", "rename"}
    /\ Fault
    /\ Undo(Len(plan))
    /\ UNCHANGED <<plan, before, disk, backup>>

-----------------------------------------------------------------------------
(* Rollback, last operation first; its own errors are ignored. *)

UndoRemove ==
    /\ step = "undo_remove"
    /\ disk' = [disk EXCEPT ![Target] = "absent"]
    /\ step' = "undo_copy"
    /\ UNCHANGED <<plan, before, backup, at, faults>>

UndoRemoveFails ==
    /\ step = "undo_remove"
    /\ Fault
    /\ step' = "undo_copy"
    /\ UNCHANGED <<plan, before, disk, backup, at>>

\* A target that did not exist has no backup and stays removed.
UndoCopy ==
    /\ step = "undo_copy"
    /\ disk' = IF backup[at] = "absent" THEN disk
               ELSE [disk EXCEPT ![Target] = backup[at]]
    /\ Undo(at - 1)
    /\ UNCHANGED <<plan, before, backup, faults>>

\* A copy fails before it opens its target, or in the middle.
UndoCopyFails ==
    /\ step = "undo_copy"
    /\ backup[at] # "absent"
    /\ Fault
    /\ \/ UNCHANGED disk
       \/ disk' = [disk EXCEPT ![Target] = "torn"]
    /\ Undo(at - 1)
    /\ UNCHANGED <<plan, before, backup>>

\* The process dies.  Nothing reads the transaction directory afterwards.
Crash ==
    /\ Crashes
    /\ step \notin Ended
    /\ step' = "crashed"
    /\ UNCHANGED <<plan, before, disk, backup, at, faults>>

Calls ==
    \/ RefuseDuplicate \/ Stage \/ StageFails \/ BackUp \/ BackUpFails
    \/ Remove \/ Rename \/ CommitFails
    \/ UndoRemove \/ UndoRemoveFails \/ UndoCopy \/ UndoCopyFails

Next == Calls \/ Crash

Spec == Init /\ [][Next]_vars

-----------------------------------------------------------------------------
Targets == {plan[i] : i \in DOMAIN plan}

\* The publication as others see it, who wait for the mutex until it has ended.
Outcome ==
    CASE step \notin Ended -> "open"
      [] step = "crashed" \/ (step = "refused" /\ faults > 1) -> "broken"
      [] OTHER -> step

Atomic == INSTANCE AtomicPublication WITH
              store <- IF step \in Ended THEN disk ELSE before,
              targets <- Targets,
              outcome <- Outcome

\* The publication is atomic as long as at most one call fails and the process
\* lives: an error at any call, with any set of targets that already existed, and
\* with a target named twice, leaves all files as they were.  Whatever else goes
\* wrong, a publication that says it succeeded has replaced every target, and no
\* file but its targets is touched.
ImplementsAtomicPublication == Atomic!Spec

\* Until the transaction directory is discarded nothing is lost for good: what
\* a target held before is on disk or in its backup, whatever failed so far,
\* and it is still there after a crash.
NothingIsLost ==
    step \notin {"published", "refused"} =>
        \A p \in Paths :
            \/ disk[p] = before[p]
            \/ before[p] = "absent"
            \/ \E i \in DOMAIN plan : plan[i] = p /\ backup[i] = before[p]

=============================================================================
