------------------------------ MODULE MCDesktop ------------------------------
(* The ingest queue and the project mutex of the desktop application, side   *)
(* by side: they share no variable, so a behaviour explores one of them.     *)
EXTENDS DesktopIngestQueue, ProjectMutex

VARIABLE subject

vars == <<queueVars, mutexVars, subject>>

Init == QueueInit /\ MutexInit /\ subject \in {"queue", "mutex"}

Next == /\ UNCHANGED subject
        /\ \/ subject = "queue" /\ QueueNext /\ UNCHANGED mutexVars
           \/ subject = "mutex" /\ MutexNext /\ UNCHANGED queueVars

\* Promises settle, an ingest ends (its LLM calls have timeouts) and a project
\* that is being opened is opened.  Nothing is assumed of the user.
QueueStep(r) == subject = "queue" /\ Steps(r) /\ UNCHANGED <<mutexVars, subject>>
HandsOver == subject = "queue" /\ HandOver /\ UNCHANGED <<mutexVars, subject>>
MutexStep == subject = "mutex" /\ Advance /\ UNCHANGED <<queueVars, subject>>

Fairness == /\ \A r \in Runs: WF_vars(QueueStep(r))
            /\ WF_vars(HandsOver)
            /\ WF_vars(MutexStep)

Spec == Init /\ [][Next]_vars /\ Fairness

\* Two tasks and nobody intervenes, or one task and two operations.
MCBudgets == {<<2, 0>>, <<1, 2>>}
\* Two tasks of two sources.
MCTwoTasks == {<<2, 0>>}
===============================================================================
