------------------------ MODULE DesktopIngestQueue ------------------------
(*****************************************************************************)
(* The ingest queue of the desktop application,                              *)
(* src/apps/llm-wiki/src/lib/ingest-queue.ts: one list of tasks for the open *)
(* project, mirrored to that project's file, and processNext, which takes    *)
(* the next pending task and calls itself again when the task has ended.     *)
(*                                                                           *)
(* JavaScript runs to its next await, so an action below is the code between *)
(* two awaits.  run[r] is one invocation that is waiting at an await: of     *)
(* processNext, or of an operation that will call it.  An invocation holds   *)
(* the task object it took; a queue loaded from disk has new objects, and    *)
(* what is assigned to an old one is then seen by nobody.                    *)
(*                                                                           *)
(* Left out: the abort signals (an aborted ingest can still return its pages *)
(* or throw, like any other), the drain sweep and the progress counters,     *)
(* which neither read nor write what is modelled.  A write of the queue file *)
(* takes effect where saveQueue is called.                                   *)
(*****************************************************************************)
EXTENDS Naturals, Sequences, FiniteSets, Subsequences

CONSTANTS Projects,    \* project ids; a project's path stands for itself
          Sources,     \* source files
          NoProject,   \* no project is open ("")
          MaxRetries,  \* MAX_RETRIES
          MaxRuns,     \* bound: invocations waiting at an await at once
          MaxTasks,    \* bound: tasks ever created
          MaxOps,      \* bound: operations other than a new task, restarts, timers
          Budgets      \* bound: the pairs of tasks and operations one behaviour has

ASSUME QueueAssumption == /\ NoProject \notin Projects
                          /\ MaxRetries \in Nat \ {0}
                          /\ MaxRuns \in Nat \ {0}
                          /\ MaxTasks \in Nat
                          /\ MaxOps \in Nat
                          /\ Budgets \subseteq (0..MaxTasks) \X (0..MaxOps)

VARIABLES queue,       \* the tasks in memory
          processing,  \* the flag
          paused,      \* user pause, or the pause after a usage limit
          restored,    \* restoredPausedTaskIds
          current,     \* currentProjectId and currentProjectPath
          written,     \* lastWrittenFiles is not empty
          timer,       \* the project usageLimitResumeTimer will resume, or NoProject
          disk,        \* disk[p]: the queue file of p
          run,         \* the invocations waiting at an await
          line,        \* line[p]: who waits for p's mutex, its holder first
          switch,      \* where the hand-over from one project to the next is
          loaded,      \* what restoreQueue has read
          made,        \* tasks created so far
          ops          \* operations done so far

queueVars == <<queue, processing, paused, restored, current, written, timer,
               disk, run, line, switch, loaded, made, ops>>

Runs == 1..MaxRuns
Ids == 1..MaxTasks
Statuses == {"pending", "processing", "failed"}
Task == [id: Ids, proj: Projects, src: Sources, status: Statuses, tries: Nat]

Points == {"idle",       \* not in use
           "kick",       \* an operation saved the queue, will call processNext
           "registry",   \* processNext awaits the project's path
           "starting",   \* ... the save of the task's processing status
           "queued",     \* ... the project's mutex
           "ingesting",  \* ... autoIngestImpl
           "finishing",  \* ... the save after the task ended
           "again",      \* a save, after which processNext is called as it is
           "cleaning",   \* the clean-up after a pause
           "cleaned",    \* the save after that clean-up
           "limited",    \* the save after a usage-limit error
           "cancelling", \* cancelTask awaits the clean-up
           "clearing"}   \* cancelAllTasks awaits the clean-up
\* own: the task object held is the one the queue was last loaded with.
Run == [at: Points, proj: Projects \cup {NoProject}, task: Ids \cup {0}, own: BOOLEAN]

Idle == [at |-> "idle", proj |-> NoProject, task |-> 0, own |-> FALSE]
FreeRun == CHOOSE r \in Runs: run[r] = Idle /\ \A s \in Runs: run[s] = Idle => r <= s
SomeRunIsFree == \E r \in Runs: run[r] = Idle

\* An operation of the user or the environment.
Operation == ops < MaxOps /\ ops' = ops + 1

Without(q, id) == Kept(q, {i \in DOMAIN q: q[i].id # id})
\* Mutant: the retried task gets a status that processNext does not look for.
ResetToQueued(t) == [t EXCEPT !.status = "queued", !.tries = 0]
Reset(t) == [t EXCEPT !.status = "pending", !.tries = 0]
\* Mutant: the task that was running when the project was left is dropped.
InterruptedDropped(q) == Kept(q, {i \in DOMAIN q: q[i].status # "processing"})
Interrupted(q) == [i \in DOMAIN q |->
    IF q[i].status = "processing" THEN [q[i] EXCEPT !.status = "pending"] ELSE q[i]]
HasStatus(q, statuses) == \E i \in DOMAIN q: q[i].status \in statuses
IdsOf(q) == {q[i].id : i \in DOMAIN q}

\* saveQueue(path); with no open project the path is that of no queue file.
Save(p, q) == disk' = IF p = NoProject THEN disk ELSE [disk EXCEPT ![p] = q]

\* The queue after an assignment to the task object that invocation r holds:
\* only an object that is still in the queue shows it.
Assign(r, status, more) == [i \in DOMAIN queue |->
    IF queue[i].id = run[r].task /\ run[r].own
      THEN [queue[i] EXCEPT !.status = status, !.tries = @ + more] ELSE queue[i]]
Held(r) == {queue[i] : i \in {j \in DOMAIN queue: queue[j].id = run[r].task}}

At(r, point) == run' = [run EXCEPT ![r].at = point]
Done(r, point) == run' = [run EXCEPT ![r] = [Idle EXCEPT !.at = point, !.proj = run[r].proj]]
-----------------------------------------------------------------------------
\* processNext(p) up to its first await, as invocation r, on queue q with the
\* flags it finds: busy (processing), stop (paused), back (restored).
Eligible(q, p, back) == {i \in DOMAIN q:
    q[i].proj = p /\ q[i].status = "pending" /\ q[i].id \notin back}

ProcessNext(r, p, q, busy, stop, back) ==
    LET ready == Eligible(q, p, back)
        called == ~busy /\ current = p
    IN /\ paused' = (stop /\ ~(called /\ ~HasStatus(q, {"pending"})))
       /\ run' = [run EXCEPT ![r] =
            IF called /\ ~stop /\ ready # {}
              THEN [at |-> "registry", proj |-> p, task |-> q[FirstOf(ready)].id,
                    own |-> TRUE]
              ELSE Idle]

QueueInit ==
    /\ queue = <<>> /\ restored = {} /\ current = NoProject
    /\ processing = FALSE /\ paused = FALSE /\ written = FALSE
    /\ timer = NoProject /\ disk = [p \in Projects |-> <<>>]
    /\ run = [r \in Runs |-> Idle] /\ line = [p \in Projects |-> <<>>]
    /\ switch = "closed" /\ loaded = <<>>
    /\ \E b \in Budgets: made = MaxTasks - b[1] /\ ops = MaxOps - b[2]
-----------------------------------------------------------------------------
\* Operations.  The open project's queue is the one in memory.

place == <<current, switch, loaded>>

\* upsertQueuedIngestTask: a pending or failed task of the source is reset and
\* leaves the restored backlog; otherwise, also while a task of the source is
\* being processed, a new task is appended.
Upsert(st, s) ==
    LET same == {i \in DOMAIN st.queue: /\ st.queue[i].src = s
                                        /\ st.queue[i].status \in {"pending", "failed"}}
        i == FirstOf(same)
    IN IF same # {}
         THEN [st EXCEPT !.queue[i] = Reset(@), !.restored = @ \ {st.queue[i].id}]
         ELSE [st EXCEPT !.made = @ + 1,
                         !.queue = Append(@, [id |-> st.made + 1, proj |-> current, src |-> s,
                                              status |-> "pending", tries |-> 0])]

\* enqueueIngest (one source) and enqueueBatch, for the open project.
Enqueue(files) ==
    /\ SomeRunIsFree
    /\ current # NoProject
    /\ LET now == [queue |-> queue, restored |-> restored, made |-> made]
           first == Upsert(now, files[1])
           after == IF Len(files) = 1 THEN first ELSE Upsert(first, files[2])
       IN /\ after.made <= MaxTasks
          /\ queue' = after.queue /\ restored' = after.restored /\ made' = after.made
    /\ IF made' > made THEN UNCHANGED ops ELSE Operation
    /\ Save(current, queue')
    /\ At(FreeRun, "kick")
    /\ UNCHANGED <<processing, paused, written, timer, line, place>>

\* retryTask and retryAllFailedTasks: the panel offers them for failed tasks.
Retry(ids) ==
    /\ Operation /\ SomeRunIsFree
    /\ ids # {}
    /\ queue' = [i \in DOMAIN queue |-> IF queue[i].id \in ids THEN Reset(queue[i]) ELSE queue[i]]
    /\ restored' = restored \ ids
    /\ Save(current, queue')
    /\ At(FreeRun, "kick")
    /\ UNCHANGED <<processing, paused, written, timer, line, place, made>>

Failed == {queue[i].id : i \in {j \in DOMAIN queue: queue[j].status = "failed"}}

\* Mutant: a cancelled task leaves memory and not the file.
DiscardUnsaved(r, id) ==
    /\ queue' = Without(queue, id)
    /\ restored' = restored \ {id}
    /\ UNCHANGED <<paused, timer, disk>>
    /\ run' = [run EXCEPT ![r] = [Idle EXCEPT !.at = "kick"]]

\* The end of cancelTask, as invocation r: the task leaves the queue, and a
\* queue with nothing left to do is not paused.
Discard(r, id) ==
    /\ queue' = Without(queue, id)
    /\ restored' = restored \ {id}
    /\ LET busy == HasStatus(queue', {"pending", "processing"}) IN
       /\ paused' = (paused /\ busy)
       /\ timer' = IF busy THEN timer ELSE NoProject
    /\ Save(current, queue')
    /\ run' = [run EXCEPT ![r] = [Idle EXCEPT !.at = "kick"]]

Cancel(t) ==
    /\ Operation /\ SomeRunIsFree
    /\ t.status \in {"pending", "processing"}
    /\ IF t.status = "processing" /\ written
         THEN /\ run' = [run EXCEPT ![FreeRun] =
                    [Idle EXCEPT !.at = "cancelling", !.task = t.id]]
              /\ UNCHANGED <<queue, restored, processing, paused, timer, disk, written>>
         ELSE /\ Discard(FreeRun, t.id)
              /\ processing' = (processing /\ t.status # "processing")
              /\ UNCHANGED written
    /\ UNCHANGED <<line, place, made>>

Cancelling(r) ==
    /\ run[r].at = "cancelling"
    /\ Discard(r, run[r].task)
    /\ processing' = FALSE /\ written' = FALSE
    /\ UNCHANGED <<line, place, made, ops>>

\* The end of cancelAllTasks.
DiscardUnfinished ==
    /\ queue' = Kept(queue, {i \in DOMAIN queue: queue[i].status = "failed"})
    /\ restored' = restored \ {queue[i].id : i \in {j \in DOMAIN queue: queue[j].status # "failed"}}
    /\ paused' = FALSE /\ timer' = NoProject
    /\ Save(current, queue')

CancelAll ==
    /\ Operation /\ SomeRunIsFree
    /\ HasStatus(queue, {"pending", "processing"})
    /\ processing' = FALSE
    /\ IF written
         THEN /\ At(FreeRun, "clearing")
              /\ UNCHANGED <<queue, restored, paused, timer, disk>>
         ELSE DiscardUnfinished /\ UNCHANGED run
    /\ UNCHANGED <<written, line, place, made>>

Clearing(r) ==
    /\ run[r].at = "clearing"
    /\ DiscardUnfinished
    /\ written' = FALSE
    /\ run' = [run EXCEPT ![r] = Idle]
    /\ UNCHANGED <<processing, line, place, made, ops>>

\* pauseProcessing: the running task is pending again, its ingest aborted; the
\* processing flag stays until that ingest returns.
Pause ==
    /\ Operation
    /\ ~paused
    /\ timer' = NoProject /\ paused' = TRUE
    /\ queue' = LET running == {i \in DOMAIN queue: queue[i].status = "processing"} IN
                IF running = {} THEN queue
                ELSE [queue EXCEPT ![FirstOf(running)].status = "pending"]
    /\ IF queue' = queue THEN UNCHANGED disk ELSE Save(current, queue')
    /\ UNCHANGED <<processing, restored, written, run, line, place, made>>

Resume ==
    /\ Operation /\ SomeRunIsFree
    /\ current # NoProject
    /\ timer' = NoProject /\ restored' = {}
    /\ ProcessNext(FreeRun, current, queue, processing, FALSE, {})
    /\ UNCHANGED <<queue, processing, written, disk, line, place, made>>

\* The usage-limit timer, 15 minutes later.
TimerFires ==
    /\ Operation /\ SomeRunIsFree
    /\ timer # NoProject
    /\ timer' = NoProject
    /\ IF timer = current
         THEN ProcessNext(FreeRun, current, queue, processing, FALSE, restored)
         ELSE UNCHANGED <<paused, run>>
    /\ UNCHANGED <<queue, processing, restored, written, disk, line, place, made>>
-----------------------------------------------------------------------------
\* The hand-over: pauseQueue, then restoreQueue, each awaited by
\* handleProjectOpened before it goes on.

PauseQueue ==
    /\ Operation
    /\ switch = "ready"
    /\ timer' = NoProject /\ processing' = FALSE
    /\ queue' = Interrupted(queue)
    /\ Save(current, queue')
    /\ switch' = "flushing"
    /\ UNCHANGED <<paused, restored, written, run, line, current, loaded, made>>

Flushed ==
    /\ switch = "flushing"
    /\ switch' = "closed"
    /\ queue' = <<>> /\ restored' = {} /\ current' = NoProject /\ written' = FALSE
    /\ UNCHANGED <<processing, paused, timer, disk, run, line, loaded, made, ops>>

RestoreQueue(p) ==
    /\ switch = "closed"
    /\ switch' = "loading" /\ current' = p
    /\ queue' = <<>> /\ restored' = {}
    /\ processing' = FALSE /\ paused' = FALSE /\ written' = FALSE /\ timer' = NoProject
    /\ UNCHANGED <<disk, run, line, loaded, made, ops>>

ReadQueueFile ==
    /\ switch = "loading"
    /\ switch' = "loaded" /\ loaded' = disk[current]
    /\ UNCHANGED <<queue, processing, paused, restored, current, written, timer,
                   disk, run, line, made, ops>>

\* An empty file leaves the memory as it is.  Otherwise what was read replaces
\* the queue: tasks of the project, none of them processing, the pending ones
\* kept back until the user resumes them.
Restored ==
    /\ switch = "loaded" /\ SomeRunIsFree
    /\ switch' = "ready" /\ loaded' = <<>>
    /\ IF loaded = <<>>
         THEN UNCHANGED <<queue, restored, disk, run>>
         ELSE /\ queue' = Interrupted(Kept(loaded, {i \in DOMAIN loaded: loaded[i].proj = current}))
              /\ restored' = {t.id : t \in {queue'[i] : i \in
                                {j \in DOMAIN queue': queue'[j].status = "pending"}}}
              /\ Save(current, queue')
              /\ run' = [r \in Runs |->
                           IF r = FreeRun /\ restored' # {}
                             THEN [Idle EXCEPT !.at = "again", !.proj = current]
                             ELSE [run[r] EXCEPT !.own = FALSE]]
    /\ UNCHANGED <<processing, paused, current, written, timer, line, made, ops>>

\* The application is closed or dies, and starts again: only files survive.
Restart ==
    /\ Operation
    /\ switch' = "closed" /\ current' = NoProject
    /\ queue' = <<>> /\ restored' = {} /\ loaded' = <<>>
    /\ processing' = FALSE /\ paused' = FALSE /\ written' = FALSE /\ timer' = NoProject
    /\ run' = [r \in Runs |-> Idle] /\ line' = [p \in Projects |-> <<>>]
    /\ UNCHANGED <<disk, made>>
-----------------------------------------------------------------------------
\* processNext, from await to await, as invocation r.

Stale(r) == current # run[r].proj
Return(r) == run' = [run EXCEPT ![r] = Idle]

\* After an operation's save: processNext(currentProjectId).
Kick(r) ==
    /\ run[r].at = "kick"
    /\ ProcessNext(r, current, queue, processing, paused, restored)
    /\ UNCHANGED <<queue, processing, restored, written, timer, disk, line, place, made, ops>>

Again(r) ==
    /\ run[r].at = "again"
    /\ ProcessNext(r, run[r].proj, queue, processing, paused, restored)
    /\ UNCHANGED <<queue, processing, restored, written, timer, disk, line, place, made, ops>>

\* The registry answers.  Only the project is looked at again, not the flags.
RegistryAnswers(r) ==
    /\ run[r].at = "registry"
    /\ \/ /\ Stale(r) /\ Return(r)
          /\ UNCHANGED <<queue, processing, restored, disk>>
       \/ /\ ~Stale(r)                      \* the registry does not know the project
          /\ queue' = Assign(r, "failed", 0)
          /\ Save(current, queue')
          /\ Done(r, "again")
          /\ UNCHANGED <<processing, restored>>
       \/ /\ ~Stale(r)
          /\ processing' = TRUE
          /\ restored' = restored \ {run[r].task}
          /\ queue' = Assign(r, "processing", 0)
          /\ Save(run[r].proj, queue')
          /\ At(r, "starting")
    /\ UNCHANGED <<paused, written, timer, line, place, made, ops>>

\* The task is marked; autoIngest is called and queues up for the mutex.
CallsIngest(r) ==
    /\ run[r].at = "starting"
    /\ \/ /\ Stale(r) /\ Return(r)
          /\ UNCHANGED <<queue, processing, written, disk, line>>
       \/ /\ ~Stale(r)                      \* no LLM is configured
          /\ queue' = Assign(r, "failed", 0)
          /\ processing' = FALSE
          /\ Save(run[r].proj, queue')
          /\ Done(r, "again")
          /\ UNCHANGED <<written, line>>
       \/ /\ ~Stale(r)
          /\ written' = FALSE
          /\ line' = [line EXCEPT ![run[r].proj] = Append(@, r)]
          /\ At(r, "queued")
          /\ UNCHANGED <<queue, processing, disk>>
    /\ UNCHANGED <<paused, restored, timer, place, made, ops>>

GetsMutex(r) ==
    /\ run[r].at = "queued"
    /\ Head(line[run[r].proj]) = r
    /\ At(r, "ingesting")
    /\ UNCHANGED <<queue, processing, paused, restored, written, timer, disk, line, place, made, ops>>

WritesFile(r) ==
    /\ run[r].at = "ingesting" /\ ~written
    /\ written' = TRUE
    /\ UNCHANGED <<queue, processing, paused, restored, timer, disk, run, line, place, made, ops>>

\* The ingest returns or throws, and its mutex is released.
LeavesMutex(r) ==
    /\ run[r].at = "ingesting"
    /\ line' = [line EXCEPT ![run[r].proj] = Tail(@)]

IngestIsStale(r) ==
    /\ LeavesMutex(r) /\ Stale(r)
    /\ Return(r)
    /\ UNCHANGED <<queue, processing, paused, restored, written, timer, disk, place, made, ops>>

IngestSucceeds(r) ==
    /\ LeavesMutex(r) /\ ~Stale(r)
    /\ written' = FALSE
    /\ queue' = Without(queue, run[r].task)
    /\ Save(run[r].proj, queue')
    /\ Done(r, "finishing")
    /\ UNCHANGED <<processing, paused, restored, timer, place, made, ops>>

\* It throws, or returns no files, which empties lastWrittenFiles first.
PausedMeanwhile(r) == \E t \in Held(r): t.status = "pending"

\* Mutant: the flag is left set when the ingest of a paused task returns.
IngestWasPausedKeepsFlag(r, files) ==
    /\ LeavesMutex(r) /\ ~Stale(r) /\ PausedMeanwhile(r)
    /\ IF files
         THEN Done(r, "cleaning") /\ UNCHANGED <<processing, disk>>
         ELSE /\ Save(run[r].proj, queue)
              /\ Done(r, "cleaned")
              /\ UNCHANGED processing
    /\ written' = files
    /\ UNCHANGED <<queue, paused, restored, timer, place, made, ops>>

IngestWasPaused(r, files) ==
    /\ LeavesMutex(r) /\ ~Stale(r) /\ PausedMeanwhile(r)
    /\ IF files
         THEN Done(r, "cleaning") /\ UNCHANGED <<processing, disk>>
         ELSE /\ processing' = FALSE
              /\ Save(run[r].proj, queue)
              /\ Done(r, "cleaned")
    /\ written' = files
    /\ UNCHANGED <<queue, paused, restored, timer, place, made, ops>>

Cleaning(r) ==
    /\ run[r].at = "cleaning"
    /\ written' = FALSE /\ processing' = FALSE
    /\ Save(run[r].proj, queue)
    /\ Done(r, "cleaned")
    /\ UNCHANGED <<queue, paused, restored, timer, line, place, made, ops>>

Cleaned(r) ==
    /\ run[r].at = "cleaned"
    /\ IF paused THEN Return(r) /\ UNCHANGED paused
       ELSE ProcessNext(r, run[r].proj, queue, processing, paused, restored)
    /\ UNCHANGED <<queue, processing, restored, written, timer, disk, line, place, made, ops>>

IngestIsLimited(r) ==
    /\ LeavesMutex(r) /\ ~Stale(r) /\ ~PausedMeanwhile(r)
    /\ queue' = Assign(r, "pending", 0)
    /\ paused' = TRUE /\ processing' = FALSE
    /\ Save(run[r].proj, queue')
    /\ Done(r, "limited")
    /\ UNCHANGED <<restored, written, timer, place, made, ops>>

Limited(r) ==
    /\ run[r].at = "limited"
    /\ timer' = IF timer = NoProject THEN run[r].proj ELSE timer
    /\ Return(r)
    /\ UNCHANGED <<queue, processing, paused, restored, written, disk, line, place, made, ops>>

\* Mutant: a failed attempt is not counted.
IngestFailsUncounted(r, files) ==
    /\ LeavesMutex(r) /\ ~Stale(r) /\ ~PausedMeanwhile(r)
    /\ queue' = Assign(r, "pending", 0)
    /\ written' = files
    /\ Save(run[r].proj, queue')
    /\ Done(r, "finishing")
    /\ UNCHANGED <<processing, paused, restored, timer, place, made, ops>>

IngestFails(r, files) ==
    /\ LeavesMutex(r) /\ ~Stale(r) /\ ~PausedMeanwhile(r)
    /\ LET last == \E t \in Held(r): t.tries + 1 >= MaxRetries IN
       queue' = Assign(r, IF last THEN "failed" ELSE "pending", 1)
    /\ written' = files
    /\ Save(run[r].proj, queue')
    /\ Done(r, "finishing")
    /\ UNCHANGED <<processing, paused, restored, timer, place, made, ops>>

\* After the save: the flag falls, whoever set it, and the next task is taken.
Finishing(r) ==
    /\ run[r].at = "finishing"
    /\ processing' = FALSE
    /\ ProcessNext(r, run[r].proj, queue, FALSE, paused, restored)
    /\ UNCHANGED <<queue, restored, written, timer, disk, line, place, made, ops>>
-----------------------------------------------------------------------------
Steps(r) ==
    \/ Kick(r) \/ Again(r) \/ RegistryAnswers(r) \/ CallsIngest(r) \/ GetsMutex(r)
    \/ IngestIsStale(r) \/ IngestSucceeds(r) \/ IngestIsLimited(r)
    \/ \E files \in {FALSE, written}: IngestWasPaused(r, files) \/ IngestFails(r, files)
    \/ Cleaning(r) \/ Cleaned(r) \/ Limited(r) \/ Finishing(r)
    \/ Cancelling(r) \/ Clearing(r)

HandOver == Flushed \/ (\E p \in Projects: RestoreQueue(p)) \/ ReadQueueFile \/ Restored

Operations ==
    \/ \E files \in {<<s>> : s \in Sources} \cup {<<s, t>> : s \in Sources, t \in Sources}: Enqueue(files)
    \/ \E ids \in {{i} : i \in Failed} \cup {Failed}: Retry(ids)
    \/ \E i \in DOMAIN queue: Cancel(queue[i])
    \/ CancelAll \/ Pause \/ Resume \/ TimerFires \/ PauseQueue \/ Restart

QueueNext ==
    \/ Operations
    \/ HandOver
    \/ \E r \in Runs: Steps(r) \/ WritesFile(r)

QueueSpec == QueueInit /\ [][QueueNext]_queueVars
-----------------------------------------------------------------------------
QueueTypeOK ==
    /\ queue \in Seq(Task) /\ loaded \in Seq(Task) /\ disk \in [Projects -> Seq(Task)]
    /\ processing \in BOOLEAN /\ paused \in BOOLEAN /\ written \in BOOLEAN
    /\ restored \subseteq Ids
    /\ current \in Projects \cup {NoProject} /\ timer \in Projects \cup {NoProject}
    /\ run \in [Runs -> Run] /\ line \in [Projects -> Seq(Runs)]
    /\ switch \in {"closed", "loading", "loaded", "ready", "flushing"}
    /\ made \in 0..MaxTasks /\ ops \in 0..MaxOps

Active == {"starting", "queued", "ingesting", "finishing", "cleaning"}

\* While a project is open and processing is set, an invocation will reset it.
FlagIsOwned ==
    processing /\ switch = "ready" => \E r \in Runs: run[r].at \in Active

\* A task shown as processing is in the hands of one that will move it on.
ProcessingTaskIsOwned ==
    \A i \in DOMAIN queue: queue[i].status = "processing" =>
        \E r \in Runs: run[r].at \in {"starting", "queued", "ingesting"} /\ run[r].task = queue[i].id

(* What stands for work in progress, the flag and a task's status, never     *)
(* outlives the work.  Every path of processNext, cancelTask, pause and the  *)
(* hand-over has to see to it; one that does not leaves a queue that never   *)
(* runs again or a task that stays as it is.                                 *)
WorkIsOwned == FlagIsOwned /\ ProcessingTaskIsOwned

(* A crash at any moment loses no task of the open project: its file lists   *)
(* the tasks in memory (saveQueue after every change).                       *)
FileMatchesMemory ==
    switch = "ready" => IdsOf(disk[current]) = IdsOf(queue)

(* "The queue itself is already serial" (project-mutex.ts:14): one           *)
(* invocation at a time has a task in hand.                                  *)
QueueIsSerial ==
    Cardinality({r \in Runs: run[r].at \in {"starting", "queued", "ingesting"}}) <= 1

(* The file of a project loses a task only because the task was ingested or  *)
(* cancelled.  Two known holes are left out, see the README: an operation in *)
(* a project whose queue is still being loaded, and the clean-up after a     *)
(* pause that outlives its project (ingest-queue.ts:781-787).                *)
EndsTask(r, id) ==
    \/ IngestSucceeds(r) /\ run[r].task = id
    \/ Cancelling(r)
    \/ Clearing(r)
    \/ (Cleaning(r) /\ Stale(r))

OnlyEndedTasksGo ==
    \A p \in Projects: \A t \in {disk[p][i] : i \in DOMAIN disk[p]}:
         /\ t.proj = p
         /\ t.id \notin IdsOf(disk'[p])
         /\ switch \notin {"loading", "loaded"}
         => \/ \E r \in Runs: EndsTask(r, t.id)
            \/ CancelAll
            \/ Cancel(t)
TasksSurvive == [][OnlyEndedTasksGo]_queueVars

(* A task that may run is eventually out of the way: ingested, failed,       *)
(* cancelled or held back by a pause.                                        *)
Runnable(id) == \E i \in DOMAIN queue: /\ queue[i].id = id
                                       /\ queue[i].status # "failed"
                                       /\ id \notin restored
EveryTaskSettles == \A id \in Ids: Runnable(id) ~> (~Runnable(id) \/ paused)
===========================================================================
