------------------------------ MODULE FileSync ------------------------------
(*****************************************************************************)
(* The project file watcher of LLM Wiki (commands/file_sync.rs): a snapshot  *)
(* of the files and a queue of changes, both on disk and both read and       *)
(* written under one mutex per project, while the files themselves are read  *)
(* without it.  The thread of the watcher, the thread of the commands and a  *)
(* thread of the API server that publishes work on them at once; an action   *)
(* is one section of the mutex or one read of the files.                     *)
(*                                                                           *)
(* A content is a number, Absent is no file; a file may get an earlier       *)
(* content back.  Left out: the kinds of change, directories and the rules   *)
(* of what is watched; a read or write of the queue file or of the snapshot  *)
(* that fails.                                                               *)
(*****************************************************************************)
EXTENDS Naturals, FiniteSets

CONSTANTS Files,           \* the watched paths
          NoFile,          \* none of them
          MaxRetry,        \* failures after which a task stays failed (3)
          MaxGeneration,   \* bound: starts and stops of the watcher
          SyncBudgets      \* bounds of one behaviour, chosen in its initial state

SyncBudget == [writes: Nat, publications: Nat, starts: Nat, commands: Nat,
               faults: Nat, crashes: Nat]

ASSUME SyncAssumption == /\ IsFiniteSet(Files)
                         /\ NoFile \notin Files
                         /\ MaxRetry \in Nat /\ MaxGeneration \in Nat
                         /\ SyncBudgets \subseteq SyncBudget

VARIABLES
    content,    \* what each file holds
    newest,     \* the greatest content so far
    snapshot,   \* file-snapshot.json: the content seen last
    tasks,      \* file-change-queue.json: the open task of each path
    marked,     \* APP_WRITE_IGNORES: the application has just written here
    generation, \* WATCHER_GENERATION
    listening,  \* the generation of the watcher that gets the events, 0 if none
    events,     \* paths the watcher's thread has not taken up yet
    threads,    \* what each thread is doing
    told,       \* history: the content when the frontend was told, or the application wrote
    strayed,    \* history: files the snapshot has otherwise than the frontend, nobody to say so
    excused,    \* history: files whose last change the code loses, see ChangeIsFollowedUp
    left        \* what is left of the bounds

syncVars == <<content, newest, snapshot, tasks, marked, generation, listening, events,
              threads, told, strayed, excused, left>>

Absent == 0
Command == 0
Watchers == 1..MaxGeneration
Publisher == MaxGeneration + 1
Threads == 0..Publisher

Unseen == [f \in Files |-> Absent]

\* files: paths in hand; own: those the application wrote; seen: what a read of
\* the snapshot or of the files returned, until it is used; held: updated_at of
\* the task in hand is as this thread wrote it; said: the changes it will report.
Resting == [stage |-> "idle", files |-> {}, own |-> {}, seen |-> Unseen,
            task |-> NoFile, held |-> FALSE, starts |-> FALSE, said |-> {}]

NoTask == [status |-> "none", rerun |-> FALSE, retries |-> 0]

SyncInit ==
    /\ newest = 1
    /\ content \in [Files -> {Absent, 1}]
    /\ snapshot = [f \in Files |-> Absent]
    /\ told = snapshot
    /\ tasks = [f \in Files |-> NoTask]
    /\ marked = {} /\ events = {} /\ strayed = {} /\ excused = {}
    /\ generation = 0 /\ listening = 0
    /\ threads = [t \in Threads |-> Resting]
    /\ left \in SyncBudgets

Has(what) == left[what] > 0
Take(what) == left' = [left EXCEPT ![what] = @ - 1]
At(t, stage) == threads[t].stage = stage
Becomes(t, r) == threads' = [threads EXCEPT ![t] = r]
Goes(t, stage) == Becomes(t, [threads[t] EXCEPT !.stage = stage])
Rests(t) == Becomes(t, Resting)
Active == listening # 0 /\ listening = generation
Stale(t) == t \in Watchers /\ t # generation
Differing == {f \in Files: content[f] # snapshot[f]}

\* Those of paths that look unchanged only because the snapshot has strayed.
Overlooked(paths) ==
    {f \in paths \intersect strayed: tasks[f].status = "none" /\ told[f] # content[f]}

\* updated_at of the tasks of paths is written: it is in milliseconds, so a thread
\* that holds such a task may or may not see that it changed.
Touched(paths, all) ==
    {[t \in Threads |-> IF t \in shown THEN [all[t] EXCEPT !.held = FALSE] ELSE all[t]] :
     shown \in SUBSET {t \in Threads: all[t].task \in paths /\ all[t].held}}
\* The task of f is no more.
Lost(f, all) == [t \in Threads |-> IF all[t].task = f THEN [all[t] EXCEPT !.task = NoFile]
                                   ELSE all[t]]

world == <<content, newest, told>>
history == <<strayed, excused>>
mutexed == <<snapshot, tasks>>
watch == <<generation, listening>>
-----------------------------------------------------------------------------
(* Who writes files.                                                         *)

\* A write while the path is marked is taken for the application's.
UserWrites(f, c) ==
    /\ Has("writes") /\ Take("writes")
    /\ content[f] # c
    /\ content' = [content EXCEPT ![f] = c]
    /\ newest' = IF c > newest THEN c ELSE newest
    /\ told' = IF f \in marked THEN [told EXCEPT ![f] = c] ELSE told
    /\ events' = IF listening # 0 THEN events \union {f} ELSE events
    /\ excused' = IF Active THEN excused \ {f} ELSE excused \union {f}
    /\ UNCHANGED <<mutexed, marked, watch, threads, strayed>>

\* An approval: the page is marked and written, and then handle_approve_ingest_draft
\* records it in the snapshot and rescans.
Publish(f) ==
    /\ Has("publications") /\ Take("publications")
    /\ At(Publisher, "idle")
    /\ content' = [content EXCEPT ![f] = newest + 1]
    /\ newest' = newest + 1
    /\ told' = [told EXCEPT ![f] = newest + 1]
    /\ marked' = marked \union {f}
    /\ events' = IF listening # 0 THEN events \union {f} ELSE events
    /\ Becomes(Publisher, [Resting EXCEPT !.stage = "own", !.own = {f}])
    /\ UNCHANGED <<mutexed, watch, history>>

\* The mark's sixty seconds are longer than the handling of the event, and of
\* the publication, takes.  The snapshot may have an older content than the last,
\* or none, when it was synchronised late, not at all, or with no watcher.
MarkExpires(f) ==
    /\ f \in marked \ events
    /\ \A t \in Threads: f \notin threads[t].own
    /\ marked' = marked \ {f}
    /\ strayed' = IF told[f] = snapshot[f] THEN strayed \ {f} ELSE strayed \union {f}
    /\ UNCHANGED <<world, mutexed, watch, events, threads, excused, left>>
-----------------------------------------------------------------------------
(* sync_snapshot_paths: what the application wrote is not reported.          *)

SyncReads(t) ==
    /\ At(t, "own")
    /\ Becomes(t, [threads[t] EXCEPT !.stage = "sync", !.seen = content])
    /\ UNCHANGED <<world, mutexed, marked, watch, events, history, left>>

\* One of them cannot be read.  A publication is rescanned all the same, but a
\* batch of events ends here, with the changes of the user that came in it.
SyncReadFails(t) ==
    /\ At(t, "own") /\ Has("faults") /\ Take("faults")
    /\ \E f \in threads[t].own: content[f] # Absent
    /\ IF t = Publisher THEN Becomes(t, [threads[t] EXCEPT !.own = {}, !.stage = "walk"])
       ELSE Rests(t)
    /\ excused' = excused \union threads[t].files
    /\ UNCHANGED <<world, mutexed, marked, watch, events, strayed>>

SyncWrites(t) ==
    /\ At(t, "sync")
    /\ LET r == threads[t]
       IN /\ snapshot' = [f \in Files |-> IF f \in r.own THEN r.seen[f] ELSE snapshot[f]]
          /\ Becomes(t, [r EXCEPT !.own = {}, !.seen = Unseen,
                                  !.stage = IF t = Publisher THEN "walk"
                                            ELSE IF r.files = {} THEN "idle" ELSE "snapshot"])
    /\ UNCHANGED <<world, tasks, marked, watch, events, history, left>>
-----------------------------------------------------------------------------
(* The watcher's thread, and the commands.                                   *)

\* handle_changed_paths, after 700 ms without an event.
TakeEvents(w) ==
    /\ w = listening /\ At(w, "idle") /\ events # {}
    /\ events' = {}
    /\ LET files == events \ marked
           own == {f \in events \intersect marked: content[f] # Absent \/ snapshot[f] # Absent}
       IN IF Stale(w) THEN UNCHANGED threads
          ELSE Becomes(w, [Resting EXCEPT !.files = files, !.own = own,
                                          !.stage = IF own # {} THEN "own"
                                                    ELSE IF files # {} THEN "snapshot" ELSE "idle"])
    /\ UNCHANGED <<world, mutexed, marked, watch, history, left>>

\* maybe_periodic_rescan, on Linux only, while events may be coming in; also tasks
\* that were left pending are run.
PeriodicRescan(w) ==
    /\ w = listening /\ At(w, "idle")
    /\ ~Stale(w)
    /\ Differing # {} \/ \E f \in Files: tasks[f].status = "pending"
    /\ Goes(w, "walk")
    /\ UNCHANGED <<world, mutexed, marked, watch, events, history, left>>

\* From here on events of the old watcher are dropped.
StartWatcher ==
    /\ Has("starts") /\ Take("starts")
    /\ At(Command, "idle") /\ generation < MaxGeneration
    /\ generation' = generation + 1
    /\ Becomes(Command, [Resting EXCEPT !.stage = "reset", !.starts = TRUE])
    /\ UNCHANGED <<world, mutexed, marked, listening, events, history>>

StopWatcher ==
    /\ Has("commands") /\ Take("commands")
    /\ At(Command, "idle") /\ generation < MaxGeneration
    /\ generation' = generation + 1 /\ listening' = 0 /\ events' = {}
    /\ UNCHANGED <<world, mutexed, marked, threads, history>>

RescanProject ==
    /\ Has("commands") /\ Take("commands")
    /\ At(Command, "idle")
    /\ Goes(Command, "walk")
    /\ UNCHANGED <<world, mutexed, marked, watch, events, history>>

RetryTask(f) ==
    /\ Has("commands") /\ Take("commands")
    /\ At(Command, "idle") /\ tasks[f].status # "none"
    /\ tasks' = [tasks EXCEPT ![f] = [NoTask EXCEPT !.status = "pending"]]
    /\ threads' \in Touched({f}, [threads EXCEPT ![Command].stage = "pick"])
    /\ UNCHANGED <<world, snapshot, marked, watch, events, history>>

\* The user does not want the change.  A thread that holds the task loses it.
IgnoreTask(f) ==
    /\ Has("commands") /\ Take("commands")
    /\ At(Command, "idle") /\ tasks[f].status # "none"
    /\ tasks' = [tasks EXCEPT ![f] = NoTask]
    /\ threads' = Lost(f, threads)
    /\ excused' = excused \union {f}
    /\ UNCHANGED <<world, snapshot, marked, watch, events, strayed>>

\* reset_processing_tasks.
Reset(f) == IF tasks[f].status = "processing"
            THEN [tasks[f] EXCEPT !.status = "pending", !.rerun = FALSE] ELSE tasks[f]

ResetProcessing ==
    /\ At(Command, "reset")
    /\ tasks' = [f \in Files |-> Reset(f)]
    /\ threads' \in Touched({f \in Files: tasks[f].status = "processing"},
                            [threads EXCEPT ![Command].stage = "walk"])
    /\ UNCHANGED <<world, snapshot, marked, watch, events, history, left>>

\* enqueue_rescan_changes, and its variant for watchers and their start, which
\* passes by the files that look as they did.
Walk(t) ==
    /\ At(t, "walk")
    /\ LET known == {f \in Files: content[f] # Absent \/ snapshot[f] # Absent}
       IN Becomes(t, [threads[t] EXCEPT !.stage = "scanned",
                         !.files = IF threads[t].starts \/ t \in Watchers THEN Differing
                                   ELSE known])
    /\ excused' = (excused \ Differing) \union Overlooked(Files \ Differing)
    /\ UNCHANGED <<world, mutexed, marked, watch, events, strayed, left>>

\* The quick walk ends at the first file whose metadata cannot be read.
WalkFails(t) ==
    /\ At(t, "walk") /\ Has("faults") /\ Take("faults")
    /\ threads[t].starts \/ t \in Watchers
    /\ \E f \in Files: content[f] # Absent
    /\ Rests(t)
    /\ UNCHANGED <<world, mutexed, marked, watch, events, history>>
-----------------------------------------------------------------------------
(* enqueue_paths.                                                            *)

\* A batch of events that is late is dropped, what a walk found is not.
ReadsSnapshot(t) ==
    /\ At(t, "snapshot") \/ At(t, "scanned")
    /\ IF At(t, "snapshot") /\ Stale(t) THEN Rests(t)
       ELSE Becomes(t, [threads[t] EXCEPT !.stage = "disk", !.seen = snapshot])
    /\ UNCHANGED <<world, mutexed, marked, watch, events, history, left>>

\* A change back to what a snapshot that has strayed says looks like none.
ReadsFiles(t) ==
    /\ At(t, "disk")
    /\ LET changed == {f \in threads[t].files: content[f] # threads[t].seen[f]}
       IN /\ Becomes(t, [threads[t] EXCEPT !.files = changed, !.seen = Unseen,
                            !.stage = IF changed = {} THEN "check" ELSE "upsert"])
          /\ excused' = excused \union Overlooked(threads[t].files \ changed)
    /\ UNCHANGED <<world, mutexed, marked, watch, events, strayed, left>>

\* One file that cannot be read is the end of the whole batch.
ReadFails(t) ==
    /\ At(t, "disk") /\ Has("faults") /\ Take("faults")
    /\ \E f \in threads[t].files: content[f] # Absent
    /\ excused' = excused \union threads[t].files
    /\ Rests(t)
    /\ UNCHANGED <<world, mutexed, marked, watch, events, strayed>>

\* Mutant: a task in process is not marked for another run.
UpsertForgets(k) ==
    IF k.status = "none" THEN [NoTask EXCEPT !.status = "pending"]
    ELSE IF k.status = "failed" /\ k.retries < MaxRetry THEN [k EXCEPT !.status = "pending"]
    ELSE k

Upsert(k) ==
    IF k.status = "none" THEN [NoTask EXCEPT !.status = "pending"]
    ELSE IF k.status = "failed" /\ k.retries < MaxRetry THEN [k EXCEPT !.status = "pending"]
    ELSE IF k.status = "processing" THEN [k EXCEPT !.rerun = TRUE]
    ELSE k

UpsertTasks(t) ==
    /\ At(t, "upsert")
    /\ tasks' = [f \in Files |-> IF f \in threads[t].files THEN Upsert(tasks[f]) ELSE tasks[f]]
    /\ threads' \in Touched(threads[t].files,
                            [threads EXCEPT ![t].stage = "check", ![t].files = {}])
    /\ UNCHANGED <<world, snapshot, marked, watch, events, history, left>>

Enqueued(t) ==
    /\ At(t, "check")
    /\ IF Stale(t) THEN Rests(t) ELSE Goes(t, "pick")
    /\ UNCHANGED <<world, mutexed, marked, watch, events, history, left>>
-----------------------------------------------------------------------------
(* process_queue_inner.                                                      *)

Pick(t, f) ==
    /\ At(t, "pick") /\ tasks[f].status = "pending"
    /\ tasks' = [tasks EXCEPT ![f].status = "processing"]
    /\ threads' \in {[all EXCEPT ![t].stage = "read", ![t].task = f, ![t].held = TRUE]:
                     all \in Touched({f}, threads)}
    /\ UNCHANGED <<world, snapshot, marked, watch, events, history, left>>

ReadsTask(t) ==
    /\ At(t, "read")
    /\ Becomes(t, [threads[t] EXCEPT !.stage = "update", !.seen = content])
    /\ UNCHANGED <<world, mutexed, marked, watch, events, history, left>>

ReadOfTaskFails(t) ==
    /\ At(t, "read") /\ Has("faults") /\ Take("faults")
    /\ threads[t].task # NoFile => content[threads[t].task] # Absent
    /\ Goes(t, "failed")
    /\ UNCHANGED <<world, mutexed, marked, watch, events, history>>

\* The result of a run.
Finished(k, failed) == IF failed THEN [k EXCEPT !.status = "failed", !.retries = @ + 1]
                       ELSE IF k.rerun THEN [k EXCEPT !.status = "pending", !.rerun = FALSE]
                       ELSE NoTask

\* This thread's task is as it left it.
Update(t, f) ==
    LET r == threads[t]
        k == Finished(tasks[f], r.stage = "failed")
        all == [threads EXCEPT ![t] = [r EXCEPT !.stage = "pick", !.task = NoFile, !.held = FALSE,
                                                !.seen = Unseen, !.said = @ \union {f}]]
    IN /\ r.stage \in {"update", "failed"} /\ r.task = f
       /\ tasks[f].status = "processing" /\ r.held
       /\ tasks' = [tasks EXCEPT ![f] = k]
       /\ snapshot' = IF r.stage = "failed" THEN snapshot ELSE [snapshot EXCEPT ![f] = r.seen[f]]
       /\ IF k = NoTask THEN threads' = Lost(f, all) ELSE threads' \in Touched({f}, all)
       /\ UNCHANGED <<world, marked, watch, events, history, left>>

\* It was changed or taken by another thread meanwhile, or is no more.
UpdateIsLate(t) ==
    LET r == threads[t]
        f == r.task
        all == [threads EXCEPT ![t] = [r EXCEPT !.stage = "pick", !.task = NoFile, !.held = FALSE,
                                                !.seen = Unseen]]
        again == f # NoFile /\ tasks[f].status = "processing" /\ tasks[f].rerun
    IN /\ r.stage \in {"update", "failed"}
       /\ f # NoFile => ~(tasks[f].status = "processing" /\ r.held)
       /\ tasks' = IF again THEN [tasks EXCEPT ![f] = [@ EXCEPT !.status = "pending", !.rerun = FALSE]]
                   ELSE tasks
       /\ IF again THEN threads' \in Touched({f}, all) ELSE threads' = all
       /\ UNCHANGED <<world, snapshot, marked, watch, events, history, left>>

\* The frontend is told, and reads the files as they are now.  The snapshot has
\* them as this thread read them before, or as they were if it could not.
Report(t) ==
    /\ At(t, "pick") /\ \A f \in Files: tasks[f].status # "pending"
    /\ told' = [f \in Files |-> IF f \in threads[t].said THEN content[f] ELSE told[f]]
    /\ strayed' = (strayed \ threads[t].said) \union (threads[t].said \intersect Differing)
    /\ IF threads[t].starts THEN Becomes(t, [Resting EXCEPT !.stage = "listen", !.starts = TRUE])
       ELSE Rests(t)
    /\ UNCHANGED <<content, newest, mutexed, marked, watch, events, excused, left>>

Listen ==
    /\ At(Command, "listen")
    /\ listening' = generation /\ events' = {}
    /\ Rests(Command)
    /\ UNCHANGED <<world, mutexed, marked, generation, history, left>>

\* What a thread was about to report is in the snapshot already, and what the
\* application has just written may not be.
Killed ==
    /\ Has("crashes") /\ Take("crashes")
    /\ threads' = [t \in Threads |-> Resting]
    /\ listening' = 0 /\ events' = {} /\ marked' = {}
    /\ LET said == UNION {threads[t].said: t \in Threads}
       IN /\ strayed' = strayed \union {f \in said \union marked: told[f] # snapshot[f]}
          /\ excused' = excused \union said
    /\ UNCHANGED <<world, mutexed, generation>>
-----------------------------------------------------------------------------
SyncNext ==
    \/ \E f \in Files: \/ \E c \in 0..(newest + 1): UserWrites(f, c)
                       \/ Publish(f) \/ MarkExpires(f) \/ RetryTask(f) \/ IgnoreTask(f)
    \/ StartWatcher \/ StopWatcher \/ RescanProject \/ ResetProcessing \/ Listen \/ Killed
    \/ \E w \in Watchers: TakeEvents(w) \/ PeriodicRescan(w)
    \/ \E t \in Threads: \/ SyncReads(t) \/ SyncReadFails(t) \/ SyncWrites(t)
                         \/ Walk(t) \/ WalkFails(t)
                         \/ ReadsSnapshot(t) \/ ReadsFiles(t) \/ ReadFails(t)
                         \/ UpsertTasks(t) \/ Enqueued(t)
                         \/ \E f \in Files: Pick(t, f) \/ Update(t, f)
                         \/ ReadsTask(t) \/ ReadOfTaskFails(t) \/ UpdateIsLate(t) \/ Report(t)

SyncSpec == SyncInit /\ [][SyncNext]_syncVars
-----------------------------------------------------------------------------
SyncTypeOK ==
    /\ newest \in Nat
    /\ content \in [Files -> 0..newest]
    /\ snapshot \in [Files -> 0..newest]
    /\ told \in [Files -> 0..newest]
    /\ tasks \in [Files -> [status: {"none", "pending", "processing", "failed"},
                            rerun: BOOLEAN, retries: Nat]]
    /\ marked \subseteq Files /\ events \subseteq Files
    /\ strayed \subseteq Files /\ excused \subseteq Files
    /\ generation \in Nat /\ listening \in 0..generation
    /\ threads \in [Threads ->
          [stage: {"idle", "own", "sync", "reset", "walk", "snapshot", "scanned", "disk",
                   "upsert", "check", "pick", "read", "update", "failed", "listen"},
           files: SUBSET Files, own: SUBSET Files, seen: [Files -> 0..newest],
           task: Files \union {NoFile}, held: BOOLEAN, starts: BOOLEAN,
           said: SUBSET Files]]
    /\ left \in SyncBudget

InHand(f) == \E t \in Threads:
                LET r == threads[t]
                IN \/ f \in r.said
                   \/ f \in r.files /\ ~(r.stage = "snapshot" /\ Stale(t))
                   \/ r.task = f /\ tasks[f].status = "processing"

(* While a watcher listens, a change the user made to a file is followed up   *)
(* until the frontend has been told: its event waits, or a thread has it in   *)
(* hand, or its task is open and, if it is being processed, some thread holds *)
(* it.  Threads that pick a task twice, a watcher that is replaced and a      *)
(* publication beside it do not lose one, nor does the late read of the       *)
(* change itself.  The code does lose, and excused lists,                     *)
(*   - a change between the walk of a starting watcher and its first event    *)
(*     (202-306);                                                             *)
(*   - a batch of events, or of a walk, with a file that cannot be read       *)
(*     (742), or a batch of events with one that the application wrote and    *)
(*     that cannot be read (605-608, called at 480);                          *)
(*   - a change that was in the snapshot and not yet reported when the        *)
(*     process died (903-923, reported at 880), and a task the user ignored;  *)
(*   - a change of a file back to what the snapshot says of it, when the      *)
(*     snapshot has strayed from what the frontend knows (743): what is       *)
(*     written back was read before the mutex was taken and may be older than *)
(*     the file (889-905, 605-618), or is not written because the read failed *)
(*     (914-918), or the process died first.  The comment at 737-741 calls    *)
(*     the late read harmless and self-correcting.                            *)
ChangeIsFollowedUp ==
    Active => \A f \in Files \ excused:
                 told[f] # content[f] => \/ f \in events
                                         \/ tasks[f].status \in {"pending", "failed"}
                                         \/ InHand(f)
=============================================================================
