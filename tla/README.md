# Verification of the AGNET Workbench

TLA+ models of the protocols inside AGNET Workbench, checked with TLC on small
instances and proved with TLAPS where a proof is within reach.  The reference is
the code: `PROJECT.json` names, for every definition, the lines it stands for.

The program is a knowledge base (LLM Wiki: a Tauri application whose Rust core also
runs without a window) and an agent server (Hermes Studio: a Node server with a web
client), started together by PowerShell scripts.  What the two promise most loudly is
that nothing enters the wiki without a person's approval (`README.md:81`) and that
what is approved is published completely or not at all (`README.md:82`).  The code
behind that promise is the strict-ingest gate; it is modelled in most detail.  Around it,
the parts with a protocol of their own are modelled and checked: in LLM Wiki the file
watcher, the enrichment jobs, the desktop ingest queue and its mutex; in the Studio server
the runs of a chat session, the runs of a workflow, the agents of a group-chat room and
the manager of the agent bridge.  The safety properties of all of them are also proved.

## 1. Inventory

### 1.1 LLM Wiki

| Part | State | Operations | Talks to |
|---|---|---|---|
| Strict-ingest gate, `ingest_gate.rs` | a directory per draft (`draft.json`, `proposal.json`, the staged file), `trusted_sources.json`, `wiki/*.md`; one process-wide mutex `PROJECT_GATE` | `create_source_draft`, `create_generated_page_draft`, `kick_queue`, `process_draft`, `claim_`/`submit_`/`fail_ingest_compilation`, `request_revision`, `reject_draft`, `approve_draft`, `resume_queued_drafts`, `set_ingest_embedding_status` | API server, WebView worker, enrichment; threads it spawns itself |
| Publication, `commit_with_rollback` | targets, staged copies and backups in `.llm-wiki/transactions/<id>` | stage, back up, replace, roll back | called by `approve_draft` with the mutex held |
| WebView strict-ingest worker, `strict-ingest-worker.ts` | one claim, an abort controller | poll, claim, compile, submit, fail, abandon | the gate, by its API |
| API server, `api_server.rs` | the current project, in-flight counters | routes; resume at start and at each project selection | the gate |
| Enrichment slot, `llm_enrich.rs` | job slot, progress, cancel flag | start, cancel, run; also called by gate threads | the gate, model provider |
| Desktop ingest queue, `ingest-queue.ts`, `project-mutex.ts` | queue, `processing`, `paused`, current project, persisted per project | enqueue, `processNext`, pause, resume, cancel, switch project, restore | file system, model provider |
| Duplicate-merge queue, `dedup-queue.ts` | as above | as above | as above |
| File watcher and sync queue, `file_sync.rs` | snapshot, change queue, running flag, `needs_rerun`, window of own writes | scan, enqueue, process, mark own writes | desktop queue |
| Timers, `scheduled-import.ts`, `auto-save.ts`, `sweep-reviews.ts` | last run, pending writes | one call per tick | desktop queue |
| Retrieval, graph, embedding, search | indexes | ranking and indexing | file system |

### 1.2 Hermes Studio server

| Part | State | Operations | Talks to |
|---|---|---|---|
| Agent bridge manager, `agent-bridge/manager.ts` | child process, attached, ready, start in progress, recovery, restart timer, stop generation | start, attach, probe, recover, stop, restart | child process, a bridge somebody else started |
| Agent bridge, `agent-bridge/python/bridge_broker.py`, `bridge_pool.py` | per session: running, current run; records of runs | ping, start a chat, output, status, interrupt, destroy | agents, in worker processes |
| Run-chat queue, `run-chat/index.ts`, `handle-bridge-run.ts`, `abort.ts` | per session: working, aborting, run id, marker, queue | send, start, stream, end, abort, cancel, dequeue, goal continuation, reattach | bridge, page |
| Workflow manager, `workflow-manager.ts`, `workflow-run-store.ts` | a row and node sessions per run in a database; scheduler variables, approval waits, cancelled ids in memory | run, rerun, approve, stop, delete, recover | chat runs |
| WeChat article sync, `wechat-article-sync.ts` | seen articles, sync state | sync, import a link, approve by polling | the gate, by its API |
| Login limiter, `login-limiter.ts` | counters and locks per address and for all | check, record, prune, persist | routes |
| Group chat, `group-chat/agent-clients.ts`, `group-chat/index.ts`, `routes/hermes/group-chat.ts` | per room: seed of its agents' sessions, workspace, messages, fence, pause; per agent: lock, queue of mentions, interrupt versions, cards of changes | message, mention, reply, interrupt an agent, clear, switch the workspace, delete | bridge, sockets of users and agents |
| Coding-agent runs, gateway start, write gate | sockets, child processes | supervision | bridge |

### 1.3 What is hard, and what makes each part correct

* **The gate** has three kinds of actor that take one mutex in turns and forget
  nothing in between: API calls, threads that `kick_queue` spawns, and compilers
  outside the process.  Nothing polls the queue; it moves only because every operation
  that may unblock it kicks it.  Correct means: a decision is final, one thread
  works at a time, the reviewer decides about what is on disk now, the queue is never
  left without a kick, everything visible was approved.
* **The publication** writes up to seven files that are not one transaction for the
  file system, and may fail or die at each.  Correct means: all or nothing.
* **The desktop queues** test a flag, await and set it; they pause, cancel and change
  projects while a task runs.  Correct means: one task at a time, none lost, none
  written into the wrong project, and the queue never stops for good.
* **File sync** reads files without its lock, from three threads, and sees its own
  writes come back.  Correct means: each foreign change is followed up until reported.
* **Enrichment** loads a file, works for minutes and writes all of it back.  Correct
  means: no two jobs do so at once.
* **A chat session** is one record that many handlers read and write between their
  awaits, and nothing polls its queue.  Correct means: one run at a time, each message
  run once or cancelled, an abort that ends, a session that works is served by somebody.
* **A workflow run** has a scheduler and node continuations in memory and a row and
  node sessions in a database.  Correct means: what completes is what the graph says in
  whatever order nodes end, and everything is closed at the end, also after a crash.
* **The bridge manager** races answers, exits, timers and stops.  Correct means: one
  child process, supervised until it is stopped, and stopped once it is.
* **A group-chat room** resets its agents while they reply, mention each other and have
  messages on the way.  Correct means: what was cleared stays away, no mention is left
  behind a pause or a lock, and what a run changed in the workspace is shown.
* **WeChat sync** keeps a seen set around awaits.  Correct means: no article twice.
* **The limiter** resets two windows at different times.  Correct means: a lock is not
  lost to a reset or to pruning.

`PROJECT.json` lists the hazards with their lines.

## 2. Modules

| Module | Content |
|---|---|
| `ReviewLedger` | what the gate promises: drafts are queued, offered, sent back, decided; decisions are final; no content in two live drafts |
| `IngestGate` | the gate: 8 variables on disk, 8 of the process, one action per critical section |
| `MCIngestGate` | the symmetry of its TLC instances |
| `AtomicPublication` | what a publication promises: every file new, or none touched |
| `PublishTransaction` | `commit_with_rollback` and `rollback_prepared`, one action per file-system call |
| `MCPublishTransaction` | the lists of targets `publish_transaction` builds |
| `FileSync` | the file watcher: snapshot, change queue, three threads |
| `EnrichmentSlot` | enrichment jobs, their slot and the overlay file |
| `MCWiki` | one TLC instance of `PublishTransaction`, `FileSync` and `EnrichmentSlot` |
| `ProjectMutex` | the promise chain per project of `project-mutex.ts` |
| `DesktopIngestQueue` | `ingest-queue.ts`: tasks, `processNext` from await to await, hand-over between projects, restart |
| `MCDesktop` | one TLC instance of `DesktopIngestQueue` and `ProjectMutex` |
| `ChatRun` | the runs of one chat session over the agent bridge |
| `MCChat` | its instances |
| `WorkflowRun` | one workflow run: scheduler, continuations, row, node sessions |
| `AgentBridge` | the manager of the bridge, and the processes it starts |
| `GroupChat` | the agents of one group-chat room: mentions, replies, interrupts, resets |
| `MCStudio` | one TLC instance of `ChatRun`, `WorkflowRun`, `AgentBridge` and `GroupChat` |
| `Subsequences` | what a filter leaves of a sequence, used by the models of queues |
| `IngestGateProofs` | the gate: type correctness, the inductive invariant all its proofs use; the queue never waits for a kick nobody owes |
| `IngestGateSafety` | how a status can change; finality, the single worker, what is reviewed; the refinement of `ReviewLedger`; only what was approved is visible; registry, wiki and drafts agree |
| `PublishTransactionProofs` | no file is lost; the refinement of `AtomicPublication` |
| `WikiProofs` | the enrichment slot and the file watcher |
| `SubsequenceProofs` | what `Subsequences` keeps, for any sequence |
| `DesktopProofs` | the project mutex and the desktop queue |
| `WorkflowProofs` | a workflow run: what completes follows the graph, what ends is closed, no scheduler is stuck |
| `StudioProofs` | the chat session, the bridge manager, the group-chat room, and the composition with the workflow run |

Operators whose comment begins with "Mutant:" are plausible bugs in the operator they
precede.  No behaviour specification uses them; each shows that some property breaks
when the code is changed that way.

### 2.1 IngestGate and the code

A draft is a number, in the order of creation, which is the order `list_drafts` sorts
by.  `status`, `kind`, `sha`, `revision` are the fields of `draft.json`;
`proposal` is `proposal.json` cut down to its revision, its author, the page it writes
and whether it creates or updates it; `registry` is `trusted_sources.json`; `wiki` says
which draft wrote each page last.  `pc`, `job` and `seen` are the threads, with the
revision each read when it marked its draft; `compiling` the claims compilers hold;
`tx` an approval in progress; `owedKicks` counts the calls of `kick_queue` that are due
because an operation has returned and its caller has not kicked yet.

One action is one critical section of `PROJECT_GATE`, or one step made without it.  So
the windows in the code are the places between actions: `process_draft` reads a PDF
before `Extract`, writes `proposal.json` in `Propose` without the mutex, and takes the
mutex again in `Finish`; a claim and its submission are two actions with anything in
between.  `approve_draft` holds the mutex over several writes, each of which may be the
last one before a crash; it is split into `ApproveDraft`, `PublishPage`,
`PublishRegistry`, `PublishDraft` and their failure, and `GateFree` keeps every other
critical section out while `tx` is set.

| Code | Actions |
|---|---|
| `create_source_draft`, `create_generated_page_draft` | `CreateSource`, `CreateGenerated` |
| `kick_queue` | `KickFindsNothing`, `KickStartsThread`, `KickIsLost` |
| `process_draft` for a PDF | `Extract`, `Propose`, `Finish`, `ThreadStops`, `ThreadFails`, `FailureIsLost` |
| `process_draft` for a page | `MarkForEnrichment`, `Enrich`, `Finish`, and the last three |
| `claim_`, `submit_`, `fail_ingest_compilation` | `ClaimCompilation`, `SubmitCompilation`, `FailCompilation`, `DropCompilation` |
| `request_revision`, `reject_draft` | `RequestRevision`, `RejectDraft` |
| `approve_draft`, `publish_transaction` | `ApproveDraft`, `PublishPage`, `PublishRegistry`, `PublishDraft`, `PublishFails`, `PublishFailureIsLost` |
| `resume_queued_drafts` at start, and in `handle_select_current_project` | `Restart`, `SelectProject` |

Two choices need a word.  `IngestGate` lets a failed publication be rolled back
completely; that this may fail too is the subject of `PublishTransaction`.  And the
write of one file is atomic: `write_atomic` removes the target before it renames, a
hazard listed for the storage layer.

Deployments are constants.  `NativeCompile` is `LLM_WIKI_NATIVE_COMPILE=1`, with which
the gate leaves sources to the compilers; `Compilers` is empty without a WebView, as
when `ops/Start-AGNET.ps1:119` starts the service; `Enrichment` is the switch of the
enrichment of generated pages.  The desktop application sets neither, so gate threads
and a compiler work side by side: `NativeCompile = FALSE` with a compiler.
`Disturbances` says which of crash, failing input and output, lost kick and renewed
project selection may happen, at most `MaxDisturbances` times in all.

### 2.2 PublishTransaction and the code

A file is absent, old, new or torn.  `step` and `at` are the next call and the
operation it is for; `Stage`, `BackUp`, `Remove`, `Rename`, `UndoRemove`, `UndoCopy`
are the calls, each with its failure, and `MaxFaults` bounds the failures.  The errors
that the rollback ignores are steps that go on.  The order and the lists of targets are
those of `publish_transaction`: the imported file (for a source), the page, `index.md`,
`log.md`, `overview.md`, the registry, `draft.json`; and the list in which the page is
`index.md` itself, which the code refuses as a repeated target.

### 2.3 FileSync and EnrichmentSlot, and the code

`FileSync` has three threads on one project: the watcher's (`TakeEvents`,
`PeriodicRescan`), the commands' (`StartWatcher`, `StopWatcher`, `RescanProject`,
`RetryTask`, `IgnoreTask`) and one of the API server that publishes (`Publish`).  All go
through `enqueue_paths` (`ReadsSnapshot`, `ReadsFiles`, `UpsertTasks`) and
`process_queue_inner` (`Pick`, `ReadsTask`, `Update`, `UpdateIsLate`, `Report`); an
action is one section of the queue's mutex, or one read of the files, which takes no
mutex.  The contents of a file are numbers, a new one for each write.  `updated_at` is
in milliseconds, so whether a thread sees that its task was touched is a choice
(`Touched`).  `told` is history: what the frontend has been told, or the application
wrote.  `strayed` is history too: the files of which the snapshot says something else
than what the frontend knows, with nobody left to report it.  So is `excused`: the files
whose last change the code loses at one of the places that the comment of
`ChangeIsFollowedUp` names (section 6).  A batch is what a thread has in hand at once:
`files` are to be enqueued, `own` are those the application wrote.  Each read of a file
may fail: in `sync_snapshot_paths` (`SyncReadFails`), in a walk (`WalkFails`), in
`enqueue_paths` (`ReadFails`) and for a task (`ReadOfTaskFails`); the first and the
third drop the whole batch.

`EnrichmentSlot` has jobs over the whole wiki (`start_enrichment`) and over the page of
a draft (`enrich_generated_proposal` with the loop of `run_generated_enrichment` around
it).  An action is what a job does between two of its locks or awaits; `ClaimSlot` is
`claim_job_slot`, `LoadOverlay` the only read of the overlay, `SaveOverlay` each write.
A write that fails, or during which the process dies, leaves a file nobody can read,
which the next job takes for an empty one (`torn`).

### 2.4 DesktopIngestQueue and ProjectMutex, and the code

JavaScript runs to its next await, so an action is the code between two awaits, and
`run[r].at` is the await that invocation `r` is waiting at: `Kick` and `Again` (the
calls of `processNext` that were not awaited), `RegistryAnswers` (line 698),
`CallsIngest`, `GetsMutex` (`withProjectLock`), `WritesFile` (the callback of
`autoIngest`), `IngestSucceeds`, `IngestWasPaused`, `IngestIsLimited`, `IngestFails`,
`IngestIsStale`, then the saves and `Finishing`.  A task object read from a queue file
is a new one: an invocation of before assigns to an object nobody sees (`Held`).  The
operations of the user are one action up to their first await and one after it.
Opening a project is `PauseQueue`, `Flushed`, `RestoreQueue`, `ReadQueueFile`,
`Restored`; `Restart` forgets what is memory.

What a filter leaves of a queue is `Kept`, with the set of the places that remain: the
library's `SelectSeq` is recursive, and nothing can be proved of a recursive operator.

`ProjectMutex` numbers the calls of `withProjectLock`; `locks[p]` is the promise in the
map, `prev` the one a call awaits, `tail` the entry it will drop because the map is over
its limit.

### 2.5 ChatRun, WorkflowRun, AgentBridge and GroupChat, and the code

`ChatRun` is one session: `chat` has the fields `isWorking`, `isAborting`, `runId` and
`activeRunMarker`, `queue` the queued runs.  A worker is an invocation of
`handleBridgeRun` or `resumeBridgeRun`, and `at` its await; `aborts` and `resumes` are
the invocations of `handleAbort` and `reattachBridgeRun`.  Of the bridge, a
Python process, the module has `start_chat`, `status` and the end of `_run_chat`
(`bridge_pool.py`): it has one agent per session, refuses a second chat, answers or not,
and outlives the server.  Its answers (`BridgeAnswersChat`, `StatusRead`) and what the code makes of them
(`ChatStarted`, `Reattached`) are two actions, since the answer may be old by then.

`WorkflowRun` is one row of the run store.  An execution is one call of
`executeCompletionDrivenDagRun`: `runNow`'s, or a rerun's of the same row, so two may
overlap.  `Schedule` is what one event sets off in promise jobs; node continuations wait
for a message, a chat run or an approval (`flight`).  `Join` and `Route` are translated
from `evaluateWorkflowNodeJoin` and `evaluateWorkflowEdgeRoute`.  Graphs are records;
a condition of an edge comes out either way.  `MaxExecutions` is at least one: `runNow`'s
own execution is the first, and without it `RunNow` would leave a row that runs and nobody
who runs it.

`AgentBridge` has the manager's fields in one record, and the processes it spawned
beside one that somebody else may have started.  `start` is `Start`, then
`AttachExistingBridge` or `NoReusableBridge`, `Spawn`, `MarkReady`, `Exit` or
`StartupTimesOut`; the probe of a process goes on after its start was given up, and is
answered by whoever listens.  Recovery is `PingFails`, `Recover`, `GraceExpires`,
`RecoveryGivesUp`, `Replace`; stop is `StopBridge` with `ShutdownSettles` or
`StopTimesOut`.  `past` is history: processes that were given up (`lost`), a stop that
is final (`sealed`), a bridge that is owed supervision (`served`).  The server itself
calls `start` once and `ensureReady` only with `recover: false` (`run-chat/index.ts:70`);
second starts and recoveries belong to the interface of the class, and to its tests.

`GroupChat` is one room.  A reply is an invocation of `replyToMention`, and `at` its
await: `ContextBuilt`, `BridgeAccepts` and `Started`, `PartSent`, `StreamEnds`, and for
each message `ServerTakes` (`handleMessage`) with `Acknowledged` or `Rejected`;
`StopRun` and `DestroyRun` are `stopStaleStartedRun`.  Its end is the `finally` of
`_processAgentMention` with `_drainQueue` (`FinishAmong`), which answers only the last
waiting mention, so the queue of an agent is that mention's depth.  A request is an
interrupt, a clear or a switch: `Receive`, `Validated` (the row it compares with was read
before), and per agent `BridgeStops` and `InterruptReturns`, between which the run is
stopped and the server does not know; the last one is `RequestEnds`.  The session of an
agent is the room's seed, counted; `post` is what a reply posts, `card` the card of its
changes.

### 2.6 Composition

The modules that `MCWiki`, `MCDesktop` and `MCStudio` put side by side share no
variable; `subject` chooses the one a behaviour explores, and the others stay in a
fixed state.  What connects them in the program is modelled on the side that sees it:
a publication is a step of `FileSync` with its mark, its own snapshot update and its
rescan; an enrichment is a step of `IngestGate` that succeeds or fails; the mutex is
`line` in `DesktopIngestQueue`; a chat run of a workflow node ends somehow.

## 3. Model checking

| Run | Question | Answer |
|---|---|---|
| `gate_service` | the service as it is deployed, with a crash or one failing read or write anywhere: are decisions final, is there one worker, is a kick always owed, is what is reviewed stable, do registry, wiki and drafts agree, is anything unapproved visible, does the gate implement the ledger? | it is correct in all of these |
| `gate_native` | native compilation, two compilers that can claim the same draft, a crash: can a late result reach a published draft, or one under review that was sent back meanwhile? | no |
| `gate_any_deployment` | everything at once, with a compiler and threads on the same drafts and a project selected again: is a rejection still final? | yes |
| `gate_live` | does the queue move whenever no imported source waits for a decision, and if every review is decided, is every draft? | yes |
| `publication` | `MCWiki`: up to three calls of a publication fail or the process dies, is it atomic, and is every old file on disk or in its backup until the backups are discarded?  Is a change of a file followed up until it is reported, with commands, publications, starts, unreadable files and a crash around it?  Does an enrichment job ever write over another's pages? | atomic with one failure, the rest always; yes, but for the losses section 6 lists; no |
| `desktop_queue` | pause, cancel, retry, usage limit, change of project and restart at every await: is the flag, or a task in processing, ever left to nobody, is a task lost, does every task settle; and does the mutex give each caller its turn? | correct, with the exceptions of section 6 |
| `studio_runs` | a chat session: is no message lost or run twice, is a working session always served, does an abort end, is the marker that of a live run?  A workflow run: is a completed run what its graph says, is an ended one closed, does every one end?  The bridge: is there one, is it supervised, does it stay stopped, does every call return?  A group-chat room: does what was cleared come back, is a mention or the room left behind a lock, a pause or a fence, is every change shown? | correct, with the exceptions of section 6 |
| `gate_select`, `gate_webview_and_gate`, `gate_crash_publishing`, `desktop_serial`, `chat_one_run` | does what the repository says hold of the code? | no (section 6) |

`gate_native` asks only what compilers can break.  `RejectedIsFinal`, which
`gate_any_deployment` asks, and `NoStalledQueue` are proved for every deployment, and
that what is reviewed is current for every sound one.

**Bounds.**  `gate_service` has three drafts, so that one draft waits behind another
that waits, and a content can return after two rejections; the other runs of the gate
have two, which is enough for what happens between a pair (who is started, who blocks,
who has the same content or page).  Two contents make drafts with equal and with
different contents; one topic page is shared by all generated drafts.  Two revisions
tell a current result from a stale one; `gate_any_deployment` asks only about
rejections and has one.  Two threads are enough for the thread of a rejected draft next
to a new one; a kick that finds no free thread slot waits.  `MaxKicks` bounds only
callers of the API: threads, publications and resumes always may kick, so a bound of
one still lets kicks pile up.  One disturbance per behaviour puts each crash and each
failure at every place; two at once were not checked for the gate.  Three
faults in a publication cover a failing call and two failing calls in its rollback.

In `publication`, the watcher watches two files, and `watched` says which of them
anybody writes in a behaviour.  With one, threads meet on a task: four budgets combine
up to three writes of the user with a publication, starts, a command, an unreadable file
and a crash.  With two, they are in one batch: of the user's and the application's
changes with a file that cannot be read, of two of the user's with a command or with an
unreadable file and a crash, and across two starts.  More than two files would add to a
batch, not to what can happen to it.  Two generations make one stale watcher.
`MaxRetry` is one, so a failed task reaches it.  Three enrichment jobs on two pages let one write,
one wait and one come after; `MaxWaits` is one.

`desktop_queue` has two tasks left alone, or one task with two operations of the user
(pause and resume, cancel and retry, change of project and restart, in any order), two
projects, and two invocations at their awaits at once, which the lookup in
`processNext` needs to be overtaken.  The mutex has three calls on two projects and a
map limited to one entry, so the limit is passed.

`studio_runs` has three messages left alone, or two with aborts, reloaded pages and a
death of the server or the bridge, never more than two of these; five graphs of two or
three nodes with each route, both joins, conditions and approvals, with two executions
and up to two stops, deletions or restarts; and a bridge that may spawn two processes,
with two failures, a stop or a recovery beside one failure or more, a second start beside
a recovery, and two of them beside a stop.  The room of a group chat has two agents, which is enough for a
mention to be handed on and for an interrupt of which one half fails; three replies, two
mentions of users, chains of depth two, a reset or an interrupt beside them or two resets,
and up to two failing calls.  Two resets, or failing ones, meet one mention of a user.

**Symmetry** of contents, threads and compilers of the gate, and of the watched files, is
used in the passing safety runs and in none with fairness.

**Deadlock** is not checked: a gate in which all drafts are decided, a publication
that has ended, an empty queue or a stopped bridge has nothing left to do.  That
nothing waits for ever is asked by the liveness properties.

**Fairness.**  `Scheduling` says that a kick that is due is made, that a thread that
can take a step takes one, that an approval with the mutex goes on, and that a dead
process is started again: the first three because threads are scheduled and each
blocks only on the mutex, which every holder releases; the last because the service is
started again by its supervisor.  No fairness is assumed of uploads, decisions,
failures or compilers.  `QueueDrains` says itself what it needs of people: its
hypothesis `ReviewerDecides` is that whatever waits for a decision gets one.
`gate_live` has no disturbances, because with a crash or a lost write at the wrong
moment the properties are false (section 6).

In `desktop_queue` promises settle, an ingest ends because its LLM calls have timeouts,
and a project that is being opened is opened.  In `studio_runs` the workers and aborts
of a chat session go on, since every request to the bridge has a timeout, and an agent
ends its run; promise jobs of a workflow run, and its chat runs end; timers of the
bridge manager fire and its pings are answered or time out.  Nothing is assumed of a
user, of an approval, of a process of the bridge or of a failure: `EveryRunSettles`
excepts a run that waits for an approval, `EveryTaskSettles` a paused queue.

**The abstract publication.**  `AtomicPublication` has three outcomes: published,
refused, and broken.  `PublishTransaction` is mapped to broken only when the process
died or a second call failed; so with at most one failure the refinement says all or
nothing, and beyond that it still says that a success is complete and that no other
file is touched.

## 4. Proofs

All theorems hold for every value of the constants: drafts, contents, pages, threads and
compilers; lists of targets; files, jobs, tasks, invocations, calls, processes; every bound
on disturbances, failures and operations.  They assume only the named `ASSUME`s of the
modules they are about, which say what type a constant has.  Each part has an inductive
invariant, checked by TLC on the instance of its run before it was proved, and one lemma
per action or per kind of step.  Where a property excepts what section 6 lists, the theorem
excepts it too, and nothing else.

### 4.1 The gate

**The inductive invariant** `Inv` (in `IngestGateProofs`) is `TypeOK` with five parts
that it needs: drafts exist up to the counter, and have a page to write as long as they
can be approved or put back (`DraftInv`); a thread has a draft of the kind its step is
for (`ThreadInv`); a claim is of a source (`ClaimInv`); the draft of the approval in
progress is marked as being published (`TxInv`), which holds only because everyone
else waits for the mutex; a dead process has no threads (`DeadInv`).  There is one
lemma per action.  That the oldest of a non-empty set of drafts exists is derived from
the well-foundedness of the strict subsets of a finite set.

**Status changes.**  `OtherMoves` lists how a step of anybody but a thread can change a
status, `ThreadMoves` how a thread can: the thread alone writes a status without
testing more than that the draft is not rejected.  From these two follow

* `RejectedFinal`, in every deployment and with every disturbance;
* `OneWorker`, `TrustedFinal`, `ReviewStable`, `ReviewedCurrent`, `LedgerImplemented`
  and `OnlyApprovedIsVisible`, under `SoundDeployment`: threads and compilers do not
  share drafts, and a project is not selected again while threads live.  The runs
  `gate_webview_and_gate` and `gate_select` show what happens without either half.

`WorkInv` strengthens `SingleWorker`: the draft of a thread is in the status its last
step wrote, or rejected, so it blocks the queue.  `CurrentInv` strengthens
`ReviewedProposalIsCurrent` by what threads have read and written and by drafts whose
approval may still fail.  `VisibleInv` strengthens `VisibleIsApproved` by what a
rollback puts back: nothing it restores may name the draft it takes out of
publication.  `KickInv` strengthens `NoStalledQueue`: an approval of a generated page
blocks the queue only while it lasts and nobody kicks when it fails, so the kick must
be owed before.  `QueueNeverStalls` holds in every deployment unless a kick is lost.

**The refinement** maps each status to a phase.  `StepShape` shows that a step creates
a draft, moves one, moves none or resumes; `PhasesMove` that a move is one of the
ledger's or none.

**Agreement.**  `PublicationIsConsistent` speaks only of states in which the mutex is
free; in between, page, registry and draft disagree.  `StoryInv` says what holds at each
write: a page and an entry name drafts that are published or being published, and say
what these say (`ShownInv`); a published draft has its page and its entry (`TrustedInv`);
no two live drafts have one content (`UniqueInv`), so no publication overwrites the entry
of another; and what the approval in progress would put back agrees without its draft
(`RestoreInv`), so that a failure leads back to agreement, and a crash leaves only what it
had begun.

### 4.2 The publication

`NothingLost` rests on `BackupInv` (nothing is touched before every target is prepared, and
the rollback starts at the last that is) and `TouchedInv` (a file that changed is a target
with a backup).  `PublicationIsAtomic` is the refinement, step by step: `CommitInv` says that
the operations before the one in hand are committed, `UndoInv` that after a single failure
what the rollback has passed is as before and the target it copies back is removed, which
is what makes the copy succeed.  With a second failure the abstract state is broken and
`UndoInv` promises nothing.

### 4.3 Enrichment and the file watcher

`EnrichmentsStay`: a job holds the slot from claim to end and nobody else does
(`HolderInv`); what was saved is in the file and in every overlay that is in memory
(`OverlayInv`).  The second half needs the first: only one overlay is in memory.

`ChangesAreFollowedUp`: a change that the frontend was not told of is in an event, in a
task that is open, or in the hands of a thread that will not drop it (`FollowInv`).
Inductive it becomes with the stages of a thread and what it holds at each (`ShapeInv`),
a task that is processed having a thread that will finish it (`OwnerInv`), a path without
a task having nothing left of an earlier one (`TaskInv`), what the application has just
written being known (`MarkInv`), and what a thread synchronises as the application's
being marked so long (`OwnInv`).  A thread compares a file with the snapshot, and the
property is about what the frontend knows: `AgreeInv` says that the two agree, but for
files that are marked, that a thread is about to report, or that have strayed.  A batch
that is dropped leaves nothing behind but what is excused (`BatchEndsInv`,
`SyncReadFailsInv`).

### 4.4 The desktop queue and its mutex

`OneBodyAtATime`: as long as no entry of a project was dropped, the map has its last call
(`MapInv`), each call waits for the last one before it, and one that has begun has only
ended calls before it (`ChainInv`); a call that drops an entry is known by its `tail`
(`DropInv`).

`WorkHasAnOwner` and `CrashLosesNoTask` share one invariant: ids are given once and no
queue has one twice (`IdInv`); the open project's file is the queue, but for one still
to be loaded (`PlaceInv`, `SavedInv`); who waits at the mutex is in its line and who
ingests is first (`LineInv`); the flag has an invocation that will reset it (`FlagInv`)
and a task in processing one that is at work on it (`OwnInv`).  `FilesKeepTheirTasks` is an
action property: every step leaves the files, or saves a queue with all ids of the old
one, or ends a task.  The facts about filters come from `SubsequenceProofs`: `Kept` keeps
the order, has exactly the elements at its places, and is injective where the sequence is.

### 4.5 The chat session

`QueueStaysExact` needs no more than types (`Exact`): each step that shifts, puts back,
cancels or clears writes the stage of the message with it.  For the other two, a marker is
that of a worker on its way to reset it, and the session works (`MarkerInv`); what works
has a run, a marker, an abort or a worker that will free it (`WorkServed`); and what waits
beside a session that does not work was left by a failed worker (`QueueServed`).  A
reattachment is never at a stage before the stream (`StageInv`).

### 4.6 The bridge manager

Processes are spawned in their order (`ShapeInv`), and the manager's fields fit its child
(`FieldInv`).  `BridgeIsAlone` rests on `HereInv`: a process that lives and has not been
given up is the child, and either a recovery waits for its exit or it is ready or boots.
`StopIsFinal` rests on `SealInv`: a recovery that a final stop meets is outrun and will
return without a start.  `BridgeStaysSupervised` needs that a bridge that serves is neither
being stopped nor somebody else's (`SuperviseInv`).

This proof changed the model.  `OneLiveBridge` used to excuse fewer processes and held in
the run, because no budget had a second start beside a recovery; its invariant would not
be inductive, and TLC then found why with larger budgets.  The two ways in which the code
leaves two processes alive are now stated (section 6), and the run has the budgets that
reach them.

### 4.7 The group-chat room

`ClearedIsGone`, `RoomIsOpen` and `ChangesShown` share one invariant.  A reply is of a
session that was or is the room's; a card that is pending is of a run whose session nobody
has marked as interrupted, unless the room has left that session, so a reply that finds
itself stale with a pending card may drop it (`ReplyInv`).  A request is for a session that
was or is the room's, and no longer is once a clear is done; a reset that interrupts has
called every agent, so none keeps a waiting mention when it is done (`RequestInv`).  A lock
is that of a reply (`LockInv`), what is stored is of a reply (`StoredInv`), and no session
to come is fenced (`FenceInv`), so a room that goes to its next session is open.  The seed
and the marks of a session count requests that are done and interrupts that were confirmed
(`CountInv`), which bounds them by the number of requests.

The steps of a reply are of three kinds: it goes on, it ends and leaves the lock to the
mention that waits, or it mentions another agent.  `LocksAfter` and `ReplyStep` deal with
the three for all of them; each action is then shown to be one.  `RequestsAfter` and
`ReturnedFacts` do the same for the requests.

### 4.8 The workflow run

`RunFollowsItsGraph`, `EndedIsClosed` and `WorkflowTypeCorrect` share the invariant
`WorkflowInv`, which goes execution by execution.  What waits or runs has begun, and an
edge out of an active node is decided by the end of that node only (`ExecInv`).  The row
runs while the last execution does (`LaunchInv`), and a run that was stopped or deleted has
no session that runs (`StopInv`).  As long as no rerun overtook a scheduler, only the last
execution goes on, and a session runs only for a continuation that is waited for, or whose
error was dropped (`SoloInv`): so when the last scheduler has ended, nothing is open.

`FollowInv` is what a join's early verdict needs.  A join of kind "any" is ready on the
first edge that is taken, and a node begins while other edges are pending; the property
speaks of the decisions as they finally are.  `JoinStable` shows that a verdict of either
kind of join, once it is ready or skipped, survives every further decision, and `FollowInv`
says of each node that it was started, or skipped, on such a verdict.

**Recursion along edges.**  `SkippedNow` skips nodes whose sources are skipped.  `RuledSet`
shows that a rule which decides of each number from the decisions about smaller ones has a
set that obeys it; the argument takes the least number up to which no set does, and so
does without an induction theorem.  From it, `SkippedFacts`: the function in `SkippedNow`
exists in every graph, and the nodes it skips are exactly those its rule names.

**The error nobody meets.**  The scheduler throws when it has active nodes left, nothing in
flight and no node to start (`workflow-manager.ts:1766`, "workflow graph contains a cycle
or blocked dependency").  `SchedulerIsNeverBlocked` says that in a graph without loops it
never does, in a first execution or in a rerun, which takes over the decisions of the edges
at the boundary of what it activates.  `MovingInv` is what this takes beside `WorkflowInv`: while an
execution loops, what has begun is in flight until it is done, and a pending edge leaves
an active node that is not done, unless recording its end failed.  With nothing in
flight, the least active node that is not done has then not begun and has no pending edge
into it, so it is started or was skipped.

This proof, too, corrected the model: without an assumption about `MaxExecutions`,
`LaunchInv` failed for zero (section 2.5).

### 4.9 Composition

`WikiIsItsParts`, `DesktopIsItsParts` and `StudioIsItsParts` show that a behaviour of an
instance in which parts stand side by side is one of each part, so that what is proved of
a part holds in the runs' composed specifications; `WikiTypesCorrect` and
`StudioTypesCorrect` use them.

**Only model-checked**: the liveness properties (`QueueMoves` and
`QueueDrains` of the gate, and those of the mutex, the desktop queue and the studio), because
TLAPS does not reason about fairness and ENABLED.  Every safety property of a passing run is
stated by a theorem.  That `ReachableFrom` and `Activated` compute the nodes a start or a
rerun reaches is not proved; no theorem needs it, since all hold whatever set is active.

## 5. Not modelled

`PROJECT.json` gives a reason for each part.  In the parts that are modelled:

* the gate: `set_ingest_embedding_status`, which writes one field nothing else reads,
  the list of reading candidates, the text of proposals, and reviewers who decide on a
  proposal they read earlier: `approve_draft` names no revision, so there is nothing in
  the code that tells the two apart;
* storage: `write_atomic` removes its target before it renames (`ingest_gate.rs:318`),
  and a crash between the two loses the file.  The gate's models take the write of one
  file as atomic.  Writers of `index.md`, `log.md` and `overview.md` outside the gate do
  not take its mutex (`ingest_gate.rs:1534`), and are not modelled;
* the watcher: kinds of change, directories, watch rules, a full event channel, and the
  use the frontend makes of a report;
* enrichment: a job that panics, new versions of a page, the relations;
* the desktop queue: abort signals, the drain sweep, progress counters,
  `clearCompletedTasks`, which only tests call, and the order of unawaited writes of one
  queue file;
* chat: coding-agent and Ekko runs, `runAndWait`, slash commands, the payload of events;
* workflows: graphs with loops, compilation and validation, schedules, published
  statuses;
* group chat: membership, deleting a room, reconnecting sockets, approvals, compressing
  the context, the order of messages, what a page shows, a chat request whose answer is
  lost; liveness, since an agent may talk for ever;
* the bridge: readiness payloads, the choice of command and endpoint, which processes it
  kills on Windows.

Whole parts: the duplicate-merge queue has the shape of the ingest queue;
coding-agent runs have that of the chat queue and the bridge manager; the login limiter
is a synchronous function of counters and the clock; WeChat sync, timers and the clip
server are single calls without a promise about concurrency.  Ranking, prompts,
streaming, user interface, packaging and scripts have no protocol.

## 6. Where the code does not do what the repository says

| Run | Said | Done |
|---|---|---|
| `gate_select` | `ingest_gate.rs:672`: no worker can be alive at a resume | a project selection resumes in a living process; the late thread takes a published draft back to review |
| `gate_webview_and_gate` | `ingest_gate.rs:809`: a late result cannot replace the proposal under review | a gate thread writes its proposal without the mutex and without the comparison |
| `gate_crash_publishing` | `README.md:82`: published atomically, failures roll back | after a crash in a publication the page stays visible and the draft stays in publishing, which nothing leaves |
| `desktop_serial` | `project-mutex.ts:14`: "The queue itself is already serial" | two calls of `processNext` pass the test of the flag across the registry lookup (`ingest-queue.ts:698`) and take the same task; the mutex keeps the ingests apart, so it is ingested twice |
| `chat_one_run` | `docs/cli-chat-sessions.md:576`: one active run per session | a failed run frees the session, awaits, and then starts the next message beside one sent meanwhile (`handle-bridge-run.ts:678`) |

Met while modelling, without a run of their own:

* `plan.md:17` lets one draft await publication at a time, and gives overwriting from
  a stale wiki as the reason.  `kick_queue` lets generated pages wait side by side
  (`ingest_gate.rs:1162`), and of two proposed as the creation of one page the second
  overwrites the first (`ingest_gate.rs:585`): `CreateGenerated` records the operation
  when the draft is made, `PublishPage` does not look at it.
* `ingest_gate.rs:666` resumes staged drafts after a restart; a PDF draft in parsing is
  not put back (`ingest_gate.rs:678`) and blocks the queue until it is rejected.
  `Interrupted` shows the test.  The same draft is left without a thread when the write
  that records a failure fails and is ignored (1329, `FailureIsLost`).  `NoStalledQueue`
  takes either for a draft that rightly blocks, so no property notices.
* `README.md:82` rolls a failed publication back.  `rollback_prepared` removes and
  copies back every prepared target, also one that was not written yet; if that copy
  fails too, the file is lost with its backup (`ingest_gate.rs:1670`).  This is the
  broken outcome of `AtomicPublication`.

**File watcher.**  A change is lost, or found only by the next walk (every ten seconds on
Linux, otherwise at the next start or rescan): when it is made between the walk of a
starting watcher and its first event (`file_sync.rs:202-306`); when one file of its
batch cannot be read, since `enqueue_paths` then drops the batch (742); when its batch
of events has a file that the application wrote and that cannot be read, since
`sync_snapshot_paths` gives up (605-608) and `handle_changed_paths` passes the error on
(480) before it enqueues the files of the user; when the process dies between the
snapshot update and the report (905, 880); and when the file is changed back to what the
snapshot says of it, though the frontend was told otherwise, because a late read had set
the snapshot back (889-905, 605-618), a failed read was reported without it (914-918), or
the process died first: `enqueue_paths` then finds no change (743).  The comment at
737-741 says of the reads without the lock that a redundant task is "harmless and
self-corrects by writing the current on-disk meta back to snapshot".  What is written
back was read before the mutex was taken, so it need not be current, and a snapshot that
is behind hides the next change back to it.  `ChangeIsFollowedUp` excepts each of these
(`excused`), so the run and the theorem do not contradict the comment; they say that
nothing else is lost.  A stale watcher leaves a pending task until the next event (485-492).  When the event channel is full,
the request for a rescan does not get into it either (276).

**Enrichment.**  `start_enrichment` clears the flag of a running job before it is refused
(`llm_enrich.rs:380`), so a job whose cancellation was accepted runs on; a cancel
between claim and clear is erased (541).  `save_overlay` is not atomic and an unreadable
overlay counts as empty (229-248).

**Desktop queue.**  A file added while `restoreQueue` reads is lost (`ingest-queue.ts:569`),
and after a pause the clean-up of an invocation that outlived its project may write the
old project's file (781): `TasksSurvive` excepts both.  A pause during the registry
lookup does not stop the start (698).  A map over its limit drops the entry of callers
that still wait (`project-mutex.ts:57`): `BodiesTakeTurns` excepts it.

**Chat.**  A run that is being prepared is reported as aborted and goes on
(`abort.ts:36-51`); a run refused for its memory mode (`handle-bridge-run.ts:353`), or
whose preparation throws (508), leaves the session working; a resumed poll that gives up
does not dequeue (862); a late answer to a chat leaves its run id (580).
`SessionIsServed` and `EveryMessageIsTaken` except these.

**Workflows.**  While the scheduler drains, a node whose message cannot be built has its
error dropped and its session left running (`workflow-manager.ts:1928`);
`EndedRunIsClosed` excepts it.  A rerun accepted while the scheduler of the stopped run
drains gets two schedulers on one row (2153): `overtaken` excepts what follows.  A stop
while a message is built still starts the agent (1805-1813).  A run that is deleted may
be rerun between its stop and its deletion (1039).

**Bridge.**  `apps/hermes-studio/README.md:330` promises a restart after an unexpected
exit.  A process whose startup timed out is not killed; a later start attaches to it
(`manager.ts:997`), and its exit is then ignored as stale (913).  A probe is answered by
whoever listens (970), so a process that could not be spawned may be taken for ready.  A
stop does not stop a start in progress, and if that start was the timer's, its failure
schedules another one (1051).  `agent-bridge-manager.test.ts:727` lets a recovery wait for
the old child to exit before it starts another.  A `start` that comes meanwhile does not
wait: a child that was signalled counts as not running (510), so it spawns a second one
beside it.  And when the shutdown of an attached bridge settles after a `start`, `stop`
forgets that the new child is ready (1077), so the next `start` spawns another.
`BridgeIsSupervised`, `OneLiveBridge` and `StopSticks` state these exceptions.

**Group chat.**  A switch that waited for its folder while another switch to it went
through fences the sessions of now and does not rotate them (`group-chat.ts:614`,
`index.ts:386`): the agents of the room are refused until the next reset
(`ResetLetsGo` excepts it).  A reset that fails leaves the mentions that came during its
pause waiting for the next reply of their agent, which may come later than newer ones
(`agent-clients.ts:1347`; `WaitingMentionIsServed` excepts it).  A clear frees the locks of
replies that still run (1375), and their ends then free the lock of whoever has it (1468),
so an agent may answer twice at a time although 1429 says that it queues.
`docs/chat-chain-changes/2026-07-05-group-chat-workspace-diff.md:24` says that interrupts
fence the session: `interruptAgent` (1323) does not, so an answer that is on its way is
still stored; and that no mention starts while a room is reset (28): of two resets the
first to end unpauses the room (1345).  A reply refused at the fence before the interrupt
has returned takes itself for current and does not stop its run (871-876).

**Login limiter** (read, not modelled).  The asynchronous save of `login-limiter.ts` may
overwrite a later synchronous one.

## 7. Plan

The modules are complete as far as section 5 goes, and every safety property that a run
checks is proved.  What could come next: graphs with loops, whose scheduler resets the
evidence of a node between its iterations; deleting a room and reconnecting sockets in
`GroupChat`; the storage layer under the gate, with `write_atomic` as it is.
