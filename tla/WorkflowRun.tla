---------------------------- MODULE WorkflowRun ----------------------------
(*****************************************************************************)
(* One run of a workflow in Hermes Studio's server: WorkflowManager          *)
(* (services/workflow-manager.ts) over the row of the run, its node sessions *)
(* and its edge decisions (db/hermes/workflow-run-store.ts).  An execution   *)
(* is a call of executeCompletionDrivenDagRun: the first one is runNow's,    *)
(* the others are reruns of the same row.  Its scheduler and the node        *)
(* continuations it started share variables between their awaits; what one   *)
(* event sets off in promise jobs (Schedule) ends before the next event.     *)
(*                                                                           *)
(* The agents are external: a node's chat run ends somehow.  Left out: loops *)
(* (executeRecursiveCompiledWorkflowRun), compilation and validation of the  *)
(* graph, prompts and outputs, the statuses published to pages.              *)
(*****************************************************************************)
EXTENDS Naturals, FiniteSets

CONSTANTS Instances,      \* the runs explored: a compiled graph, and how many
                          \* executions, and stops, deletions and restarts
          MaxExecutions   \* bound: runNow, the first one, and the reruns of its row

Routes == {"success", "failure", "always"}
Joins == {"all", "any"}

\* Edges go from a lower to a higher node: a graph without loops is acyclic.
IsGraph(g) ==
    /\ g.size \in Nat
    /\ g.edges \subseteq {p \in (1..g.size) \X (1..g.size): p[1] < p[2]}
    /\ g.route \in [g.edges -> Routes]
    /\ g.conditional \subseteq g.edges
    /\ g.join \in [1..g.size -> Joins]
    /\ g.approval \subseteq 1..g.size
    /\ g.start \subseteq 1..g.size

ASSUME WorkflowAssumption ==
    /\ MaxExecutions \in Nat \ {0}
    /\ \A i \in Instances: /\ IsGraph(i.graph)
                           /\ i.executions \in 0..MaxExecutions
                           /\ i.events \in Nat

VARIABLES
    instance,    \* the graph of the run, frozen in its row, and its bounds
    row,         \* the status of the run's row
    canceledIds, \* the run is in canceledRunIds
    sessions,    \* the node sessions: execution and node to status
    execs,       \* the variables of the scheduler of each execution
    flight,      \* where the continuation of a node is, or its result
    deleting,    \* a deleteRun that has stopped the run
    overtaken,   \* history: a rerun was accepted while a scheduler still ran
    events

workflowVars == <<instance, row, canceledIds, sessions, execs, flight, deleting,
                  overtaken, events>>

graph == instance.graph
Nodes == 1..graph.size
Executions == 1..MaxExecutions
RowStatuses == {"none", "running", "completed", "failed", "canceled", "deleted"}
SessionStatuses == {"none", "running", "completed", "failed", "canceled", "approval_rejected"}
Decisions == {"absent", "pending", "taken", "not_taken"}

\* A continuation awaits its message, the chat run or an approval.
Waits == {"building", "asking", "approving"}
\* The results of a settled one; those of Fatal end the run.
Fatal == {"deadline", "canceled", "rejected"}
Results == Fatal \union {"ok", "handled", "threw"}

\* active, decided and failure: activeIds, edgeDecisions and firstNodeFailure;
\* begun and done: runningOrDone and completed.
NoExecution == [stage |-> "none", active |-> {}, decided |-> [e \in graph.edges |-> "absent"],
                begun |-> {}, done |-> {}, failure |-> FALSE, deadline |-> "none"]

WorkflowInit ==
    /\ instance \in Instances
    /\ row = "none"
    /\ canceledIds = FALSE
    /\ sessions = [x \in Executions |-> [n \in Nodes |-> "none"]]
    /\ execs = [x \in Executions |-> NoExecution]
    /\ flight = [x \in Executions |-> [n \in Nodes |-> "none"]]
    /\ deleting = FALSE
    /\ overtaken = FALSE
    /\ events = 0

Into(n) == {e \in graph.edges: e[2] = n}
OutOf(n) == {e \in graph.edges: e[1] = n}

ReachableFrom(S) ==
    LET reached[n \in Nodes] == n \in S \/ \E e \in Into(n): reached[e[1]]
    IN  {n \in Nodes: reached[n]}

(* evaluateWorkflowNodeJoin, for the decisions d of the edges into a node.   *)
\* Mutant: an 'any' join gives up at the first edge that is not taken.
JoinGivesUp(join, d) ==
    IF d = {} THEN "ready"
    ELSE IF join = "any"
      THEN IF "taken" \in d THEN "ready" ELSE IF "not_taken" \in d THEN "skipped" ELSE "pending"
    ELSE IF "not_taken" \in d THEN "skipped" ELSE IF "pending" \in d THEN "pending" ELSE "ready"

Join(join, d) ==
    IF d = {} THEN "ready"
    ELSE IF join = "any"
      THEN IF "taken" \in d THEN "ready" ELSE IF "pending" \in d THEN "pending" ELSE "skipped"
    ELSE IF "not_taken" \in d THEN "skipped" ELSE IF "pending" \in d THEN "pending" ELSE "ready"

Joined(decided, n) ==
    Join(graph.join[n], {decided[e]: e \in Into(n)} \ {"absent"})

(* evaluateWorkflowEdgeRoute: a condition reads the node's output or error,  *)
(* and may match or not.                                                     *)
Route(e, outcome) ==
    IF graph.route[e] \notin {"always", outcome} THEN {"not_taken"}
    ELSE IF e \in graph.conditional THEN {"taken", "not_taken"}
    ELSE {"taken"}

\* The decisions of an execution once node n has ended with this outcome.
Decided(x, n, outcome) ==
    {d \in [graph.edges -> Decisions]:
        \A e \in graph.edges:
            IF e[1] = n /\ execs[x].decided[e] # "absent"
              THEN d[e] \in Route(e, outcome)
              ELSE d[e] = execs[x].decided[e]}

\* Evidence may be appended to an active row only; without edges there is none.
Recordable(x, n) ==
    row = "running" \/ \A e \in OutOf(n): execs[x].decided[e] = "absent"

IsCanceled == canceledIds \/ row = "canceled"
InFlight(x) == {n \in Nodes: flight[x][n] \in Waits \union Results}
Settled(x) == {n \in Nodes: flight[x][n] \in Results}
Executing(x) == execs[x].stage \in {"looping", "racing", "draining"}

\* updateWorkflowRun and updateWorkflowRunNodeSession keep a terminal status.
SetRow(status) == row' = IF row = "running" THEN status ELSE row
Close(status, x, S) ==
    [sessions EXCEPT ![x] = [n \in Nodes |->
        IF n \in S /\ sessions[x][n] = "running" THEN status ELSE sessions[x][n]]]
-----------------------------------------------------------------------------
(* The end of an execution, with its variables as they then are: failRun,    *)
(* the normal end, and the catch, which first closes the sessions of the     *)
(* nodes that are not completed.                                             *)
Over(x, ex) == execs' = [execs EXCEPT ![x] = [ex EXCEPT !.stage = "done"]]
Ending == IF IsCanceled THEN "canceled" ELSE "failed"

FailRun(x, ex) == SetRow(Ending) /\ Over(x, ex) /\ UNCHANGED sessions

Complete(x, ex) == SetRow("completed") /\ Over(x, ex) /\ UNCHANGED sessions

\* Mutant: the sessions of the nodes still in flight are left running.
CatchLeavesSessions(x, ex) == SetRow(Ending) /\ Over(x, ex) /\ UNCHANGED sessions

\* Mutant: the error is reported to the caller only.
CatchLeavesRow(x, ex) ==
    /\ sessions' = Close(Ending, x, Nodes \ ex.done)
    /\ Over(x, ex)
    /\ UNCHANGED row

CatchError(x, ex) ==
    /\ sessions' = Close(Ending, x, Nodes \ ex.done)
    /\ SetRow(Ending)
    /\ Over(x, ex)

(* The scheduler from the top of its loop to Promise.race.  Nodes whose join *)
(* can no longer be ready are skipped, and so are those behind them.         *)
SkippedNow(ex) ==
    LET skipped[n \in Nodes] ==
            /\ n \in ex.active \ ex.begun
            /\ "skipped" = Join(graph.join[n],
                   {IF skipped[e[1]] THEN "not_taken" ELSE ex.decided[e]:
                       e \in {i \in Into(n): ex.decided[i] # "absent"}})
    IN  {n \in Nodes: skipped[n]}

Skip(ex) ==
    LET skipped == SkippedNow(ex)
    IN  [ex EXCEPT !.begun = @ \union skipped,
                   !.done = @ \union skipped,
                   !.decided = [e \in graph.edges |->
                       IF e[1] \in skipped /\ @[e] # "absent" THEN "not_taken" ELSE @[e]]]

\* Past the deadline a node only reports it; a session of a terminal run is
\* refused by the store.
StartNodes(x, ex, ready) ==
    LET started == IF ex.deadline = "passed" THEN "deadline"
                   ELSE IF row # "running" THEN "threw"
                   ELSE "building"
    IN  /\ execs' = [execs EXCEPT ![x] =
                        [ex EXCEPT !.stage = "racing",
                                   !.begun = IF started = "deadline" THEN @ ELSE @ \union ready]]
        /\ flight' = [flight EXCEPT ![x] = [n \in Nodes |->
                          IF n \in ready THEN started ELSE flight[x][n]]]
        /\ sessions' = [sessions EXCEPT ![x] = [n \in Nodes |->
                          IF n \in ready /\ started = "building" THEN "running"
                          ELSE sessions[x][n]]]
        /\ UNCHANGED row

\* Evidence that a terminal run refuses, or a blocked graph, is an error.
Iterate(x) ==
    LET ex == Skip(execs[x])
        ready == {n \in ex.active \ ex.begun: Joined(ex.decided, n) = "ready"}
        refused == row # "running" /\ ex.decided # execs[x].decided
        blocked == ready = {} /\ InFlight(x) = {}
    IN  IF refused \/ (blocked /\ ex.done # ex.active)
          THEN CatchError(x, ex) /\ UNCHANGED flight
        ELSE IF ex.done = ex.active
          THEN (IF ex.failure THEN FailRun(x, ex) ELSE Complete(x, ex)) /\ UNCHANGED flight
        ELSE StartNodes(x, ex, ready)

\* Promise.race has a settled continuation.
Race(x, n) ==
    /\ execs[x].stage = "racing"
    /\ n \in Settled(x)
    /\ flight' = [flight EXCEPT ![x][n] = "gone"]
    /\ IF flight[x][n] = "threw"
         THEN CatchError(x, execs[x])
         ELSE /\ execs' = [execs EXCEPT ![x].stage =
                              IF flight[x][n] \in Fatal THEN "draining" ELSE "looping"]
              /\ UNCHANGED <<row, sessions>>

\* Promise.allSettled has nothing to wait for any more.
Drained(x) ==
    /\ execs[x].stage = "draining"
    /\ InFlight(x) = Settled(x)
    /\ FailRun(x, execs[x])
    /\ UNCHANGED flight

Schedule(x) ==
    /\ \/ execs[x].stage = "looping" /\ Iterate(x)
       \/ \E n \in Nodes: Race(x, n)
       \/ Drained(x)
    /\ UNCHANGED <<instance, canceledIds, deleting, overtaken, events>>

\* No promise job is left: the next event may be handled.
Quiet == \A x \in Executions:
            /\ execs[x].stage # "looping"
            /\ execs[x].stage = "racing" => Settled(x) = {}
            /\ execs[x].stage = "draining" => InFlight(x) # Settled(x)
-----------------------------------------------------------------------------
(* The continuation of a node.                                               *)
Settle(x, n, result, status) ==
    /\ flight' = [flight EXCEPT ![x][n] = result]
    /\ sessions' = Close(status, x, {n})

\* buildNodeUserMessage is there, or threw; the run is not looked at again.
MessageIsBuilt(x, n) ==
    /\ flight[x][n] = "building"
    /\ \E stage \in {"asking", "threw"}: flight' = [flight EXCEPT ![x][n] = stage]
    /\ UNCHANGED <<execs, sessions>>

\* A failed chat run is routed along the failure edges, unless it was stopped.
ChatRunFails(x, n) ==
    /\ flight[x][n] = "asking"
    /\ IF IsCanceled
         THEN Settle(x, n, "canceled", "canceled") /\ UNCHANGED execs
         ELSE \E decided \in Decided(x, n, "failure"):
                /\ Settle(x, n, IF Recordable(x, n) THEN "handled" ELSE "threw", "failed")
                /\ execs' = [execs EXCEPT ![x].done = @ \union {n},
                                          ![x].failure = TRUE,
                                          ![x].decided = IF Recordable(x, n) THEN decided ELSE @]

\* Its own timer, or the deadline of the run found passed when it answers.
DeadlineIsFound(x, n) ==
    /\ execs[x].deadline = "passed"
    /\ flight[x][n] \in {"asking", "approving"}
    /\ Settle(x, n, "deadline", "failed")
    /\ UNCHANGED execs

\* The node has succeeded: its edges are decided, then its session completed.
NodeSucceeds(x, n) ==
    IF Recordable(x, n)
      THEN \E decided \in Decided(x, n, "success"):
             /\ Settle(x, n, "ok", "completed")
             /\ execs' = [execs EXCEPT ![x].done = @ \union {n}, ![x].decided = decided]
      ELSE /\ flight' = [flight EXCEPT ![x][n] = "threw"]
           /\ UNCHANGED <<execs, sessions>>

ChatRunSucceeds(x, n) ==
    /\ flight[x][n] = "asking"
    /\ execs[x].deadline # "passed"
    /\ IF IsCanceled
         THEN flight' = [flight EXCEPT ![x][n] = "canceled"] /\ UNCHANGED <<execs, sessions>>
       ELSE IF n \in graph.approval
         THEN flight' = [flight EXCEPT ![x][n] = "approving"] /\ UNCHANGED <<execs, sessions>>
         ELSE NodeSucceeds(x, n)

\* approveNode.  A stop answers the approvals of the run, so it is not canceled.
Approve(x, n) ==
    /\ flight[x][n] = "approving"
    /\ row # "deleted"
    /\ \/ NodeSucceeds(x, n)
       \/ Settle(x, n, "rejected", "approval_rejected") /\ UNCHANGED execs

Answer(x, n) == MessageIsBuilt(x, n) \/ ChatRunFails(x, n) \/ ChatRunSucceeds(x, n)

NodeEvent(x, n) ==
    /\ Quiet
    /\ Answer(x, n) \/ DeadlineIsFound(x, n) \/ Approve(x, n)
    /\ UNCHANGED <<instance, row, canceledIds, deleting, overtaken, events>>
-----------------------------------------------------------------------------
(* The requests.  An execution decides the edges between its active nodes,   *)
(* and takes over what was decided at its boundary.                          *)
Launch(x, active, boundary, deadline) ==
    /\ row' = "running"
    /\ canceledIds' = FALSE
    /\ execs' = [execs EXCEPT ![x] =
           [NoExecution EXCEPT
               !.stage = "looping", !.active = active, !.deadline = deadline,
               !.decided = [e \in graph.edges |->
                   IF e[1] \in active /\ e[2] \in active THEN "pending"
                   ELSE IF e \in DOMAIN boundary THEN boundary[e] ELSE "absent"]]]

RunNow ==
    /\ row = "none"
    /\ \E deadline \in {"none", "ahead"}:
          Launch(1, ReachableFrom(graph.start), [e \in {} |-> "absent"], deadline)
    /\ UNCHANGED <<instance, sessions, flight, deleting, overtaken, events>>

\* latestNodeSessionsByNode and latestPersistedEdgeEvaluation.
Had(n) == {x \in Executions: sessions[x][n] # "none"}
LatestOf(n) == CHOOSE x \in Had(n): \A y \in Had(n): y <= x
IsCompleted(n) == Had(n) # {} /\ sessions[LatestOf(n)][n] = "completed"
Evidence(e) == execs[LatestOf(e[1])].decided[e]
HasEvidence(e) == Evidence(e) \in {"taken", "not_taken"}

\* The nodes a rerun from n activates: n or, when n is preserved, the targets
\* of its taken edges; what is behind them; and every source of these that has
\* no completed session.  The sources of a node that runs anew are not asked.
Ignored(e, n, preserve) == ~preserve /\ e[2] = n

Activated(n, preserve) ==
    LET first == IF preserve THEN {e[2]: e \in {i \in OutOf(n): Evidence(i) = "taken"}} ELSE {n}
        reached == ReachableFrom(first)
        needed[m \in Nodes] ==
            \/ m \in reached
            \/ /\ ~IsCompleted(m)
               /\ \E e \in OutOf(m): needed[e[2]] /\ ~Ignored(e, n, preserve)
    IN  {m \in Nodes: needed[m]}

Boundary(n, preserve, active) ==
    {e \in graph.edges: e[2] \in active /\ e[1] \notin active /\ ~Ignored(e, n, preserve)}

Rerun(x, n, preserve) ==
    /\ row \in {"completed", "failed", "canceled"}
    /\ x <= instance.executions
    /\ execs[x].stage = "none" /\ \A y \in 1..(x - 1): execs[y].stage # "none"
    /\ preserve => IsCompleted(n) /\ \A e \in OutOf(n): HasEvidence(e)
    /\ LET active == Activated(n, preserve)
           boundary == Boundary(n, preserve, active)
       IN  /\ active # {}
           /\ \A e \in graph.edges: e[2] \in active /\ e[1] \notin active => IsCompleted(e[1])
           /\ \A e \in boundary: HasEvidence(e)
           /\ \E deadline \in {"none", "ahead"}:
                 Launch(x, active, [e \in boundary |-> Evidence(e)], deadline)
    /\ overtaken' = (overtaken \/ \E y \in Executions: Executing(y))
    /\ UNCHANGED <<instance, sessions, flight, deleting, events>>

\* stopRun: the approvals that are waited for are answered, and the node says
\* it is canceled.  The chat runs are aborted, which is one way for them to end.
Halt ==
    /\ row = "running"
    /\ row' = "canceled"
    /\ canceledIds' = TRUE
    /\ sessions' = [x \in Executions |-> [n \in Nodes |->
           IF sessions[x][n] = "running" THEN "canceled" ELSE sessions[x][n]]]
    /\ flight' = [x \in Executions |-> [n \in Nodes |->
           IF flight[x][n] = "approving" THEN "canceled" ELSE flight[x][n]]]

Stop == Halt /\ UNCHANGED <<instance, execs, deleting, overtaken>>

\* deleteRun: stop, remove the artifacts of the sessions, then the row.
DeleteRun ==
    /\ ~deleting
    /\ row \notin {"none", "deleted"}
    /\ IF row = "running" THEN Halt ELSE UNCHANGED <<row, canceledIds, sessions, flight>>
    /\ deleting' = TRUE
    /\ UNCHANGED <<instance, execs, overtaken>>

DeletionEnds ==
    /\ Quiet
    /\ deleting
    /\ deleting' = FALSE
    /\ canceledIds' = FALSE
    /\ row' = "deleted"
    /\ sessions' = [x \in Executions |-> [n \in Nodes |-> "none"]]
    /\ UNCHANGED <<instance, execs, flight, overtaken, events>>

\* The server stops, and recoverActiveRuns closes what it left behind.
RestartServer ==
    /\ SetRow("failed")
    /\ canceledIds' = FALSE
    /\ sessions' = [x \in Executions |-> [n \in Nodes |->
           IF row = "running" /\ sessions[x][n] = "running" THEN "failed" ELSE sessions[x][n]]]
    /\ execs' = [x \in Executions |->
           IF Executing(x) THEN [execs[x] EXCEPT !.stage = "done"] ELSE execs[x]]
    /\ flight' = [x \in Executions |-> [n \in Nodes |->
           IF flight[x][n] \in Waits THEN "none" ELSE flight[x][n]]]
    /\ deleting' = FALSE
    /\ UNCHANGED <<instance, overtaken>>

Request ==
    /\ Quiet
    /\ \/ RunNow
       \/ \E x \in Executions, n \in Nodes, preserve \in BOOLEAN: Rerun(x, n, preserve)
       \/ /\ events < instance.events
          /\ events' = events + 1
          /\ Stop \/ DeleteRun \/ RestartServer

DeadlinePasses(x) ==
    /\ Quiet
    /\ execs[x].deadline = "ahead"
    /\ Executing(x)
    /\ execs' = [execs EXCEPT ![x].deadline = "passed"]
    /\ UNCHANGED <<instance, row, canceledIds, sessions, flight, deleting, overtaken, events>>

WorkflowNext ==
    \/ \E x \in Executions: Schedule(x) \/ DeadlinePasses(x) \/ \E n \in Nodes: NodeEvent(x, n)
    \/ Request
    \/ DeletionEnds

\* Promise jobs run, a message is built, and a chat run ends: its LLM calls have
\* timeouts.  Nothing is assumed of the user.
PromiseJobs == \E x \in Executions: Schedule(x)
Answers == \E x \in Executions, n \in Nodes:
    Quiet /\ Answer(x, n) /\ UNCHANGED <<instance, row, canceledIds, deleting, overtaken, events>>

WorkflowSpec ==
    /\ WorkflowInit /\ [][WorkflowNext]_workflowVars
    /\ WF_workflowVars(PromiseJobs) /\ WF_workflowVars(Answers)
-----------------------------------------------------------------------------
WorkflowTypeOK ==
    /\ row \in RowStatuses
    /\ canceledIds \in BOOLEAN
    /\ sessions \in [Executions -> [Nodes -> SessionStatuses]]
    /\ flight \in [Executions -> [Nodes -> Waits \union Results \union {"none", "gone"}]]
    /\ \A x \in Executions:
          /\ execs[x].stage \in {"none", "looping", "racing", "draining", "done"}
          /\ execs[x].active \subseteq Nodes
          /\ execs[x].begun \subseteq execs[x].active
          /\ execs[x].done \subseteq execs[x].begun
          /\ execs[x].decided \in [graph.edges -> Decisions]

\* The last execution of the row.
Last == CHOOSE x \in Executions: execs[x].stage # "none"
            /\ \A y \in Executions: execs[y].stage # "none" => y <= x

\* A completed run is what its graph says, in whatever order its nodes ended:
\* every active node of the last execution has run to the end if its join is
\* ready on the decisions as they finally are, and was skipped otherwise, and
\* none still runs or awaits an approval.  A rerun that is accepted while the
\* scheduler of a stopped run still drains is excepted: see the README.
CompletedRunFollowsItsGraph ==
    row = "completed" /\ ~overtaken =>
        \A n \in execs[Last].active:
            /\ flight[Last][n] \notin Waits
            /\ Joined(execs[Last].decided, n) =
                 (IF sessions[Last][n] = "completed" THEN "ready" ELSE "skipped")

\* Once every scheduler of the run has ended the row is terminal and no node
\* session is left running, whichever way it ended: results, an error in the
\* middle of it, a stop, a deletion or a restart of the server.  Excepted are the
\* sessions of a node whose message cannot be built (while the scheduler drains,
\* its error is dropped with its session still running, 1928), and those of a run
\* that was rerun while the scheduler of its stopped execution still drained
\* (overtaken, 2153): see the README.
EndedRunIsClosed ==
    row # "none" /\ (\A x \in Executions: ~Executing(x)) =>
        /\ row # "running"
        /\ \A x \in Executions, n \in Nodes:
              sessions[x][n] # "running" \/ flight[x][n] = "threw" \/ overtaken

\* A run that is running ends, unless it awaits the approval of a user.
EveryRunSettles ==
    row = "running" ~> \/ row # "running"
                       \/ \E x \in Executions, n \in Nodes: flight[x][n] = "approving"
=============================================================================
