------------------------------ MODULE MCStudio ------------------------------
(* The runs of a chat session, the runs of a workflow, the manager of the    *)
(* agent bridge and the agents of a group chat, side by side: a behaviour    *)
(* explores one of them, and the others stay in a fixed state.               *)
EXTENDS MCChat, WorkflowRun, AgentBridge, GroupChat, TLC

VARIABLE subject

vars == <<chatVars, workflowVars, bridgeVars, groupVars, subject>>

\* 1 -> 2 on success if its condition matches, 1 -> 3 always, 2 -> 3 on failure.
Detour == [size |-> 3, edges |-> {<<1, 2>>, <<2, 3>>, <<1, 3>>},
           route |-> (<<1, 2>> :> "success" @@ <<2, 3>> :> "failure" @@ <<1, 3>> :> "always"),
           conditional |-> {<<1, 2>>}, join |-> <<"all", "all", "any">>,
           approval |-> {2}, start |-> {1}]
\* 1 and 2 side by side, and 3 behind both.
Meet(join, approval) ==
          [size |-> 3, edges |-> {<<1, 3>>, <<2, 3>>},
           route |-> (<<1, 3>> :> "success" @@ <<2, 3>> :> "success"),
           conditional |-> {<<1, 3>>}, join |-> <<"all", "all", join>>,
           approval |-> approval, start |-> {1, 2}]
\* 2 after 1.
Pair(route, approval) ==
          [size |-> 2, edges |-> {<<1, 2>>}, route |-> (<<1, 2>> :> route),
           conditional |-> {}, join |-> <<"all", "all">>,
           approval |-> approval, start |-> {1}]

Explored(g, executions, interventions) ==
    [graph |-> g, executions |-> executions, events |-> interventions]

\* Three nodes in one execution with two interventions, or in two executions
\* without; two nodes, two executions and an intervention between them.
MCInstances == {Explored(Detour, 1, 2), Explored(Meet("any", {1}), 1, 2),
                Explored(Meet("all", {}), 2, 0),
                Explored(Pair("success", {1}), 2, 1), Explored(Pair("always", {2}), 2, 0)}

Calls(s, t, e, f) == [starts |-> s, stops |-> t, asks |-> e, faults |-> f]

\* A bridge that fails twice; one that is stopped and started again; one that is
\* recovered and fails twice; one that is recovered, stopped and fails; one that is
\* started again while it is recovered, or while it is stopped.
MCBridgeBudgets == {Calls(1, 1, 0, 2), Calls(2, 1, 0, 1), Calls(1, 0, 1, 2), Calls(1, 1, 1, 1),
                    Calls(2, 0, 1, 0), Calls(3, 1, 0, 0)}

Room(a, d, r, f) == [asks |-> a, depth |-> d, requests |-> r, faults |-> f]

\* A room with two users' mentions, or one that agents hand on, beside a reset, an
\* interrupt of an agent or two resets, where calls of the bridge may fail.
MCGroupBudgets == {Room(2, 2, <<>>, 1), Room(2, 1, <<"agent">>, 0), Room(2, 1, <<"clear">>, 0),
                   Room(1, 2, <<"clear">>, 0), Room(2, 1, <<"workspace">>, 0),
                   Room(1, 1, <<"clear">>, 2), Room(1, 1, <<"workspace">>, 2),
                   Room(1, 1, <<"clear", "workspace">>, 0),
                   Room(1, 1, <<"workspace", "workspace">>, 0),
                   Room(0, 1, <<"clear", "workspace">>, 1)}

Init ==
    /\ subject \in {"chat", "workflow", "bridge", "group"}
    /\ ChatInit /\ WorkflowInit /\ BridgeInit /\ GroupInit
    /\ subject # "chat" => budget = Bounds(3, 0, 0, 0)
    /\ subject # "workflow" => instance = Explored(Pair("always", {2}), 2, 0)
    /\ subject # "bridge" => /\ allowed = Calls(1, 1, 0, 2)
                             /\ process[Outside] = "none"
    /\ subject # "group" => bounds = Room(2, 2, <<>>, 1)

Next == /\ UNCHANGED subject
        /\ \/ subject = "chat" /\ ChatNext /\ UNCHANGED <<workflowVars, bridgeVars, groupVars>>
           \/ subject = "workflow" /\ WorkflowNext /\ UNCHANGED <<chatVars, bridgeVars, groupVars>>
           \/ subject = "bridge" /\ BridgeNext /\ UNCHANGED <<chatVars, workflowVars, groupVars>>
           \/ subject = "group" /\ GroupNext /\ UNCHANGED <<chatVars, workflowVars, bridgeVars>>

\* The fairness of ChatSpec, of WorkflowSpec and of BridgeSpec.
ChatStep(A) ==
    subject = "chat" /\ A /\ UNCHANGED <<workflowVars, bridgeVars, groupVars, subject>>
WorkflowStep(A) ==
    subject = "workflow" /\ A /\ UNCHANGED <<chatVars, bridgeVars, groupVars, subject>>
BridgeStep(A) ==
    subject = "bridge" /\ A /\ UNCHANGED <<chatVars, workflowVars, groupVars, subject>>

Fairness ==
    /\ \A w \in Workers: WF_vars(ChatStep(Progress(w)))
    /\ \A i \in Runs: WF_vars(ChatStep(AgentEnds(i)))
    /\ \A a \in 1..MaxCalls: WF_vars(ChatStep(a \in DOMAIN aborts /\ Aborting(a)))
    /\ \A k \in 1..MaxCalls: WF_vars(ChatStep(k \in DOMAIN resumes /\ Resuming(k)))
    /\ WF_vars(WorkflowStep(PromiseJobs))
    /\ WF_vars(WorkflowStep(Answers))
    /\ WF_vars(BridgeStep(StartupMoves))
    /\ WF_vars(BridgeStep(RecoveryMoves))
    /\ WF_vars(BridgeStep(StopMoves))

Spec == Init /\ [][Next]_vars /\ Fairness

\* The types of all four, whichever is explored.
StudioTypeOK == ChatTypeOK /\ WorkflowTypeOK /\ BridgeTypeOK /\ GroupTypeOK
=============================================================================
