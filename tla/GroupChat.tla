----------------------------- MODULE GroupChat -----------------------------
(*****************************************************************************)
(* The agents of one group-chat room of Hermes Studio's server: the queue of *)
(* mentions (AgentClients, group-chat/agent-clients.ts), the reply of an     *)
(* agent to a mention (AgentClient.replyToMention), the interrupts of an     *)
(* agent and of the room, clearing the context and switching the workspace   *)
(* (group-chat/index.ts, routes/hermes/group-chat.ts).  A step runs from one *)
(* await to the next; what an agent posts travels over its socket and is     *)
(* taken by the server, which may refuse it, in a step of its own.           *)
(*                                                                           *)
(* The session of an agent is named by the room's seed.  The bridge is a     *)
(* Python process (agent-bridge/python): a session has one run at a time,    *)
(* which ends by itself or is interrupted.  The room has a workspace, so     *)
(* every run has a card of its changes.  Left out: deleting a room, adding   *)
(* and removing agents, lost sockets, a chat request whose answer is lost,   *)
(* approvals, typing, token counts, and tool traces, which are posted past   *)
(* the same guard as an answer's parts without being awaited.  "@all" is one *)
(* mention after the other.                                                  *)
(*****************************************************************************)
EXTENDS Naturals, Sequences

CONSTANTS Members,      \* the agents of the room
          MaxDepth,     \* bound of the deepest maxAgentMentionDepth
          MaxReplies,   \* bound: replies of a behaviour
          MaxRequests,  \* bound: interrupts, clears and switches
          GroupBudgets  \* bounds of one behaviour, chosen in its initial state

Requests == {"agent", "clear", "workspace"}
\* depth is maxAgentMentionDepth: a reply to a mention of depth 0 has depth 1.
GroupBudget == [asks: Nat, depth: 1..MaxDepth, requests: Seq(Requests), faults: Nat]

ASSUME GroupAssumption == /\ MaxDepth \in Nat \ {0}
                          /\ MaxReplies \in Nat
                          /\ MaxRequests \in Nat
                          /\ \A b \in GroupBudgets: /\ b \in GroupBudget
                                                    /\ Len(b.requests) <= MaxRequests

VARIABLES
    seed,       \* sessionSeed of the room's row, counted from 0
    workspace,  \* its workspace
    stored,     \* what the agents have in the room: messages and diff cards
    fenced,     \* fencedRoomAgentSessions: the seeds whose sessions are blocked
    version,    \* interruptVersions of each agent and seed
    busy,       \* _processingRooms: the agents with the lock
    paused,     \* _pausedRooms has the room
    waiting,    \* _mentionQueue: the last mention of each agent, as its depth
    reply,      \* the replies, in the order they began
    request,    \* interrupts, clears and switches, in the order they came
    asked,      \* mentions of users so far
    failures,   \* calls that have failed so far
    bounds

room == <<seed, workspace, stored, fenced>>
locks == <<busy, paused, waiting>>
groupVars == <<room, locks, version, reply, request, asked, failures, bounds>>
counted == <<asked, bounds>>

Seeds == 0..MaxRequests
NoMention == MaxDepth    \* no mention that is routed is that deep
Workspaces == {"first", "second"}

ReplyStages == {"preparing", "chatting", "accepted", "refused", "streaming",
                "posting", "taken", "rejected", "stopping", "destroying", "done"}
\* What a reply posts: a part before a tool, its answer, a failed run, its own failure.
Posts == {"nothing", "part", "answer", "error", "failure"}
Cards == {"none", "pending", "completed", "failed", "aborted", "discarded"}
Replies == [agent: Members, depth: 0..MaxDepth, seed: Seeds, version: Nat,
            at: ReplyStages, post: Posts,
            run: {"none", "running", "detached", "ended"}, card: Cards]

NewReply(a, d) ==
    [agent |-> a, depth |-> d, seed |-> seed, version |-> version[a][seed],
     at |-> "preparing", post |-> "nothing", run |-> "none", card |-> "none"]

GroupInit ==
    /\ seed = 0 /\ workspace = "first" /\ stored = {} /\ fenced = {}
    /\ version = [a \in Members |-> [s \in Seeds |-> 0]]
    /\ busy = {} /\ paused = FALSE
    /\ waiting = [a \in Members |-> NoMention]
    /\ reply = <<>> /\ request = <<>>
    /\ asked = 0 /\ failures = 0
    /\ bounds \in GroupBudgets

At(i, stage) == i \in DOMAIN reply /\ reply[i].at = stage
Unfinished == {i \in DOMAIN reply: reply[i].at # "done"}

\* roomSessionIsCurrent and replySessionIsCurrent.
SessionIsCurrent(r) == r.seed = seed
IsCurrent(r) == SessionIsCurrent(r) /\ version[r.agent][r.seed] = r.version

Fault == failures < bounds.faults /\ failures' = failures + 1
NoFault == UNCHANGED failures
-----------------------------------------------------------------------------
(* _processAgentMention: queued behind an interrupt or a reply, or answered. *)
Mention(a, d, replies) ==
    IF paused \/ a \in busy
      THEN /\ waiting' = [waiting EXCEPT ![a] = d]
           /\ reply' = replies
           /\ UNCHANGED busy
      ELSE /\ busy' = busy \union {a}
           /\ reply' = Append(replies, NewReply(a, d))
           /\ UNCHANGED waiting

(* A user who may manage the room mentions an agent.                         *)
Ask(a) ==
    /\ asked < bounds.asks
    /\ Len(reply) < MaxReplies
    /\ asked' = asked + 1
    /\ Mention(a, 0, reply)
    /\ UNCHANGED <<room, version, paused, request, failures, bounds>>

\* Mutant: the queue is drained before the lock is given back.
FinishAmongLocked(replies, i, r) ==
    /\ busy' = busy \ {r.agent}
    /\ reply' = [replies EXCEPT ![i] = [r EXCEPT !.at = "done"]]
    /\ UNCHANGED waiting

(* The finally of _processAgentMention and _drainQueue: the lock is given    *)
(* back and the last waiting mention answered, unless the room is paused.    *)
FinishAmong(replies, i, r) ==
    LET a == r.agent
        ended == [replies EXCEPT ![i] = [r EXCEPT !.at = "done"]]
    IN  IF ~paused /\ waiting[a] # NoMention
          THEN /\ Len(reply) < MaxReplies
               /\ waiting' = [waiting EXCEPT ![a] = NoMention]
               /\ busy' = busy \union {a}
               /\ reply' = Append(ended, NewReply(a, waiting[a]))
          ELSE /\ busy' = busy \ {a}
               /\ reply' = ended
               /\ UNCHANGED waiting

Finish(i, r) == FinishAmong(reply, i, r)

\* A step of a reply inside its function, and one that leaves it.
Step(i, r) == reply' = [reply EXCEPT ![i] = r] /\ UNCHANGED <<busy, waiting>>
Beside == UNCHANGED <<seed, workspace, fenced, version, paused, request, counted>>
-----------------------------------------------------------------------------
(* finalizeWorkspaceDiffOnce: the card of a run's changes is written once,   *)
(* and never for a session that is not the room's any more.                  *)
CardSettled(r, status) ==
    [r EXCEPT !.card = IF r.card # "pending" THEN @
                       ELSE IF SessionIsCurrent(r) THEN status ELSE "discarded"]
Discarded(r) == [r EXCEPT !.card = IF @ = "pending" THEN "discarded" ELSE @]
Shown(i, r) == IF r.card = "pending" /\ SessionIsCurrent(r) THEN {<<i, "card">>} ELSE {}
Settles(i, r) == stored' = stored \union Shown(i, r)

\* The context and the input are built; nothing was started that must stop.
ContextBuilt(i) ==
    /\ At(i, "preparing")
    /\ LET r == reply[i]
       IN  IF IsCurrent(r) THEN Step(i, [r EXCEPT !.at = "chatting"]) ELSE Finish(i, r)
    /\ NoFault /\ UNCHANGED stored /\ Beside

\* Bridge: a session that runs refuses; a request may fail.
BridgeAccepts(i) ==
    /\ At(i, "chatting")
    /\ LET r == reply[i]
           free == \A j \in DOMAIN reply:
                      reply[j].agent = r.agent /\ reply[j].seed = r.seed => reply[j].run # "running"
       IN  \/ free /\ Step(i, [r EXCEPT !.at = "accepted", !.run = "running"]) /\ NoFault
           \/ ~free /\ Step(i, [r EXCEPT !.at = "refused"]) /\ NoFault
           \/ Step(i, [r EXCEPT !.at = "refused"]) /\ Fault
    /\ UNCHANGED stored /\ Beside

Started(i) ==
    /\ At(i, "accepted")
    /\ Step(i, IF IsCurrent(reply[i])
                 THEN [reply[i] EXCEPT !.at = "streaming", !.card = "pending"]
                 ELSE [reply[i] EXCEPT !.at = "stopping"])
    /\ NoFault /\ UNCHANGED stored /\ Beside

\* _run_chat in the bridge.
RunEnds(i) ==
    /\ i \in DOMAIN reply /\ reply[i].run \in {"running", "detached"}
    /\ Step(i, [reply[i] EXCEPT !.run = "ended"])
    /\ NoFault /\ UNCHANGED stored /\ Beside

\* A chunk of the run: text before a tool is posted first (bound: once a reply).
PartSent(i) ==
    /\ At(i, "streaming")
    /\ \/ /\ ~IsCurrent(reply[i])
          /\ Step(i, [reply[i] EXCEPT !.at = "stopping"])
       \/ /\ IsCurrent(reply[i]) /\ reply[i].post = "nothing"
          /\ Step(i, [reply[i] EXCEPT !.at = "posting", !.post = "part"])
    /\ NoFault /\ UNCHANGED stored /\ Beside

\* The last chunk: an answer or the error of the run is posted; an empty one ends.
StreamEnds(i) ==
    /\ At(i, "streaming") /\ reply[i].run = "ended" /\ IsCurrent(reply[i])
    /\ \/ /\ \E p \in {"answer", "error"}:
                Step(i, [reply[i] EXCEPT !.at = "posting", !.post = p])
          /\ UNCHANGED stored
       \/ Finish(i, CardSettled(reply[i], "completed")) /\ Settles(i, reply[i])
    /\ NoFault /\ Beside

\* Mutant: a failed reply does not settle its card.
ReplyCatchForgets(i, r) ==
    /\ IF IsCurrent(r)
         THEN Step(i, [r EXCEPT !.at = "posting", !.post = "failure"])
         ELSE IF r.run = "none" THEN Finish(i, r) ELSE Step(i, [r EXCEPT !.at = "stopping"])
    /\ UNCHANGED stored

(* The catch of replyToMention: a stale reply stops its run if it has one;   *)
(* another one reports that it failed.                                       *)
ReplyCatch(i, r) ==
    IF IsCurrent(r)
      THEN /\ Step(i, [CardSettled(r, "failed") EXCEPT !.at = "posting", !.post = "failure"])
           /\ Settles(i, r)
      ELSE /\ IF r.run = "none" THEN Finish(i, r)
                                ELSE Step(i, [r EXCEPT !.at = "stopping"])
           /\ UNCHANGED stored

Throws(i) ==
    /\ \/ At(i, "preparing") /\ Fault
       \/ At(i, "refused") /\ NoFault
       \/ At(i, "streaming") /\ Fault
    /\ ReplyCatch(i, reply[i])
    /\ Beside
-----------------------------------------------------------------------------
\* Mutant: an agent's message is taken whatever session it comes from.
AdmittedAlways(r) == TRUE

\* agentSessionIsCurrent: what the server takes from the socket of an agent.
Admitted(r) == SessionIsCurrent(r) /\ r.seed \notin fenced

(* handleMessage: the message is stored, and may mention another agent while *)
(* the chain of mentions is not too deep.                                    *)
ServerTakes(i) ==
    /\ At(i, "posting")
    /\ LET r == reply[i]
           taken == [reply EXCEPT ![i].at = "taken"]
       IN  IF Admitted(r)
             THEN /\ stored' = stored \union {<<i, "message">>}
                  /\ \/ reply' = taken /\ UNCHANGED <<busy, waiting>>
                     \/ \E b \in Members \ {r.agent}:
                           /\ r.depth + 1 < bounds.depth /\ r.post \in {"part", "answer"}
                           /\ Len(reply) < MaxReplies
                           /\ Mention(b, r.depth + 1, taken)
             ELSE Step(i, [r EXCEPT !.at = "rejected"]) /\ UNCHANGED stored
    /\ NoFault /\ Beside

\* sendMessage has resolved.
Acknowledged(i) ==
    /\ At(i, "taken")
    /\ LET r == reply[i]
       IN  \/ /\ r.post = "part"
              /\ Step(i, [r EXCEPT !.at = IF IsCurrent(r) THEN "streaming" ELSE "stopping"])
              /\ UNCHANGED stored
           \/ r.post = "answer" /\ Finish(i, CardSettled(r, "completed")) /\ Settles(i, r)
           \/ r.post = "error" /\ Finish(i, CardSettled(r, "failed")) /\ Settles(i, r)
           \/ r.post = "failure" /\ Finish(i, r) /\ UNCHANGED stored
    /\ NoFault /\ Beside

\* sendMessage has thrown: "Stale room session".
Rejected(i) ==
    /\ At(i, "rejected")
    /\ IF reply[i].post = "failure" THEN Finish(i, reply[i]) /\ UNCHANGED stored
                                    ELSE ReplyCatch(i, reply[i])
    /\ NoFault /\ Beside

\* The replies once the bridge has stopped what runs in a session (interrupt), or
\* has let go of it, still running (destroy).
Stopped(a, s, how) ==
    [j \in DOMAIN reply |->
        [reply[j] EXCEPT !.run = IF reply[j].agent = a /\ reply[j].seed = s /\ @ = "running"
                                   THEN how ELSE @]]

(* stopStaleStartedRun: interrupt, and if that is not confirmed, destroy.    *)
StopRun(i) ==
    /\ At(i, "stopping")
    /\ \/ /\ NoFault
          /\ LET after == Stopped(reply[i].agent, reply[i].seed, "ended")
             IN  FinishAmong(after, i, Discarded(after[i]))
       \/ Fault /\ Step(i, [reply[i] EXCEPT !.at = "destroying"])
    /\ UNCHANGED stored /\ Beside

DestroyRun(i) ==
    /\ At(i, "destroying")
    /\ \/ /\ NoFault
          /\ LET after == Stopped(reply[i].agent, reply[i].seed, "detached")
             IN  FinishAmong(after, i, Discarded(after[i]))
       \/ Fault /\ Finish(i, Discarded(reply[i]))
    /\ UNCHANGED stored /\ Beside
-----------------------------------------------------------------------------
(* What comes from a user: an interrupt of one agent, clearing the context,  *)
(* switching the workspace.  Each interrupts agents at the bridge, all at    *)
(* once, and waits for every one of them.                                    *)
RequestStages == {"validating", "interrupting", "done", "failed"}
CallStates == {"none", "called", "stopped", "returned", "unsynced"}
RequestRecords == [kind: Requests, target: Workspaces, seen: Workspaces, seed: Seeds,
                   at: RequestStages, call: [Members -> CallStates]]

Interrupts(k) == k \in DOMAIN request /\ request[k].at = "interrupting"
Resets(q) == q.kind \in {"clear", "workspace"}

\* interruptRoom behind fenceCurrentRoomAgentSessions.
Interrupting(q) ==
    [q EXCEPT !.at = "interrupting", !.seed = seed, !.call = [a \in Members |-> "called"]]
FenceAndPause == fenced' = fenced \union {seed} /\ paused' = TRUE

(* A request comes in: a switch reads the room and validates the folder.     *)
Receive ==
    /\ Len(request) < Len(bounds.requests)
    /\ LET q == [kind |-> bounds.requests[Len(request) + 1], target |-> workspace,
                 seen |-> workspace, seed |-> seed, at |-> "validating",
                 call |-> [a \in Members |-> "none"]]
       IN  \/ /\ q.kind = "agent"
              /\ \E a \in Members:
                    request' = Append(request, [q EXCEPT !.at = "interrupting",
                                                         !.call[a] = "called"])
              /\ UNCHANGED <<fenced, paused>>
           \/ /\ q.kind = "clear"
              /\ request' = Append(request, Interrupting(q)) /\ FenceAndPause
           \/ /\ q.kind = "workspace"
              /\ \E w \in Workspaces: request' = Append(request, [q EXCEPT !.target = w])
              /\ UNCHANGED <<fenced, paused>>
    /\ UNCHANGED <<seed, workspace, stored, busy, waiting, version, reply, failures, counted>>

\* updateRoomWorkspace: the row as it is now decides whether the sessions rotate.
WorkspaceUpdated(w) ==
    /\ workspace' = w
    /\ seed' = IF w # workspace THEN seed + 1 ELSE seed

\* The folder is allowed: it is compared with the row that was read before.
Validated(k) ==
    /\ k \in DOMAIN request /\ request[k].at = "validating"
    /\ LET q == request[k]
       IN  IF q.target # q.seen
             THEN /\ request' = [request EXCEPT ![k] = Interrupting(q)] /\ FenceAndPause
                  /\ UNCHANGED <<seed, workspace>>
             ELSE /\ request' = [request EXCEPT ![k].at = "done"]
                  /\ WorkspaceUpdated(q.target)
                  /\ UNCHANGED <<fenced, paused>>
    /\ UNCHANGED <<stored, busy, waiting, version, reply, failures, counted>>

\* interrupt in the bridge: what the session runs has stopped.  If it has not within
\* ten seconds, the answer says so, and this does not happen before it.
BridgeStops(k, a) ==
    /\ Interrupts(k) /\ request[k].call[a] = "called"
    /\ request' = [request EXCEPT ![k].call[a] = "stopped"]
    /\ reply' = Stopped(a, request[k].seed, "ended")
    /\ UNCHANGED <<room, locks, version, failures, counted>>

(* The end of interruptRoom and of the request: a failed one gives the fence *)
(* back, a clear drops the locks and what the room stored.                   *)
RequestEnds(k, q, late) ==
    IF \E a \in Members: q.call[a] = "unsynced"
      THEN /\ request' = [request EXCEPT ![k] = [q EXCEPT !.at = "failed"]]
           /\ fenced' = IF Resets(q) THEN fenced \ {q.seed} ELSE fenced
           /\ paused' = (paused /\ ~Resets(q))
           /\ stored' = late
           /\ UNCHANGED <<seed, workspace, busy, waiting>>
      ELSE /\ request' = [request EXCEPT ![k] = [q EXCEPT !.at = "done"]]
           /\ waiting' = [a \in Members |-> IF q.call[a] = "returned" THEN NoMention ELSE waiting[a]]
           /\ paused' = (paused /\ ~Resets(q))
           /\ UNCHANGED fenced
           /\ \/ /\ q.kind = "agent" /\ stored' = late
                 /\ UNCHANGED <<seed, workspace, busy>>
              \/ /\ q.kind = "clear" /\ stored' = {} /\ busy' = {} /\ seed' = seed + 1
                 /\ UNCHANGED workspace
              \/ /\ q.kind = "workspace" /\ WorkspaceUpdated(q.target) /\ stored' = late
                 /\ UNCHANGED busy

(* One interrupt of an agent returns.  A confirmed one marks the session and *)
(* settles the cards of the agent's runs; the last one ends the request.     *)
InterruptReturns(k, a) ==
    /\ Interrupts(k)
    /\ \E confirmed \in BOOLEAN:
          LET q == [request[k] EXCEPT !.call[a] = IF confirmed THEN "returned" ELSE "unsynced"]
              mine == {j \in DOMAIN reply: confirmed /\ reply[j].agent = a}
              late == stored \union UNION {Shown(j, reply[j]): j \in mine}
          IN  /\ IF confirmed THEN request[k].call[a] = "stopped" /\ NoFault
                              ELSE request[k].call[a] = "called" /\ Fault
              /\ version' = IF confirmed THEN [version EXCEPT ![a][q.seed] = @ + 1] ELSE version
              /\ reply' = [j \in DOMAIN reply |-> IF j \in mine THEN CardSettled(reply[j], "aborted")
                                                                ELSE reply[j]]
              /\ IF \E b \in Members: q.call[b] \in {"called", "stopped"}
                   THEN /\ request' = [request EXCEPT ![k] = q] /\ stored' = late
                        /\ UNCHANGED <<seed, workspace, fenced, locks>>
                   ELSE RequestEnds(k, q, late)
    /\ UNCHANGED counted
-----------------------------------------------------------------------------
ReplyMoves(i) ==
    \/ ContextBuilt(i) \/ BridgeAccepts(i) \/ Started(i) \/ RunEnds(i)
    \/ PartSent(i) \/ StreamEnds(i) \/ Throws(i)
    \/ ServerTakes(i) \/ Acknowledged(i) \/ Rejected(i)
    \/ StopRun(i) \/ DestroyRun(i)

GroupNext ==
    \/ \E a \in Members: Ask(a)
    \/ \E i \in DOMAIN reply: ReplyMoves(i)
    \/ Receive
    \/ \E k \in DOMAIN request: \/ Validated(k)
                                \/ \E a \in Members: BridgeStops(k, a) \/ InterruptReturns(k, a)

GroupSpec == GroupInit /\ [][GroupNext]_groupVars
-----------------------------------------------------------------------------
GroupTypeOK ==
    /\ seed \in Seeds /\ fenced \subseteq Seeds /\ workspace \in Workspaces
    /\ stored \subseteq (1..MaxReplies) \X {"message", "card"}
    /\ version \in [Members -> [Seeds -> 0..MaxRequests]]
    /\ busy \subseteq Members /\ paused \in BOOLEAN
    /\ waiting \in [Members -> 0..NoMention]
    /\ reply \in Seq(Replies) /\ Len(reply) <= MaxReplies
    /\ request \in Seq(RequestRecords)
    /\ asked <= bounds.asks /\ failures <= bounds.faults

(* A room that was cleared stays cleared: what its agents have stored comes  *)
(* from the sessions of after the last clear, however late a reply, an       *)
(* interrupt or a card of before it returns (canPersistAgentMessageFor-      *)
(* CurrentSession, finalizeWorkspaceDiffOnce, clearRoomContext).             *)
ClearedStaysCleared ==
    \A k \in DOMAIN request: request[k].kind = "clear" /\ request[k].at = "done" =>
        \A e \in stored: reply[e[1]].seed > request[k].seed

(* A waiting mention is behind something that will answer or discard it: a   *)
(* reply of that agent, whose end drains the queue, or a reset that has the  *)
(* room paused.  Only a reset that failed leaves one behind (interruptRoom). *)
WaitingMentionIsServed ==
    \A a \in Members: waiting[a] # NoMention =>
        \/ \E i \in Unfinished: reply[i].agent = a
        \/ paused
        \/ \E k \in DOMAIN request: Resets(request[k]) /\ request[k].at = "failed"

(* A reset lets go of the room, however it ends: the pause and the fence on  *)
(* the current sessions stand for a reset that is under way.  Excepted is a  *)
(* switch that found the row at its workspace already (group-chat.ts:614,    *)
(* index.ts:386): it is done, does not rotate the sessions and keeps their   *)
(* fence, which nothing but another reset takes away.                        *)
ResetLetsGo ==
    /\ paused => \E k \in DOMAIN request: Resets(request[k]) /\ Interrupts(k)
    /\ seed \in fenced =>
          \E k \in DOMAIN request:
              /\ request[k].seed = seed /\ Resets(request[k])
              /\ \/ Interrupts(k)
                 \/ request[k].kind = "workspace" /\ request[k].at = "done"

(* The agents of a room never fall silent: whoever was mentioned answers or  *)
(* is reset, and what an agent of the current session says is taken          *)
(* (AgentClients, fenceCurrentRoomAgentSessions, interruptRoom).  The code   *)
(* does let it happen after a reset that failed, to what waited meanwhile,   *)
(* and after a switch that fences sessions it does not rotate: these two the *)
(* parts of this property except.                                            *)
RoomStaysOpen == WaitingMentionIsServed /\ ResetLetsGo

(* What a run changed in the workspace is shown: its card is settled when    *)
(* the reply is over, and is dropped only with the session itself, whoever   *)
(* gets there first: the reply, an interrupt or a reset.                     *)
ChangesAreShown ==
    \A i \in DOMAIN reply:
        /\ reply[i].card = "pending" => reply[i].at # "done"
        /\ reply[i].card = "discarded" => reply[i].seed # seed
=============================================================================
