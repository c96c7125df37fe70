------------------------------ MODULE ChatRun ------------------------------
(*****************************************************************************)
(* The runs of one chat session of Hermes Studio's server: ChatRunSocket     *)
(* (run-chat/index.ts), handleBridgeRun and resumeBridgeRun                  *)
(* (handle-bridge-run.ts) and handleAbort (abort.ts).  The session is one    *)
(* record that every handler reads and writes between its awaits; a step     *)
(* here runs from one await to the next.  A worker is an invocation that     *)
(* follows a run of the agent bridge: <<"run", i>> handles the i-th message, *)
(* <<"resume", i>> polls a bridge run found by a page that was reloaded.     *)
(*                                                                           *)
(* The bridge is a Python process (agent-bridge/python): it runs one agent   *)
(* per session, refuses a chat while one runs, and outlives the server; of   *)
(* it this is start_chat, status and the end of _run_chat.  Left out: the    *)
(* coding-agent and Ekko sources, runAndWait, the slash commands, and what   *)
(* the events carry.  A stream of the client ends with a terminal chunk or   *)
(* throws, so handle-bridge-run.ts:635-673 is not reached.                   *)
(*****************************************************************************)
EXTENDS Naturals, Sequences, FiniteSets, Subsequences

CONSTANTS MaxRuns,    \* bound: messages and goal continuations
          MaxCalls,   \* bound: aborts, and resumes, of a behaviour
          Budgets     \* bounds of one behaviour, chosen in its initial state

Budget == [runs: 0..MaxRuns, aborts: 0..MaxCalls, resumes: 0..MaxCalls, faults: Nat]

ASSUME ChatAssumption == /\ MaxRuns \in Nat
                         /\ MaxCalls \in Nat
                         /\ Budgets \subseteq Budget

VARIABLES
    chat,       \* isWorking, isAborting, runId and activeRunMarker of the session
    queue,      \* its queued runs
    at,         \* where each worker is
    direct,     \* the runs the 'run' handler awaits; the others are void
    goal,       \* the runs that are goal continuations
    aborts,     \* the invocations of handleAbort
    resumes,    \* the status lookups of reattachBridgeRun
    current,    \* bridge: the run of the loaded session, or none
    agent,      \* bridge: the state of each run
    faults,     \* restarts of the server and of the bridge so far
    budget

chatVars == <<chat, queue, at, direct, goal, aborts, resumes, current, agent,
              faults, budget>>
session == <<chat, queue>>
bridge == <<current, agent>>
others == <<direct, goal, aborts, resumes, faults, budget>>

Runs == 1..MaxRuns
NoRun == 0
Workers == {"run", "resume"} \X Runs
Nobody == <<"nobody", NoRun>>
Free == [working |-> FALSE, aborting |-> FALSE, run |-> NoRun, marker |-> Nobody]
Working == [Free EXCEPT !.working = TRUE]

\* A worker that has not returned: each of these is one await of the code.
Alive == {"ready", "preparing", "history", "chatting", "accepted", "refused",
          "streaming", "reading", "closing", "judging", "releasing",
          "failing", "failingQueued"}
\* How it ended: returned, its promise rejected, refused for the memory mode,
\* a resumed run given up, taken off the queue, or gone with the server.
Ends == {"done", "threw", "locked", "gaveUp", "cancelled", "lost"}
AtStages == {"none", "waiting"} \union Alive \union Ends

ChatInit ==
    /\ chat = Free
    /\ queue = <<>>
    /\ at = [w \in Workers |-> "none"]
    /\ direct = {}
    /\ goal = {}
    /\ budget \in Budgets
    /\ aborts = <<>>
    /\ resumes = <<>>
    /\ current = NoRun
    /\ agent = [i \in Runs |-> "none"]
    /\ faults = 0

\* The next run that was never asked for.
Fresh(i) == /\ i <= budget.runs
            /\ at[<<"run", i>>] = "none"
            /\ \A j \in 1..(i - 1): at[<<"run", j>>] # "none"

Inside(stages) == {w \in Workers: at[w] \in stages}
To(w, stage) == [at EXCEPT ![w] = stage]

\* dequeueNextQueuedRun: the head of the queue leaves it and is run.
Dequeue(q, stages) == /\ queue' = Tail(q)
                      /\ at' = [stages EXCEPT ![<<"run", Head(q)>>] = "ready"]

Keep(q, stages) == queue' = q /\ at' = stages
-----------------------------------------------------------------------------
(* The 'run' handler: a working session queues the message.                  *)
Send(i) ==
    /\ Fresh(i)
    /\ \/ /\ chat.working
          /\ Keep(Append(queue, i), To(<<"run", i>>, "waiting"))
          /\ UNCHANGED <<chat, direct>>
       \/ /\ ~chat.working
          /\ chat' = [chat EXCEPT !.working = TRUE]
          /\ at' = To(<<"run", i>>, "ready")
          /\ direct' = direct \union {i}
          /\ UNCHANGED queue
    /\ UNCHANGED <<goal, aborts, resumes, bridge, faults, budget>>

Without(S) == Kept(queue, {k \in DOMAIN queue: queue[k] \notin S})

CancelQueuedRun(i) ==
    /\ i \in {queue[k]: k \in DOMAIN queue}
    /\ Keep(Without({i}), To(<<"run", i>>, "cancelled"))
    /\ UNCHANGED <<chat, bridge, others>>

(* handleRun: the bridge is not reachable.  A session nobody runs in goes on *)
(* with its queue or is free again.                                          *)
BridgeNotReady(w) ==
    /\ at[w] = "ready"
    /\ IF chat.run # NoRun \/ chat.marker # Nobody
         THEN Keep(queue, To(w, "done")) /\ UNCHANGED chat
       ELSE IF queue # <<>>
         THEN /\ chat' = [chat EXCEPT !.working = TRUE]
              /\ Dequeue(queue, To(w, "done"))
         ELSE /\ chat' = [chat EXCEPT !.working = FALSE]
              /\ Keep(queue, To(w, "done"))
    /\ UNCHANGED <<bridge, others>>

(* The bridge is ready; a message with another memory mode than the          *)
(* session's is refused with the session as it is.                           *)
BridgeIsReady(w) ==
    /\ at[w] = "ready"
    /\ at' = To(w, "preparing")
    /\ UNCHANGED <<session, bridge, others>>

MemoryModeLocked(w) ==
    /\ at[w] = "ready"
    /\ at' = To(w, "locked")
    /\ UNCHANGED <<session, bridge, others>>

\* Workspace, model and token are there: the run takes the session.
Prepared(w) ==
    /\ at[w] = "preparing"
    /\ chat' = [Working EXCEPT !.marker = w]
    /\ at' = To(w, "history")
    /\ UNCHANGED <<queue, bridge, others>>

(* One of the awaits before the try throws: the 'run' handler frees a session *)
(* that has neither run nor marker, nobody catches it for a queued run.      *)
PreparationThrows(w) ==
    /\ at[w] \in {"preparing", "history"}
    /\ at' = To(w, "threw")
    /\ chat' = IF w[2] \in direct /\ chat.run = NoRun /\ chat.marker = Nobody
                 THEN [chat EXCEPT !.working = FALSE] ELSE chat
    /\ UNCHANGED <<queue, bridge, others>>

AskChat(w) ==
    /\ at[w] = "history"
    /\ at' = To(w, "chatting")
    /\ UNCHANGED <<session, bridge, others>>

\* start_chat in the bridge: a session that runs refuses the chat.
BridgeAnswersChat(w) ==
    /\ at[w] = "chatting"
    /\ IF current = NoRun
         THEN /\ current' = w[2]
              /\ agent' = [agent EXCEPT ![w[2]] = "running"]
              /\ at' = To(w, "accepted")
         ELSE at' = To(w, "refused") /\ UNCHANGED bridge
    /\ UNCHANGED <<session, others>>

\* Whoever owns the session by now, runId is the run that has started.
ChatStarted(w) ==
    /\ at[w] = "accepted"
    /\ chat' = [chat EXCEPT !.run = w[2]]
    /\ at' = To(w, "streaming")
    /\ UNCHANGED <<queue, bridge, others>>
-----------------------------------------------------------------------------
(* applyBridgeChunkAsync: a chunk counts while the marker is the worker's.   *)
Owns(w) == chat.marker = w

Chunk(w) ==
    /\ at[w] = "streaming"
    /\ Owns(w)
    /\ agent[w[2]] \in {"running", "ended"}
    /\ chat' = [chat EXCEPT !.run = w[2]]
    /\ UNCHANGED <<queue, at, bridge, others>>

\* The terminal chunk; its events may be awaited before done is looked at.
TerminalChunk(w) ==
    /\ at[w] = "streaming"
    /\ agent[w[2]] = "ended"
    /\ IF Owns(w) THEN /\ chat' = [chat EXCEPT !.run = w[2]]
                       /\ at' = To(w, "reading")
                  ELSE /\ at' = To(w, "done")
                       /\ UNCHANGED chat
    /\ UNCHANGED <<queue, bridge, others>>

ReadDone(w) ==
    /\ at[w] = "reading"
    /\ at' = To(w, IF ~chat.working THEN "done"
                   ELSE IF chat.aborting THEN "releasing" ELSE "closing")
    /\ UNCHANGED <<session, bridge, others>>

\* Mutant: a run that was completed does not go on with the queue.
GoOnStops(s, q, stages) ==
    /\ chat' = IF s.marker # Nobody THEN s ELSE [s EXCEPT !.working = FALSE]
    /\ Keep(q, stages)

\* The end of the function: the queue goes on, unless another run has begun.
GoOn(s, q, stages) ==
    IF s.marker # Nobody THEN chat' = s /\ Keep(q, stages)
    ELSE IF q # <<>> THEN /\ chat' = [s EXCEPT !.working = TRUE]
                          /\ Dequeue(q, stages)
    ELSE chat' = [s EXCEPT !.working = FALSE] /\ Keep(q, stages)

Closed == [Free EXCEPT !.working = queue # <<>>]

\* Usage and context are counted; the run is over.  A failed run, an empty
\* answer or a queued message skips the goal.
RealQueued == \E k \in DOMAIN queue: queue[k] \notin goal

CloseRun(w) ==
    /\ at[w] = "closing"
    /\ \/ GoOn(Closed, queue, To(w, "done"))
       \/ /\ ~RealQueued
          /\ chat' = Closed
          /\ at' = To(w, "judging")
          /\ UNCHANGED queue
    /\ UNCHANGED <<bridge, others>>

\* maybeEnqueueGoalContinuation: no, failed or not needed any more; or one more.
GoalJudged(w) ==
    /\ at[w] = "judging"
    /\ GoOn(chat, queue, To(w, "done"))
    /\ UNCHANGED <<bridge, others>>

GoalContinues(w, i) ==
    /\ at[w] = "judging"
    /\ ~RealQueued
    /\ Fresh(i)
    /\ goal' = goal \union {i}
    /\ GoOn(chat, Append(queue, i), [To(w, "done") EXCEPT ![<<"run", i>>] = "waiting"])
    /\ UNCHANGED <<bridge, direct, aborts, resumes, faults, budget>>

\* Mutant: the queued run is put back for the dequeue and started as well.
AbortPutsBack(stages) ==
    IF queue # <<>> THEN /\ chat' = Working
                         /\ queue' = queue
                         /\ at' = [stages EXCEPT ![<<"run", Head(queue)>>] = "ready"]
                    ELSE chat' = Free /\ Keep(queue, stages)

\* Mutant: isAborting is left to the next run to reset.
AbortKeepsFlag(stages) ==
    LET s == [Free EXCEPT !.aborting = chat.aborting] IN
    IF queue # <<>> THEN chat' = [s EXCEPT !.working = TRUE] /\ Dequeue(queue, stages)
                    ELSE chat' = s /\ Keep(queue, stages)

(* markAbortCompleted after its await: whoever called it, the session is     *)
(* reset and the next queued run started.                                    *)
AbortCompleted(stages) ==
    IF queue # <<>> THEN chat' = Working /\ Dequeue(queue, stages)
                    ELSE chat' = Free /\ Keep(queue, stages)

AbortedByChunk(w) ==
    /\ at[w] = "releasing"
    /\ AbortCompleted(To(w, "done"))
    /\ UNCHANGED <<bridge, others>>

\* Mutant: the marker is not reset.
RunCatchKeepsMarker(w) ==
    IF ~Owns(w) \/ ~chat.working
      THEN at' = To(w, "done") /\ UNCHANGED chat
      ELSE /\ chat' = [Free EXCEPT !.marker = w]
           /\ at' = To(w, IF queue # <<>> THEN "failingQueued" ELSE "failing")

\* The catch of handleBridgeRun and of resumeBridgeRun.
RunCatch(w) ==
    IF ~Owns(w) \/ ~chat.working
      THEN at' = To(w, "done") /\ UNCHANGED chat
      ELSE /\ chat' = Free
           /\ at' = To(w, IF queue # <<>> THEN "failingQueued" ELSE "failing")

ResumeCatch(w) ==
    IF Owns(w) THEN chat' = Free /\ at' = To(w, "gaveUp")
               ELSE at' = To(w, "done") /\ UNCHANGED chat

Catch(w) == IF w[1] = "run" THEN RunCatch(w) ELSE ResumeCatch(w)

\* The chat was refused, or its request or answer got lost.
ChatThrows(w) ==
    /\ at[w] \in {"chatting", "refused", "accepted"}
    /\ Catch(w)
    /\ UNCHANGED <<queue, bridge, others>>

StreamThrows(w) ==
    /\ at[w] = "streaming"
    /\ Catch(w)
    /\ UNCHANGED <<queue, bridge, others>>

\* Mutant: a failed run does not go on with the queue.
FailureStops(w) ==
    /\ at[w] \in {"failing", "failingQueued"}
    /\ Keep(queue, To(w, "done"))
    /\ UNCHANGED <<chat, bridge, others>>

\* run.failed is sent after two awaits; then the queue, if there was one.
FailureReported(w) ==
    /\ at[w] \in {"failing", "failingQueued"}
    /\ IF at[w] = "failingQueued" /\ queue # <<>>
         THEN /\ chat' = [chat EXCEPT !.working = TRUE]
              /\ Dequeue(queue, To(w, "done"))
         ELSE Keep(queue, To(w, "done")) /\ UNCHANGED chat
    /\ UNCHANGED <<bridge, others>>
-----------------------------------------------------------------------------
(* handleAbort: without a runId there is nothing to abort.                   *)
Abort ==
    /\ Len(aborts) < budget.aborts
    /\ IF ~chat.working \/ chat.run = NoRun
         THEN /\ chat' = [Free EXCEPT !.marker = chat.marker]
              /\ aborts' = Append(aborts, IF chat.working THEN "ignored" ELSE "returned")
         ELSE /\ chat' = [chat EXCEPT !.aborting = TRUE]
              /\ aborts' = Append(aborts, "interrupting")
    /\ UNCHANGED <<queue, at, direct, goal, resumes, bridge, faults, budget>>

\* bridge.interrupt: the agent has stopped or the call failed; or it has not
\* stopped in ten seconds.
Interrupted(a) ==
    /\ aborts[a] = "interrupting"
    /\ \/ aborts' = [aborts EXCEPT ![a] = "pausing"]
       \/ /\ current # NoRun
          /\ aborts' = [aborts EXCEPT ![a] = "pausingUnsynced"]
    /\ UNCHANGED <<session, at, direct, goal, resumes, bridge, faults, budget>>

\* goalPause: the continuations leave the queue, unless the call failed.
GoalPaused(a) ==
    /\ aborts[a] \in {"pausing", "pausingUnsynced"}
    /\ aborts' = [aborts EXCEPT ![a] = IF @ = "pausing" THEN "releasing" ELSE "destroying"]
    /\ \/ UNCHANGED <<queue, at>>
       \/ Keep(Without(goal), [w \in Workers |->
                 IF w[1] = "run" /\ w[2] \in goal /\ at[w] = "waiting"
                   THEN "cancelled" ELSE at[w]])
    /\ UNCHANGED <<chat, direct, goal, resumes, bridge, faults, budget>>

\* bridge.destroy unloads the session, if the call arrives.
Destroyed(a) ==
    /\ aborts[a] = "destroying"
    /\ aborts' = [aborts EXCEPT ![a] = "releasing"]
    /\ current' \in {current, NoRun}
    /\ UNCHANGED <<session, at, direct, goal, resumes, agent, faults, budget>>

AbortedByUser(a) ==
    /\ aborts[a] = "releasing"
    /\ aborts' = [aborts EXCEPT ![a] = "returned"]
    /\ AbortCompleted(at)
    /\ UNCHANGED <<direct, goal, resumes, bridge, faults, budget>>
-----------------------------------------------------------------------------
(* resume: a page was (re)loaded; the bridge is asked what it runs.          *)
Resume ==
    /\ Len(resumes) < budget.resumes
    /\ ~(chat.run # NoRun /\ chat.working)
    /\ resumes' = Append(resumes, [stage |-> "asking", run |-> NoRun])
    /\ UNCHANGED <<session, at, direct, goal, aborts, bridge, faults, budget>>

\* status in the bridge: what the loaded session runs, if anything.
StatusRead(k) ==
    /\ resumes[k].stage = "asking"
    /\ resumes' = [resumes EXCEPT ![k] = [stage |-> "answered", run |-> current]]
    /\ UNCHANGED <<session, at, direct, goal, aborts, bridge, faults, budget>>

\* Mutant: a bridge that runs nothing is reattached to.
ReattachedToNothing(k) ==
    /\ resumes[k].stage = "answered"
    /\ resumes' = [resumes EXCEPT ![k].stage = "returned"]
    /\ LET w == <<"resume", resumes[k].run>> IN
       IF w \notin Inside(Alive)
         THEN /\ chat' = [working |-> TRUE, aborting |-> chat.aborting,
                          run |-> w[2], marker |-> w]
              /\ at' = To(w, "streaming")
         ELSE UNCHANGED <<chat, at>>
    /\ UNCHANGED <<queue, direct, goal, aborts, bridge, faults, budget>>

\* A run that nobody polls yet is taken over, marker and all.
Reattached(k) ==
    /\ resumes[k].stage = "answered"
    /\ resumes' = [resumes EXCEPT ![k].stage = "returned"]
    /\ LET w == <<"resume", resumes[k].run>> IN
       IF resumes[k].run # NoRun /\ w \notin Inside(Alive)
         THEN /\ chat' = [working |-> TRUE, aborting |-> chat.aborting,
                          run |-> w[2], marker |-> w]
              /\ at' = To(w, "streaming")
         ELSE UNCHANGED <<chat, at>>
    /\ UNCHANGED <<queue, direct, goal, aborts, bridge, faults, budget>>
-----------------------------------------------------------------------------
\* _run_chat in the bridge: an agent ends, by itself or because it was interrupted;
\* a session that was destroyed and loaded again has another current run.
AgentEnds(i) ==
    /\ agent[i] = "running"
    /\ agent' = [agent EXCEPT ![i] = "ended"]
    /\ current' = IF current = i THEN NoRun ELSE current
    /\ UNCHANGED <<session, at, others>>

\* The bridge is killed, and comes back knowing nothing.
BridgeDies ==
    /\ faults < budget.faults
    /\ faults' = faults + 1
    /\ current' = NoRun
    /\ agent' = [i \in Runs |-> IF agent[i] = "none" THEN "none" ELSE "lost"]
    /\ UNCHANGED <<session, at, direct, goal, aborts, resumes, budget>>

\* The server is killed: the session and its queue are memory, the bridge's
\* agent runs on.
ServerDies ==
    /\ faults < budget.faults
    /\ faults' = faults + 1
    /\ chat' = Free
    /\ Keep(<<>>, [w \in Workers |->
               IF at[w] \in Alive \union {"waiting"} THEN "lost" ELSE at[w]])
    /\ aborts' = [a \in DOMAIN aborts |-> IF aborts[a] = "ignored" THEN "ignored" ELSE "returned"]
    /\ resumes' = [k \in DOMAIN resumes |-> [resumes[k] EXCEPT !.stage = "returned"]]
    /\ UNCHANGED <<direct, goal, bridge, budget>>
-----------------------------------------------------------------------------
\* What a worker does next when nothing is thrown that need not be; a stream
\* of a run the bridge has lost throws.
Progress(w) ==
    \/ BridgeIsReady(w) \/ Prepared(w) \/ AskChat(w) \/ BridgeAnswersChat(w)
    \/ ChatStarted(w) \/ TerminalChunk(w) \/ ReadDone(w) \/ CloseRun(w)
    \/ GoalJudged(w) \/ AbortedByChunk(w) \/ FailureReported(w)
    \/ at[w] = "refused" /\ ChatThrows(w)
    \/ agent[w[2]] = "lost" /\ StreamThrows(w)

Trouble(w) ==
    \/ BridgeNotReady(w) \/ MemoryModeLocked(w) \/ PreparationThrows(w)
    \/ ChatThrows(w) \/ StreamThrows(w)

Aborting(a) == Interrupted(a) \/ GoalPaused(a) \/ Destroyed(a) \/ AbortedByUser(a)
Resuming(k) == StatusRead(k) \/ Reattached(k)

ChatNext ==
    \/ \E i \in Runs: Send(i) \/ CancelQueuedRun(i) \/ AgentEnds(i)
    \/ \E w \in Workers: Progress(w) \/ Trouble(w) \/ Chunk(w)
    \/ \E w \in Workers, i \in Runs: GoalContinues(w, i)
    \/ Abort \/ \E a \in DOMAIN aborts: Aborting(a)
    \/ Resume \/ \E k \in DOMAIN resumes: Resuming(k)
    \/ BridgeDies \/ ServerDies

\* Promises settle and an agent ends; nothing is assumed of the user.
ChatFairness ==
    /\ \A w \in Workers: WF_chatVars(Progress(w))
    /\ \A i \in Runs: WF_chatVars(AgentEnds(i))
    /\ \A a \in 1..MaxCalls: WF_chatVars(a \in DOMAIN aborts /\ Aborting(a))
    /\ \A k \in 1..MaxCalls: WF_chatVars(k \in DOMAIN resumes /\ Resuming(k))

ChatSpec == ChatInit /\ [][ChatNext]_chatVars /\ ChatFairness
-----------------------------------------------------------------------------
ChatTypeOK ==
    /\ chat \in [working: BOOLEAN, aborting: BOOLEAN, run: Runs \union {NoRun},
                 marker: Workers \union {Nobody}]
    /\ queue \in Seq(Runs)
    /\ at \in [Workers -> AtStages]
    /\ direct \subseteq Runs /\ goal \subseteq Runs
    /\ aborts \in Seq({"interrupting", "pausing", "pausingUnsynced", "destroying",
                       "releasing", "returned", "ignored"})
    /\ resumes \in Seq([stage: {"asking", "answered", "returned"},
                        run: Runs \union {NoRun}])
    /\ current \in Runs \union {NoRun}
    /\ agent \in [Runs -> {"none", "running", "ended", "lost"}]
    /\ faults \in Nat /\ budget \in Budgets

\* Somebody is at work; and what leaves a session to itself: a rejected promise,
\* the memory mode, an abort that found a run without an id.
Busy == \/ Inside(Alive) # {}
        \/ \E a \in DOMAIN aborts: aborts[a] \notin {"returned", "ignored"}
Broken == \/ Inside({"threw", "locked"}) # {}
          \/ \E a \in DOMAIN aborts: aborts[a] = "ignored"

(* A message waits exactly while it is in the queue, and is there once: what *)
(* is shifted and put back by an abort (abort.ts:158, handle-bridge-run.ts:  *)
(* 1424-1428), cancelled (index.ts:316-331) or cleared with a goal           *)
(* (abort.ts:93) is neither run twice nor forgotten.                         *)
QueueIsExact ==
    /\ \A j, k \in DOMAIN queue: queue[j] = queue[k] => j = k
    /\ \A i \in Runs: at[<<"run", i>>] = "waiting"
                        <=> i \in {queue[k]: k \in DOMAIN queue}

(* The marker never outlives its run: it is what tells the chunks of the run *)
(* that owns the session from stale ones (1043-1051).  An abort that was     *)
(* ignored during the preparation, and a preparation that throws, leave it.  *)
MarkerIsAlive == \/ chat.marker \in Inside(Alive) \union {Nobody}
                 \/ Broken

(* A session that works, or has messages queued, has somebody at work who    *)
(* will free it.  The code breaks this where a run is refused for its memory *)
(* mode or throws before its try, where an abort was ignored, where the      *)
(* answer to a chat came late and left its run id (580), and where a resumed *)
(* poll gave up and left the queue to the next message (862-883).            *)
SessionIsServed ==
    chat.working \/ queue # <<>> =>
        \/ Busy
        \/ Broken
        \/ chat.run # NoRun
        \/ ~chat.working /\ Inside({"gaveUp"}) # {}

(* "The local run state was released so you can continue" (abort.ts:15): an  *)
(* abort ends, whatever the bridge answers or does not.                      *)
AbortSettles == chat.aborting ~> ~chat.aborting

(* A queued message is run or cancelled, except where SessionIsServed fails. *)
EveryMessageIsTaken ==
    \A i \in Runs:
        (at[<<"run", i>>] = "waiting") ~> \/ at[<<"run", i>>] # "waiting"
                                          \/ Broken
                                          \/ ~Busy /\ chat.run # NoRun
                                          \/ Inside({"gaveUp"}) # {}

(* "A session allows only one active run at a time" (docs/cli-chat-          *)
(* sessions.md:576): no two messages have been taken to the bridge at once.  *)
OneActiveRun ==
    Cardinality({i \in Runs: at[<<"run", i>>] \in {"chatting", "accepted", "streaming"}}) <= 1
===========================================================================
