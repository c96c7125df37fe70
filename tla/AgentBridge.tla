---------------------------- MODULE AgentBridge ----------------------------
(*****************************************************************************)
(* AgentBridgeManager (agent-bridge/manager.ts): one object of Hermes        *)
(* Studio's server that starts a bridge process, notices its exit, restarts  *)
(* it, recovers a hanging one and stops it.  A step runs from one event (a   *)
(* timer, a ping that settled, the exit of a process) to the next await, with *)
(* the promise jobs it sets off.                                             *)
(*                                                                           *)
(* Of the processes (agent-bridge/python/bridge_broker.py) this is that they *)
(* listen at one endpoint, so that a ping is answered by whichever of them   *)
(* listens, and that they exit or die.  What prepareEndpoint kills is a      *)
(* process that ends; the calls that only read the readiness are left out.   *)
(*****************************************************************************)
EXTENDS Naturals, FiniteSets

CONSTANTS MaxProcesses,   \* bound: processes the manager spawns
          BridgeBudgets   \* bounds of one behaviour, chosen in its initial state

BridgeBudget == [starts: Nat, stops: Nat, asks: Nat, faults: Nat]

ASSUME BridgeAssumption == /\ MaxProcesses \in Nat \ {0}
                           /\ BridgeBudgets \subseteq BridgeBudget

VARIABLES
    manager,    \* the fields of the object and the continuations that wait
    process,    \* each process; Outside was there before the server
    probe,      \* the probe loop of each startup
    signalled,  \* processes with child.killed: a signal was sent, no more
    asking,     \* calls of ensureReady that await their ping
    past,       \* history: what the properties speak of
    allowed     \* what is left of the bounds

bridgeVars == <<manager, process, probe, signalled, asking, past, allowed>>

Outside == 0
NoProcess == MaxProcesses + 1
Spawned == 1..MaxProcesses
Processes == {Outside} \union Spawned
Living == {"booting", "listening", "leaving"}

\* stopGeneration is only compared with its value when the recovery began: outrun.
Idle == [child |-> NoProcess, attached |-> FALSE, ready |-> FALSE,
         stopping |-> FALSE, timer |-> FALSE,
         starting |-> "no", waiting |-> {},
         recovery |-> "no", recovering |-> NoProcess, outrun |-> FALSE,
         stop |-> "no", stopped |-> NoProcess]

BridgeInit ==
    /\ manager = Idle
    /\ \E s \in {"none", "listening"}:
          process = [p \in Processes |-> IF p = Outside THEN s ELSE "none"]
    /\ probe = [p \in Spawned |-> "off"]
    /\ signalled = {}
    /\ asking = 0
    /\ past = [lost |-> {}, sealed |-> FALSE, served |-> FALSE]
    /\ allowed \in BridgeBudgets

\* A ping is answered by whoever holds the endpoint, until it has exited.
Answered == \E p \in Processes: process[p] \in {"listening", "leaving"}
Newest == Cardinality({p \in Spawned: process[p] # "none"})
Has(what) == allowed[what] > 0
Take(what) == allowed' = [allowed EXCEPT ![what] = @ - 1]
processes == <<process, probe, signalled>>
-----------------------------------------------------------------------------
(* The parts of the manager's methods, as functions of the manager.          *)

Running(m) == m.ready /\ (m.attached \/ m.child \in Spawned \ signalled)

\* start(), called by who: it returns, joins the start in progress, or begins.
StartCall(m, who) ==
    IF Running(m) THEN m
    ELSE IF m.starting # "no" THEN [m EXCEPT !.waiting = @ \union {who}]
    ELSE [m EXCEPT !.stopping = FALSE, !.timer = FALSE,
                   !.starting = "attach", !.waiting = {who}]

ScheduleRestart(m) == IF m.stopping THEN m ELSE [m EXCEPT !.timer = TRUE]

\* Mutant: without the generation, which tells a recovery that a stop was faster.
ReplaceAnyway(m) ==
    IF m.stopping \/ Running(m) THEN [m EXCEPT !.recovery = "check"]
    ELSE StartCall([m EXCEPT !.recovery = "start"], "recovery")

\* performManagedRecovery after the exit of the child it replaces.
Replace(m) ==
    IF m.outrun \/ m.stopping \/ Running(m) THEN [m EXCEPT !.recovery = "check"]
    ELSE StartCall([m EXCEPT !.recovery = "start"], "recovery")

Returned(m) == IF "recovery" \in m.waiting THEN [m EXCEPT !.recovery = "check"] ELSE m

\* A start that throws: what it leaves, and then the catch of the timer's call,
\* which is three promise jobs away from the throw.
Cleared(m) == [Returned(m) EXCEPT !.starting = "no", !.waiting = {}]
\* Mutant: an automatic restart that failed is not repeated.
CaughtOnly(m, after) == after
Caught(m, after) == IF "timer" \in m.waiting THEN ScheduleRestart(after) ELSE after
Threw(m) == Caught(m, Cleared(m))

\* History: a start that fails ends the supervision if no timer waits for it;
\* its caller is told.
CallerTold == [past EXCEPT !.served = @ /\ "timer" \in manager.waiting]
-----------------------------------------------------------------------------
(* start() and startProcess().                                               *)

Start ==
    /\ Has("starts") /\ Take("starts")
    /\ manager' = StartCall(manager, "caller")
    /\ past' = [past EXCEPT !.sealed = FALSE]
    /\ UNCHANGED <<processes, asking>>

\* The bound: no restart is begun that could not spawn a process.
RestartTimerFires ==
    /\ manager.timer /\ Newest < MaxProcesses
    /\ LET m == [manager EXCEPT !.timer = FALSE]
       IN manager' = IF m.stopping THEN m ELSE StartCall(m, "timer")
    /\ UNCHANGED <<processes, asking, past, allowed>>

AttachExistingBridge ==
    /\ manager.starting = "attach" /\ Answered
    /\ manager' = Cleared([manager EXCEPT !.child = NoProcess, !.attached = TRUE,
                                          !.ready = TRUE])
    /\ past' = [past EXCEPT !.lost = @ \union ({manager.child} \ {NoProcess}),
                            !.served = FALSE]
    /\ UNCHANGED <<processes, asking, allowed>>

NoReusableBridge ==
    /\ manager.starting = "attach"
    /\ manager' = [manager EXCEPT !.attached = FALSE, !.ready = FALSE,
                                  !.starting = "spawn"]
    /\ UNCHANGED <<processes, asking, past, allowed>>

\* History: the child of a recovery that still waits for its exit.
Overtaken == {p \in {manager.recovering}: manager.recovery \in {"term", "kill"}}

\* The child that a failed start left behind is overwritten; so is the one that a
\* recovery has signalled, when a start that is not the recovery's finds it not running.
Spawn ==
    /\ manager.starting = "spawn" /\ Newest < MaxProcesses
    /\ LET p == Newest + 1
       IN /\ manager' = [manager EXCEPT !.child = p, !.attached = FALSE, !.ready = FALSE,
                                        !.starting = "boot"]
          /\ process' = [process EXCEPT ![p] = "booting"]
          /\ probe' = [probe EXCEPT ![p] = "asking"]
    /\ past' = [past EXCEPT !.lost = @ \union Overtaken]
    /\ UNCHANGED <<signalled, asking, allowed>>

\* prepareEndpoint or spawn throws.
SpawnThrows ==
    /\ manager.starting = "spawn"
    /\ \/ Has("faults") /\ Take("faults")
       \/ Newest = MaxProcesses /\ UNCHANGED allowed
    /\ manager' = Threw(manager)
    /\ past' = CallerTold
    /\ UNCHANGED <<processes, asking>>

\* The 'error' event: the command could not be run.  No exit follows, and the
\* child stays.
SpawnFails ==
    /\ manager.starting = "boot" /\ process[Newest] = "booting"
    /\ Has("faults") /\ Take("faults")
    /\ process' = [process EXCEPT ![Newest] = "failed"]
    /\ manager' = Threw(manager)
    /\ past' = CallerTold
    /\ UNCHANGED <<probe, signalled, asking>>

\* The process is neither ready nor ended; it stays the child, and its probe
\* goes on.
StartupTimesOut ==
    /\ manager.starting = "boot"
    /\ manager' = Threw(manager)
    /\ past' = [CallerTold EXCEPT !.lost = @ \union {Newest}]
    /\ UNCHANGED <<processes, asking, allowed>>

ProbeIsAnswered(p) ==
    /\ probe[p] = "asking" /\ Answered
    /\ probe' = [probe EXCEPT ![p] = "answered"]
    /\ UNCHANGED <<manager, process, signalled, asking, past, allowed>>

ProbeEnds(p) ==
    /\ probe[p] = "asking" /\ p \in signalled
    /\ probe' = [probe EXCEPT ![p] = "off"]
    /\ UNCHANGED <<manager, process, signalled, asking, past, allowed>>

\* markReady, whatever became of the startup meanwhile.
MarkReady(p) ==
    /\ probe[p] = "answered"
    /\ probe' = [probe EXCEPT ![p] = "off"]
    /\ LET m == [manager EXCEPT !.ready = TRUE]
       IN manager' = IF m.starting = "boot" /\ p = Newest THEN Cleared(m) ELSE m
    /\ past' = [past EXCEPT !.served = \/ @
                                       \/ /\ manager.child = p /\ ~manager.stopping
                                          /\ process[p] \in Living]
    /\ UNCHANGED <<process, signalled, asking, allowed>>
-----------------------------------------------------------------------------
(* The processes, and the listeners of their 'exit' event.                   *)

\* serve_forever of the bridge: from now on it answers.
Listen(p) ==
    /\ process[p] = "booting"
    /\ process' = [process EXCEPT ![p] = "listening"]
    /\ UNCHANGED <<manager, probe, signalled, asking, past, allowed>>

\* startProcess's own listener.
ChildExited(m, p) ==
    IF m.child # p THEN m
    ELSE LET n == [m EXCEPT !.ready = FALSE, !.child = NoProcess]
         IN IF m.ready THEN ScheduleRestart(n) ELSE n

\* stop() that awaits this exit, and then the recovery that does.
StopReturns(m, p) == IF m.stop = "exit" /\ m.stopped = p
                     THEN [m EXCEPT !.stop = "no", !.stopping = FALSE] ELSE m
RecoveryGoesOn(m, p) == IF m.recovery \in {"term", "kill"} /\ m.recovering = p
                        THEN Replace(m) ELSE m

Exit(p) ==
    /\ process[p] \in Living
    /\ \/ /\ p \in signalled \/ process[p] = "leaving"
          /\ UNCHANGED allowed
       \/ Has("faults") /\ Take("faults")
    /\ process' = [process EXCEPT ![p] = "dead"]
    /\ LET m == StopReturns(ChildExited(manager, p), p)
       IN IF manager.starting = "boot" /\ p = Newest
          THEN /\ manager' = Caught(m, RecoveryGoesOn(Cleared(m), p))
               /\ past' = CallerTold
          ELSE /\ manager' = RecoveryGoesOn(m, p)
               /\ UNCHANGED past
    /\ UNCHANGED <<probe, signalled, asking>>
-----------------------------------------------------------------------------
(* ensureReady() with recovery, and performManagedRecovery().                *)

\* checkReadinessInternal goes as far as the ping.
EnsureReady ==
    /\ Has("asks") /\ Take("asks")
    /\ ~manager.stopping /\ manager.recovery = "no"
    /\ manager.starting = "no" /\ ~manager.timer
    /\ asking' = asking + 1
    /\ UNCHANGED <<manager, processes, past>>

PingSucceeds ==
    /\ asking > 0 /\ Answered
    /\ asking' = asking - 1
    /\ UNCHANGED <<manager, processes, past, allowed>>

\* A child that ended without an exit event is replaced at once; any other gets
\* its SIGTERM.
Recover(p) ==
    LET m == [manager EXCEPT !.ready = FALSE, !.recovery = "term",
                             !.recovering = p, !.outrun = FALSE]
    IN IF process[p] = "failed"
       THEN /\ manager' = Replace([m EXCEPT !.child = NoProcess])
            /\ UNCHANGED signalled
       ELSE /\ manager' = m
            /\ signalled' = signalled \union {p}

\* Whatever happened during the ping: the child is the one of now.
PingFails ==
    /\ asking > 0
    /\ asking' = asking - 1
    /\ IF manager.recovery # "no" THEN UNCHANGED <<manager, signalled, past>>
       ELSE IF manager.child = NoProcess \/ manager.attached
       THEN /\ manager' = [manager EXCEPT !.ready = FALSE]
            /\ past' = [past EXCEPT !.served = FALSE]
            /\ UNCHANGED signalled
       ELSE /\ Recover(manager.child)
            /\ past' = [past EXCEPT !.served = FALSE]
    /\ UNCHANGED <<process, probe, allowed>>

\* Mutant: the replacement does not wait for the exit of the old child.
GraceIsShort ==
    /\ manager.recovery = "term"
    /\ manager' = Replace(manager)
    /\ UNCHANGED <<processes, asking, past, allowed>>

GraceExpires ==
    /\ manager.recovery = "term"
    /\ manager' = [manager EXCEPT !.recovery = "kill"]
    /\ UNCHANGED <<processes, asking, past, allowed>>

\* Mutant: it goes on asking a process that does not end.
RecoveryPersists ==
    /\ manager.recovery = "kill"
    /\ manager' = [manager EXCEPT !.recovery = "term"]
    /\ UNCHANGED <<processes, asking, past, allowed>>

\* SIGKILL did not help: no replacement is started.
RecoveryGivesUp ==
    /\ manager.recovery = "kill"
    /\ manager' = [manager EXCEPT !.recovery = "check"]
    /\ past' = [past EXCEPT !.lost = @ \union {manager.recovering}]
    /\ UNCHANGED <<processes, asking, allowed>>

RecoveryReturns ==
    /\ manager.recovery = "check"
    /\ manager' = [manager EXCEPT !.recovery = "no"]
    /\ UNCHANGED <<processes, asking, past, allowed>>
-----------------------------------------------------------------------------
(* stop().                                                                   *)

\* The generation moves on, and with it away from a recovery's.
Stopping(m) == [m EXCEPT !.outrun = TRUE, !.stopping = TRUE, !.timer = FALSE]
StopReturned(m) == [m EXCEPT !.stop = "no", !.stopping = FALSE]

StopBridge ==
    /\ manager.stop = "no"
    /\ Has("stops") /\ Take("stops")
    /\ LET m == Stopping(manager)
           p == manager.child
       IN IF p = NoProcess
          THEN /\ manager' = IF m.attached \/ m.ready THEN [m EXCEPT !.stop = "shutdown"]
                             ELSE StopReturned(m)
               /\ UNCHANGED signalled
          ELSE /\ manager' = [m EXCEPT !.ready = FALSE, !.attached = FALSE,
                                       !.child = NoProcess, !.stop = "exit", !.stopped = p]
               /\ signalled' = signalled \union {q \in {p}: process[q] # "failed"}
    /\ past' = [past EXCEPT !.sealed = (manager.starting = "no"), !.served = FALSE,
                            !.lost = @ \union ({manager.child} \ {NoProcess})]
    /\ UNCHANGED <<process, probe, asking>>

\* Whoever listens is asked to end; a child that was started meanwhile is forgotten
\* to be ready.
ShutdownSettles ==
    /\ manager.stop = "shutdown"
    /\ \/ \E p \in Processes: /\ process[p] = "listening"
                             /\ process' = [process EXCEPT ![p] = "leaving"]
       \/ UNCHANGED process
    /\ manager' = StopReturned([manager EXCEPT !.ready = FALSE, !.attached = FALSE])
    /\ past' = [past EXCEPT !.served = FALSE,
                            !.lost = @ \union ({manager.child} \ {NoProcess})]
    /\ UNCHANGED <<probe, signalled, asking, allowed>>

StopTimesOut ==
    /\ manager.stop = "exit"
    /\ manager' = StopReturned(manager)
    /\ UNCHANGED <<processes, asking, past, allowed>>
-----------------------------------------------------------------------------
StartupMoves == AttachExistingBridge \/ NoReusableBridge \/ Spawn \/ SpawnThrows
                \/ StartupTimesOut
RecoveryMoves == GraceExpires \/ RecoveryGivesUp \/ RecoveryReturns
StopMoves == ShutdownSettles \/ StopTimesOut

BridgeNext ==
    \/ Start \/ RestartTimerFires \/ StartupMoves \/ SpawnFails
    \/ \E p \in Spawned: ProbeIsAnswered(p) \/ ProbeEnds(p) \/ MarkReady(p) \/ Listen(p)
    \/ \E p \in Processes: Exit(p)
    \/ EnsureReady \/ PingSucceeds \/ PingFails \/ RecoveryMoves
    \/ StopBridge \/ StopMoves

\* Timers fire and pings settle.  Nothing is assumed of the processes: not that
\* they listen, and not that they end when they are told to.
BridgeFairness ==
    /\ WF_bridgeVars(StartupMoves)
    /\ WF_bridgeVars(RecoveryMoves)
    /\ WF_bridgeVars(StopMoves)

BridgeSpec == BridgeInit /\ [][BridgeNext]_bridgeVars /\ BridgeFairness
-----------------------------------------------------------------------------
BridgeTypeOK ==
    /\ manager \in [child: Spawned \union {NoProcess}, attached: BOOLEAN, ready: BOOLEAN,
                    stopping: BOOLEAN, timer: BOOLEAN,
                    starting: {"no", "attach", "spawn", "boot"},
                    waiting: SUBSET {"caller", "timer", "recovery"},
                    recovery: {"no", "term", "kill", "start", "check"},
                    recovering: Spawned \union {NoProcess}, outrun: BOOLEAN,
                    stop: {"no", "shutdown", "exit"}, stopped: Spawned \union {NoProcess}]
    /\ process \in [Processes -> {"none", "booting", "listening", "leaving", "dead", "failed"}]
    /\ probe \in [Spawned -> {"off", "asking", "answered"}]
    /\ signalled \subseteq Spawned
    /\ asking \in Nat
    /\ past \in [lost: SUBSET Spawned, sealed: BOOLEAN, served: BOOLEAN]
    /\ allowed \in BridgeBudget

(* At most one bridge process lives that nobody has given up: the others were *)
(* stopped, did not start in time, outlived a SIGKILL, or were taken for      *)
(* somebody else's.  The promise behind "waits for the old managed child to   *)
(* exit before starting replacement recovery" (agent-bridge-manager.test.ts:  *)
(* 727), against timers, late answers and recoveries that overlap.  The code  *)
(* breaks it where a start that is not the recovery's own comes while the     *)
(* recovery waits: child.killed makes the child not running at once (510);    *)
(* and where the shutdown of an attached bridge settles after a start (1077). *)
OneLiveBridge ==
    Cardinality({p \in Spawned \ past.lost: process[p] \in Living}) <= 1

(* "Auto-restart the bridge broker after unexpected exit" (README.md:330): a  *)
(* bridge of the manager that was ready serves, or is being started, or its   *)
(* restart is scheduled, until somebody stops or recovers it or is told that  *)
(* it did not start.  The code breaks this where it attaches to its own       *)
(* process (997), and where the probe of a process that could not be spawned  *)
(* is answered by another one (964-977).                                      *)
BridgeIsSupervised ==
    past.served => \/ manager.starting # "no" \/ manager.timer
                   \/ /\ manager.ready /\ manager.child # NoProcess
                      /\ process[manager.child] \in Living \union {"failed"}

(* A stop that meets no start in progress is final until the next start: no   *)
(* timer, recovery, late exit or answer brings the bridge back.  It is "an    *)
(* explicit stop wins the race" (agent-bridge-manager.test.ts:787) for all of *)
(* them.  A start in progress is not stopped: it is awaited by nobody, and if *)
(* it was the timer's, its failure schedules the next one (1056).             *)
StopSticks == past.sealed => manager.starting = "no" /\ ~manager.timer

(* Starts, recoveries and stops end, whatever the processes do.              *)
Calling == manager.starting # "no" \/ manager.recovery # "no" \/ manager.stop # "no"
BridgeCallsReturn == Calling ~> ~Calling
=============================================================================
