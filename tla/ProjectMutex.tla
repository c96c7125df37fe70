--------------------------- MODULE ProjectMutex ---------------------------
(*****************************************************************************)
(* The per-project mutex of the desktop application,                         *)
(* src/apps/llm-wiki/src/lib/project-mutex.ts: a chain of promises per       *)
(* project path.  Call number k installs its own promise in the map, waits   *)
(* for the promise it found there, runs its body and releases.  The promise  *)
(* in the map is prev.then(() => next): it is settled once the call's own    *)
(* promise and every earlier one of its chain are.                           *)
(*****************************************************************************)
EXTENDS Naturals, Sequences, FiniteSets

CONSTANTS LockPaths,  \* the project paths that are locked
          MapLimit,   \* entries above which a returning call drops one (1024)
          MaxCalls    \* bound: the number of calls

ASSUME MutexAssumption == /\ IsFiniteSet(LockPaths)
                          /\ MapLimit \in Nat
                          /\ MaxCalls \in Nat

VARIABLES locks,      \* locks[p]: the call whose promise is in the map, 0 if none
          calls       \* calls[k]: the k-th call of withProjectLock

mutexVars == <<locks, calls>>

NoCall == 0
Stages == {"waiting", "body", "dropping", "returned"}
Call == [path: LockPaths, prev: Nat, stage: Stages, tail: Nat]

\* await prev resolves: nothing was there, or the call found has released.
Settled(k) == k \notin {j \in DOMAIN calls: calls[j].stage \in {"waiting", "body"}}

MapSize == Cardinality({p \in LockPaths: locks[p] # NoCall})

MutexInit == /\ locks = [p \in LockPaths |-> NoCall]
             /\ calls = <<>>

NewCall(p) == [path |-> p, prev |-> locks[p], stage |-> "waiting", tail |-> NoCall]

\* Mutant: the entry in the map is left to be installed after the wait.
EnterLate(p) ==
    /\ Len(calls) < MaxCalls
    /\ calls' = Append(calls, NewCall(p))
    /\ UNCHANGED locks

\* Mutant: the promise is installed first and then read back as prev.
EnterReadsOwn(p) ==
    /\ Len(calls) < MaxCalls
    /\ calls' = Append(calls, [NewCall(p) EXCEPT !.prev = Len(calls) + 1])
    /\ locks' = [locks EXCEPT ![p] = Len(calls) + 1]

\* The call reads prev and installs its own promise before it awaits anything.
Enter(p) ==
    /\ Len(calls) < MaxCalls
    /\ calls' = Append(calls, NewCall(p))
    /\ locks' = [locks EXCEPT ![p] = Len(calls) + 1]

Start(k) ==
    /\ calls[k].stage = "waiting"
    /\ Settled(calls[k].prev)
    /\ calls' = [calls EXCEPT ![k].stage = "body"]
    /\ UNCHANGED locks

\* The body returns or throws: release().  locks.get(p) === next never holds,
\* the map has prev.then(() => next); so only a map over its limit makes the
\* call remember the entry it will drop a microtask later.
Release(k) ==
    /\ calls[k].stage = "body"
    /\ LET tail == locks[calls[k].path] IN
       calls' = IF MapSize > MapLimit /\ tail # NoCall
                  THEN [calls EXCEPT ![k].stage = "dropping", ![k].tail = tail]
                  ELSE [calls EXCEPT ![k].stage = "returned"]
    /\ UNCHANGED locks

\* The deferred microtask: the entry goes if nobody chained on in between.
Drop(k) ==
    /\ calls[k].stage = "dropping"
    /\ locks' = [p \in LockPaths |->
                   IF p = calls[k].path /\ locks[p] = calls[k].tail
                     THEN NoCall ELSE locks[p]]
    /\ calls' = [calls EXCEPT ![k].stage = "returned"]

\* What the event loop does by itself, a body being an ingest that ends.
Advance == \E k \in DOMAIN calls: Start(k) \/ Release(k) \/ Drop(k)

MutexNext == (\E p \in LockPaths: Enter(p)) \/ Advance

MutexSpec == MutexInit /\ [][MutexNext]_mutexVars
-----------------------------------------------------------------------------
MutexTypeOK == /\ locks \in [LockPaths -> Nat]
               /\ calls \in Seq(Call)

(* "If two ingests run concurrently for the SAME project ... whichever       *)
(* finishes second silently overwrites the first" (project-mutex.ts:4-12):   *)
(* the bodies of two calls for a project never overlap, unless a call for    *)
(* that project found the map over its limit and dropped the entry of those  *)
(* still waiting (57-71).                                                    *)
BodiesTakeTurns ==
    \A j, k \in DOMAIN calls:
        /\ j # k
        /\ calls[j].path = calls[k].path
        /\ calls[j].stage = "body"
        /\ calls[k].stage = "body"
        => \E i \in DOMAIN calls: calls[i].path = calls[k].path /\ calls[i].tail # NoCall

(* A call that waits gets its turn, whatever the calls before it did: the    *)
(* release is in a finally and prev's rejection is swallowed (48-54).        *)
EveryCallReturns ==
    \A k \in 1..MaxCalls:
        (k \in DOMAIN calls) ~> (k \in DOMAIN calls /\ calls[k].stage = "returned")
===========================================================================
