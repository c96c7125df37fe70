---------------------------- MODULE DesktopProofs ----------------------------
(***************************************************************************)
(* The ingest queue of the desktop application and its project mutex, for  *)
(* every number of projects, files, tasks, invocations and calls.          *)
(***************************************************************************)
EXTENDS MCDesktop, SubsequenceProofs

-----------------------------------------------------------------------------
(* ProjectMutex: the chain of promises. *)

\* The calls for p of which one has dropped, or will drop, the entry in the map.
HasDropped(p) == \E i \in DOMAIN calls : calls[i].path = p /\ calls[i].tail # NoCall

Over(k) == calls[k].stage \notin {"waiting", "body"}

\* A call that drops an entry remembers which.
DropInv == \A k \in DOMAIN calls : calls[k].stage = "dropping" => calls[k].tail # NoCall

\* The place of call k in the chain of p.
Chained(p, k) ==
    /\ k <= locks[p]
    /\ \A j \in DOMAIN calls : calls[j].path = p /\ j < k =>
          /\ j <= calls[k].prev
          /\ calls[k].stage # "waiting" => Over(j)
    /\ calls[k].prev # NoCall => calls[k].prev \in DOMAIN calls /\ calls[calls[k].prev].path = p

\* As long as no entry is dropped the map has the last call for each project, each
\* call waits for the last one before it, and one that has begun for all before it.
ChainInv ==
    \A p \in LockPaths : ~HasDropped(p) =>
        \A k \in DOMAIN calls : calls[k].path = p => Chained(p, k)

MapInv ==
    \A p \in LockPaths : ~HasDropped(p) /\ locks[p] # NoCall =>
        locks[p] \in DOMAIN calls /\ calls[locks[p]].path = p

MutexInv == MutexTypeOK /\ DropInv /\ ChainInv /\ MapInv

\* What a step changes of the call it is a step of.
LEMMA CallMoves ==
    ASSUME MutexTypeOK, NEW k \in DOMAIN calls, NEW c \in Call, calls' = [calls EXCEPT ![k] = c]
    PROVE  /\ calls' \in Seq(Call) /\ DOMAIN calls' = DOMAIN calls
           /\ \A i \in DOMAIN calls : calls'[i] = IF i = k THEN c ELSE calls[i]
<1>1. calls \in Seq(Call)
  BY DEF MutexTypeOK
<1> QED BY <1>1, ExceptSeq

\* A call comes: it waits for the one in the map, which is the last one.
LEMMA EnterInv ==
    ASSUME MutexInv, NEW p \in LockPaths, Enter(p)
    PROVE  MutexInv'
<1>1. locks \in [LockPaths -> Nat] /\ calls \in Seq(Call)
  BY DEF MutexInv, MutexTypeOK
<1>2. PICK c \in Call : c = NewCall(p)
  BY <1>1 DEF Call, NewCall, Stages, NoCall
<1>3. c.path = p /\ c.prev = locks[p] /\ c.stage = "waiting" /\ c.tail = NoCall
  BY <1>2 DEF NewCall
<1>4. calls' = Append(calls, c) /\ locks' = [locks EXCEPT ![p] = Len(calls) + 1]
  BY <1>2 DEF Enter
<1>5. /\ calls' \in Seq(Call) /\ Len(calls) \in Nat /\ DOMAIN calls = 1..Len(calls)
      /\ DOMAIN calls' = 1..(Len(calls) + 1) /\ calls'[Len(calls) + 1] = c
      /\ \A i \in DOMAIN calls : calls'[i] = calls[i]
  BY <1>1, <1>4, AppendProperties
<1>6. /\ locks' \in [LockPaths -> Nat]
      /\ \A q \in LockPaths : locks'[q] = IF q = p THEN Len(calls) + 1 ELSE locks[q]
  BY <1>1, <1>4, <1>5
<1>7. \A q : HasDropped(q)' <=> HasDropped(q)
  BY <1>3, <1>5 DEF HasDropped
<1>8. DropInv'
  BY <1>3, <1>5 DEF MutexInv, DropInv
<1>9. MapInv'
  BY <1>3, <1>5, <1>6, <1>7 DEF MutexInv, MapInv
<1>10. ChainInv'
  <2> SUFFICES ASSUME NEW q \in LockPaths, ~HasDropped(q), NEW k \in DOMAIN calls', calls'[k].path = q
               PROVE  Chained(q, k)'
    BY <1>7 DEF ChainInv
  <2>1. CASE k = Len(calls) + 1
    <3>1. q = p /\ calls'[k] = c
      BY <1>3, <1>5, <2>1
    <3>2. \A j \in DOMAIN calls : calls[j].path = p => j <= locks[p]
      BY <3>1 DEF MutexInv, ChainInv, Chained
    <3>3. locks[p] # NoCall => locks[p] \in DOMAIN calls /\ calls[locks[p]].path = p
      BY <3>1 DEF MutexInv, MapInv
    <3> QED BY <1>3, <1>5, <1>6, <2>1, <3>1, <3>2, <3>3 DEF Chained
  <2>2. CASE k \in DOMAIN calls
    <3>0. calls[k] \in Call /\ calls'[k] = calls[k]
      BY <1>1, <1>5, <2>2
    <3>1. calls[k].path = q /\ calls[k].prev \in Nat /\ k <= Len(calls)
      BY <1>5, <2>2, <3>0 DEF Call
    <3>2. Chained(q, k)
      BY <2>2, <3>1 DEF MutexInv, ChainInv
    <3> QED BY <1>5, <1>6, <2>2, <3>1, <3>2 DEF Chained, Over
  <2> QED BY <1>5, <2>1, <2>2
<1> QED BY <1>5, <1>6, <1>8, <1>9, <1>10 DEF MutexInv, MutexTypeOK

\* A call gets its turn: the one it waited for is over, and so are all before that.
LEMMA StartInv ==
    ASSUME MutexInv, NEW k \in DOMAIN calls, Start(k)
    PROVE  MutexInv'
<1>1. locks \in [LockPaths -> Nat] /\ calls \in Seq(Call) /\ calls[k] \in Call
  BY DEF MutexInv, MutexTypeOK
<1>2. PICK c \in Call : calls' = [calls EXCEPT ![k] = c] /\ c = [calls[k] EXCEPT !.stage = "body"]
  <2> DEFINE new == [calls[k] EXCEPT !.stage = "body"]
  <2>1. new \in Call
    BY <1>1 DEF Call, Stages
  <2> QED BY <2>1 DEF Start
<1>3. c.path = calls[k].path /\ c.prev = calls[k].prev /\ c.stage = "body" /\ c.tail = calls[k].tail
  BY <1>1, <1>2 DEF Call
<1>4. locks' = locks /\ calls[k].stage = "waiting" /\ Settled(calls[k].prev)
  BY DEF Start
<1>5. /\ calls' \in Seq(Call) /\ DOMAIN calls' = DOMAIN calls /\ DOMAIN calls \subseteq Nat
      /\ \A i \in DOMAIN calls : calls'[i] = IF i = k THEN c ELSE calls[i]
  BY <1>1, <1>2, CallMoves DEF MutexInv
<1>6. \A q : HasDropped(q)' <=> HasDropped(q)
  BY <1>3, <1>5 DEF HasDropped
<1>7. DropInv' /\ MapInv'
  BY <1>3, <1>4, <1>5, <1>6 DEF MutexInv, DropInv, MapInv
<1>8. ASSUME NEW j \in DOMAIN calls, calls[j].path = calls[k].path, j < k, ~HasDropped(calls[k].path)
      PROVE  Over(j)
  <2> DEFINE m == calls[k].prev
  <2>1. calls[k].path \in LockPaths /\ m \in Nat /\ j \in Nat /\ k \in Nat /\ j > 0
    BY <1>1, <1>5 DEF Call
  <2>2. Chained(calls[k].path, k)
    BY <1>8, <2>1 DEF MutexInv, ChainInv
  <2>3. j <= m /\ m # NoCall /\ m \in DOMAIN calls /\ calls[m].path = calls[k].path
    BY <1>8, <2>1, <2>2 DEF Chained, NoCall
  <2>4. Chained(calls[k].path, m)
    BY <1>8, <2>1, <2>3 DEF MutexInv, ChainInv
  <2>5. Over(m) /\ calls[m].stage # "waiting"
    BY <1>4, <2>3 DEF Settled, Over
  <2>6. CASE j = m
    BY <2>5, <2>6
  <2>7. CASE j < m
    BY <1>8, <2>5, <2>7, <2>4 DEF Chained
  <2> QED BY <2>1, <2>3, <2>6, <2>7
<1>9. ChainInv'
  <2> SUFFICES ASSUME NEW p \in LockPaths, ~HasDropped(p), NEW i \in DOMAIN calls, calls[i].path = p
               PROVE  Chained(p, i)'
    BY <1>3, <1>5, <1>6 DEF ChainInv
  <2>1. Chained(p, i)
    BY DEF MutexInv, ChainInv
  <2> QED BY <1>3, <1>4, <1>5, <1>8, <2>1 DEF Chained, Over
<1> QED BY <1>1, <1>4, <1>5, <1>7, <1>9 DEF MutexInv, MutexTypeOK

\* A call releases, or drops an entry and is one that has dropped.
LEMMA LeavesInv ==
    ASSUME MutexInv, NEW k \in DOMAIN calls, Release(k) \/ Drop(k)
    PROVE  MutexInv'
<1>1. locks \in [LockPaths -> Nat] /\ calls \in Seq(Call) /\ calls[k] \in Call
  BY DEF MutexInv, MutexTypeOK
<1>2. PICK c \in Call : /\ calls' = [calls EXCEPT ![k] = c]
                        /\ c.path = calls[k].path /\ c.prev = calls[k].prev
                        /\ c.stage \in {"dropping", "returned"}
                        /\ calls[k].tail # NoCall \/ c.stage = "dropping" => c.tail # NoCall
                        /\ Drop(k) => c.tail # NoCall
  <2> DEFINE drops == [calls[k] EXCEPT !.stage = "dropping", !.tail = locks[calls[k].path]]
             returns == [calls[k] EXCEPT !.stage = "returned"]
  <2>1. drops \in Call /\ returns \in Call
    BY <1>1 DEF Call, Stages
  <2>2. CASE Release(k) /\ calls' = [calls EXCEPT ![k] = drops] /\ locks[calls[k].path] # NoCall
    BY <1>1, <2>1, <2>2 DEF Call, Release, Drop
  <2>3. CASE calls' = [calls EXCEPT ![k] = returns] /\ (Drop(k) => calls[k].tail # NoCall)
    BY <1>1, <2>1, <2>3 DEF Call
  <2> QED BY <2>2, <2>3 DEF Release, Drop, MutexInv, DropInv
<1>3. /\ calls[k].stage \in {"body", "dropping"}
      /\ locks' \in [LockPaths -> Nat]
      /\ \A q \in LockPaths : locks'[q] = locks[q] \/ (q = calls[k].path /\ Drop(k))
  BY <1>1 DEF Release, Drop, NoCall
<1>4. /\ calls' \in Seq(Call) /\ DOMAIN calls' = DOMAIN calls /\ DOMAIN calls \subseteq Nat
      /\ \A i \in DOMAIN calls : calls'[i] = IF i = k THEN c ELSE calls[i]
  BY <1>1, <1>2, CallMoves DEF MutexInv
<1>5. /\ \A q : HasDropped(q) => HasDropped(q)'
      /\ \A q : q = calls[k].path /\ Drop(k) => HasDropped(q)'
  BY <1>2, <1>4 DEF HasDropped
<1>6. DropInv' /\ MapInv'
  BY <1>2, <1>3, <1>4, <1>5 DEF MutexInv, DropInv, MapInv
<1>7. ChainInv'
  <2> SUFFICES ASSUME NEW p \in LockPaths, ~HasDropped(p), ~HasDropped(p)',
                      NEW i \in DOMAIN calls, calls[i].path = p
               PROVE  Chained(p, i)'
    BY <1>2, <1>4, <1>5 DEF ChainInv
  <2>1. Chained(p, i)
    BY DEF MutexInv, ChainInv
  <2>2. locks'[p] = locks[p]
    BY <1>3, <1>5
  <2> QED BY <1>2, <1>3, <1>4, <2>1, <2>2 DEF Chained, Over
<1> QED BY <1>3, <1>4, <1>6, <1>7 DEF MutexInv, MutexTypeOK

\* Every step keeps the invariant.
LEMMA MutexNextInv == MutexInv /\ [MutexNext]_mutexVars => MutexInv'
<1>1. MutexInv /\ UNCHANGED mutexVars => MutexInv'
  BY DEF mutexVars, MutexInv, MutexTypeOK, DropInv, ChainInv, Chained, MapInv, HasDropped, Over
<1> QED BY <1>1, EnterInv, StartInv, LeavesInv DEF MutexNext, Advance

\* What the theorems about the mutex rest on.
LEMMA MutexSpecInv == MutexSpec => []MutexInv
<1>1. MutexInit => MutexInv
  BY DEF MutexInit, MutexInv, MutexTypeOK, DropInv, ChainInv, Chained, MapInv, HasDropped, NoCall
<1> QED BY <1>1, MutexNextInv, PTL DEF MutexSpec

\* The map and the calls of project-mutex.ts keep their types, for every number of
\* calls and projects.
THEOREM MutexTypeCorrect == MutexSpec => []MutexTypeOK
BY MutexSpecInv, PTL DEF MutexInv

\* Two calls for a project never run their bodies at once, as long as no call for it
\* has dropped the entry in the map: withProjectLock chains them, however many there are.
THEOREM OneBodyAtATime == MutexSpec => []BodiesTakeTurns
<1>1. MutexInv => BodiesTakeTurns
  <2> SUFFICES ASSUME MutexInv, NEW j \in DOMAIN calls, NEW k \in DOMAIN calls, j # k,
                      calls[j].path = calls[k].path,
                      calls[j].stage = "body", calls[k].stage = "body",
                      ~HasDropped(calls[k].path)
               PROVE  FALSE
    BY DEF BodiesTakeTurns, HasDropped
  <2>1. calls \in Seq(Call)
    BY DEF MutexInv, MutexTypeOK
  <2>2. j \in Nat /\ k \in Nat /\ calls[k] \in Call
    BY <2>1
  <2>3. Chained(calls[k].path, j) /\ Chained(calls[k].path, k)
    BY <2>2 DEF MutexInv, ChainInv, Call
  <2> QED BY <2>2, <2>3 DEF Chained, Over
<1> QED BY <1>1, MutexSpecInv, PTL

-----------------------------------------------------------------------------
(* DesktopIngestQueue: the tasks, the invocations and the files. *)

Working == {"starting", "queued", "ingesting"}

\* x is working on the task id of the project p, the open one.
Owns(x, id, p) == x.at \in Working /\ x.own /\ x.task = id /\ x.proj = p

\* x will reset the flag of the project p, the open one.
Resets(x, p) == x.at \in Active /\ x.proj = p

\* The ids of q are those of the first n tasks made, each at most once.
Distinct(q, n) == \A i, j \in DOMAIN q : /\ q[i].id <= n
                                         /\ q[i].id = q[j].id => i = j

PlaceInv == IF switch = "closed" THEN current = NoProject /\ queue = <<>> ELSE current \in Projects

IdInv == /\ Distinct(queue, made) /\ Distinct(loaded, made)
         /\ \A p \in Projects : Distinct(disk[p], made)

\* The file of the open project is the queue in memory, but for one still to be loaded.
SavedInv ==
    /\ switch \in {"ready", "flushing"} => disk[current] = queue
    /\ switch = "loading" => queue = <<>> \/ disk[current] = queue
    /\ switch = "loaded" /\ loaded = <<>> => disk[current] = queue

Placed(x) == x.at \notin {"idle", "kick", "cancelling", "clearing"} => x.proj \in Projects

RunInv == \A r \in Runs : Placed(run[r])

LineInv ==
    \A r \in Runs :
        /\ run[r].at \in {"queued", "ingesting"} =>
              \E n \in DOMAIN line[run[r].proj] : line[run[r].proj][n] = r
        /\ run[r].at = "ingesting" => line[run[r].proj][1] = r

FlagInv ==
    processing /\ switch \in {"loading", "loaded", "ready"} => \E r \in Runs : Resets(run[r], current)

OwnInv ==
    \A i \in DOMAIN queue : queue[i].status = "processing" =>
        \E r \in Runs : Owns(run[r], queue[i].id, current)

Flags == processing \in BOOLEAN /\ paused \in BOOLEAN /\ written \in BOOLEAN

Rest ==
    /\ queue \in Seq(Task) /\ loaded \in Seq(Task) /\ disk \in [Projects -> Seq(Task)]
    /\ restored \subseteq Ids
    /\ current \in Projects \cup {NoProject} /\ timer \in Projects \cup {NoProject}
    /\ run \in [Runs -> Run] /\ line \in [Projects -> Seq(Runs)]
    /\ switch \in {"closed", "loading", "loaded", "ready", "flushing"}
    /\ made \in 0..MaxTasks /\ ops \in 0..MaxOps

QueueInv == /\ QueueTypeOK /\ PlaceInv /\ IdInv /\ SavedInv
            /\ RunInv /\ LineInv /\ FlagInv /\ OwnInv

\* The type of the queue is that of its flags and that of the rest, before and after a
\* step: the provers take the two apart.
LEMMA QueueTypes == (QueueTypeOK <=> Flags /\ Rest) /\ (QueueTypeOK' <=> Flags' /\ Rest')
BY Zenon DEF QueueTypeOK, Flags, Rest

\* An invocation that is free is found.
LEMMA FreeRunIsFree ==
    ASSUME SomeRunIsFree
    PROVE  FreeRun \in Runs /\ run[FreeRun] = Idle
<1> DEFINE free == {r \in Runs : run[r] = Idle}
<1>1. free \in SUBSET Nat /\ free # {}
  BY DEF SomeRunIsFree, Runs
<1>2. \E m \in free : \A s \in free : m <= s
  BY <1>1, LeastNumber
<1> QED BY <1>2 DEF FreeRun

\* An invocation that is not in use, and one that only waits to call processNext.
LEMMA IdleRuns ==
    /\ Idle \in Run /\ ~Resets(Idle, current) /\ \A id : ~Owns(Idle, id, current)
    /\ \A point \in Points : /\ [Idle EXCEPT !.at = point] \in Run
                             /\ [Idle EXCEPT !.at = point].at = point
                             /\ [Idle EXCEPT !.at = point].proj = NoProject
BY DEF Idle, Run, Points, Resets, Owns, Active, Working

\* One invocation moves; the queue may change, and is saved then.
LEMMA QueueMoves ==
    ASSUME QueueInv, NEW r \in Runs, NEW x \in Run, run' = [run EXCEPT ![r] = x],
           UNCHANGED <<current, switch, loaded>>,
           queue' \in Seq(Task), Distinct(queue', made'),
           made' \in 0..MaxTasks, made <= made', ops' \in 0..MaxOps, restored' \subseteq Ids,
           Flags', timer' \in Projects \cup {NoProject},
           line' \in [Projects -> Seq(Runs)], LineInv', Placed(x),
           NEW p \in Projects \cup {NoProject},
           \/ queue' = queue /\ disk' = disk
           \/ Save(p, queue') /\ (p # current => queue' = queue),
           switch = "closed" => queue' = queue,
           processing' => Resets(x, current) \/ (processing /\ ~Resets(run[r], current)),
           \A i \in DOMAIN queue' : queue'[i].status = "processing" =>
              \/ Owns(x, queue'[i].id, current)
              \/ \E j \in DOMAIN queue : queue[j] = queue'[i] /\ ~Owns(run[r], queue[j].id, current)
    PROVE  QueueInv'
<1>1. Flags /\ Rest
  BY QueueTypes DEF QueueInv
<1>2. \A s \in Runs : run'[s] = IF s = r THEN x ELSE run[s]
  BY <1>1 DEF Rest
<1>3. /\ disk' \in [Projects -> Seq(Task)]
      /\ \A q \in Projects : disk'[q] = disk[q] \/ (q = p /\ disk'[q] = queue')
      /\ current \in Projects => \/ disk'[current] = queue'
                                 \/ queue' = queue /\ disk'[current] = disk[current]
  BY <1>1, QueueAssumption DEF Save, Rest
<1>4. QueueTypeOK'
  <2>1. Rest'
    BY <1>1, <1>3 DEF Rest
  <2> QED BY <2>1, QueueTypes
<1>5. PlaceInv'
  BY DEF QueueInv, PlaceInv
<1>6. IdInv'
  <2>1. ASSUME NEW q \in Seq(Task), Distinct(q, made) PROVE Distinct(q, made')
    <3>1. \A i \in DOMAIN q : q[i] \in Task
      OBVIOUS
    <3>2. \A i \in DOMAIN q : q[i].id \in Nat
      BY <3>1 DEF Task, Ids
    <3>3. made \in Nat /\ made' \in Nat
      BY <1>1 DEF Rest
    <3> QED BY <2>1, <3>2, <3>3 DEF Distinct
  <2>2. Distinct(loaded, made')
    BY <1>1, <2>1 DEF QueueInv, IdInv, Rest
  <2>3. \A q \in Projects : Distinct(disk'[q], made')
    <3> SUFFICES ASSUME NEW q \in Projects PROVE Distinct(disk'[q], made')
      OBVIOUS
    <3>1. disk[q] \in Seq(Task) /\ Distinct(disk[q], made)
      BY <1>1 DEF QueueInv, IdInv, Rest
    <3> QED BY <1>3, <2>1, <3>1
  <2> QED BY <2>2, <2>3 DEF IdInv
<1>7. SavedInv'
  BY <1>3 DEF QueueInv, PlaceInv, SavedInv
<1>8. RunInv'
  BY <1>2 DEF QueueInv, RunInv, Placed
<1>9. FlagInv'
  BY <1>2 DEF QueueInv, FlagInv, Resets
<1>10. OwnInv'
  <2> SUFFICES ASSUME NEW i \in DOMAIN queue', queue'[i].status = "processing"
               PROVE  \E s \in Runs : Owns(run'[s], queue'[i].id, current)
    BY DEF OwnInv
  <2>1. CASE Owns(x, queue'[i].id, current)
    BY <1>2, <2>1 DEF Owns
  <2>2. CASE \E j \in DOMAIN queue : queue[j] = queue'[i] /\ ~Owns(run[r], queue[j].id, current)
    <3>1. PICK j \in DOMAIN queue : queue[j] = queue'[i] /\ ~Owns(run[r], queue[j].id, current)
      BY <2>2
    <3>2. PICK s \in Runs : Owns(run[s], queue[j].id, current)
      BY <3>1 DEF QueueInv, OwnInv
    <3>3. s # r /\ run'[s] = run[s]
      BY <1>2, <3>1, <3>2
    <3> QED BY <3>1, <3>2, <3>3 DEF Owns
  <2> QED BY <2>1, <2>2
<1> QED BY <1>4, <1>5, <1>6, <1>7, <1>8, <1>9, <1>10 DEF QueueInv

\* Who waits for a mutex is untouched by a step of another invocation.
LEMMA LineStays ==
    ASSUME QueueInv, NEW r \in Runs, NEW x \in Run, run' = [run EXCEPT ![r] = x],
           line' = line, x.at \notin {"queued", "ingesting"}
    PROVE  LineInv' /\ line' \in [Projects -> Seq(Runs)]
<1>1. Flags /\ Rest
  BY QueueTypes DEF QueueInv
<1>2. \A s \in Runs : run'[s] = IF s = r THEN x ELSE run[s]
  BY <1>1 DEF Rest
<1> QED BY <1>1, <1>2 DEF QueueInv, LineInv, Rest

\* What is kept of the queue: its tasks at the places in K.
LEMMA KeptTasks ==
    ASSUME NEW q \in Seq(Task), NEW m, Distinct(q, m), NEW K \in SUBSET (DOMAIN q)
    PROVE  /\ Kept(q, K) \in Seq(Task) /\ Distinct(Kept(q, K), m)
           /\ \A n \in DOMAIN Kept(q, K) : \E j \in K : Kept(q, K)[n] = q[j]
           /\ \A j \in K : \E n \in DOMAIN Kept(q, K) : Kept(q, K)[n] = q[j]
           /\ q = <<>> => Kept(q, K) = <<>>
<1>1. Kept(q, K) \in Seq(Task)
  BY KeptFacts
<1>2. PICK place1 \in [DOMAIN Kept(q, K) -> K] :
          /\ \A n \in DOMAIN Kept(q, K) : Kept(q, K)[n] = q[place1[n]]
          /\ \A a, b \in DOMAIN Kept(q, K) : place1[a] = place1[b] => a = b
          /\ \A i \in K : \E n \in DOMAIN Kept(q, K) : place1[n] = i
  BY KeptFacts
<1>3. \A n \in DOMAIN Kept(q, K) : place1[n] \in K /\ place1[n] \in DOMAIN q
  BY <1>2
<1>4. Distinct(Kept(q, K), m)
  BY <1>2, <1>3 DEF Distinct
<1>5. q = <<>> => Kept(q, K) = <<>>
  BY <1>1, <1>3
<1> QED BY <1>1, <1>2, <1>3, <1>4, <1>5

\* Tasks that keep their id are still distinct.
LEMMA EditedTasks ==
    ASSUME NEW q \in Seq(Task), NEW m, Distinct(q, m), NEW f, DOMAIN f = DOMAIN q,
           f = [i \in DOMAIN q |-> f[i]],
           \A i \in DOMAIN q : f[i] \in Task /\ f[i].id = q[i].id
    PROVE  f \in Seq(Task) /\ Distinct(f, m) /\ (q = <<>> => f = <<>>)
<1>1. f \in [DOMAIN q -> Task]
  OBVIOUS
<1>2. f \in Seq(Task)
  BY <1>1, MappedFacts
<1>3. Distinct(f, m)
  BY DEF Distinct
<1> QED BY <1>1, <1>2, <1>3

\* An assignment to the task object of an invocation.
LEMMA AssignFacts ==
    ASSUME QueueInv, NEW r \in Runs, NEW s \in Statuses, NEW n \in Nat
    PROVE  /\ Assign(r, s, n) \in Seq(Task) /\ Distinct(Assign(r, s, n), made)
           /\ DOMAIN Assign(r, s, n) = DOMAIN queue
           /\ queue = <<>> => Assign(r, s, n) = <<>>
           /\ \A i \in DOMAIN queue :
                IF queue[i].id = run[r].task /\ run[r].own
                  THEN /\ Assign(r, s, n)[i].status = s
                       /\ Assign(r, s, n)[i].id = queue[i].id
                  ELSE Assign(r, s, n)[i] = queue[i]
<1>1. queue \in Seq(Task) /\ Distinct(queue, made)
  BY QueueTypes DEF QueueInv, Rest, IdInv
<1>2. ASSUME NEW i \in DOMAIN queue PROVE queue[i] \in Task /\ queue[i].tries + n \in Nat
  <2>1. queue[i] \in Task
    BY <1>1
  <2> QED BY <2>1 DEF Task
<1> DEFINE f == Assign(r, s, n)
<1>3. DOMAIN f = DOMAIN queue
  BY DEF Assign
<1>4. \A i \in DOMAIN queue :
          IF queue[i].id = run[r].task /\ run[r].own
            THEN f[i] = [queue[i] EXCEPT !.status = s, !.tries = queue[i].tries + n]
            ELSE f[i] = queue[i]
  BY DEF Assign
<1>5. f = [i \in DOMAIN queue |-> f[i]]
  BY DEF Assign
<1> HIDE DEF f
<1>6. ASSUME NEW i \in DOMAIN queue
      PROVE  /\ f[i] \in Task /\ f[i].id = queue[i].id
             /\ IF queue[i].id = run[r].task /\ run[r].own
                  THEN f[i].status = s ELSE f[i] = queue[i]
  <2>1. CASE queue[i].id = run[r].task /\ run[r].own
    <3>1. PICK u \in Nat : u = queue[i].tries + n
      BY <1>2
    <3>2. f[i] = [queue[i] EXCEPT !.status = s, !.tries = u]
      BY <1>4, <2>1, <3>1
    <3>3. LET t == [queue[i] EXCEPT !.status = s, !.tries = u]
          IN t \in Task /\ t.id = queue[i].id /\ t.status = s
      BY <1>2 DEF Task
    <3> QED BY <2>1, <3>2, <3>3
  <2>2. CASE ~(queue[i].id = run[r].task /\ run[r].own)
    BY <1>2, <1>4, <2>2
  <2> QED BY <2>1, <2>2
<1>7. f \in Seq(Task) /\ Distinct(f, made) /\ (queue = <<>> => f = <<>>)
  BY <1>1, <1>3, <1>5, <1>6, EditedTasks
<1> QED BY <1>3, <1>6, <1>7 DEF f

\* processNext goes on to await the registry, or ends.
LEMMA ProcessNextFacts ==
    ASSUME QueueInv, NEW r \in Runs, NEW p \in Projects \cup {NoProject},
           NEW busy, NEW stop, NEW back, ProcessNext(r, p, queue, busy, stop, back)
    PROVE  /\ paused' \in BOOLEAN
           /\ \E x \in Run : /\ run' = [run EXCEPT ![r] = x]
                             /\ x.at \in {"idle", "registry"} /\ Placed(x)
<1>1. queue \in Seq(Task)
  BY QueueTypes DEF QueueInv, Rest
<1>2. paused' \in BOOLEAN
  BY Zenon DEF ProcessNext
<1> DEFINE ready == Eligible(queue, p, back)
           head == [at |-> "registry", proj |-> p, task |-> queue[FirstOf(ready)].id, own |-> TRUE]
<1>3. CASE ready # {} /\ run' = [run EXCEPT ![r] = head]
  <2>1. DOMAIN queue \in SUBSET Nat
    BY <1>1
  <2>2. FirstOf(ready) \in ready
    BY <1>3, <2>1, FirstIsOne DEF Eligible
  <2>3. PICK i \in DOMAIN queue : i = FirstOf(ready) /\ queue[i].proj = p
    BY <2>2 DEF Eligible
  <2>4. p \in Projects /\ queue[i].id \in Ids
    <3>1. queue[i] \in Task
      BY <1>1, <2>3
    <3> QED BY <2>3, <3>1 DEF Task
  <2>5. head \in Run /\ head.at = "registry" /\ head.proj = p
    BY <2>3, <2>4 DEF Run, Points
  <2> HIDE DEF head
  <2> QED BY <1>2, <1>3, <2>4, <2>5 DEF Placed
<1>4. CASE run' = [run EXCEPT ![r] = Idle]
  BY <1>2, <1>4, IdleRuns DEF Idle, Placed
<1> QED BY <1>3, <1>4 DEF ProcessNext

\* A step of an invocation that has no task in hand, before and after.
LEMMA QuietMoves ==
    ASSUME QueueInv, NEW r \in Runs, NEW x \in Run, run' = [run EXCEPT ![r] = x],
           Placed(x), x.at \notin Working, run[r].at \notin Working,
           UNCHANGED <<queue, line, place, made>>,
           ops' \in 0..MaxOps, restored' \subseteq Ids,
           Flags', timer' \in Projects \cup {NoProject},
           NEW p \in Projects \cup {NoProject}, disk' = disk \/ Save(p, queue),
           processing' => Resets(x, current) \/ (processing /\ run[r].at \notin Active)
    PROVE  QueueInv'
<1>1. queue \in Seq(Task) /\ Distinct(queue, made) /\ made \in 0..MaxTasks /\ line \in [Projects -> Seq(Runs)]
  BY QueueTypes DEF QueueInv, Rest, IdInv
<1>2. LineInv'
  BY LineStays DEF Working
<1>3. made <= made'
  BY <1>1
<1>4. processing' => Resets(x, current) \/ (processing /\ ~Resets(run[r], current))
  BY Zenon DEF Resets
<1>5. disk' = disk \/ Save(p, queue')
  BY DEF Save
<1>6. \A i \in DOMAIN queue' : queue'[i].status = "processing" =>
          \E j \in DOMAIN queue : queue[j] = queue'[i] /\ ~Owns(run[r], queue[j].id, current)
  BY DEF Owns
<1> QED BY <1>1, <1>2, <1>3, <1>4, <1>5, <1>6, QueueMoves DEF place

\* The fields a step reads and does not change.
LEMMA QueueFacts ==
    ASSUME QueueInv
    PROVE  /\ queue \in Seq(Task) /\ Distinct(queue, made)
           /\ current \in Projects \cup {NoProject} /\ timer \in Projects \cup {NoProject}
           /\ run \in [Runs -> Run] /\ line \in [Projects -> Seq(Runs)]
           /\ disk \in [Projects -> Seq(Task)]
           /\ made \in 0..MaxTasks /\ ops \in 0..MaxOps /\ restored \subseteq Ids
           /\ Runs # {} /\ NoProject \notin Projects
           /\ \A r \in Runs : /\ Placed(run[r]) /\ run[r] \in Run
                              /\ run[r].proj \in Projects \cup {NoProject}
           /\ switch = "closed" => current = NoProject /\ queue = <<>>
           /\ switch # "closed" => current \in Projects
<1>1. Runs # {}
  BY QueueAssumption DEF Runs
<1>2. \A r \in Runs : run[r] \in Run
  BY QueueTypes DEF QueueInv, Rest
<1>3. \A r \in Runs : run[r].proj \in Projects \cup {NoProject}
  BY <1>2 DEF Run
<1> QED BY <1>1, <1>2, <1>3, QueueTypes, QueueAssumption DEF QueueInv, Rest, IdInv, RunInv, PlaceInv

\* The flags have their types.
LEMMA FlagTypes == QueueInv => Flags
BY QueueTypes DEF QueueInv

\* The operations done are counted up to their bound.
LEMMA OperationTypes == QueueInv /\ Operation => ops' \in 0..MaxOps
BY QueueFacts, QueueAssumption DEF Operation

\* An invocation calls processNext.
LEMMA CallInv ==
    ASSUME QueueInv, NEW r \in Runs, run[r].at \notin Working,
           NEW p \in Projects \cup {NoProject}, NEW busy, NEW stop, NEW back,
           ProcessNext(r, p, queue, busy, stop, back),
           UNCHANGED <<queue, written, disk, line, place, made>>,
           timer' \in Projects \cup {NoProject}, restored' \subseteq Ids, ops' \in 0..MaxOps,
           processing' \in BOOLEAN, processing' => processing /\ run[r].at \notin Active
    PROVE  QueueInv'
<1>1. paused' \in BOOLEAN
  BY ProcessNextFacts
<1>2. PICK x \in Run : /\ run' = [run EXCEPT ![r] = x]
                       /\ x.at \in {"idle", "registry"} /\ Placed(x)
  BY ProcessNextFacts
<1>3. Flags'
  BY <1>1, FlagTypes, Zenon DEF Flags
<1>4. x.at \notin Working
  BY <1>2 DEF Working
<1> QED BY <1>2, <1>3, <1>4, QuietMoves

\* An operation has saved, and calls processNext for the open project.
LEMMA KickInv == ASSUME QueueInv, NEW r \in Runs, Kick(r) PROVE QueueInv'
<1>1. run[r].at \notin Working /\ run[r].at \notin Active
  BY DEF Kick, Working, Active
<1>2. processing' = processing /\ processing \in BOOLEAN
  BY FlagTypes, Zenon DEF Kick, Flags
<1> QED BY <1>1, <1>2, QueueFacts, CallInv DEF Kick

\* A task has failed for want of a project or an LLM, and the next is taken.
LEMMA AgainInv == ASSUME QueueInv, NEW r \in Runs, Again(r) PROVE QueueInv'
<1>1. run[r].at \notin Working /\ run[r].at \notin Active
  BY DEF Again, Working, Active
<1>2. processing' \in BOOLEAN /\ (processing' => processing /\ run[r].at \notin Active)
  BY <1>1, FlagTypes, Zenon DEF Again, Flags
<1>3. /\ UNCHANGED <<queue, written, disk, line, place, made>>
      /\ timer' \in Projects \cup {NoProject} /\ restored' \subseteq Ids /\ ops' \in 0..MaxOps
      /\ run[r].proj \in Projects \cup {NoProject}
  BY QueueFacts DEF Again
<1> QED BY <1>1, <1>2, <1>3, CallInv DEF Again

\* A task has ended, the flag falls and the next task is taken.
LEMMA FinishingInv == ASSUME QueueInv, NEW r \in Runs, Finishing(r) PROVE QueueInv'
<1>1. run[r].at \notin Working
  BY DEF Finishing, Working
<1>2. processing' \in BOOLEAN /\ (processing' => processing /\ run[r].at \notin Active)
  BY Zenon DEF Finishing
<1>3. /\ UNCHANGED <<queue, written, disk, line, place, made>>
      /\ timer' \in Projects \cup {NoProject} /\ restored' \subseteq Ids /\ ops' \in 0..MaxOps
      /\ run[r].proj \in Projects \cup {NoProject}
  BY QueueFacts DEF Finishing
<1> QED BY <1>1, <1>2, <1>3, CallInv DEF Finishing

\* An invocation ends, or sets out on something in which it holds no task.
LEMMA EndInv ==
    ASSUME QueueInv, NEW r \in Runs, run[r].at \notin Working,
           NEW point \in Points, NEW id \in Ids \cup {0}, Placed([Idle EXCEPT !.at = point]),
           run' = [run EXCEPT ![r] = [Idle EXCEPT !.at = point, !.task = id]],
           point \notin Working, UNCHANGED <<queue, line, place, made, disk>>,
           ops' \in 0..MaxOps, restored' \subseteq Ids,
           Flags', timer' \in Projects \cup {NoProject},
           processing' => (processing /\ run[r].at \notin Active)
    PROVE  QueueInv'
<1>1. [Idle EXCEPT !.at = point, !.task = id] \in Run
  BY DEF Idle, Run
<1>2. PICK x \in Run : x = [Idle EXCEPT !.at = point, !.task = id]
  BY <1>1
<1>3. x.at = point /\ Placed(x)
  BY <1>2 DEF Idle, Placed
<1> QED BY <1>2, <1>3, QueueFacts, QuietMoves

\* An invocation that has no task in hand returns.
LEMMA ReturnInv ==
    ASSUME QueueInv, NEW r \in Runs, run[r].at \notin Working, run' = [run EXCEPT ![r] = Idle],
           UNCHANGED <<queue, line, place, made, disk>>,
           ops' \in 0..MaxOps, restored' \subseteq Ids,
           Flags', timer' \in Projects \cup {NoProject},
           processing' => (processing /\ run[r].at \notin Active)
    PROVE  QueueInv'
<1>1. Idle \in Run /\ Placed(Idle) /\ Idle.at \notin Working
  BY IdleRuns DEF Placed, Idle, Working
<1> QED BY <1>1, QueueFacts, QuietMoves

\* After the clean-up the next task is taken, unless the queue is paused.
LEMMA CleanedInv == ASSUME QueueInv, NEW r \in Runs, Cleaned(r) PROVE QueueInv'
<1>1. run[r].at \notin Working /\ run[r].at \notin Active
  BY DEF Cleaned, Working, Active
<1>2. /\ UNCHANGED <<queue, written, disk, line, place, made>>
      /\ timer' \in Projects \cup {NoProject} /\ restored' \subseteq Ids /\ ops' \in 0..MaxOps
      /\ run[r].proj \in Projects \cup {NoProject}
  BY QueueFacts DEF Cleaned
<1>3. processing' \in BOOLEAN /\ (processing' => processing /\ run[r].at \notin Active)
  BY <1>1, FlagTypes, Zenon DEF Cleaned, Flags
<1>4. CASE Return(r) /\ UNCHANGED paused
  <2>1. Flags'
    BY <1>3, <1>4, FlagTypes, Zenon DEF Cleaned, Flags
  <2> QED BY <1>1, <1>2, <1>3, <1>4, <2>1, ReturnInv DEF Return
<1>5. CASE ProcessNext(r, run[r].proj, queue, processing, paused, restored)
  BY <1>1, <1>2, <1>3, <1>5, CallInv
<1> QED BY <1>4, <1>5 DEF Cleaned

\* The timer is set after a usage limit.
LEMMA LimitedInv == ASSUME QueueInv, NEW r \in Runs, Limited(r) PROVE QueueInv'
<1>1. run[r].at \notin Working /\ run[r].at \notin Active
  BY DEF Limited, Working, Active
<1>2. /\ UNCHANGED <<queue, disk, line, place, made>>
      /\ timer' \in Projects \cup {NoProject} /\ restored' \subseteq Ids /\ ops' \in 0..MaxOps
  BY QueueFacts DEF Limited
<1>3. Flags' /\ (processing' => processing /\ run[r].at \notin Active)
  BY <1>1, FlagTypes, Zenon DEF Limited, Flags
<1> QED BY <1>1, <1>2, <1>3, ReturnInv DEF Limited, Return

\* The user resumes, and the restored backlog may run.
LEMMA ResumeInv == ASSUME QueueInv, Resume PROVE QueueInv'
<1>1. PICK r \in Runs : r = FreeRun /\ run[r] = Idle
  BY FreeRunIsFree DEF Resume
<1>2. run[r].at \notin Working /\ run[r].at \notin Active
  BY <1>1 DEF Idle, Working, Active
<1>3. /\ UNCHANGED <<queue, written, disk, line, place, made>>
      /\ timer' \in Projects \cup {NoProject} /\ restored' \subseteq Ids /\ ops' \in 0..MaxOps
      /\ current \in Projects \cup {NoProject}
  BY QueueFacts, OperationTypes DEF Resume
<1>4. processing' \in BOOLEAN /\ (processing' => processing /\ run[r].at \notin Active)
  BY <1>2, FlagTypes, Zenon DEF Resume, Flags
<1> QED BY <1>1, <1>2, <1>3, <1>4, CallInv DEF Resume

\* The timer resumes the project it was set for, if it is still the open one.
LEMMA TimerFiresInv == ASSUME QueueInv, TimerFires PROVE QueueInv'
<1>1. PICK r \in Runs : r = FreeRun /\ run[r] = Idle
  BY FreeRunIsFree DEF TimerFires
<1>2. run[r].at \notin Working /\ run[r].at \notin Active
  BY <1>1 DEF Idle, Working, Active
<1>3. /\ UNCHANGED <<queue, written, disk, line, place, made>>
      /\ timer' \in Projects \cup {NoProject} /\ restored' \subseteq Ids /\ ops' \in 0..MaxOps
      /\ current \in Projects \cup {NoProject}
  BY QueueFacts, OperationTypes DEF TimerFires
<1>4. processing' \in BOOLEAN /\ (processing' => processing /\ run[r].at \notin Active)
  BY <1>2, FlagTypes, Zenon DEF TimerFires, Flags
<1>5. CASE ProcessNext(r, current, queue, processing, FALSE, restored)
  BY <1>2, <1>3, <1>4, <1>5, CallInv
<1>6. CASE UNCHANGED <<paused, run>>
  <2>1. Flags'
    BY <1>4, <1>6, FlagTypes, Zenon DEF TimerFires, Flags
  <2>2. run' = [run EXCEPT ![r] = Idle]
    BY <1>1, <1>6, QueueFacts
  <2> QED BY <1>2, <1>3, <1>4, <2>1, <2>2, ReturnInv
<1> QED BY <1>1, <1>5, <1>6 DEF TimerFires

\* An invocation that goes on as it is, or with its task done.
LEMMA AtFacts ==
    ASSUME QueueInv, NEW r \in Runs, NEW point \in Points, At(r, point)
    PROVE  \E x \in Run : /\ run' = [run EXCEPT ![r] = x]
                          /\ x.at = point /\ x.proj = run[r].proj
                          /\ x.task = run[r].task /\ x.own = run[r].own
<1>1. run[r] \in Run
  BY QueueFacts
<1>2. [run[r] EXCEPT !.at = point] \in Run
  BY <1>1 DEF Run
<1>3. PICK x \in Run : x = [run[r] EXCEPT !.at = point]
  BY <1>2
<1>4. x.at = point /\ x.proj = run[r].proj /\ x.task = run[r].task /\ x.own = run[r].own
  BY <1>1, <1>3 DEF Run
<1>5. run' = [run EXCEPT ![r] = x]
  BY <1>3, QueueFacts DEF At
<1> QED BY <1>4, <1>5

\* An invocation that has let go of its task keeps its project and owns nothing.
LEMMA DoneFacts ==
    ASSUME QueueInv, NEW r \in Runs, NEW point \in Points, Done(r, point)
    PROVE  \E x \in Run : /\ run' = [run EXCEPT ![r] = x]
                          /\ x.at = point /\ x.proj = run[r].proj
                          /\ \A id, p : ~Owns(x, id, p)
<1>1. run[r].proj \in Projects \cup {NoProject}
  BY QueueFacts
<1>2. PICK p \in Projects \cup {NoProject} : p = run[r].proj
  BY <1>1
<1>3. [Idle EXCEPT !.at = point, !.proj = p] \in Run
  BY DEF Run, Idle
<1>4. PICK x \in Run : x = [Idle EXCEPT !.at = point, !.proj = p]
  BY <1>3
<1>5. x.at = point /\ x.proj = p
  BY <1>4 DEF Idle
<1>6. ~x.own
  BY <1>4, Zenon DEF Idle
<1>7. \A id, q : ~Owns(x, id, q)
  BY <1>6, Zenon DEF Owns
<1> QED BY <1>2, <1>4, <1>5, <1>7 DEF Done

\* An invocation queues up for the mutex of its project.
LEMMA JoinsLine ==
    ASSUME QueueInv, NEW r \in Runs, run[r].at = "starting", run[r].proj \in Projects,
           NEW x \in Run, run' = [run EXCEPT ![r] = x], x.at = "queued", x.proj = run[r].proj,
           line' = [line EXCEPT ![run[r].proj] = Append(@, r)]
    PROVE  LineInv' /\ line' \in [Projects -> Seq(Runs)]
<1>1. line \in [Projects -> Seq(Runs)] /\ run \in [Runs -> Run]
  BY QueueFacts
<1>2. PICK p \in Projects : p = run[r].proj
  OBVIOUS
<1>3. PICK new \in Seq(Runs) : new = Append(line[p], r)
  <2>1. line[p] \in Seq(Runs)
    BY <1>1
  <2> QED BY <2>1, AppendProperties
<1>4. /\ \A n \in DOMAIN line[p] : n \in DOMAIN new /\ new[n] = line[p][n]
      /\ \E n \in DOMAIN new : new[n] = r
  BY <1>1, <1>3
<1>5. line' = [line EXCEPT ![p] = new]
  BY <1>1, <1>2, <1>3
<1>6. /\ line' \in [Projects -> Seq(Runs)]
      /\ \A q \in Projects : line'[q] = IF q = p THEN new ELSE line[q]
  BY <1>1, <1>5
<1>7. \A s \in Runs : run'[s] = IF s = r THEN x ELSE run[s]
  BY <1>1
<1>8. LineInv'
  <2> SUFFICES ASSUME NEW s \in Runs
               PROVE  /\ run'[s].at \in {"queued", "ingesting"} =>
                            \E n \in DOMAIN line'[run'[s].proj] : line'[run'[s].proj][n] = s
                      /\ run'[s].at = "ingesting" => line'[run'[s].proj][1] = s
    BY DEF LineInv
  <2>1. CASE s = r
    BY <1>2, <1>4, <1>6, <1>7, <2>1
  <2>2. CASE s # r
    <3>1. run'[s] = run[s] /\ (run[s].at \in {"queued", "ingesting"} => run[s].proj \in Projects)
      BY <1>7, <2>2, QueueFacts DEF Placed
    <3>2. /\ run[s].at \in {"queued", "ingesting"} =>
               \E n \in DOMAIN line[run[s].proj] : line[run[s].proj][n] = s
          /\ run[s].at = "ingesting" => line[run[s].proj][1] = s
      BY DEF QueueInv, LineInv
    <3>3. (\E n \in DOMAIN line[p] : line[p][n] = s) => 1 \in DOMAIN line[p]
      BY <1>1
    <3> QED BY <1>4, <1>6, <3>1, <3>2, <3>3
  <2> QED BY <2>1, <2>2
<1> QED BY <1>6, <1>8

\* The holder leaves: the next one of the line is its head.
LEMMA LeavesLine ==
    ASSUME QueueInv, NEW r \in Runs, LeavesMutex(r),
           NEW x \in Run, run' = [run EXCEPT ![r] = x], x.at \notin {"queued", "ingesting"}
    PROVE  LineInv' /\ line' \in [Projects -> Seq(Runs)]
<1>1. line \in [Projects -> Seq(Runs)] /\ run \in [Runs -> Run]
  BY QueueFacts
<1>2. PICK p \in Projects : p = run[r].proj
  BY QueueFacts DEF Placed, LeavesMutex
<1>3. line[p][1] = r /\ \E n \in DOMAIN line[p] : line[p][n] = r
  BY <1>2 DEF LeavesMutex, QueueInv, LineInv
<1>4. PICK new \in Seq(Runs) : new = Tail(line[p])
  <2>1. line[p] \in Seq(Runs) /\ line[p] # <<>>
    BY <1>1, <1>3
  <2> QED BY <2>1, HeadTailProperties
<1>5. \A n \in DOMAIN line[p] : n # 1 => n - 1 \in DOMAIN new /\ new[n - 1] = line[p][n]
  BY <1>1, <1>3, <1>4
<1>6. line' = [line EXCEPT ![p] = new]
  BY <1>1, <1>2, <1>4 DEF LeavesMutex
<1>7. /\ line' \in [Projects -> Seq(Runs)]
      /\ \A q \in Projects : line'[q] = IF q = p THEN new ELSE line[q]
  BY <1>1, <1>6
<1>8. \A s \in Runs : run'[s] = IF s = r THEN x ELSE run[s]
  BY <1>1
<1>9. LineInv'
  <2> SUFFICES ASSUME NEW s \in Runs, run'[s].at \in {"queued", "ingesting"}
               PROVE  /\ \E n \in DOMAIN line'[run'[s].proj] : line'[run'[s].proj][n] = s
                      /\ run'[s].at = "ingesting" => line'[run'[s].proj][1] = s
    BY DEF LineInv
  <2>1. s # r /\ run'[s] = run[s] /\ run[s].proj \in Projects
    BY <1>8, QueueFacts DEF Placed
  <2>2. /\ \E n \in DOMAIN line[run[s].proj] : line[run[s].proj][n] = s
        /\ run[s].at = "ingesting" => line[run[s].proj][1] = s
    BY <2>1 DEF QueueInv, LineInv
  <2>3. CASE run[s].proj = p
    <3>1. run[s].at # "ingesting"
      BY <1>3, <2>1, <2>2, <2>3
    <3>2. PICK n \in DOMAIN line[p] : line[p][n] = s
      BY <2>2, <2>3
    <3>3. n # 1
      BY <1>3, <2>1, <3>2
    <3> QED BY <1>5, <1>7, <2>1, <2>3, <3>1, <3>2, <3>3
  <2>4. CASE run[s].proj # p
    BY <1>7, <2>1, <2>2, <2>4
  <2> QED BY <2>3, <2>4
<1> QED BY <1>7, <1>9

\* The head of the line takes the mutex.
LEMMA TakesMutex ==
    ASSUME QueueInv, NEW r \in Runs, GetsMutex(r),
           NEW x \in Run, run' = [run EXCEPT ![r] = x], x.at = "ingesting", x.proj = run[r].proj
    PROVE  LineInv' /\ line' \in [Projects -> Seq(Runs)]
<1>1. line \in [Projects -> Seq(Runs)] /\ run \in [Runs -> Run]
  BY QueueFacts
<1>2. PICK p \in Projects : p = run[r].proj
  BY QueueFacts DEF Placed, GetsMutex
<1>3. \E n \in DOMAIN line[p] : line[p][n] = r
  BY <1>2 DEF GetsMutex, QueueInv, LineInv
<1>4. line[p][1] = r /\ line' = line
  BY <1>1, <1>2, <1>3 DEF GetsMutex
<1>5. \A s \in Runs : run'[s] = IF s = r THEN x ELSE run[s]
  BY <1>1
<1> QED BY <1>1, <1>2, <1>3, <1>4, <1>5 DEF QueueInv, LineInv

\* No invocation moves; tasks may leave the queue or get another status.
LEMMA StillInv ==
    ASSUME QueueInv, UNCHANGED <<run, line, place, made>>,
           queue' \in Seq(Task), Distinct(queue', made), queue = <<>> => queue' = <<>>,
           \A i \in DOMAIN queue' : queue'[i].status = "processing" =>
               \E j \in DOMAIN queue : queue[j] = queue'[i],
           ops' \in 0..MaxOps, restored' \subseteq Ids,
           Flags', timer' \in Projects \cup {NoProject}, processing' => processing,
           (queue' = queue /\ disk' = disk) \/ Save(current, queue')
    PROVE  QueueInv'
<1>1. PICK r \in Runs : TRUE
  BY QueueFacts
<1>2. PICK x \in Run : x = run[r]
  BY QueueFacts
<1>3. run' = [run EXCEPT ![r] = x]
  BY <1>2, QueueFacts
<1>4. Placed(x)
  BY <1>2, QueueFacts
<1>5. LineInv'
  BY DEF QueueInv, LineInv
<1>6. processing' => Resets(x, current) \/ (processing /\ ~Resets(run[r], current))
  BY <1>2, Zenon
<1>7. \A i \in DOMAIN queue' : queue'[i].status = "processing" =>
              \/ Owns(x, queue'[i].id, current)
              \/ \E j \in DOMAIN queue : queue[j] = queue'[i] /\ ~Owns(run[r], queue[j].id, current)
  BY <1>2
<1>8. made' = made /\ made' \in 0..MaxTasks /\ made <= made'
  BY QueueFacts
<1>9. current \in Projects \cup {NoProject} /\ (switch = "closed" => queue = <<>>) /\ line' \in [Projects -> Seq(Runs)]
  BY QueueFacts
<1>10. UNCHANGED <<current, switch, loaded>>
  BY DEF place
<1> QED BY <1>3, <1>4, <1>5, <1>6, <1>7, <1>8, <1>9, <1>10, QueueMoves

\* An ingest writes a file of the wiki.
LEMMA WritesFileInv == ASSUME QueueInv, NEW r \in Runs, WritesFile(r) PROVE QueueInv'
<1>1. Flags' /\ processing' = processing
  BY FlagTypes, Zenon DEF WritesFile, Flags
<1>2. processing' => processing
  BY <1>1, Zenon
<1>3. /\ UNCHANGED <<run, line, place, made, queue, timer, disk>>
      /\ ops' \in 0..MaxOps /\ restored' \subseteq Ids /\ timer' \in Projects \cup {NoProject}
  BY QueueFacts DEF WritesFile
<1>4. /\ queue' \in Seq(Task) /\ Distinct(queue', made) /\ (queue = <<>> => queue' = <<>>)
      /\ \A i \in DOMAIN queue' : \E j \in DOMAIN queue : queue[j] = queue'[i]
  BY <1>3, QueueFacts
<1> QED BY <1>1, <1>2, <1>3, <1>4, StillInv

\* The running task, if there is one, is the first of those there are.
LEMMA PauseInv == ASSUME QueueInv, Pause PROVE QueueInv'
<1>1. Flags' /\ (processing' => processing)
  BY FlagTypes, Zenon DEF Pause, Flags
<1>2. /\ queue' \in Seq(Task) /\ Distinct(queue', made) /\ (queue = <<>> => queue' = <<>>)
      /\ \A i \in DOMAIN queue' : queue'[i].status = "processing" =>
             \E j \in DOMAIN queue : queue[j] = queue'[i]
  <2>1. CASE queue' = queue
    BY <2>1, QueueFacts
  <2>2. CASE queue' # queue
    <3> DEFINE running == {i \in DOMAIN queue: queue[i].status = "processing"}
    <3>1. running # {} /\ queue' = [queue EXCEPT ![FirstOf(running)].status = "pending"]
      BY <2>2 DEF Pause
    <3>2. PICK n \in DOMAIN queue : n = FirstOf(running)
      <4>1. DOMAIN queue \in SUBSET Nat
        BY QueueFacts
      <4>2. running \in SUBSET Nat
        BY <4>1
      <4>3. FirstOf(running) \in running
        BY <3>1, <4>2, FirstIsOne
      <4> QED BY <4>3
    <3>3. PICK t \in Task : t = [queue[n] EXCEPT !.status = "pending"]
      <4>1. queue[n] \in Task
        BY <3>2, QueueFacts
      <4> QED BY <4>1 DEF Task, Statuses
    <3>4. t.id = queue[n].id /\ t.status = "pending"
      <4>1. queue[n] \in Task
        BY <3>2, QueueFacts
      <4> QED BY <3>3, <4>1 DEF Task
    <3>5. queue' = [queue EXCEPT ![n] = t]
      BY <3>1, <3>2, <3>3, QueueFacts
    <3>6. /\ DOMAIN queue' = DOMAIN queue /\ queue' \in Seq(Task)
          /\ \A i \in DOMAIN queue : queue'[i] = IF i = n THEN t ELSE queue[i]
      BY <3>5, QueueFacts, ExceptSeq
    <3>7. Distinct(queue', made)
      BY <3>4, <3>6, QueueFacts DEF Distinct
    <3> QED BY <3>4, <3>6, <3>7
  <2> QED BY <2>1, <2>2
<1>3. (queue' = queue /\ disk' = disk) \/ Save(current, queue')
  BY DEF Pause
<1> QED BY <1>1, <1>2, <1>3, OperationTypes, QueueFacts, StillInv DEF Pause

\* What cancelTask and cancelAllTasks leave of the queue.
LEMMA DiscardFacts ==
    ASSUME QueueInv, NEW r, NEW id, Discard(r, id)
    PROVE  /\ queue' \in Seq(Task) /\ Distinct(queue', made) /\ (queue = <<>> => queue' = <<>>)
           /\ \A i \in DOMAIN queue' : \E j \in DOMAIN queue : queue[j] = queue'[i] /\ queue[j].id # id
           /\ restored' \subseteq Ids /\ timer' \in Projects \cup {NoProject}
           /\ paused' \in BOOLEAN
<1> DEFINE K == {i \in DOMAIN queue: queue[i].id # id}
<1>1. queue' = Kept(queue, K) /\ K \in SUBSET (DOMAIN queue)
  BY DEF Discard, Without
<1>2. queue \in Seq(Task) /\ Distinct(queue, made)
  BY QueueFacts
<1> HIDE DEF K
<1>3. /\ queue' \in Seq(Task) /\ Distinct(queue', made) /\ (queue = <<>> => queue' = <<>>)
      /\ \A i \in DOMAIN queue' : \E j \in K : queue[j] = queue'[i]
  BY <1>1, <1>2, KeptTasks
<1>4. \A j \in K : j \in DOMAIN queue /\ queue[j].id # id
  BY DEF K
<1>5. restored' \subseteq Ids /\ timer' \in Projects \cup {NoProject}
  BY QueueFacts DEF Discard
<1>6. paused' \in BOOLEAN
  BY Zenon DEF Discard
<1> QED BY <1>3, <1>4, <1>5, <1>6

\* What is left after cancelAllTasks are failed tasks.
LEMMA DiscardUnfinishedFacts ==
    ASSUME QueueInv, DiscardUnfinished
    PROVE  /\ queue' \in Seq(Task) /\ Distinct(queue', made) /\ (queue = <<>> => queue' = <<>>)
           /\ \A i \in DOMAIN queue' : queue'[i].status # "processing"
           /\ restored' \subseteq Ids /\ timer' \in Projects \cup {NoProject}
           /\ paused' \in BOOLEAN
<1> DEFINE K == {i \in DOMAIN queue: queue[i].status = "failed"}
<1>1. queue' = Kept(queue, K) /\ K \in SUBSET (DOMAIN queue)
  BY DEF DiscardUnfinished
<1>2. queue \in Seq(Task) /\ Distinct(queue, made)
  BY QueueFacts
<1> HIDE DEF K
<1>3. /\ queue' \in Seq(Task) /\ Distinct(queue', made) /\ (queue = <<>> => queue' = <<>>)
      /\ \A i \in DOMAIN queue' : \E j \in K : queue[j] = queue'[i]
  BY <1>1, <1>2, KeptTasks
<1>4. \A j \in K : j \in DOMAIN queue /\ queue[j].status = "failed"
  BY DEF K
<1>5. restored' \subseteq Ids /\ timer' \in Projects \cup {NoProject}
  BY QueueFacts DEF DiscardUnfinished
<1>6. paused' \in BOOLEAN
  BY Zenon DEF DiscardUnfinished
<1> QED BY <1>3, <1>4, <1>5, <1>6

\* An operation that has saved waits to call processNext.
LEMMA KickRun ==
    ASSUME QueueInv, NEW r \in Runs, run' = [run EXCEPT ![r] = [Idle EXCEPT !.at = "kick"]]
    PROVE  \E x \in Run : run' = [run EXCEPT ![r] = x] /\ x.at = "kick" /\ Placed(x)
<1>1. PICK x \in Run : x = [Idle EXCEPT !.at = "kick"]
  BY IdleRuns DEF Points
<1> QED BY <1>1 DEF Placed, Idle

\* cancelTask ends, as an invocation that holds no task.
LEMMA DiscardInv ==
    ASSUME QueueInv, NEW r \in Runs, NEW id, Discard(r, id), run[r].at \notin Active,
           run[r].at \notin Working, UNCHANGED <<line, place, made>>, ops' \in 0..MaxOps, Flags',
           processing' => processing
    PROVE  QueueInv'
<1>1. PICK x \in Run : run' = [run EXCEPT ![r] = x] /\ x.at = "kick" /\ Placed(x)
  BY KickRun DEF Discard
<1>2. LineInv' /\ line' \in [Projects -> Seq(Runs)]
  BY <1>1, LineStays
<1>3. processing' => Resets(x, current) \/ (processing /\ ~Resets(run[r], current))
  BY Zenon DEF Resets
<1>4. \A i \in DOMAIN queue' : queue'[i].status = "processing" =>
          \E j \in DOMAIN queue : queue[j] = queue'[i] /\ ~Owns(run[r], queue[j].id, current)
  BY DiscardFacts DEF Owns
<1>5. made' = made /\ made' \in 0..MaxTasks /\ made <= made'
  BY QueueFacts
<1>6. Save(current, queue')
  BY DEF Discard
<1> QED BY <1>1, <1>2, <1>3, <1>4, <1>5, <1>6, DiscardFacts, QueueFacts, QueueMoves DEF place

\* cancelTask ends after its clean-up; the invocation that ran the task owns it no more.
LEMMA CancellingInv == ASSUME QueueInv, NEW r \in Runs, Cancelling(r) PROVE QueueInv'
<1>1. run[r].at \notin Working /\ run[r].at \notin Active
  BY DEF Cancelling, Working, Active
<1>2. Discard(r, run[r].task) /\ UNCHANGED <<line, place, made, ops>>
  BY DEF Cancelling
<1>3. Flags' /\ (processing' => processing)
  BY <1>2, DiscardFacts, Zenon DEF Cancelling, Flags
<1> QED BY <1>1, <1>2, <1>3, QueueFacts, DiscardInv

\* cancelAllTasks ends after its clean-up.
LEMMA ClearingInv == ASSUME QueueInv, NEW r \in Runs, Clearing(r) PROVE QueueInv'
<1>1. run[r].at \notin Working /\ run[r].at \notin Active
  BY DEF Clearing, Working, Active
<1>2. DiscardUnfinished /\ run' = [run EXCEPT ![r] = Idle] /\ UNCHANGED <<line, place, made, ops>>
  BY DEF Clearing
<1>3. Flags'
  BY <1>2, FlagTypes, DiscardUnfinishedFacts, Zenon DEF Clearing, Flags
<1>4. processing' => Resets(Idle, current) \/ (processing /\ ~Resets(run[r], current))
  BY <1>1, Zenon DEF Clearing, Resets
<1>5. Idle \in Run /\ Placed(Idle) /\ Idle.at \notin {"queued", "ingesting"}
  BY IdleRuns DEF Placed, Idle
<1>6. LineInv' /\ line' \in [Projects -> Seq(Runs)]
  BY <1>2, <1>5, LineStays
<1>7. made' = made /\ made' \in 0..MaxTasks /\ made <= made'
  BY <1>2, QueueFacts
<1>8. Save(current, queue')
  BY <1>2 DEF DiscardUnfinished
<1> QED BY <1>2, <1>3, <1>4, <1>5, <1>6, <1>7, <1>8, DiscardUnfinishedFacts, QueueFacts, QueueMoves DEF place

\* A step that makes no task and leaves the open project open.
LEMMA MoveInv ==
    ASSUME QueueInv, NEW r \in Runs, NEW x \in Run, run' = [run EXCEPT ![r] = x], Placed(x),
           UNCHANGED <<place, made>>,
           queue' \in Seq(Task), Distinct(queue', made), queue = <<>> => queue' = <<>>,
           ops' \in 0..MaxOps, restored' \subseteq Ids,
           Flags', timer' \in Projects \cup {NoProject},
           line' \in [Projects -> Seq(Runs)], LineInv',
           NEW p \in Projects \cup {NoProject},
           \/ queue' = queue /\ disk' = disk
           \/ Save(p, queue') /\ (p # current => queue' = queue),
           processing' => Resets(x, current) \/ (processing /\ ~Resets(run[r], current)),
           \A i \in DOMAIN queue' : queue'[i].status = "processing" =>
              \/ Owns(x, queue'[i].id, current)
              \/ \E j \in DOMAIN queue : queue[j] = queue'[i] /\ ~Owns(run[r], queue[j].id, current)
    PROVE  QueueInv'
<1>1. made' = made /\ made' \in 0..MaxTasks /\ made <= made'
  BY QueueFacts
<1>2. (switch = "closed" => queue' = queue) /\ UNCHANGED <<current, switch, loaded>>
  BY QueueFacts DEF place
<1> QED BY <1>1, <1>2, QueueMoves

\* cancelTask waits for a clean-up, or discards the task at once.
LEMMA CancelInv == ASSUME QueueInv, NEW n \in DOMAIN queue, Cancel(queue[n]) PROVE QueueInv'
<1>1. PICK r \in Runs : r = FreeRun /\ run[r] = Idle
  BY FreeRunIsFree DEF Cancel
<1>2. run[r].at \notin Working /\ run[r].at \notin Active
  BY <1>1 DEF Idle, Working, Active
<1>3. UNCHANGED <<line, place, made>> /\ ops' \in 0..MaxOps
  BY OperationTypes DEF Cancel
<1>4. CASE /\ run' = [run EXCEPT ![FreeRun] = [Idle EXCEPT !.at = "cancelling", !.task = queue[n].id]]
           /\ UNCHANGED <<queue, restored, processing, paused, timer, disk, written>>
  <2>1. queue[n].id \in Ids
    <3>1. queue[n] \in Task
      BY QueueFacts
    <3> QED BY <3>1 DEF Task
  <2>2. Placed([Idle EXCEPT !.at = "cancelling"]) /\ "cancelling" \in Points /\ "cancelling" \notin Working
    BY DEF Placed, Idle, Points, Working
  <2>3. Flags' /\ (processing' => processing /\ run[r].at \notin Active)
    BY <1>2, <1>4, FlagTypes, Zenon DEF Flags
  <2>4. timer' \in Projects \cup {NoProject} /\ restored' \subseteq Ids
    BY <1>4, QueueFacts
  <2> QED BY <1>1, <1>2, <1>3, <1>4, <2>1, <2>2, <2>3, <2>4, EndInv
<1>5. CASE /\ Discard(FreeRun, queue[n].id)
           /\ processing' = (processing /\ queue[n].status # "processing")
           /\ UNCHANGED written
  <2>1. PICK id : id = queue[n].id
    OBVIOUS
  <2>2. Discard(r, id)
    BY <1>1, <1>5, <2>1
  <2>3. paused' \in BOOLEAN
    BY <2>2, DiscardFacts
  <2>4. Flags' /\ (processing' => processing)
    BY <1>5, <2>3, FlagTypes, Zenon DEF Flags
  <2> QED BY <1>2, <1>3, <2>2, <2>4, DiscardInv
<1> QED BY <1>4, <1>5 DEF Cancel

\* cancelAllTasks waits for a clean-up, or discards what is unfinished at once.
LEMMA CancelAllInv == ASSUME QueueInv, CancelAll PROVE QueueInv'
<1>1. PICK r \in Runs : r = FreeRun /\ run[r] = Idle
  BY FreeRunIsFree DEF CancelAll
<1>2. run[r].at \notin Working /\ run[r].at \notin Active
  BY <1>1 DEF Idle, Working, Active
<1>3. UNCHANGED <<line, place, made>> /\ ops' \in 0..MaxOps
  BY OperationTypes DEF CancelAll
<1>4. CASE At(FreeRun, "clearing") /\ UNCHANGED <<queue, restored, paused, timer, disk>>
  <2>1. "clearing" \in Points
    BY DEF Points
  <2>2. At(r, "clearing")
    BY <1>1, <1>4
  <2>3. PICK x \in Run : /\ run' = [run EXCEPT ![r] = x] /\ x.at = "clearing"
    BY <2>1, <2>2, AtFacts
  <2>4. Placed(x) /\ x.at \notin Working
    BY <2>3 DEF Placed, Working
  <2>5. Flags' /\ (processing' => Resets(x, current) \/ (processing /\ run[r].at \notin Active))
    BY <1>4, FlagTypes, Zenon DEF CancelAll, Flags
  <2>6. timer' \in Projects \cup {NoProject} /\ restored' \subseteq Ids
    BY <1>4, QueueFacts
  <2> QED BY <1>2, <1>3, <1>4, <2>3, <2>4, <2>5, <2>6, QueueFacts, QuietMoves
<1>5. CASE DiscardUnfinished /\ UNCHANGED run
  <2>1. Flags' /\ (processing' => processing)
    BY <1>5, FlagTypes, DiscardUnfinishedFacts, Zenon DEF CancelAll, Flags
  <2>2. Save(current, queue')
    BY <1>5 DEF DiscardUnfinished
  <2>3. /\ queue' \in Seq(Task) /\ Distinct(queue', made) /\ (queue = <<>> => queue' = <<>>)
        /\ \A i \in DOMAIN queue' : queue'[i].status # "processing"
        /\ restored' \subseteq Ids /\ timer' \in Projects \cup {NoProject}
    BY <1>5, DiscardUnfinishedFacts
  <2> QED BY <1>3, <1>5, <2>1, <2>2, <2>3, StillInv
<1> QED BY <1>4, <1>5 DEF CancelAll

\* A task that is retried is pending.
LEMMA ResetTask ==
    ASSUME NEW t \in Task
    PROVE  Reset(t) \in Task /\ Reset(t).id = t.id /\ Reset(t).status = "pending"
BY DEF Reset, Task, Statuses

\* retryTask resets the tasks of some ids.
LEMMA RetryInv == ASSUME QueueInv, NEW ids, Retry(ids) PROVE QueueInv'
<1>1. PICK r \in Runs : r = FreeRun /\ run[r] = Idle
  BY FreeRunIsFree DEF Retry
<1>2. run[r].at \notin Working /\ run[r].at \notin Active
  BY <1>1 DEF Idle, Working, Active
<1>3. UNCHANGED <<line, place, made>> /\ ops' \in 0..MaxOps /\ restored' \subseteq Ids
  BY OperationTypes, QueueFacts DEF Retry
<1>4. "kick" \in Points /\ At(r, "kick")
  BY <1>1 DEF Points, Retry
<1>5. PICK x \in Run : run' = [run EXCEPT ![r] = x] /\ x.at = "kick"
  BY <1>4, AtFacts
<1>6. Placed(x) /\ x.at \notin {"queued", "ingesting"}
  BY <1>5 DEF Placed
<1>7. LineInv' /\ line' \in [Projects -> Seq(Runs)]
  BY <1>3, <1>5, <1>6, LineStays
<1>8. Flags' /\ (processing' => Resets(x, current) \/ (processing /\ ~Resets(run[r], current)))
  BY <1>2, FlagTypes, Zenon DEF Retry, Flags, Resets
<1>9. queue' = [i \in DOMAIN queue |-> IF queue[i].id \in ids THEN Reset(queue[i]) ELSE queue[i]]
  BY DEF Retry
<1>10. ASSUME NEW i \in DOMAIN queue
       PROVE  /\ queue'[i] \in Task /\ queue'[i].id = queue[i].id
              /\ queue'[i].status = "processing" => queue'[i] = queue[i]
  <2>1. queue[i] \in Task
    BY QueueFacts
  <2>2. CASE queue[i].id \in ids
    <3>1. queue'[i] = Reset(queue[i])
      BY <1>9, <2>2
    <3> QED BY <2>1, <3>1, ResetTask
  <2>3. CASE queue[i].id \notin ids
    BY <1>9, <2>1, <2>3
  <2> QED BY <2>2, <2>3
<1>11. PICK f : f = queue'
  OBVIOUS
<1>12. DOMAIN f = DOMAIN queue /\ f = [i \in DOMAIN queue |-> f[i]]
  BY <1>9, <1>11
<1>13. queue' \in Seq(Task) /\ Distinct(queue', made) /\ (queue = <<>> => queue' = <<>>)
  <2>1. queue \in Seq(Task) /\ Distinct(queue, made)
    BY QueueFacts
  <2>2. \A i \in DOMAIN queue : f[i] \in Task /\ f[i].id = queue[i].id
    BY <1>10, <1>11
  <2>3. f \in Seq(Task) /\ Distinct(f, made) /\ (queue = <<>> => f = <<>>)
    BY <1>12, <2>1, <2>2, EditedTasks
  <2> QED BY <1>11, <2>3
<1>14. \A i \in DOMAIN queue' : queue'[i].status = "processing" =>
          \E j \in DOMAIN queue : queue[j] = queue'[i] /\ ~Owns(run[r], queue[j].id, current)
  BY <1>2, <1>10, <1>11, <1>12 DEF Owns
<1>15. Save(current, queue') /\ timer' \in Projects \cup {NoProject}
  BY QueueFacts DEF Retry
<1> QED BY <1>3, <1>5, <1>6, <1>7, <1>8, <1>13, <1>14, <1>15, QueueFacts, MoveInv

\* What is not shown of the task object an invocation gives a status has changed.
LEMMA AssignedTasks ==
    ASSUME QueueInv, NEW r \in Runs, NEW s \in Statuses, NEW n \in Nat,
           run[r].proj = current, queue' = Assign(r, s, n)
    PROVE  /\ queue' \in Seq(Task) /\ Distinct(queue', made) /\ (queue = <<>> => queue' = <<>>)
           /\ \A i \in DOMAIN queue' :
                \/ queue'[i].status = s /\ queue'[i].id = run[r].task /\ run[r].own
                \/ \E j \in DOMAIN queue : queue[j] = queue'[i] /\ ~Owns(run[r], queue[j].id, current)
BY AssignFacts DEF Owns

\* The statuses and the attempts an assignment is made with.
LEMMA StatusValues ==
    {"pending", "processing", "failed"} \subseteq Statuses /\ 0 \in Nat /\ 1 \in Nat
BY DEF Statuses

\* The task fails, or is put back, and the invocation goes on without it.
LEMMA LetsGoInv ==
    ASSUME QueueInv, NEW r \in Runs, run[r].proj = current, run[r].proj \in Projects,
           NEW s \in {"pending", "failed"}, NEW n \in Nat, queue' = Assign(r, s, n),
           NEW point \in Points, point \notin {"queued", "ingesting"}, Done(r, point),
           UNCHANGED <<place, made, timer, restored, ops>>, Save(current, queue'), Flags',
           processing' => point \in Active,
           \/ line' = line
           \/ LeavesMutex(r)
    PROVE  QueueInv'
<1>1. PICK x \in Run : /\ run' = [run EXCEPT ![r] = x]
                       /\ x.at = point /\ x.proj = run[r].proj
                       /\ \A id, p : ~Owns(x, id, p)
  BY DoneFacts
<1>2. Placed(x)
  BY <1>1 DEF Placed
<1>3. LineInv' /\ line' \in [Projects -> Seq(Runs)]
  BY <1>1, LineStays, LeavesLine
<1>4. processing' => Resets(x, current) \/ (processing /\ ~Resets(run[r], current))
  BY <1>1, Zenon DEF Resets
<1>5. /\ queue' \in Seq(Task) /\ Distinct(queue', made) /\ (queue = <<>> => queue' = <<>>)
      /\ \A i \in DOMAIN queue' : queue'[i].status = "processing" =>
             \E j \in DOMAIN queue : queue[j] = queue'[i] /\ ~Owns(run[r], queue[j].id, current)
  BY AssignedTasks, StatusValues
<1>6. /\ ops' \in 0..MaxOps /\ restored' \subseteq Ids /\ timer' \in Projects \cup {NoProject}
      /\ current \in Projects \cup {NoProject} /\ UNCHANGED <<place, made>>
  BY QueueFacts
<1> QED BY <1>1, <1>2, <1>3, <1>4, <1>5, <1>6, MoveInv

\* The project is stale or unknown, or the invocation takes the flag and marks its task:
\* from then on it owns both.
LEMMA RegistryAnswersInv == ASSUME QueueInv, NEW r \in Runs, RegistryAnswers(r) PROVE QueueInv'
<1>1. run[r].at = "registry" /\ run[r].at \notin Working /\ run[r].at \notin Active /\ run[r].proj \in Projects
  BY QueueFacts DEF RegistryAnswers, Working, Active, Placed
<1>2. UNCHANGED <<line, place, made, timer, ops>>
  BY DEF RegistryAnswers
<1>3. /\ ops' \in 0..MaxOps /\ timer' \in Projects \cup {NoProject} /\ restored \subseteq Ids
      /\ current \in Projects \cup {NoProject} /\ UNCHANGED <<place, made>>
  BY <1>2, QueueFacts
<1>4. CASE Return(r) /\ UNCHANGED <<queue, processing, restored, disk>>
  <2>1. Flags' /\ (processing' => processing /\ run[r].at \notin Active)
    BY <1>1, <1>4, FlagTypes, Zenon DEF RegistryAnswers, Flags
  <2> QED BY <1>1, <1>2, <1>3, <1>4, <2>1, ReturnInv DEF Return
<1>5. CASE /\ ~Stale(r)
           /\ queue' = Assign(r, "failed", 0)
           /\ Save(current, queue')
           /\ Done(r, "again")
           /\ UNCHANGED <<processing, restored>>
  <2>1. PICK x \in Run : /\ run' = [run EXCEPT ![r] = x]
                         /\ x.at = "again" /\ x.proj = run[r].proj
                         /\ \A id, p : ~Owns(x, id, p)
    BY <1>5, DoneFacts DEF Points
  <2>2. Placed(x)
    BY <1>1, <2>1 DEF Placed
  <2>3. LineInv' /\ line' \in [Projects -> Seq(Runs)]
    BY <1>2, <2>1, LineStays
  <2>4. Flags' /\ (processing' => Resets(x, current) \/ (processing /\ ~Resets(run[r], current)))
    BY <1>1, <1>5, FlagTypes, Zenon DEF RegistryAnswers, Flags, Resets
  <2>5. /\ queue' \in Seq(Task) /\ Distinct(queue', made) /\ (queue = <<>> => queue' = <<>>)
        /\ \A i \in DOMAIN queue' : queue'[i].status = "processing" =>
               \E j \in DOMAIN queue : queue[j] = queue'[i] /\ ~Owns(run[r], queue[j].id, current)
    BY <1>5, AssignedTasks, StatusValues DEF Stale
  <2> QED BY <1>3, <1>5, <2>1, <2>2, <2>3, <2>4, <2>5, MoveInv
<1>6. CASE /\ ~Stale(r)
           /\ processing' = TRUE
           /\ restored' = restored \ {run[r].task}
           /\ queue' = Assign(r, "processing", 0)
           /\ Save(run[r].proj, queue')
           /\ At(r, "starting")
  <2>1. PICK x \in Run : /\ run' = [run EXCEPT ![r] = x]
                         /\ x.at = "starting" /\ x.proj = run[r].proj
                         /\ x.task = run[r].task /\ x.own = run[r].own
    BY <1>6, AtFacts DEF Points
  <2>2. Placed(x)
    BY <1>1, <2>1 DEF Placed
  <2>3. LineInv' /\ line' \in [Projects -> Seq(Runs)]
    BY <1>2, <2>1, LineStays
  <2>4. run[r].proj = current
    BY <1>6 DEF Stale
  <2>5. Resets(x, current)
    BY <2>1, <2>4 DEF Resets, Active
  <2>6. Flags'
    BY <1>6, FlagTypes, Zenon DEF RegistryAnswers, Flags
  <2>7. /\ queue' \in Seq(Task) /\ Distinct(queue', made) /\ (queue = <<>> => queue' = <<>>)
        /\ \A i \in DOMAIN queue' :
             \/ queue'[i].id = run[r].task /\ run[r].own
             \/ \E j \in DOMAIN queue : queue[j] = queue'[i] /\ ~Owns(run[r], queue[j].id, current)
    BY <1>6, <2>4, AssignedTasks, StatusValues
  <2>8. \A i \in DOMAIN queue' : queue'[i].status = "processing" =>
             \/ Owns(x, queue'[i].id, current)
             \/ \E j \in DOMAIN queue : queue[j] = queue'[i] /\ ~Owns(run[r], queue[j].id, current)
    BY <2>1, <2>4, <2>7 DEF Owns, Working
  <2>9. restored' \subseteq Ids /\ Save(current, queue')
    BY <1>3, <1>6, <2>4
  <2>10. processing' => Resets(x, current) \/ (processing /\ ~Resets(run[r], current))
    BY <2>5, Zenon
  <2> QED BY <1>3, <2>1, <2>2, <2>3, <2>6, <2>7, <2>8, <2>9, <2>10, MoveInv
<1> QED BY <1>4, <1>5, <1>6 DEF RegistryAnswers

\* The invocation queues up for the mutex with its task, unless it is stale or no LLM
\* is configured.
LEMMA CallsIngestInv == ASSUME QueueInv, NEW r \in Runs, CallsIngest(r) PROVE QueueInv'
<1>1. run[r].at = "starting" /\ run[r].proj \in Projects
  BY QueueFacts DEF CallsIngest, Placed
<1>2. UNCHANGED <<place, made, timer, restored, ops>>
  BY DEF CallsIngest
<1>3. /\ ops' \in 0..MaxOps /\ timer' \in Projects \cup {NoProject} /\ restored' \subseteq Ids
      /\ current \in Projects \cup {NoProject} /\ UNCHANGED <<place, made>>
  BY <1>2, QueueFacts
<1>4. CASE Stale(r) /\ Return(r) /\ UNCHANGED <<queue, processing, written, disk, line>>
  <2>1. Idle \in Run /\ Placed(Idle) /\ Idle.at \notin {"queued", "ingesting"}
    BY IdleRuns DEF Placed, Idle
  <2>2. run' = [run EXCEPT ![r] = Idle] /\ run[r].proj # current
    BY <1>4 DEF Return, Stale
  <2>3. LineInv' /\ line' \in [Projects -> Seq(Runs)]
    BY <1>4, <2>1, <2>2, LineStays
  <2>4. Flags' /\ (processing' => Resets(Idle, current) \/ (processing /\ ~Resets(run[r], current)))
    BY <1>4, <2>2, FlagTypes, Zenon DEF CallsIngest, Flags, Resets
  <2>5. /\ queue' \in Seq(Task) /\ Distinct(queue', made) /\ (queue = <<>> => queue' = <<>>)
        /\ \A i \in DOMAIN queue' : \E j \in DOMAIN queue :
               queue[j] = queue'[i] /\ ~Owns(run[r], queue[j].id, current)
    BY <1>4, <2>2, QueueFacts DEF Owns
  <2> QED BY <1>3, <1>4, <2>1, <2>2, <2>3, <2>4, <2>5, MoveInv
<1>5. CASE /\ ~Stale(r)
           /\ queue' = Assign(r, "failed", 0)
           /\ processing' = FALSE
           /\ Save(run[r].proj, queue')
           /\ Done(r, "again")
           /\ UNCHANGED <<written, line>>
  <2>1. run[r].proj = current /\ Save(current, queue')
    BY <1>5 DEF Stale
  <2>2. "again" \in Points /\ "again" \notin {"queued", "ingesting"}
    BY DEF Points
  <2>3. Flags' /\ (processing' => "again" \in Active)
    BY <1>5, FlagTypes, Zenon DEF CallsIngest, Flags
  <2> QED BY <1>1, <1>2, <1>5, <2>1, <2>2, <2>3, LetsGoInv
<1>6. CASE /\ ~Stale(r)
           /\ written' = FALSE
           /\ line' = [line EXCEPT ![run[r].proj] = Append(@, r)]
           /\ At(r, "queued")
           /\ UNCHANGED <<queue, processing, disk>>
  <2>1. PICK x \in Run : /\ run' = [run EXCEPT ![r] = x]
                         /\ x.at = "queued" /\ x.proj = run[r].proj
                         /\ x.task = run[r].task /\ x.own = run[r].own
    BY <1>6, AtFacts DEF Points
  <2>2. Placed(x)
    BY <1>1, <2>1 DEF Placed
  <2>3. LineInv' /\ line' \in [Projects -> Seq(Runs)]
    BY <1>1, <1>6, <2>1, JoinsLine
  <2>4. run[r].proj = current
    BY <1>6 DEF Stale
  <2>5. Resets(x, current)
    BY <2>1, <2>4 DEF Resets, Active
  <2>6. Flags' /\ (processing' => Resets(x, current) \/ (processing /\ ~Resets(run[r], current)))
    BY <1>6, <2>5, FlagTypes, Zenon DEF CallsIngest, Flags
  <2>7. /\ queue' \in Seq(Task) /\ Distinct(queue', made) /\ (queue = <<>> => queue' = <<>>)
    BY <1>6, QueueFacts
  <2>8. \A i \in DOMAIN queue' : queue'[i].status = "processing" =>
             \/ Owns(x, queue'[i].id, current)
             \/ \E j \in DOMAIN queue : queue[j] = queue'[i] /\ ~Owns(run[r], queue[j].id, current)
    BY <1>6, <2>1, <2>4 DEF Owns, Working
  <2> QED BY <1>3, <1>6, <2>1, <2>2, <2>3, <2>6, <2>7, <2>8, MoveInv
<1> QED BY <1>4, <1>5, <1>6 DEF CallsIngest

\* The head of the line starts its ingest, and owns what it owned.
LEMMA GetsMutexInv == ASSUME QueueInv, NEW r \in Runs, GetsMutex(r) PROVE QueueInv'
<1>1. run[r].at = "queued" /\ run[r].proj \in Projects
  BY QueueFacts DEF GetsMutex, Placed
<1>2. PICK x \in Run : /\ run' = [run EXCEPT ![r] = x]
                       /\ x.at = "ingesting" /\ x.proj = run[r].proj
                       /\ x.task = run[r].task /\ x.own = run[r].own
  BY AtFacts DEF GetsMutex, Points
<1>3. Placed(x)
  BY <1>1, <1>2 DEF Placed
<1>4. LineInv' /\ line' \in [Projects -> Seq(Runs)]
  BY <1>2, TakesMutex
<1>5. Resets(x, current) <=> Resets(run[r], current)
  BY <1>1, <1>2 DEF Resets, Active
<1>6. Flags' /\ (processing' => Resets(x, current) \/ (processing /\ ~Resets(run[r], current)))
  BY <1>5, FlagTypes, Zenon DEF GetsMutex, Flags
<1>7. /\ queue' \in Seq(Task) /\ Distinct(queue', made) /\ (queue = <<>> => queue' = <<>>)
      /\ queue' = queue /\ disk' = disk
      /\ ops' \in 0..MaxOps /\ restored' \subseteq Ids /\ timer' \in Projects \cup {NoProject}
      /\ current \in Projects \cup {NoProject} /\ UNCHANGED <<place, made>>
  BY QueueFacts DEF GetsMutex
<1>8. \A i \in DOMAIN queue' : queue'[i].status = "processing" =>
           \/ Owns(x, queue'[i].id, current)
           \/ \E j \in DOMAIN queue : queue[j] = queue'[i] /\ ~Owns(run[r], queue[j].id, current)
  BY <1>2, <1>7 DEF Owns, Working
<1> QED BY <1>2, <1>3, <1>4, <1>6, <1>7, <1>8, MoveInv

\* An ingest returns to a project that was left: it owned nothing of the open one.
LEMMA IngestIsStaleInv == ASSUME QueueInv, NEW r \in Runs, IngestIsStale(r) PROVE QueueInv'
<1>1. Idle \in Run /\ Placed(Idle) /\ Idle.at \notin {"queued", "ingesting"}
  BY IdleRuns DEF Placed, Idle
<1>2. run' = [run EXCEPT ![r] = Idle] /\ run[r].proj # current
  BY DEF Return, Stale, IngestIsStale
<1>3. LineInv' /\ line' \in [Projects -> Seq(Runs)]
  BY <1>1, <1>2, LeavesLine DEF IngestIsStale
<1>4. Flags' /\ (processing' => Resets(Idle, current) \/ (processing /\ ~Resets(run[r], current)))
  BY <1>2, FlagTypes, Zenon DEF IngestIsStale, Flags, Resets
<1>5. /\ queue' \in Seq(Task) /\ Distinct(queue', made) /\ (queue = <<>> => queue' = <<>>)
      /\ queue' = queue /\ disk' = disk
      /\ ops' \in 0..MaxOps /\ restored' \subseteq Ids /\ timer' \in Projects \cup {NoProject}
      /\ current \in Projects \cup {NoProject} /\ UNCHANGED <<place, made>>
  BY QueueFacts DEF IngestIsStale
<1>6. \A i \in DOMAIN queue' : \E j \in DOMAIN queue :
             queue[j] = queue'[i] /\ ~Owns(run[r], queue[j].id, current)
  BY <1>2, <1>5, QueueFacts DEF Owns
<1> QED BY <1>1, <1>2, <1>3, <1>4, <1>5, <1>6, MoveInv

\* The task that was ingested leaves the queue.
LEMMA IngestSucceedsInv == ASSUME QueueInv, NEW r \in Runs, IngestSucceeds(r) PROVE QueueInv'
<1>1. run[r].proj = current /\ run[r].proj \in Projects
  BY QueueFacts DEF IngestSucceeds, LeavesMutex, Stale, Placed
<1>2. PICK x \in Run : /\ run' = [run EXCEPT ![r] = x]
                       /\ x.at = "finishing" /\ x.proj = run[r].proj
                       /\ \A id, p : ~Owns(x, id, p)
  BY DoneFacts DEF IngestSucceeds, Points
<1>3. Placed(x) /\ Resets(x, current)
  BY <1>1, <1>2 DEF Placed, Resets, Active
<1>4. LineInv' /\ line' \in [Projects -> Seq(Runs)]
  BY <1>2, LeavesLine DEF IngestSucceeds
<1>5. Flags' /\ (processing' => Resets(x, current) \/ (processing /\ ~Resets(run[r], current)))
  BY <1>3, FlagTypes, Zenon DEF IngestSucceeds, Flags
<1>6. /\ ops' \in 0..MaxOps /\ restored' \subseteq Ids /\ timer' \in Projects \cup {NoProject}
      /\ current \in Projects \cup {NoProject} /\ UNCHANGED <<place, made>>
      /\ Save(current, queue')
  BY <1>1, QueueFacts DEF IngestSucceeds
<1> DEFINE K == {i \in DOMAIN queue: queue[i].id # run[r].task}
<1>7. queue' = Kept(queue, K) /\ K \in SUBSET (DOMAIN queue)
  BY DEF IngestSucceeds, Without
<1>8. \A j \in K : j \in DOMAIN queue /\ ~Owns(run[r], queue[j].id, current)
  BY DEF Owns
<1> HIDE DEF K
<1>9. /\ queue' \in Seq(Task) /\ Distinct(queue', made) /\ (queue = <<>> => queue' = <<>>)
      /\ \A i \in DOMAIN queue' : \E j \in K : queue[j] = queue'[i]
  BY <1>7, KeptTasks, QueueFacts
<1>10. \A i \in DOMAIN queue' : \E j \in DOMAIN queue :
             queue[j] = queue'[i] /\ ~Owns(run[r], queue[j].id, current)
  BY <1>8, <1>9
<1> QED BY <1>2, <1>3, <1>4, <1>5, <1>6, <1>9, <1>10, MoveInv

\* The task is pending, and no other has its id: none that is processing is let go.
LEMMA IngestWasPausedInv ==
    ASSUME QueueInv, NEW r \in Runs, NEW files \in {FALSE, written}, IngestWasPaused(r, files)
    PROVE  QueueInv'
<1>1. run[r].proj = current /\ run[r].proj \in Projects
  BY QueueFacts DEF IngestWasPaused, LeavesMutex, Stale, Placed
<1>2. files \in BOOLEAN
  BY FlagTypes, Zenon DEF Flags
<1>3. \E x \in Run : /\ run' = [run EXCEPT ![r] = x] /\ x.at \in {"cleaning", "cleaned"}
                     /\ x.proj = run[r].proj
                     /\ \A id, p : ~Owns(x, id, p)
                     /\ processing' \in BOOLEAN
                     /\ processing' => x.at = "cleaning"
                     /\ disk' = disk \/ Save(current, queue)
  <2>1. CASE Done(r, "cleaning") /\ UNCHANGED <<processing, disk>>
    <3>1. PICK x \in Run : /\ run' = [run EXCEPT ![r] = x]
                           /\ x.at = "cleaning" /\ x.proj = run[r].proj
                           /\ \A id, p : ~Owns(x, id, p)
      BY <2>1, DoneFacts DEF Points
    <3>2. processing' \in BOOLEAN
      BY <2>1, FlagTypes, Zenon DEF Flags
    <3> QED BY <2>1, <3>1, <3>2
  <2>2. CASE processing' = FALSE /\ Save(run[r].proj, queue) /\ Done(r, "cleaned")
    <3>1. PICK x \in Run : /\ run' = [run EXCEPT ![r] = x]
                           /\ x.at = "cleaned" /\ x.proj = run[r].proj
                           /\ \A id, p : ~Owns(x, id, p)
      BY <2>2, DoneFacts DEF Points
    <3> QED BY <1>1, <2>2, <3>1
  <2> QED BY <2>1, <2>2 DEF IngestWasPaused
<1>4. PICK x \in Run : /\ run' = [run EXCEPT ![r] = x] /\ x.at \in {"cleaning", "cleaned"}
                       /\ x.proj = run[r].proj
                       /\ \A id, p : ~Owns(x, id, p)
                       /\ processing' \in BOOLEAN
                       /\ processing' => x.at = "cleaning"
                       /\ disk' = disk \/ Save(current, queue)
  BY <1>3
<1>5. Placed(x)
  BY <1>1, <1>4 DEF Placed
<1>6. LineInv' /\ line' \in [Projects -> Seq(Runs)]
  BY <1>4, LeavesLine DEF IngestWasPaused
<1>7. x.at = "cleaning" => Resets(x, current)
  BY <1>1, <1>4 DEF Resets, Active
<1>8. Flags' /\ (processing' => Resets(x, current) \/ (processing /\ ~Resets(run[r], current)))
  BY <1>2, <1>4, <1>7, FlagTypes, Zenon DEF IngestWasPaused, Flags
<1>9. /\ ops' \in 0..MaxOps /\ restored' \subseteq Ids /\ timer' \in Projects \cup {NoProject}
      /\ current \in Projects \cup {NoProject} /\ UNCHANGED <<place, made>>
      /\ queue' = queue /\ queue' \in Seq(Task) /\ Distinct(queue', made) /\ Distinct(queue, made)
  BY QueueFacts DEF IngestWasPaused
<1>10. PICK n \in DOMAIN queue : queue[n].id = run[r].task /\ queue[n].status = "pending"
  BY DEF IngestWasPaused, PausedMeanwhile, Held
<1>11. ASSUME NEW i \in DOMAIN queue, queue[i].status = "processing"
       PROVE  ~Owns(run[r], queue[i].id, current)
  BY <1>9, <1>10, <1>11 DEF Distinct, Owns
<1>12. \A i \in DOMAIN queue' : queue'[i].status = "processing" =>
          \E j \in DOMAIN queue : queue[j] = queue'[i] /\ ~Owns(run[r], queue[j].id, current)
  BY <1>9, <1>11
<1>13. (queue = <<>> => queue' = <<>>) /\ (disk' = disk \/ Save(current, queue'))
  BY <1>4, <1>9
<1> QED BY <1>4, <1>5, <1>6, <1>8, <1>9, <1>12, <1>13, MoveInv

\* The clean-up after a pause is over, perhaps in a project that was left since.
LEMMA CleaningInv == ASSUME QueueInv, NEW r \in Runs, Cleaning(r) PROVE QueueInv'
<1>1. run[r].at \notin Working /\ run[r].proj \in Projects
  BY QueueFacts DEF Cleaning, Working, Placed
<1>2. PICK x \in Run : /\ run' = [run EXCEPT ![r] = x]
                       /\ x.at = "cleaned" /\ x.proj = run[r].proj
                       /\ \A id, p : ~Owns(x, id, p)
  BY DoneFacts DEF Cleaning, Points
<1>3. Placed(x) /\ x.at \notin Working
  BY <1>1, <1>2 DEF Placed, Working
<1>4. Flags' /\ (processing' => Resets(x, current) \/ (processing /\ run[r].at \notin Active))
  BY FlagTypes, Zenon DEF Cleaning, Flags
<1>5. /\ ops' \in 0..MaxOps /\ restored' \subseteq Ids /\ timer' \in Projects \cup {NoProject}
      /\ UNCHANGED <<queue, line, place, made>> /\ Save(run[r].proj, queue)
      /\ run[r].proj \in Projects \cup {NoProject}
  BY <1>1, QueueFacts DEF Cleaning
<1> QED BY <1>1, <1>2, <1>3, <1>4, <1>5, QuietMoves

\* A usage limit puts the task back and pauses the queue.
LEMMA IngestIsLimitedInv == ASSUME QueueInv, NEW r \in Runs, IngestIsLimited(r) PROVE QueueInv'
<1>1. run[r].proj = current /\ run[r].proj \in Projects /\ LeavesMutex(r)
  BY QueueFacts DEF IngestIsLimited, LeavesMutex, Stale, Placed
<1>2. "limited" \in Points /\ "limited" \notin {"queued", "ingesting"}
  BY DEF Points
<1>3. Flags' /\ (processing' => "limited" \in Active)
  BY FlagTypes, Zenon DEF IngestIsLimited, Flags
<1>4. /\ UNCHANGED <<place, made, timer, restored, ops>> /\ Save(current, queue')
      /\ queue' = Assign(r, "pending", 0) /\ Done(r, "limited")
  BY <1>1 DEF IngestIsLimited
<1> QED BY <1>1, <1>2, <1>3, <1>4, LetsGoInv

\* A failed attempt puts the task back or, the last one, fails it.
LEMMA IngestFailsInv ==
    ASSUME QueueInv, NEW r \in Runs, NEW files \in {FALSE, written}, IngestFails(r, files)
    PROVE  QueueInv'
<1>1. run[r].proj = current /\ run[r].proj \in Projects /\ LeavesMutex(r)
  BY QueueFacts DEF IngestFails, LeavesMutex, Stale, Placed
<1>2. "finishing" \in Points /\ "finishing" \notin {"queued", "ingesting"} /\ "finishing" \in Active
  BY DEF Points, Active
<1>3. Flags' /\ (processing' => "finishing" \in Active)
  BY <1>2, FlagTypes, Zenon DEF IngestFails, Flags
<1>4. PICK s \in {"pending", "failed"} : queue' = Assign(r, s, 1)
  BY DEF IngestFails
<1>5. /\ UNCHANGED <<place, made, timer, restored, ops>> /\ Save(current, queue')
      /\ Done(r, "finishing")
  BY <1>1 DEF IngestFails
<1> QED BY <1>1, <1>2, <1>3, <1>4, <1>5, LetsGoInv

\* What was interrupted is pending again.
LEMMA InterruptedFacts ==
    ASSUME NEW q \in Seq(Task), NEW m, Distinct(q, m)
    PROVE  /\ Interrupted(q) \in Seq(Task) /\ Distinct(Interrupted(q), m)
           /\ \A i \in DOMAIN Interrupted(q) : Interrupted(q)[i].status # "processing"
           /\ q = <<>> => Interrupted(q) = <<>>
           /\ DOMAIN Interrupted(q) = DOMAIN q
           /\ \A i \in DOMAIN q : Interrupted(q)[i].id = q[i].id
<1>1. PICK f : f = Interrupted(q)
  OBVIOUS
<1>2. /\ DOMAIN f = DOMAIN q /\ f = [i \in DOMAIN q |-> f[i]]
      /\ \A i \in DOMAIN q : f[i] = IF q[i].status = "processing"
                                      THEN [q[i] EXCEPT !.status = "pending"] ELSE q[i]
  BY <1>1 DEF Interrupted
<1>3. ASSUME NEW i \in DOMAIN q
      PROVE  f[i] \in Task /\ f[i].id = q[i].id /\ f[i].status # "processing"
  <2>1. q[i] \in Task
    OBVIOUS
  <2>2. CASE q[i].status = "processing"
    <3>1. f[i] = [q[i] EXCEPT !.status = "pending"]
      BY <1>2, <2>2
    <3> QED BY <2>1, <3>1 DEF Task, Statuses
  <2>3. CASE q[i].status # "processing"
    BY <1>2, <2>1, <2>3
  <2> QED BY <2>2, <2>3
<1>4. f \in Seq(Task) /\ Distinct(f, m) /\ (q = <<>> => f = <<>>)
  BY <1>2, <1>3, EditedTasks
<1> QED BY <1>1, <1>2, <1>3, <1>4

\* No invocation moves when a project is opened or left.
LEMMA RunsStay == QueueInv /\ UNCHANGED <<run, line>> => RunInv' /\ LineInv'
BY DEF QueueInv, RunInv, LineInv

\* An empty list of tasks is one.
LEMMA NothingSaved ==
    Distinct(<<>>, made) /\ Distinct(<<>>, made') /\ <<>> \in Seq(Task)
BY DEF Distinct

\* The project is about to be left: its tasks are pending and in its file.
LEMMA PauseQueueInv == ASSUME QueueInv, PauseQueue PROVE QueueInv'
<1>1. current \in Projects /\ queue \in Seq(Task) /\ Distinct(queue, made) /\ disk \in [Projects -> Seq(Task)]
  BY QueueFacts DEF PauseQueue
<1>2. /\ queue' \in Seq(Task) /\ Distinct(queue', made)
      /\ \A i \in DOMAIN queue' : queue'[i].status # "processing"
  BY <1>1, InterruptedFacts DEF PauseQueue
<1>3. /\ disk' \in [Projects -> Seq(Task)] /\ disk'[current] = queue'
      /\ \A p \in Projects : disk'[p] = IF p = current THEN queue' ELSE disk[p]
  BY <1>1, <1>2, QueueFacts DEF PauseQueue, Save
<1>4. Flags'
  BY FlagTypes, Zenon DEF PauseQueue, Flags
<1>5. Rest'
  BY <1>2, <1>3, OperationTypes, QueueTypes, QueueFacts DEF PauseQueue, Rest, QueueInv
<1>6. IdInv'
  BY <1>2, <1>3 DEF PauseQueue, QueueInv, IdInv
<1>7. PlaceInv' /\ SavedInv' /\ OwnInv'
  BY <1>1, <1>2, <1>3 DEF PauseQueue, PlaceInv, SavedInv, OwnInv
<1>8. FlagInv'
  BY DEF PauseQueue, FlagInv
<1>9. RunInv' /\ LineInv'
  BY RunsStay DEF PauseQueue
<1> QED BY <1>4, <1>5, <1>6, <1>7, <1>8, <1>9, QueueTypes DEF QueueInv

\* The project is left, and the memory is empty.
LEMMA FlushedInv == ASSUME QueueInv, Flushed PROVE QueueInv'
<1>1. Flags'
  BY FlagTypes, Zenon DEF Flushed, Flags
<1>2. Rest'
  BY NothingSaved, QueueTypes DEF Flushed, Rest, QueueInv
<1>3. IdInv'
  BY NothingSaved DEF Flushed, QueueInv, IdInv
<1>4. PlaceInv' /\ SavedInv' /\ OwnInv' /\ FlagInv'
  BY DEF Flushed, PlaceInv, SavedInv, OwnInv, FlagInv
<1>5. RunInv' /\ LineInv'
  BY RunsStay DEF Flushed
<1> QED BY <1>1, <1>2, <1>3, <1>4, <1>5, QueueTypes DEF QueueInv

\* A project is opened, with nothing in memory and all flags down.
LEMMA RestoreQueueInv == ASSUME QueueInv, NEW p \in Projects, RestoreQueue(p) PROVE QueueInv'
<1>1. Flags'
  BY FlagTypes, Zenon DEF RestoreQueue, Flags
<1>2. Rest'
  BY NothingSaved, QueueTypes DEF RestoreQueue, Rest, QueueInv
<1>3. IdInv'
  BY NothingSaved DEF RestoreQueue, QueueInv, IdInv
<1>4. PlaceInv' /\ SavedInv' /\ OwnInv'
  BY DEF RestoreQueue, PlaceInv, SavedInv, OwnInv
<1>5. FlagInv'
  BY Zenon DEF RestoreQueue, FlagInv
<1>6. RunInv' /\ LineInv'
  BY RunsStay DEF RestoreQueue
<1> QED BY <1>1, <1>2, <1>3, <1>4, <1>5, <1>6, QueueTypes DEF QueueInv

\* The file of the project is read; nothing was added to the memory unless it is in the
\* file by now.
LEMMA ReadQueueFileInv == ASSUME QueueInv, ReadQueueFile PROVE QueueInv'
<1>1. current \in Projects
  BY QueueFacts DEF ReadQueueFile
<1>2. Flags'
  BY FlagTypes, Zenon DEF ReadQueueFile, Flags
<1>3. Rest'
  BY <1>1, QueueTypes DEF ReadQueueFile, Rest, QueueInv
<1>4. IdInv'
  BY <1>1 DEF ReadQueueFile, QueueInv, IdInv
<1>5. PlaceInv' /\ SavedInv'
  BY <1>1 DEF ReadQueueFile, QueueInv, PlaceInv, SavedInv
<1>6. FlagInv'
  BY Zenon DEF ReadQueueFile, QueueInv, FlagInv
<1>7. OwnInv'
  BY DEF ReadQueueFile, QueueInv, OwnInv
<1>8. RunInv' /\ LineInv'
  BY RunsStay DEF ReadQueueFile
<1> QED BY <1>2, <1>3, <1>4, <1>5, <1>6, <1>7, <1>8, QueueTypes DEF QueueInv

\* After a restart only the files are left.
LEMMA RestartInv == ASSUME QueueInv, Restart PROVE QueueInv'
<1>1. Flags'
  BY FlagTypes, Zenon DEF Restart, Flags
<1>2. line' \in [Projects -> Seq(Runs)] /\ run' \in [Runs -> Run] /\ \A r \in Runs : run'[r] = Idle
  BY IdleRuns DEF Restart
<1>3. Rest'
  BY <1>2, NothingSaved, OperationTypes, QueueTypes DEF Restart, Rest, QueueInv
<1>4. IdInv'
  BY NothingSaved DEF Restart, QueueInv, IdInv
<1>5. PlaceInv' /\ SavedInv' /\ OwnInv' /\ FlagInv'
  BY DEF Restart, PlaceInv, SavedInv, OwnInv, FlagInv
<1>6. RunInv' /\ LineInv'
  BY <1>2 DEF RunInv, LineInv, Placed, Idle
<1> QED BY <1>1, <1>3, <1>4, <1>5, <1>6, QueueTypes DEF QueueInv

\* What was read replaces the queue: no task of it is processing, and an invocation
\* that had taken one of the old objects holds none of the new ones.
LEMMA ReplacedInv ==
    ASSUME QueueInv, Restored, loaded # <<>> PROVE QueueInv'
<1> DEFINE K == {i \in DOMAIN loaded: loaded[i].proj = current}
<1>1. /\ current \in Projects /\ switch = "loaded" /\ loaded \in Seq(Task) /\ Distinct(loaded, made)
      /\ disk \in [Projects -> Seq(Task)] /\ run \in [Runs -> Run] /\ Distinct(loaded', made)
  BY QueueTypes, QueueFacts, NothingSaved DEF Restored, QueueInv, Rest, IdInv
<1>2. UNCHANGED <<processing, paused, current, written, timer, line, made, ops>> /\ switch' = "ready" /\ loaded' = <<>>
  BY DEF Restored
<1>3. PICK q : q = Kept(loaded, K)
  OBVIOUS
<1>4. q \in Seq(Task) /\ Distinct(q, made)
  <2>1. K \in SUBSET (DOMAIN loaded)
    OBVIOUS
  <2> HIDE DEF K
  <2> QED BY <1>1, <1>3, <2>1, KeptTasks
<1>5. queue' = Interrupted(q)
  BY <1>3 DEF Restored
<1>6. /\ queue' \in Seq(Task) /\ Distinct(queue', made)
      /\ \A i \in DOMAIN queue' : queue'[i].status # "processing"
  BY <1>4, <1>5, InterruptedFacts
<1>7. restored' \subseteq Ids
  <2>1. restored' = {t.id : t \in {queue'[i] : i \in {j \in DOMAIN queue': queue'[j].status = "pending"}}}
    BY DEF Restored
  <2>2. \A i \in DOMAIN queue' : queue'[i] \in Task
    BY <1>6
  <2>3. \A t \in Task : t.id \in Ids
    BY DEF Task
  <2> QED BY <2>1, <2>2, <2>3
<1>8. Save(current, queue')
  BY DEF Restored
<1>9. /\ disk' \in [Projects -> Seq(Task)] /\ disk'[current] = queue'
      /\ \A p \in Projects : disk'[p] = IF p = current THEN queue' ELSE disk[p]
  BY <1>1, <1>6, <1>8, QueueFacts DEF Save
<1>10. PICK f \in Runs : f = FreeRun /\ run[f] = Idle
  BY FreeRunIsFree DEF Restored
<1>11. PICK again \in Run : again = [Idle EXCEPT !.at = "again", !.proj = current]
  <2>1. [Idle EXCEPT !.at = "again", !.proj = current] \in Run
    BY <1>1 DEF Idle, Run, Points
  <2> QED BY <2>1
<1>12. again.at = "again" /\ again.proj = current
  BY <1>11 DEF Idle
<1>13. run' = [r \in Runs |-> IF r = f /\ restored' # {} THEN again ELSE [run[r] EXCEPT !.own = FALSE]]
  BY <1>10, <1>11 DEF Restored
<1>14. ASSUME NEW r \in Runs
       PROVE  /\ run'[r] \in Run
              /\ \/ run'[r].at = run[r].at /\ run'[r].proj = run[r].proj
                 \/ r = f /\ run'[r] = again
  <2>1. run[r] \in Run
    BY <1>1
  <2>2. CASE r = f /\ restored' # {}
    BY <1>13, <2>2
  <2>3. CASE ~(r = f /\ restored' # {})
    <3>1. run'[r] = [run[r] EXCEPT !.own = FALSE]
      BY <1>13, <2>3
    <3> QED BY <2>1, <3>1 DEF Run
  <2> QED BY <2>2, <2>3
<1>15. run' \in [Runs -> Run]
  BY <1>13, <1>14
<1>16. Flags'
  BY <1>2, FlagTypes, Zenon DEF Flags
<1>17. Rest'
  BY <1>1, <1>2, <1>6, <1>7, <1>9, <1>15, QueueTypes, NothingSaved DEF Rest, QueueInv
<1>18. IdInv'
  BY <1>1, <1>2, <1>6, <1>9, NothingSaved DEF QueueInv, IdInv
<1>19. PlaceInv' /\ SavedInv'
  BY <1>1, <1>2, <1>9 DEF PlaceInv, SavedInv
<1>20. OwnInv'
  BY <1>6 DEF OwnInv
<1>21. RunInv'
  BY <1>1, <1>12, <1>14 DEF QueueInv, RunInv, Placed
<1>22. LineInv'
  <2> SUFFICES ASSUME NEW r \in Runs, run'[r].at \in {"queued", "ingesting"}
               PROVE  /\ run'[r].at = run[r].at /\ run'[r].proj = run[r].proj
    BY <1>2 DEF QueueInv, LineInv
  <2> QED BY <1>12, <1>14
<1>23. FlagInv'
  <2>1. ASSUME processing PROVE \E r \in Runs : Resets(run'[r], current)
    <3>1. PICK r \in Runs : Resets(run[r], current)
      BY <1>1, <2>1 DEF QueueInv, FlagInv
    <3>2. r # f
      BY <1>10, <3>1, IdleRuns
    <3> QED BY <1>14, <3>1, <3>2 DEF Resets
  <2>2. processing' => \E r \in Runs : Resets(run'[r], current')
    BY <1>2, <2>1, Zenon
  <2> QED BY <2>2 DEF FlagInv
<1> QED BY <1>16, <1>17, <1>18, <1>19, <1>20, <1>21, <1>22, <1>23, QueueTypes DEF QueueInv

\* An empty file leaves the memory, which is then what the file has; another replaces it.
LEMMA RestoredInv == ASSUME QueueInv, Restored PROVE QueueInv'
<1>1. CASE loaded = <<>>
  <2>1. /\ UNCHANGED <<processing, paused, current, written, timer, line, made, ops, queue, restored, disk, run>>
        /\ switch = "loaded" /\ switch' = "ready" /\ loaded' = <<>> /\ current \in Projects
    BY <1>1, QueueFacts DEF Restored
  <2>2. Flags'
    BY <2>1, FlagTypes, Zenon DEF Flags
  <2>3. Rest'
    BY <2>1, NothingSaved, QueueTypes DEF Rest, QueueInv
  <2>4. IdInv'
    BY <2>1, NothingSaved DEF QueueInv, IdInv
  <2>5. PlaceInv' /\ SavedInv'
    BY <1>1, <2>1 DEF QueueInv, PlaceInv, SavedInv
  <2>6. FlagInv'
    BY <2>1, Zenon DEF QueueInv, FlagInv
  <2>7. OwnInv'
    BY <2>1 DEF QueueInv, OwnInv
  <2>8. RunInv' /\ LineInv'
    BY <2>1, RunsStay
  <2> QED BY <2>2, <2>3, <2>4, <2>5, <2>6, <2>7, <2>8, QueueTypes DEF QueueInv
<1>2. CASE loaded # <<>>
  BY <1>2, ReplacedInv
<1> QED BY <1>1, <1>2

\* u is what an upsert makes of the queue q, the restored backlog back and the m tasks made.
Upserted(u, q, back, m) ==
    \E q2, back2, m2 :
        /\ u = [queue |-> q2, restored |-> back2, made |-> m2]
        /\ m2 \in {m, m + 1} /\ back2 \subseteq back
        /\ m2 <= MaxTasks => /\ q2 \in Seq(Task) /\ Distinct(q2, m2)
                             /\ \A i \in DOMAIN q2 : q2[i].status = "processing" =>
                                   \E j \in DOMAIN q : q[j] = q2[i]
                             /\ IdsOf(q) \subseteq IdsOf(q2)

\* A file is put into the queue: its task is reset, or a new one is appended.
LEMMA UpsertFacts ==
    ASSUME NEW q \in Seq(Task), NEW back \in SUBSET Ids, NEW m \in 0..MaxTasks, Distinct(q, m),
           current \in Projects, NEW s \in Sources,
           NEW st, st = [queue |-> q, restored |-> back, made |-> m]
    PROVE  Upserted(Upsert(st, s), q, back, m)
<1> DEFINE same == {i \in DOMAIN q : q[i].src = s /\ q[i].status \in {"pending", "failed"}}
<1>1. st.queue = q /\ st.restored = back /\ st.made = m
  OBVIOUS
<1>2. same = {i \in DOMAIN st.queue: st.queue[i].src = s /\ st.queue[i].status \in {"pending", "failed"}}
  BY <1>1
<1>3. CASE same # {}
  <2>1. same \in SUBSET Nat
    OBVIOUS
  <2>2. PICK n \in DOMAIN q : n = FirstOf(same)
    BY <1>3, <2>1, FirstIsOne
  <2>3. q[n] \in Task
    OBVIOUS
  <2>4. PICK t \in Task : t = Reset(q[n]) /\ t.id = q[n].id /\ t.status = "pending"
    BY <2>3, ResetTask
  <2>5. PICK q2 : q2 = [q EXCEPT ![n] = t]
    OBVIOUS
  <2>6. /\ q2 \in Seq(Task) /\ DOMAIN q2 = DOMAIN q
        /\ \A i \in DOMAIN q : q2[i] = IF i = n THEN t ELSE q[i]
    BY <2>5, ExceptSeq
  <2>7. Distinct(q2, m)
    BY <2>4, <2>6 DEF Distinct
  <2>8. Upsert(st, s) = [st EXCEPT !.queue[n] = Reset(@), !.restored = @ \ {st.queue[n].id}]
    BY <1>2, <1>3, <2>2 DEF Upsert
  <2>9. Upsert(st, s) = [queue |-> q2, restored |-> back \ {q[n].id}, made |-> m]
    BY <2>4, <2>5, <2>8
  <2>10. \A i \in DOMAIN q2 : q2[i].status = "processing" => \E j \in DOMAIN q : q[j] = q2[i]
    BY <2>4, <2>6
  <2>11. IdsOf(q) \subseteq IdsOf(q2)
    BY <2>4, <2>6 DEF IdsOf
  <2> QED BY <2>6, <2>7, <2>9, <2>10, <2>11 DEF Upserted
<1>4. CASE same = {}
  <2> DEFINE t == [id |-> m + 1, proj |-> current, src |-> s, status |-> "pending", tries |-> 0]
  <2>1. Upsert(st, s) = [st EXCEPT !.made = @ + 1, !.queue = Append(@, [id |-> st.made + 1, proj |-> current, src |-> s,
                                              status |-> "pending", tries |-> 0])]
    BY <1>2, <1>4 DEF Upsert
  <2>2. Upsert(st, s) = [queue |-> Append(q, t), restored |-> back, made |-> m + 1]
    BY <2>1
  <2>3. t.id = m + 1 /\ t.status = "pending"
    OBVIOUS
  <2>4. m + 1 <= MaxTasks => t \in Task
    BY QueueAssumption DEF Task, Ids, Statuses
  <2> HIDE DEF t
  <2>5. ASSUME m + 1 <= MaxTasks
        PROVE  /\ Append(q, t) \in Seq(Task) /\ Distinct(Append(q, t), m + 1)
               /\ \A i \in DOMAIN Append(q, t) : Append(q, t)[i].status = "processing" =>
                     \E j \in DOMAIN q : q[j] = Append(q, t)[i]
               /\ IdsOf(q) \subseteq IdsOf(Append(q, t))
    <3>1. t \in Task
      BY <2>4, <2>5
    <3>2. PICK q2 \in Seq(Task) : q2 = Append(q, t)
      BY <3>1, AppendProperties
    <3>3. /\ Len(q) \in Nat /\ DOMAIN q = 1..Len(q) /\ DOMAIN q2 = 1..(Len(q) + 1) /\ q2[Len(q) + 1] = t
          /\ \A i \in DOMAIN q : q2[i] = q[i]
      BY <3>1, <3>2, AppendProperties
    <3>4. \A i \in DOMAIN q : q[i].id \in Nat
      <4>1. \A i \in DOMAIN q : q[i] \in Task
        OBVIOUS
      <4> QED BY <4>1 DEF Task, Ids
    <3>5. Distinct(q2, m + 1)
      BY <2>3, <3>3, <3>4 DEF Distinct
    <3>6. \A i \in DOMAIN q2 : q2[i].status = "processing" => \E j \in DOMAIN q : q[j] = q2[i]
      BY <2>3, <3>3
    <3>7. IdsOf(q) \subseteq IdsOf(q2)
      BY <3>3 DEF IdsOf
    <3> QED BY <3>2, <3>5, <3>6, <3>7
  <2> QED BY <2>2, <2>5 DEF Upserted
<1> QED BY <1>3, <1>4

\* An upsert makes at most one task.
LEMMA UpsertCounts ==
    ASSUME NEW q, NEW back, NEW m, NEW s
    PROVE  Upsert([queue |-> q, restored |-> back, made |-> m], s).made \in {m, m + 1}
BY DEF Upsert

\* A task that is made has the next id, and is pending.
LEMMA EnqueueFacts ==
    ASSUME QueueInv, NEW files \in Seq(Sources), Len(files) \in {1, 2}, Enqueue(files)
    PROVE  /\ queue' \in Seq(Task) /\ Distinct(queue', made')
           /\ made' \in 0..MaxTasks /\ made <= made' /\ restored' \subseteq Ids
           /\ \A i \in DOMAIN queue' : queue'[i].status = "processing" =>
                  \E j \in DOMAIN queue : queue[j] = queue'[i]
           /\ IdsOf(queue) \subseteq IdsOf(queue')
<1>1. /\ current \in Projects /\ queue \in Seq(Task) /\ Distinct(queue, made) /\ made \in 0..MaxTasks
      /\ restored \in SUBSET Ids /\ switch # "closed"
  BY QueueFacts DEF Enqueue
<1> DEFINE now == [queue |-> queue, restored |-> restored, made |-> made]
           first == Upsert(now, files[1])
           after == IF Len(files) = 1 THEN first ELSE Upsert(first, files[2])
<1>2. /\ after.made <= MaxTasks
      /\ queue' = after.queue /\ restored' = after.restored /\ made' = after.made
  BY DEF Enqueue
<1>3. PICK s \in Sources : s = files[1]
  OBVIOUS
<1>4. PICK q1, b1, m1 : /\ first = [queue |-> q1, restored |-> b1, made |-> m1]
                        /\ m1 \in {made, made + 1} /\ b1 \subseteq restored
                        /\ m1 <= MaxTasks => /\ q1 \in Seq(Task) /\ Distinct(q1, m1)
                                             /\ \A i \in DOMAIN q1 : q1[i].status = "processing" =>
                                                   \E j \in DOMAIN queue : queue[j] = q1[i]
                                             /\ IdsOf(queue) \subseteq IdsOf(q1)
  <2>1. now = [queue |-> queue, restored |-> restored, made |-> made] /\ first = Upsert(now, s)
    BY <1>3
  <2> HIDE DEF now, first
  <2>2. Upserted(Upsert(now, s), queue, restored, made)
    BY <1>1, <2>1, UpsertFacts
  <2> QED BY <2>1, <2>2 DEF Upserted
<1>5. CASE Len(files) = 1
  <2>1. queue' = q1 /\ restored' = b1 /\ made' = m1 /\ m1 <= MaxTasks
    BY <1>2, <1>4, <1>5
  <2> QED BY <1>1, <1>4, <2>1
<1>6. CASE Len(files) = 2
  <2>1. after = Upsert([queue |-> q1, restored |-> b1, made |-> m1], files[2])
    BY <1>4, <1>6
  <2>2. after.made \in {m1, m1 + 1}
    BY <2>1, UpsertCounts
  <2>3. m1 \in 0..MaxTasks /\ b1 \in SUBSET Ids
    BY <1>1, <1>2, <1>4, <2>2, QueueAssumption
  <2>4. /\ q1 \in Seq(Task) /\ Distinct(q1, m1)
        /\ \A i \in DOMAIN q1 : q1[i].status = "processing" => \E j \in DOMAIN queue : queue[j] = q1[i]
        /\ IdsOf(queue) \subseteq IdsOf(q1)
    BY <1>4, <2>3
  <2> HIDE DEF after, first, now
  <2>5. PICK q2, b2, m2 : /\ after = [queue |-> q2, restored |-> b2, made |-> m2]
                          /\ m2 \in {m1, m1 + 1} /\ b2 \subseteq b1
                          /\ m2 <= MaxTasks => /\ q2 \in Seq(Task) /\ Distinct(q2, m2)
                                               /\ \A i \in DOMAIN q2 : q2[i].status = "processing" =>
                                                     \E j \in DOMAIN q1 : q1[j] = q2[i]
                                               /\ IdsOf(q1) \subseteq IdsOf(q2)
    <3>1. PICK st : st = [queue |-> q1, restored |-> b1, made |-> m1]
      OBVIOUS
    <3>2. PICK t \in Sources : t = files[2]
      BY <1>6
    <3>3. Upserted(Upsert(st, t), q1, b1, m1)
      BY <1>1, <2>3, <2>4, <3>1, UpsertFacts
    <3> QED BY <2>1, <3>1, <3>2, <3>3 DEF Upserted
  <2>6. queue' = q2 /\ restored' = b2 /\ made' = m2 /\ m2 <= MaxTasks
    BY <1>2, <2>5
  <2>7. q2 \in Seq(Task) /\ Distinct(q2, m2) /\ IdsOf(queue) \subseteq IdsOf(q2)
    BY <2>4, <2>5, <2>6
  <2>8. \A i \in DOMAIN q2 : q2[i].status = "processing" => \E j \in DOMAIN queue : queue[j] = q2[i]
    BY <2>4, <2>5, <2>6
  <2> QED BY <1>1, <1>4, <2>3, <2>5, <2>6, <2>7, <2>8
<1> QED BY <1>5, <1>6

\* One or two files are put into the queue, it is saved and processNext will be called.
LEMMA EnqueueInv ==
    ASSUME QueueInv, NEW files \in Seq(Sources), Len(files) \in {1, 2}, Enqueue(files)
    PROVE  QueueInv'
<1>1. current \in Projects /\ switch # "closed"
  BY QueueFacts DEF Enqueue
<1>2. /\ queue' \in Seq(Task) /\ Distinct(queue', made')
      /\ made' \in 0..MaxTasks /\ made <= made' /\ restored' \subseteq Ids
      /\ \A i \in DOMAIN queue' : queue'[i].status = "processing" =>
             \E j \in DOMAIN queue : queue[j] = queue'[i]
  BY EnqueueFacts
<1>3. PICK r \in Runs : r = FreeRun /\ run[r] = Idle
  BY FreeRunIsFree DEF Enqueue
<1>4. run[r].at \notin Working /\ run[r].at \notin Active
  BY <1>3 DEF Idle, Working, Active
<1>5. "kick" \in Points /\ At(r, "kick")
  BY <1>3 DEF Points, Enqueue
<1>6. PICK x \in Run : run' = [run EXCEPT ![r] = x] /\ x.at = "kick"
  BY <1>5, AtFacts
<1>7. Placed(x) /\ x.at \notin {"queued", "ingesting"}
  BY <1>6 DEF Placed
<1>8. LineInv' /\ line' \in [Projects -> Seq(Runs)]
  BY <1>6, <1>7, LineStays DEF Enqueue
<1>9. Flags' /\ (processing' => Resets(x, current) \/ (processing /\ ~Resets(run[r], current)))
  BY <1>4, FlagTypes, Zenon DEF Enqueue, Flags, Resets
<1>10. \A i \in DOMAIN queue' : queue'[i].status = "processing" =>
          \E j \in DOMAIN queue : queue[j] = queue'[i] /\ ~Owns(run[r], queue[j].id, current)
  BY <1>2, <1>4 DEF Owns
<1>11. ops' \in 0..MaxOps
  BY OperationTypes, QueueFacts DEF Enqueue
<1>12. UNCHANGED <<current, switch, loaded>> /\ timer' \in Projects \cup {NoProject} /\ Save(current, queue')
  BY QueueFacts DEF Enqueue, place
<1> QED BY <1>1, <1>2, <1>6, <1>7, <1>8, <1>9, <1>10, <1>11, <1>12, QueueMoves

\* The application has just started.
LEMMA QueueInitInv == QueueInit => QueueInv
<1> SUFFICES ASSUME QueueInit PROVE QueueInv
  OBVIOUS
<1>1. Flags
  BY Zenon DEF QueueInit, Flags
<1>2. made \in 0..MaxTasks /\ ops \in 0..MaxOps
  <2>1. PICK b \in Budgets : made = MaxTasks - b[1] /\ ops = MaxOps - b[2]
    BY DEF QueueInit
  <2>2. b[1] \in 0..MaxTasks /\ b[2] \in 0..MaxOps
    BY QueueAssumption
  <2> QED BY <2>1, <2>2, QueueAssumption
<1>3. line \in [Projects -> Seq(Runs)] /\ disk \in [Projects -> Seq(Task)] /\ queue \in Seq(Task) /\ loaded \in Seq(Task)
  BY DEF QueueInit
<1>4. run \in [Runs -> Run] /\ \A r \in Runs : run[r] = Idle
  BY IdleRuns DEF QueueInit
<1>5. Rest
  BY <1>2, <1>3, <1>4 DEF QueueInit, Rest
<1>6. IdInv
  BY NothingSaved DEF QueueInit, IdInv
<1>7. PlaceInv /\ SavedInv /\ OwnInv /\ FlagInv
  BY DEF QueueInit, PlaceInv, SavedInv, OwnInv, FlagInv
<1>8. RunInv /\ LineInv
  BY <1>4 DEF RunInv, LineInv, Placed, Idle
<1> QED BY <1>1, <1>5, <1>6, <1>7, <1>8, QueueTypes DEF QueueInv

\* One file or two.
LEMMA FileLists ==
    ASSUME NEW files \in {<<s>> : s \in Sources} \cup {<<s, t>> : s \in Sources, t \in Sources}
    PROVE  files \in Seq(Sources) /\ Len(files) \in {1, 2}
<1>1. CASE files \in {<<s>> : s \in Sources}
  <2>1. PICK s \in Sources : files = <<s>>
    BY <1>1
  <2>2. <<s>> \in Seq(Sources) /\ Len(<<s>>) = 1
    OBVIOUS
  <2> QED BY <2>1, <2>2
<1>2. CASE files \in {<<s, t>> : s \in Sources, t \in Sources}
  <2>1. PICK s \in Sources, t \in Sources : files = <<s, t>>
    BY <1>2
  <2>2. <<s, t>> \in Seq(Sources) /\ Len(<<s, t>>) = 2
    OBVIOUS
  <2> QED BY <2>1, <2>2
<1> QED BY <1>1, <1>2

\* Every step keeps the invariant.
LEMMA QueueNextInv == QueueInv /\ [QueueNext]_queueVars => QueueInv'
<1> SUFFICES ASSUME QueueInv, [QueueNext]_queueVars PROVE QueueInv'
  OBVIOUS
<1>1. CASE Operations
  <2>1. ASSUME NEW files \in {<<s>> : s \in Sources} \cup {<<s, t>> : s \in Sources, t \in Sources}, Enqueue(files)
        PROVE  QueueInv'
    BY <2>1, FileLists, EnqueueInv
  <2> QED BY <1>1, <2>1, RetryInv, CancelInv, CancelAllInv, PauseInv, ResumeInv, TimerFiresInv,
             PauseQueueInv, RestartInv DEF Operations
<1>2. CASE HandOver
  BY <1>2, FlushedInv, RestoreQueueInv, ReadQueueFileInv, RestoredInv DEF HandOver
<1>3. CASE \E r \in Runs: Steps(r) \/ WritesFile(r)
  <2>1. PICK r \in Runs : Steps(r) \/ WritesFile(r)
    BY <1>3
  <2>2. CASE WritesFile(r)
    BY <2>2, WritesFileInv
  <2>3. CASE Kick(r) \/ Again(r) \/ RegistryAnswers(r) \/ CallsIngest(r) \/ GetsMutex(r)
    BY <2>3, KickInv, AgainInv, RegistryAnswersInv, CallsIngestInv, GetsMutexInv
  <2>4. CASE IngestIsStale(r) \/ IngestSucceeds(r) \/ IngestIsLimited(r)
    BY <2>4, IngestIsStaleInv, IngestSucceedsInv, IngestIsLimitedInv
  <2>5. CASE \E files \in {FALSE, written}: IngestWasPaused(r, files) \/ IngestFails(r, files)
    BY <2>5, IngestWasPausedInv, IngestFailsInv
  <2>6. CASE Cleaning(r) \/ Cleaned(r) \/ Limited(r) \/ Finishing(r) \/ Cancelling(r) \/ Clearing(r)
    BY <2>6, CleaningInv, CleanedInv, LimitedInv, FinishingInv, CancellingInv, ClearingInv
  <2> QED BY <2>1, <2>2, <2>3, <2>4, <2>5, <2>6 DEF Steps
<1>4. CASE UNCHANGED queueVars
  <2>1. UNCHANGED <<queue, restored, current, timer, disk, run, line, switch, loaded, made, ops>>
    BY <1>4 DEF queueVars
  <2>2. UNCHANGED <<processing, paused, written>>
    BY <1>4 DEF queueVars
  <2>3. Flags'
    BY <2>2, FlagTypes, Zenon DEF Flags
  <2>4. Rest'
    BY <2>1, QueueTypes DEF QueueInv, Rest
  <2>5. PlaceInv' /\ IdInv' /\ SavedInv' /\ RunInv' /\ LineInv' /\ OwnInv'
    BY <2>1 DEF QueueInv, PlaceInv, IdInv, SavedInv, RunInv, LineInv, OwnInv
  <2>6. FlagInv'
    BY <2>1, <2>2, Zenon DEF QueueInv, FlagInv
  <2> QED BY <2>3, <2>4, <2>5, <2>6, QueueTypes DEF QueueInv
<1> QED BY <1>1, <1>2, <1>3, <1>4 DEF QueueNext

\* What the theorems about the queue rest on.
LEMMA QueueSpecInv == QueueSpec => []QueueInv
BY QueueInitInv, QueueNextInv, PTL DEF QueueSpec

\* The tasks in memory and on disk, the flags and the invocations of ingest-queue.ts keep
\* their types, through every operation, hand-over and restart.
THEOREM QueueTypeCorrect == QueueSpec => []QueueTypeOK
<1>1. QueueInv => QueueTypeOK
  BY DEF QueueInv
<1> QED BY <1>1, QueueSpecInv, PTL

\* While a project is open the processing flag is in the hands of an invocation that will
\* reset it, and a task shown as processing in those of one that works on it: no order of
\* awaits of processNext, the operations and the hand-overs leaves one behind.
THEOREM WorkHasAnOwner == QueueSpec => []WorkIsOwned
<1>1. QueueInv => WorkIsOwned
  <2> SUFFICES ASSUME QueueInv PROVE WorkIsOwned
    OBVIOUS
  <2>1. FlagIsOwned
    <3>1. (\E r \in Runs : Resets(run[r], current)) => \E r \in Runs : run[r].at \in Active
      BY DEF Resets
    <3> QED BY <3>1, Zenon DEF QueueInv, FlagInv, FlagIsOwned
  <2>2. ProcessingTaskIsOwned
    BY DEF QueueInv, OwnInv, Owns, Working, ProcessingTaskIsOwned
  <2> QED BY <2>1, <2>2 DEF WorkIsOwned
<1> QED BY <1>1, QueueSpecInv, PTL

\* Whenever the application dies, the file of the open project lists the tasks that were
\* in memory.
THEOREM CrashLosesNoTask == QueueSpec => []FileMatchesMemory
<1>1. QueueInv => FileMatchesMemory
  BY DEF QueueInv, SavedInv, FileMatchesMemory
<1> QED BY <1>1, QueueSpecInv, PTL

\* A task that leaves a file leaves the queue of the open project.
LEMMA GoneFromQueue ==
    ASSUME QueueInv, switch \notin {"loading", "loaded"}, disk' = disk \/ Save(current, queue'),
           NEW p \in Projects, NEW i \in DOMAIN disk[p], disk[p][i].id \notin IdsOf(disk'[p])
    PROVE  /\ Save(current, queue')
           /\ \E n \in DOMAIN queue : queue[n] = disk[p][i] /\ queue[n].id \notin IdsOf(queue')
<1>1. disk' # disk
  BY DEF IdsOf
<1>2. current # NoProject /\ p = current /\ disk'[p] = queue' /\ Save(current, queue')
  BY <1>1, QueueFacts DEF Save, IdsOf
<1>3. disk[current] = queue
  BY <1>2, QueueFacts, QueueTypes DEF QueueInv, SavedInv, Rest
<1> QED BY <1>2, <1>3

\* The steps that do not write the file, or write one with all the tasks.
KeepsTasks == disk' = disk \/ (Save(current, queue') /\ IdsOf(queue) \subseteq IdsOf(queue'))

\* A step that keeps the tasks of the queue loses none.
LEMMA KeptTasksStay ==
    ASSUME QueueInv, KeepsTasks PROVE OnlyEndedTasksGo
<1> SUFFICES ASSUME NEW p \in Projects, NEW i \in DOMAIN disk[p], disk[p][i].id \notin IdsOf(disk'[p]),
                    switch \notin {"loading", "loaded"}
             PROVE  FALSE
  BY DEF OnlyEndedTasksGo
<1>1. PICK n \in DOMAIN queue : queue[n] = disk[p][i] /\ queue[n].id \notin IdsOf(queue')
  BY GoneFromQueue DEF KeepsTasks
<1>2. disk' # disk
  BY DEF IdsOf
<1> QED BY <1>1, <1>2 DEF KeepsTasks, IdsOf

\* An assignment to a task object leaves the tasks in the queue.
LEMMA AssignKeeps ==
    ASSUME QueueInv, NEW r \in Runs, NEW s \in Statuses, NEW n \in Nat,
           queue' = Assign(r, s, n), Save(current, queue')
    PROVE  KeepsTasks
BY AssignFacts DEF KeepsTasks, IdsOf

\* An invocation that is not stale saves the file of the open project.
LEMMA NotStale ==
    ASSUME NEW r \in Runs, ~Stale(r), NEW q, Save(run[r].proj, q)
    PROVE  Save(current, q)
BY DEF Stale

\* Of the steps of processNext only the end of a task and a stale clean-up lose one.
LEMMA RunsKeepTasks ==
    ASSUME QueueInv, NEW r \in Runs,
           \/ RegistryAnswers(r) \/ CallsIngest(r) \/ IngestIsLimited(r)
           \/ \E files \in {FALSE, written} : IngestWasPaused(r, files) \/ IngestFails(r, files)
           \/ Cleaning(r) /\ ~Stale(r)
           \/ Kick(r) \/ Again(r) \/ GetsMutex(r) \/ WritesFile(r) \/ IngestIsStale(r)
           \/ Cleaned(r) \/ Limited(r) \/ Finishing(r)
    PROVE  KeepsTasks
<1>0. {"pending", "processing", "failed"} \subseteq Statuses /\ 0 \in Nat /\ 1 \in Nat
  BY StatusValues
<1>1. CASE RegistryAnswers(r)
  BY <1>0, <1>1, AssignKeeps, NotStale DEF RegistryAnswers, KeepsTasks
<1>2. CASE CallsIngest(r)
  BY <1>0, <1>2, AssignKeeps, NotStale DEF CallsIngest, KeepsTasks
<1>3. CASE IngestIsLimited(r)
  BY <1>0, <1>3, AssignKeeps, NotStale DEF IngestIsLimited
<1>4. CASE \E files \in {FALSE, written} : IngestFails(r, files)
  <2>1. PICK s \in {"pending", "failed"} : queue' = Assign(r, s, 1)
    BY <1>4 DEF IngestFails
  <2>2. Save(current, queue')
    BY <1>4, NotStale DEF IngestFails
  <2> QED BY <1>0, <2>1, <2>2, AssignKeeps
<1>5. CASE \E files \in {FALSE, written} : IngestWasPaused(r, files)
  BY <1>5, NotStale DEF IngestWasPaused, KeepsTasks
<1>6. CASE Cleaning(r) /\ ~Stale(r)
  BY <1>6, NotStale DEF Cleaning, KeepsTasks
<1>7. CASE \/ Kick(r) \/ Again(r) \/ GetsMutex(r) \/ WritesFile(r) \/ IngestIsStale(r)
           \/ Cleaned(r) \/ Limited(r) \/ Finishing(r)
  BY <1>7 DEF Kick, Again, GetsMutex, WritesFile, IngestIsStale, Cleaned, Limited, Finishing, KeepsTasks
<1> QED BY <1>1, <1>2, <1>3, <1>4, <1>5, <1>6, <1>7

\* Of the operations only the cancellations lose a task; none does by a hand-over.
LEMMA OperationsKeepTasks ==
    ASSUME QueueInv,
           \/ \E files \in Seq(Sources) : Len(files) \in {1, 2} /\ Enqueue(files)
           \/ \E ids \in {{i} : i \in Failed} \cup {Failed} : Retry(ids)
           \/ Pause \/ Resume \/ TimerFires \/ PauseQueue \/ Restart
           \/ Flushed \/ (\E p \in Projects: RestoreQueue(p)) \/ ReadQueueFile
           \/ UNCHANGED queueVars
    PROVE  KeepsTasks
<1>1. CASE \E files \in Seq(Sources) : Len(files) \in {1, 2} /\ Enqueue(files)
  BY <1>1, EnqueueFacts DEF Enqueue, KeepsTasks
<1>2. ASSUME NEW ids, Retry(ids) PROVE KeepsTasks
  <2>1. queue' = [i \in DOMAIN queue |-> IF queue[i].id \in ids THEN Reset(queue[i]) ELSE queue[i]]
    BY <1>2 DEF Retry
  <2>2. ASSUME NEW i \in DOMAIN queue PROVE i \in DOMAIN queue' /\ queue'[i].id = queue[i].id
    <3>1. queue[i] \in Task
      BY QueueFacts
    <3> QED BY <2>1, <3>1, ResetTask
  <2> QED BY <1>2, <2>2 DEF Retry, KeepsTasks, IdsOf
<1>3. CASE Pause
  <2> DEFINE running == {i \in DOMAIN queue: queue[i].status = "processing"}
             n == FirstOf(running)
  <2>1. CASE queue' = queue
    BY <1>3, <2>1 DEF Pause, KeepsTasks
  <2>2. CASE queue' # queue
    <3>1. queue' = [queue EXCEPT ![n].status = "pending"] /\ Save(current, queue')
      BY <1>3, <2>2 DEF Pause
    <3>2. ASSUME NEW i \in DOMAIN queue PROVE i \in DOMAIN queue' /\ queue'[i].id = queue[i].id
      <4>1. queue[i] \in Task
        BY QueueFacts
      <4> QED BY <3>1, <4>1, QueueFacts DEF Task
    <3> QED BY <3>1, <3>2 DEF KeepsTasks, IdsOf
  <2> QED BY <2>1, <2>2
<1>4. CASE PauseQueue
  <2>1. queue' = Interrupted(queue) /\ Save(current, queue')
    BY <1>4 DEF PauseQueue
  <2>2. /\ DOMAIN Interrupted(queue) = DOMAIN queue
        /\ \A i \in DOMAIN queue : Interrupted(queue)[i].id = queue[i].id
    BY InterruptedFacts, QueueFacts
  <2> QED BY <2>1, <2>2 DEF KeepsTasks, IdsOf
<1>5. CASE \/ Resume \/ TimerFires \/ Restart
           \/ Flushed \/ (\E p \in Projects: RestoreQueue(p)) \/ ReadQueueFile
           \/ UNCHANGED queueVars
  BY <1>5 DEF Resume, TimerFires, Restart, Flushed, RestoreQueue, ReadQueueFile, queueVars, KeepsTasks
<1> QED BY <1>1, <1>2, <1>3, <1>4, <1>5

\* The task that was ingested is the one that leaves.
LEMMA IngestEndsTask == ASSUME QueueInv, NEW r \in Runs, IngestSucceeds(r) PROVE OnlyEndedTasksGo
<1> SUFFICES ASSUME NEW p \in Projects, NEW i \in DOMAIN disk[p], disk[p][i].id \notin IdsOf(disk'[p]),
                    switch \notin {"loading", "loaded"}
             PROVE  EndsTask(r, disk[p][i].id)
  BY DEF OnlyEndedTasksGo
<1>1. Save(current, queue') /\ queue' = Without(queue, run[r].task)
  BY NotStale DEF IngestSucceeds
<1>2. PICK n \in DOMAIN queue : queue[n] = disk[p][i] /\ queue[n].id \notin IdsOf(queue')
  BY <1>1, GoneFromQueue
<1> DEFINE K == {j \in DOMAIN queue: queue[j].id # run[r].task}
<1>3. queue' = Kept(queue, K) /\ K \in SUBSET (DOMAIN queue)
  BY <1>1 DEF Without
<1> HIDE DEF K
<1>4. \A j \in K : \E m \in DOMAIN queue' : queue'[m] = queue[j]
  <2>1. queue \in Seq(Task) /\ Distinct(queue, made)
    BY QueueFacts
  <2> QED BY <1>3, <2>1, KeptTasks
<1>5. n \notin K
  BY <1>2, <1>4 DEF IdsOf
<1>6. queue[n].id = run[r].task
  BY <1>5 DEF K
<1> QED BY <1>2, <1>6 DEF EndsTask

\* Ids are unique: the task that leaves when one is cancelled is that one.
LEMMA CancelEndsTask == ASSUME QueueInv, NEW c \in DOMAIN queue, Cancel(queue[c]) PROVE OnlyEndedTasksGo
<1> SUFFICES ASSUME NEW p \in Projects, NEW i \in DOMAIN disk[p], disk[p][i].id \notin IdsOf(disk'[p]),
                    switch \notin {"loading", "loaded"}
             PROVE  disk[p][i] = queue[c]
  BY DEF OnlyEndedTasksGo
<1>1. disk' # disk
  BY DEF IdsOf
<1>2. Save(current, queue') /\ queue' = Without(queue, queue[c].id)
  BY <1>1 DEF Cancel, Discard
<1>3. PICK n \in DOMAIN queue : queue[n] = disk[p][i] /\ queue[n].id \notin IdsOf(queue')
  BY <1>2, GoneFromQueue
<1> DEFINE K == {j \in DOMAIN queue: queue[j].id # queue[c].id}
<1>4. queue' = Kept(queue, K) /\ K \in SUBSET (DOMAIN queue)
  BY <1>2 DEF Without
<1> HIDE DEF K
<1>5. \A j \in K : \E m \in DOMAIN queue' : queue'[m] = queue[j]
  <2>1. queue \in Seq(Task) /\ Distinct(queue, made)
    BY QueueFacts
  <2> QED BY <1>4, <2>1, KeptTasks
<1>6. n \notin K
  BY <1>3, <1>5 DEF IdsOf
<1>7. queue[n].id = queue[c].id
  BY <1>6 DEF K
<1>8. n = c
  BY <1>7, QueueFacts DEF Distinct
<1> QED BY <1>3, <1>8

\* Every step of the queue loses only what has ended.
LEMMA TasksSurviveStep == QueueInv /\ [QueueNext]_queueVars => OnlyEndedTasksGo
<1> SUFFICES ASSUME QueueInv, [QueueNext]_queueVars PROVE OnlyEndedTasksGo
  OBVIOUS
<1>1. CASE \E files \in {<<s>> : s \in Sources} \cup {<<s, t>> : s \in Sources, t \in Sources}: Enqueue(files)
  BY <1>1, FileLists, OperationsKeepTasks, KeptTasksStay
<1>2. CASE \/ \E ids \in {{i} : i \in Failed} \cup {Failed} : Retry(ids)
           \/ Pause \/ Resume \/ TimerFires \/ PauseQueue \/ Restart
           \/ Flushed \/ (\E p \in Projects: RestoreQueue(p)) \/ ReadQueueFile
           \/ UNCHANGED queueVars
  BY <1>2, OperationsKeepTasks, KeptTasksStay
<1>3. CASE \E i \in DOMAIN queue: Cancel(queue[i])
  BY <1>3, CancelEndsTask
<1>4. CASE CancelAll
  BY <1>4 DEF OnlyEndedTasksGo
<1>5. CASE Restored
  BY <1>5 DEF Restored, OnlyEndedTasksGo
<1>6. ASSUME NEW r \in Runs, Steps(r) \/ WritesFile(r)
      PROVE  OnlyEndedTasksGo
  <2>1. CASE Cancelling(r) \/ Clearing(r) \/ (Cleaning(r) /\ Stale(r))
    BY <2>1 DEF OnlyEndedTasksGo, EndsTask
  <2>2. CASE IngestSucceeds(r)
    BY <2>2, IngestEndsTask
  <2>3. CASE ~(Cancelling(r) \/ Clearing(r) \/ (Cleaning(r) /\ Stale(r)) \/ IngestSucceeds(r))
    BY <1>6, <2>3, RunsKeepTasks, KeptTasksStay DEF Steps
  <2> QED BY <2>1, <2>2, <2>3
<1> QED BY <1>1, <1>2, <1>3, <1>4, <1>5, <1>6 DEF QueueNext, Operations, HandOver

\* A task leaves the file of its project only by being ingested or cancelled, but for the
\* two holes the property names: no enqueue, retry, pause or hand-over drops one.
THEOREM FilesKeepTheirTasks == QueueSpec => TasksSurvive
BY QueueSpecInv, TasksSurviveStep, PTL DEF QueueSpec, TasksSurvive

-----------------------------------------------------------------------------
(* MCDesktop: the queue and the mutex side by side. *)

\* A behaviour of MCDesktop is one of the queue and one of the mutex, of which one is
\* explored and the other stutters.
LEMMA DesktopIsItsParts == Spec => QueueSpec /\ MutexSpec
<1>1. Init => QueueInit /\ MutexInit
  BY DEF Init
<1>2. [Next]_vars => [QueueNext]_queueVars /\ [MutexNext]_mutexVars
  BY DEF Next, vars
<1> QED BY <1>1, <1>2, PTL DEF Spec, QueueSpec, MutexSpec

==============================================================================
