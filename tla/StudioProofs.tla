---------------------------- MODULE StudioProofs ----------------------------
(***************************************************************************)
(* Theorems about the runs of a chat session, the manager of the agent     *)
(* bridge and the agents of a group-chat room, for every value of their    *)
(* constants; and, with WorkflowProofs, about the studio of all four.      *)
(***************************************************************************)
EXTENDS MCStudio, WorkflowProofs, SubsequenceProofs

-----------------------------------------------------------------------------
(* The runs of a chat session: the queue.                                    *)

\* QueueIsExact of a queue and of stages that a step is about to write.
Exact(q, stages) ==
    /\ \A j, k \in DOMAIN q : q[j] = q[k] => j = k
    /\ \A i \in Runs : stages[<<"run", i>>] = "waiting" <=> i \in {q[k] : k \in DOMAIN q}

Stages == [Workers -> AtStages]

LEMMA RunIsWorker ==
    ASSUME NEW i \in Runs
    PROVE  <<"run", i>> \in Workers /\ <<"resume", i>> \in Workers
BY DEF Workers

\* A worker goes to another stage.
LEMMA ToFacts ==
    ASSUME at \in Stages, NEW w \in Workers, NEW s \in AtStages
    PROVE  /\ To(w, s) \in Stages
           /\ \A v \in Workers : To(w, s)[v] = IF v = w THEN s ELSE at[v]
BY DEF To, Stages

\* A worker that does not wait moves beside the queue.
LEMMA QueueUntouched ==
    ASSUME Exact(queue, at), at \in Stages, NEW w \in Workers, NEW s \in AtStages,
           at[w] # "waiting", s # "waiting"
    PROVE  Exact(queue, To(w, s))
<1>1. \A v \in Workers : To(w, s)[v] = "waiting" <=> at[v] = "waiting"
  BY ToFacts
<1> QED BY <1>1, RunIsWorker DEF Exact

\* A run joins the end of the queue.
LEMMA Appended ==
    ASSUME NEW q \in Seq(Runs), NEW stages \in Stages, Exact(q, stages), NEW i \in Runs,
           stages[<<"run", i>>] # "waiting",
           NEW after \in Stages,
           \A v \in Workers : after[v] = IF v = <<"run", i>> THEN "waiting" ELSE stages[v]
    PROVE  Append(q, i) \in Seq(Runs) /\ Exact(Append(q, i), after) /\ Append(q, i) # <<>>
<1> DEFINE r == Append(q, i)
<1>1. /\ r \in Seq(Runs) /\ Len(r) = Len(q) + 1 /\ Len(q) \in Nat
      /\ DOMAIN r = 1..Len(r) /\ DOMAIN q = 1..Len(q)
      /\ r[Len(r)] = i /\ \A k \in DOMAIN q : r[k] = q[k]
  OBVIOUS
<1>2. \A k \in DOMAIN q : q[k] # i
  BY DEF Exact
<1>3. \A j, k \in DOMAIN r : r[j] = r[k] => j = k
  BY <1>1, <1>2 DEF Exact
<1>4. ASSUME NEW e \in Runs
      PROVE  after[<<"run", e>>] = "waiting" <=> e \in {r[k] : k \in DOMAIN r}
  <2>1. e \in {r[k] : k \in DOMAIN r} <=> e = i \/ e \in {q[k] : k \in DOMAIN q}
    BY <1>1
  <2>2. after[<<"run", e>>] = "waiting" <=> e = i \/ stages[<<"run", e>>] = "waiting"
    BY RunIsWorker
  <2> QED BY <2>1, <2>2 DEF Exact
<1>5. r # <<>>
  BY <1>1
<1> QED BY <1>1, <1>3, <1>4, <1>5 DEF Exact

\* The head leaves the queue and is run.
LEMMA Dequeued ==
    ASSUME NEW q \in Seq(Runs), q # <<>>, NEW stages \in Stages, Exact(q, stages),
           Dequeue(q, stages)
    PROVE  /\ queue' \in Seq(Runs) /\ at' \in Stages /\ Exact(queue', at')
           /\ \E w \in Workers : /\ stages[w] = "waiting" /\ w[1] = "run"
                                 /\ \A v \in Workers : at'[v] = IF v = w THEN "ready" ELSE stages[v]
<1> DEFINE h == Head(q)
           w == <<"run", h>>
<1>1. /\ h \in Runs /\ queue' = Tail(q) /\ Tail(q) \in Seq(Runs)
      /\ DOMAIN q = 1..Len(q) /\ Len(q) \in Nat \ {0} /\ h = q[1]
      /\ DOMAIN Tail(q) = 1..(Len(q) - 1)
      /\ \A k \in DOMAIN Tail(q) : Tail(q)[k] = q[k + 1]
  BY DEF Dequeue
<1>2. w \in Workers /\ w[1] = "run" /\ stages[w] = "waiting"
  <2>1. h \in {q[k] : k \in DOMAIN q}
    BY <1>1
  <2>2. stages[w] = "waiting"
    BY <1>1, <2>1 DEF Exact
  <2> QED BY <1>1, <2>2, RunIsWorker
<1>3. at' \in Stages /\ \A v \in Workers : at'[v] = IF v = w THEN "ready" ELSE stages[v]
  BY <1>2 DEF Dequeue, Stages, AtStages, Alive
<1>4. \A j, k \in DOMAIN queue' : queue'[j] = queue'[k] => j = k
  BY <1>1 DEF Exact
<1>5. ASSUME NEW e \in Runs
      PROVE  at'[<<"run", e>>] = "waiting" <=> e \in {queue'[k] : k \in DOMAIN queue'}
  <2>1. at'[<<"run", e>>] = "waiting" <=> stages[<<"run", e>>] = "waiting" /\ e # h
    BY <1>3, RunIsWorker
  <2>2. e \in {queue'[k] : k \in DOMAIN queue'} <=> e \in {q[k] : k \in DOMAIN q} /\ e # h
    <3>1. ASSUME NEW k \in DOMAIN queue' PROVE queue'[k] \in {q[j] : j \in DOMAIN q} /\ queue'[k] # h
      BY <1>1 DEF Exact
    <3>2. ASSUME NEW k \in DOMAIN q, q[k] # h PROVE \E j \in DOMAIN queue' : queue'[j] = q[k]
      <4>1. k - 1 \in DOMAIN queue' /\ queue'[k - 1] = q[k]
        BY <1>1, <3>2
      <4> QED BY <4>1
    <3> QED BY <3>1, <3>2
  <2> QED BY <2>1, <2>2 DEF Exact
<1> QED BY <1>1, <1>2, <1>3, <1>4, <1>5 DEF Exact

\* Runs leave the queue from any place.
LEMMA KeptRuns ==
    ASSUME NEW q \in Seq(Runs), \A j, k \in DOMAIN q : q[j] = q[k] => j = k,
           NEW K \in SUBSET (DOMAIN q)
    PROVE  /\ Kept(q, K) \in Seq(Runs)
           /\ \A j, k \in DOMAIN Kept(q, K) : Kept(q, K)[j] = Kept(q, K)[k] => j = k
           /\ {Kept(q, K)[n] : n \in DOMAIN Kept(q, K)} = {q[k] : k \in K}
<1>1. Kept(q, K) \in Seq(Runs)
  BY KeptFacts
<1>2. PICK place \in [DOMAIN Kept(q, K) -> K] :
          /\ \A n \in DOMAIN Kept(q, K) : Kept(q, K)[n] = q[place[n]]
          /\ \A m, n \in DOMAIN Kept(q, K) : place[m] = place[n] => m = n
          /\ \A i \in K : \E n \in DOMAIN Kept(q, K) : place[n] = i
  BY KeptFacts
<1>3. \A j, k \in DOMAIN Kept(q, K) : Kept(q, K)[j] = Kept(q, K)[k] => j = k
  BY <1>2
<1>4. \A n \in DOMAIN Kept(q, K) : \E k \in K : Kept(q, K)[n] = q[k]
  BY <1>2
<1>5. \A k \in K : \E n \in DOMAIN Kept(q, K) : Kept(q, K)[n] = q[k]
  BY <1>2
<1> QED BY <1>1, <1>3, <1>4, <1>5

LEMMA Withdrawn ==
    ASSUME queue \in Seq(Runs), at \in Stages, Exact(queue, at), NEW S,
           NEW after \in Stages,
           \A i \in Runs : after[<<"run", i>>] = "waiting"
                             <=> at[<<"run", i>>] = "waiting" /\ i \notin S
    PROVE  Without(S) \in Seq(Runs) /\ Exact(Without(S), after)
<1> DEFINE K == {k \in DOMAIN queue : queue[k] \notin S}
           r == Kept(queue, K)
<1>1. r = Without(S) /\ K \in SUBSET (DOMAIN queue)
  BY DEF Without
<1>2. \A j, k \in DOMAIN queue : queue[j] = queue[k] => j = k
  BY DEF Exact
<1>3. /\ r \in Seq(Runs)
      /\ \A j, k \in DOMAIN r : r[j] = r[k] => j = k
      /\ {r[n] : n \in DOMAIN r} = {queue[k] : k \in K}
  BY <1>1, <1>2, KeptRuns
<1> HIDE DEF r
<1>4. ASSUME NEW e \in Runs
      PROVE  e \in {r[k] : k \in DOMAIN r} <=> e \in {queue[k] : k \in DOMAIN queue} /\ e \notin S
  BY <1>3
<1> QED BY <1>1, <1>3, <1>4 DEF Exact

-----------------------------------------------------------------------------
(* The runs of a chat session: who has the session.                          *)

\* Where a worker is while the marker may be its own; between the chat and the
\* end of the stream, and before what it found there is dealt with.
OwnStages == {"history", "chatting", "accepted", "refused", "streaming", "reading",
              "closing", "releasing"}
\* Where a worker is that will take or free the session without owning it.
FreeingStages == {"ready", "preparing", "judging"}

\* A resumed poll begins with the stream.
ResumeStages == {"none", "streaming", "reading", "closing", "judging", "releasing", "done",
                 "gaveUp", "lost"}
StageInv == \A i \in Runs : at[<<"resume", i>>] \in ResumeStages

\* The marker is of a worker on its way to reset it.
MarkerInv ==
    chat.marker # Nobody => \/ Broken
                            \/ chat.working /\ at[chat.marker] \in OwnStages

\* What works has a run, a marker, an abort or a worker that will free it.
WorkServed ==
    chat.working => \/ Broken \/ chat.run # NoRun \/ chat.marker # Nobody
                    \/ \E a \in DOMAIN aborts : aborts[a] \notin {"returned", "ignored"}
                    \/ \E w \in Workers : at[w] \in FreeingStages

\* What waits beside a session that does not work was left by a failed worker.
QueueServed ==
    queue # <<>> /\ ~chat.working =>
        Broken \/ \E w \in Workers : at[w] \in {"gaveUp", "failingQueued"}

ServedInv == MarkerInv /\ WorkServed /\ QueueServed

ChatInv == ChatTypeOK /\ Exact(queue, at) /\ StageInv /\ ServedInv

Chat == [working : BOOLEAN, aborting : BOOLEAN, run : Runs \union {NoRun},
         marker : Workers \union {Nobody}]
Asleep == UNCHANGED <<direct, goal, resumes, budget, faults>>

LEMMA ChatFacts ==
    ASSUME ChatInv
    PROVE  /\ chat \in Chat /\ queue \in Seq(Runs) /\ at \in Stages /\ Exact(queue, at)
           /\ current \in Runs \union {NoRun}
           /\ agent \in [Runs -> {"none", "running", "ended", "lost"}]
BY DEF ChatInv, ChatTypeOK, Chat, Stages

LEMMA WorkerParts ==
    ASSUME NEW w \in Workers
    PROVE  w[1] \in {"run", "resume"} /\ w[2] \in Runs /\ w = <<w[1], w[2]>>
BY DEF Workers

LEMMA NobodyIsNoWorker == Nobody \notin Workers
BY DEF Nobody, Workers, Runs, NoRun

\* A session that is left to itself stays so, except that its server may die.
LEMMA BrokenStays ==
    ASSUME ChatInv, Broken,
           \A w \in Workers : at[w] \in {"threw", "locked"} => at'[w] = at[w],
           \A a \in DOMAIN aborts : aborts[a] = "ignored"
                => a \in DOMAIN aborts' /\ aborts'[a] = "ignored"
    PROVE  Broken'
BY DEF Broken, Inside

\* The types and the stages after one worker's step.
LEMMA StageStep ==
    ASSUME ChatInv, NEW w \in Workers, NEW s \in AtStages,
           at[w] \notin {"waiting", "threw", "locked"}, s # "waiting",
           w[1] = "resume" => s \in ResumeStages,
           at' = To(w, s), UNCHANGED <<queue, aborts>>, Asleep,
           chat' \in Chat, current' \in Runs \union {NoRun},
           agent' \in [Runs -> {"none", "running", "ended", "lost"}]
    PROVE  /\ ChatTypeOK' /\ Exact(queue, at)' /\ StageInv' /\ (Broken => Broken')
           /\ \A v \in Workers : at'[v] = IF v = w THEN s ELSE at[v]
<1>1. /\ at' \in Stages /\ \A v \in Workers : at'[v] = IF v = w THEN s ELSE at[v]
  BY ChatFacts, ToFacts
<1>2. Exact(queue, at)'
  <2>1. Exact(queue, To(w, s))
    BY ChatFacts, QueueUntouched
  <2> QED BY <2>1 DEF Exact
<1>3. ChatTypeOK'
  BY <1>1 DEF ChatInv, ChatTypeOK, Asleep, Chat, Stages
<1>4. StageInv'
  <2>1. ASSUME NEW i \in Runs PROVE at'[<<"resume", i>>] \in ResumeStages
    <3>1. <<"resume", i>> \in Workers /\ at[<<"resume", i>>] \in ResumeStages
      BY RunIsWorker DEF ChatInv, StageInv
    <3>2. CASE w = <<"resume", i>>
      BY <1>1, <3>1, <3>2
    <3>3. CASE w # <<"resume", i>>
      BY <1>1, <3>1, <3>3
    <3> QED BY <3>2, <3>3
  <2> QED BY <2>1 DEF StageInv
<1>5. Broken => Broken'
  BY <1>1, BrokenStays
<1> QED BY <1>1, <1>2, <1>3, <1>4, <1>5

\* The stages of a worker that handles a message, and of one that polls.
LEMMA ResumeStage ==
    ASSUME ChatInv, NEW w \in Workers, w[1] = "resume"
    PROVE  at[w] \in ResumeStages
BY WorkerParts DEF ChatInv, StageInv

\* One worker's steps that leave the session alone and go to where the marker may be.
LEMMA QuietSteps ==
    ASSUME ChatInv, NEW w \in Workers,
           \/ BridgeIsReady(w) \/ AskChat(w) \/ BridgeAnswersChat(w) \/ MemoryModeLocked(w)
    PROVE  ChatInv'
<1>1. PICK s \in {"preparing", "chatting", "accepted", "refused", "locked"} :
        /\ at' = To(w, s) /\ UNCHANGED <<chat, queue, aborts>> /\ Asleep
        /\ \/ at[w] = "ready" /\ s \in {"preparing", "locked"}
           \/ at[w] \in {"history", "chatting"} /\ s \in {"chatting", "accepted", "refused"}
        /\ current' \in Runs \union {NoRun}
        /\ agent' \in [Runs -> {"none", "running", "ended", "lost"}]
  BY ChatFacts, WorkerParts
  DEF BridgeIsReady, AskChat, BridgeAnswersChat, MemoryModeLocked, session, others, bridge, Asleep
<1>2. s \in AtStages /\ w[1] # "resume"
  BY <1>1, ResumeStage DEF AtStages, Alive, Ends, ResumeStages
<1>3. /\ ChatTypeOK' /\ Exact(queue, at)' /\ StageInv' /\ (Broken => Broken')
      /\ \A v \in Workers : at'[v] = IF v = w THEN s ELSE at[v]
  BY <1>1, <1>2, ChatFacts, StageStep
<1>4. s = "locked" => Broken'
  BY <1>3 DEF Broken, Inside
<1>5. chat.marker \in Workers \union {Nobody}
  BY ChatFacts DEF Chat
<1>6. MarkerInv'
  BY <1>1, <1>3, <1>4, <1>5 DEF ChatInv, ServedInv, MarkerInv, OwnStages
<1>7. WorkServed'
  BY <1>1, <1>3, <1>4 DEF ChatInv, ServedInv, WorkServed, FreeingStages
<1>8. QueueServed'
  BY <1>1, <1>3 DEF ChatInv, ServedInv, QueueServed
<1> QED BY <1>3, <1>6, <1>7, <1>8 DEF ChatInv, ServedInv

-----------------------------------------------------------------------------
(* The runs of a chat session: steps that go on with the queue.              *)

\* The types of what a worker's step does not look at.
ChatRest ==
    /\ direct \subseteq Runs /\ goal \subseteq Runs
    /\ aborts \in Seq({"interrupting", "pausing", "pausingUnsynced", "destroying",
                       "releasing", "returned", "ignored"})
    /\ resumes \in Seq([stage : {"asking", "answered", "returned"},
                        run : Runs \union {NoRun}])
    /\ current \in Runs \union {NoRun}
    /\ agent \in [Runs -> {"none", "running", "ended", "lost"}]
    /\ faults \in Nat /\ budget \in Budgets

LEMMA RestFacts == ChatInv => ChatRest
BY DEF ChatInv, ChatTypeOK, ChatRest

\* What a step may make of the stages before it dequeues: it moves no worker that
\* left the session to itself, and none that has it.
Continues(stages) ==
    /\ \A i \in Runs : stages[<<"resume", i>>] \in ResumeStages
    /\ \A v \in Workers : at[v] \in {"threw", "locked"} => stages[v] = at[v]

LEMMA DequeueStep ==
    ASSUME ChatInv, NEW stages \in Stages, NEW q \in Seq(Runs), q # <<>>,
           Exact(q, stages), Dequeue(q, stages), Continues(stages),
           \A a \in DOMAIN aborts : aborts[a] = "ignored"
                => a \in DOMAIN aborts' /\ aborts'[a] = "ignored",
           ChatRest', chat' \in Chat, chat'.working,
           \/ chat'.marker = Nobody
           \/ /\ chat'.marker = chat.marker
              /\ at[chat.marker] \in OwnStages => stages[chat.marker] = at[chat.marker]
    PROVE  ChatInv'
<1>1. /\ queue' \in Seq(Runs) /\ at' \in Stages /\ Exact(queue', at')
      /\ \E w \in Workers : /\ stages[w] = "waiting" /\ w[1] = "run"
                            /\ \A v \in Workers : at'[v] = IF v = w THEN "ready" ELSE stages[v]
  BY Dequeued
<1>2. PICK w \in Workers : /\ stages[w] = "waiting" /\ w[1] = "run"
                           /\ \A v \in Workers : at'[v] = IF v = w THEN "ready" ELSE stages[v]
  BY <1>1
<1>3. ChatTypeOK' /\ Exact(queue, at)'
  BY <1>1 DEF ChatTypeOK, ChatRest, Chat, Stages, Exact
<1>4. StageInv'
  <2>1. ASSUME NEW i \in Runs PROVE at'[<<"resume", i>>] \in ResumeStages
    <3>1. <<"resume", i>> \in Workers /\ stages[<<"resume", i>>] \in ResumeStages
      BY RunIsWorker DEF Continues
    <3>2. <<"resume", i>> # w
      <4>1. w = <<w[1], w[2]>> /\ w[1] = "run"
        BY <1>2, WorkerParts
      <4> QED BY <4>1
    <3> QED BY <1>2, <3>1, <3>2
  <2> QED BY <2>1 DEF StageInv
<1>5. Broken => Broken'
  <2>1. \A v \in Workers : at[v] \in {"threw", "locked"} => at'[v] = at[v]
    BY <1>2 DEF Continues
  <2> QED BY <2>1, BrokenStays
<1>6. MarkerInv'
  <2>1. CASE chat'.marker = Nobody
    BY <2>1 DEF MarkerInv
  <2>2. CASE chat'.marker = chat.marker /\ chat.marker # Nobody /\ ~Broken
    <3>1. chat.marker \in Workers /\ at[chat.marker] \in OwnStages
      BY <2>2, ChatFacts DEF Chat, ChatInv, ServedInv, MarkerInv
    <3>2. at'[chat.marker] = at[chat.marker]
      BY <1>2, <2>2, <3>1, NobodyIsNoWorker DEF OwnStages
    <3> QED BY <2>2, <3>1, <3>2 DEF MarkerInv
  <2> QED BY <1>5, <2>1, <2>2 DEF MarkerInv
<1>7. WorkServed'
  BY <1>2 DEF WorkServed, FreeingStages
<1>8. QueueServed'
  BY DEF QueueServed
<1> QED BY <1>3, <1>4, <1>6, <1>7, <1>8 DEF ChatInv, ServedInv

\* The queue and the stages are written as they are; the session is served.
LEMMA KeepStep ==
    ASSUME ChatInv, NEW stages \in Stages, NEW q \in Seq(Runs),
           Exact(q, stages), Keep(q, stages), Continues(stages),
           \A a \in DOMAIN aborts : aborts[a] = "ignored"
                => a \in DOMAIN aborts' /\ aborts'[a] = "ignored",
           ChatRest', chat' \in Chat,
           Broken' \/ ServedInv'
    PROVE  ChatInv'
<1>1. queue' = q /\ at' = stages
  BY DEF Keep
<1>2. ChatTypeOK' /\ Exact(queue, at)'
  BY <1>1 DEF ChatTypeOK, ChatRest, Chat, Stages, Exact
<1>3. StageInv'
  BY <1>1 DEF StageInv, Continues
<1>4. ServedInv'
  BY DEF ServedInv, MarkerInv, WorkServed, QueueServed
<1> QED BY <1>2, <1>3, <1>4 DEF ChatInv

LEMMA BrokenContinues ==
    ASSUME ChatInv, NEW stages \in Stages, Continues(stages), at' = stages,
           \A a \in DOMAIN aborts : aborts[a] = "ignored"
                => a \in DOMAIN aborts' /\ aborts'[a] = "ignored"
    PROVE  Broken => Broken'
BY BrokenStays DEF Continues

\* The end of a run, with the session as it leaves it.
LEMMA GoOnStep ==
    ASSUME ChatInv, NEW stages \in Stages, NEW q \in Seq(Runs), NEW s \in Chat,
           Exact(q, stages), GoOn(s, q, stages), Continues(stages),
           ChatRest', aborts' = aborts,
           \/ s.marker = Nobody
           \/ s = chat /\ (at[chat.marker] \in OwnStages => stages[chat.marker] = at[chat.marker])
    PROVE  ChatInv'
<1>1. CASE s.marker # Nobody
  <2>1. chat' = s /\ s = chat /\ Keep(q, stages) /\ at' = stages
    BY <1>1 DEF GoOn, Keep
  <2>2. chat.marker # Nobody /\ ~Broken => chat.working /\ at[chat.marker] \in OwnStages
    BY DEF ChatInv, ServedInv, MarkerInv
  <2>3. Broken => Broken'
    BY <2>1, BrokenContinues
  <2>4. ASSUME ~Broken PROVE ServedInv'
    <3>1. chat'.working /\ chat'.marker # Nobody /\ at'[chat'.marker] \in OwnStages
      BY <1>1, <2>1, <2>2, <2>4
    <3> QED BY <3>1 DEF ServedInv, MarkerInv, WorkServed, QueueServed
  <2> QED BY <2>1, <2>3, <2>4, KeepStep
<1>2. CASE s.marker = Nobody /\ q # <<>>
  <2>1. Dequeue(q, stages) /\ chat' = [s EXCEPT !.working = TRUE]
    BY <1>2 DEF GoOn
  <2>2. chat' \in Chat /\ chat'.working /\ chat'.marker = Nobody
    BY <1>2, <2>1 DEF Chat
  <2> QED BY <1>2, <2>1, <2>2, DequeueStep
<1>3. CASE s.marker = Nobody /\ q = <<>>
  <2>1. Keep(q, stages) /\ chat' = [s EXCEPT !.working = FALSE] /\ queue' = <<>>
    BY <1>3 DEF GoOn, Keep
  <2>2. chat' \in Chat /\ ~chat'.working /\ chat'.marker = Nobody
    BY <1>3, <2>1 DEF Chat
  <2>3. ServedInv'
    BY <2>1, <2>2 DEF ServedInv, MarkerInv, WorkServed, QueueServed
  <2> QED BY <2>1, <2>2, <2>3, KeepStep
<1> QED BY <1>1, <1>2, <1>3

\* The stages of one worker that moves on.
LEMMA ToContinues ==
    ASSUME ChatInv, NEW w \in Workers, NEW s \in AtStages,
           at[w] \notin {"waiting", "threw", "locked"}, s # "waiting",
           w[1] = "resume" => s \in ResumeStages
    PROVE  /\ To(w, s) \in Stages /\ Exact(queue, To(w, s)) /\ Continues(To(w, s))
           /\ \A v \in Workers : To(w, s)[v] = IF v = w THEN s ELSE at[v]
<1>1. To(w, s) \in Stages /\ \A v \in Workers : To(w, s)[v] = IF v = w THEN s ELSE at[v]
  BY ChatFacts, ToFacts
<1>2. Exact(queue, To(w, s))
  BY ChatFacts, QueueUntouched
<1>3. ASSUME NEW i \in Runs PROVE To(w, s)[<<"resume", i>>] \in ResumeStages
  <2>1. <<"resume", i>> \in Workers /\ at[<<"resume", i>>] \in ResumeStages
    BY RunIsWorker DEF ChatInv, StageInv
  <2>2. CASE w = <<"resume", i>>
    BY <1>1, <2>1, <2>2
  <2>3. CASE w # <<"resume", i>>
    BY <1>1, <2>1, <2>3
  <2> QED BY <2>2, <2>3
<1> QED BY <1>1, <1>2, <1>3 DEF Continues

LEMMA BridgeNotReadyStep ==
    ASSUME ChatInv, NEW w \in Workers, BridgeNotReady(w)
    PROVE  ChatInv'
<1> DEFINE stages == To(w, "done")
<1>1. /\ stages \in Stages /\ Exact(queue, stages) /\ Continues(stages)
      /\ \A v \in Workers : stages[v] = IF v = w THEN "done" ELSE at[v]
  <2>1. at[w] = "ready" /\ "done" \in AtStages \cap ResumeStages
    BY DEF BridgeNotReady, AtStages, Ends, ResumeStages
  <2> QED BY <2>1, ToContinues
<1>2. ChatRest' /\ aborts' = aborts
  BY RestFacts DEF BridgeNotReady, bridge, others, ChatRest
<1>3. queue \in Seq(Runs) /\ chat \in Chat /\ at[w] = "ready"
  BY ChatFacts DEF BridgeNotReady
<1> HIDE DEF stages
<1>4. CASE chat.run # NoRun \/ chat.marker # Nobody
  <2>1. Keep(queue, stages) /\ UNCHANGED chat /\ at' = stages /\ queue' = queue
    BY <1>4 DEF BridgeNotReady, Keep, stages
  <2>2. Broken => Broken'
    BY <1>1, <1>2, <2>1, BrokenContinues
  <2>3. ASSUME ~Broken PROVE ServedInv'
    <3>1. chat.marker # Nobody => chat.marker # w /\ at'[chat.marker] = at[chat.marker]
      BY <1>1, <1>3, <2>1, <2>3 DEF ChatInv, ServedInv, MarkerInv, OwnStages, Chat
    <3>2. MarkerInv' /\ WorkServed'
      BY <1>4, <2>1, <2>3, <3>1 DEF ChatInv, ServedInv, MarkerInv, WorkServed
    <3>3. QueueServed'
      BY <1>1, <1>3, <2>1, <2>3 DEF ChatInv, ServedInv, QueueServed
    <3> QED BY <3>2, <3>3 DEF ServedInv
  <2> QED BY <1>1, <1>2, <1>3, <2>1, <2>2, <2>3, KeepStep
<1>5. CASE ~(chat.run # NoRun \/ chat.marker # Nobody)
  <2>1. GoOn(chat, queue, stages)
    BY <1>5 DEF BridgeNotReady, GoOn, stages
  <2> QED BY <1>1, <1>2, <1>3, <1>5, <2>1, GoOnStep
<1> QED BY <1>4, <1>5

LEMMA CloseRunStep ==
    ASSUME ChatInv, NEW w \in Workers, CloseRun(w)
    PROVE  ChatInv'
<1>1. at[w] = "closing" /\ queue \in Seq(Runs) /\ Closed \in Chat /\ Closed.marker = Nobody
      /\ Closed.working = (queue # <<>>) /\ Closed.run = NoRun
  BY ChatFacts DEF CloseRun, Closed, Free, Chat
<1>2. ChatRest' /\ aborts' = aborts
  BY RestFacts DEF CloseRun, bridge, others, ChatRest
<1>3. CASE GoOn(Closed, queue, To(w, "done"))
  <2>1. To(w, "done") \in Stages /\ Exact(queue, To(w, "done")) /\ Continues(To(w, "done"))
    <3>1. "done" \in AtStages \cap ResumeStages
      BY DEF AtStages, Ends, ResumeStages
    <3> QED BY <1>1, <3>1, ToContinues
  <2> QED BY <1>1, <1>2, <1>3, <2>1, GoOnStep
<1>4. CASE chat' = Closed /\ at' = To(w, "judging") /\ UNCHANGED queue
  <2> DEFINE stages == To(w, "judging")
  <2>1. /\ stages \in Stages /\ Exact(queue, stages) /\ Continues(stages)
        /\ \A v \in Workers : stages[v] = IF v = w THEN "judging" ELSE at[v]
    <3>1. "judging" \in AtStages \cap ResumeStages
      BY DEF AtStages, Alive, ResumeStages
    <3> QED BY <1>1, <3>1, ToContinues
  <2>2. Keep(queue, stages) /\ at' = stages
    BY <1>4 DEF Keep
  <2>3. ServedInv'
    <3>1. chat'.marker = Nobody /\ (queue' # <<>> => chat'.working) /\ at'[w] = "judging"
      BY <1>1, <1>4, <2>1
    <3> QED BY <3>1 DEF ServedInv, MarkerInv, WorkServed, QueueServed, FreeingStages
  <2> HIDE DEF stages
  <2> QED BY <1>1, <1>2, <1>4, <2>1, <2>2, <2>3, KeepStep
<1> QED BY <1>3, <1>4 DEF CloseRun

LEMMA GoalJudgedStep ==
    ASSUME ChatInv, NEW w \in Workers, GoalJudged(w)
    PROVE  ChatInv'
<1>1. /\ at[w] = "judging" /\ queue \in Seq(Runs) /\ chat \in Chat
      /\ GoOn(chat, queue, To(w, "done"))
  BY ChatFacts DEF GoalJudged
<1>2. ChatRest' /\ aborts' = aborts
  BY RestFacts DEF GoalJudged, bridge, others, ChatRest
<1>3. /\ To(w, "done") \in Stages /\ Exact(queue, To(w, "done")) /\ Continues(To(w, "done"))
      /\ \A v \in Workers : To(w, "done")[v] = IF v = w THEN "done" ELSE at[v]
  <2>1. "done" \in AtStages \cap ResumeStages
    BY DEF AtStages, Ends, ResumeStages
  <2> QED BY <1>1, <2>1, ToContinues
<1>4. at[chat.marker] \in OwnStages /\ chat.marker # Nobody
        => To(w, "done")[chat.marker] = at[chat.marker]
  BY <1>1, <1>3 DEF Chat, OwnStages
<1> QED BY <1>1, <1>2, <1>3, <1>4, GoOnStep

LEMMA GoalContinuesStep ==
    ASSUME ChatInv, NEW w \in Workers, NEW i \in Runs, GoalContinues(w, i)
    PROVE  ChatInv'
<1> DEFINE done == To(w, "done")
           after == [done EXCEPT ![<<"run", i>>] = "waiting"]
<1>1. /\ at[w] = "judging" /\ at[<<"run", i>>] = "none" /\ queue \in Seq(Runs) /\ chat \in Chat
      /\ GoOn(chat, Append(queue, i), after) /\ <<"run", i>> \in Workers /\ <<"run", i>> # w
  BY ChatFacts, RunIsWorker DEF GoalContinues, Fresh
<1>2. ChatRest' /\ aborts' = aborts
  BY RestFacts DEF GoalContinues, bridge, ChatRest
<1>3. /\ done \in Stages /\ Exact(queue, done) /\ Continues(done)
      /\ \A v \in Workers : done[v] = IF v = w THEN "done" ELSE at[v]
  <2>1. "done" \in AtStages \cap ResumeStages
    BY DEF AtStages, Ends, ResumeStages
  <2> QED BY <1>1, <2>1, ToContinues
<1> HIDE DEF done
<1>4. /\ after \in Stages
      /\ \A v \in Workers : after[v] = IF v = <<"run", i>> THEN "waiting" ELSE done[v]
  BY <1>1, <1>3 DEF Stages, AtStages
<1> HIDE DEF after
<1>5. Continues(after)
  <2>1. ASSUME NEW j \in Runs PROVE after[<<"resume", j>>] \in ResumeStages
    BY <1>3, <1>4, RunIsWorker DEF Continues
  <2>2. ASSUME NEW v \in Workers, at[v] \in {"threw", "locked"} PROVE after[v] = at[v]
    BY <1>1, <1>3, <1>4, <2>2 DEF Continues
  <2> QED BY <2>1, <2>2 DEF Continues
<1>6. Append(queue, i) \in Seq(Runs) /\ Exact(Append(queue, i), after)
  BY <1>1, <1>3, <1>4, Appended
<1>7. at[chat.marker] \in OwnStages /\ chat.marker # Nobody
        => after[chat.marker] = at[chat.marker]
  BY <1>1, <1>3, <1>4 DEF Chat, OwnStages
<1> QED BY <1>1, <1>2, <1>4, <1>5, <1>6, <1>7, GoOnStep

-----------------------------------------------------------------------------
(* The runs of a chat session: steps of one worker.                          *)

LEMMA PreparedStep ==
    ASSUME ChatInv, NEW w \in Workers, Prepared(w)
    PROVE  ChatInv'
<1>1. /\ at[w] = "preparing" /\ at' = To(w, "history") /\ UNCHANGED <<queue, aborts>> /\ Asleep
      /\ chat' = [Working EXCEPT !.marker = w] /\ UNCHANGED bridge
  BY DEF Prepared, others, Asleep
<1>2. w[1] # "resume" /\ "history" \in AtStages /\ w # Nobody
  BY <1>1, ResumeStage, NobodyIsNoWorker DEF AtStages, Alive, ResumeStages
<1>3. chat' \in Chat /\ chat'.working /\ chat'.marker = w
  BY <1>1 DEF Working, Free, Chat
<1>4. /\ ChatTypeOK' /\ Exact(queue, at)' /\ StageInv'
      /\ \A v \in Workers : at'[v] = IF v = w THEN "history" ELSE at[v]
  BY <1>1, <1>2, <1>3, ChatFacts, StageStep DEF bridge
<1>5. ServedInv'
  BY <1>2, <1>3, <1>4 DEF ServedInv, MarkerInv, WorkServed, QueueServed, OwnStages
<1> QED BY <1>4, <1>5 DEF ChatInv

LEMMA PreparationThrowsStep ==
    ASSUME ChatInv, NEW w \in Workers, PreparationThrows(w)
    PROVE  ChatInv'
<1>1. /\ at[w] \in {"preparing", "history"} /\ at' = To(w, "threw")
      /\ UNCHANGED <<queue, aborts>> /\ Asleep /\ UNCHANGED bridge
      /\ chat' \in {chat, [chat EXCEPT !.working = FALSE]}
  BY DEF PreparationThrows, others, Asleep
<1>2. w[1] # "resume" /\ "threw" \in AtStages
  BY <1>1, ResumeStage DEF AtStages, Ends, ResumeStages
<1>3. chat' \in Chat
  BY <1>1, ChatFacts DEF Chat
<1>4. /\ ChatTypeOK' /\ Exact(queue, at)' /\ StageInv'
      /\ \A v \in Workers : at'[v] = IF v = w THEN "threw" ELSE at[v]
  BY <1>1, <1>2, <1>3, ChatFacts, StageStep DEF bridge
<1>5. Broken'
  BY <1>4 DEF Broken, Inside
<1> QED BY <1>4, <1>5 DEF ChatInv, ServedInv, MarkerInv, WorkServed, QueueServed

LEMMA ChatStartedStep ==
    ASSUME ChatInv, NEW w \in Workers, ChatStarted(w)
    PROVE  ChatInv'
<1>1. /\ at[w] = "accepted" /\ at' = To(w, "streaming") /\ UNCHANGED <<queue, aborts>> /\ Asleep
      /\ chat' = [chat EXCEPT !.run = w[2]] /\ UNCHANGED bridge
  BY DEF ChatStarted, others, Asleep
<1>2. w[1] # "resume" /\ "streaming" \in AtStages /\ w[2] \in Runs /\ w[2] # NoRun
  BY <1>1, ResumeStage, WorkerParts DEF AtStages, Alive, ResumeStages, Runs, NoRun
<1>3. /\ chat' \in Chat /\ chat'.working = chat.working /\ chat'.marker = chat.marker
      /\ chat'.run # NoRun
  BY <1>1, <1>2, ChatFacts DEF Chat
<1>4. /\ ChatTypeOK' /\ Exact(queue, at)' /\ StageInv' /\ (Broken => Broken')
      /\ \A v \in Workers : at'[v] = IF v = w THEN "streaming" ELSE at[v]
  BY <1>1, <1>2, <1>3, ChatFacts, StageStep DEF bridge
<1>5. MarkerInv'
  BY <1>3, <1>4, ChatFacts DEF ChatInv, ServedInv, MarkerInv, OwnStages, Chat
<1>6. WorkServed'
  BY <1>3 DEF WorkServed
<1>7. QueueServed'
  BY <1>1, <1>3, <1>4 DEF ChatInv, ServedInv, QueueServed
<1> QED BY <1>4, <1>5, <1>6, <1>7 DEF ChatInv, ServedInv

LEMMA ChunkStep ==
    ASSUME ChatInv, NEW w \in Workers, Chunk(w)
    PROVE  ChatInv'
<1>1. /\ UNCHANGED <<queue, at, aborts, current, agent>> /\ Asleep
      /\ chat' = [chat EXCEPT !.run = w[2]]
  BY DEF Chunk, others, bridge, Asleep
<1>2. w[2] \in Runs /\ w[2] # NoRun
  BY WorkerParts DEF Runs, NoRun
<1>3. /\ chat' \in Chat /\ chat'.working = chat.working /\ chat'.marker = chat.marker
      /\ chat'.run # NoRun
  BY <1>1, <1>2, ChatFacts DEF Chat
<1>4. ChatTypeOK' /\ Exact(queue, at)' /\ StageInv' /\ (Broken <=> Broken')
  BY <1>1, <1>3 DEF ChatInv, ChatTypeOK, Chat, Exact, StageInv, Broken, Inside, Asleep
<1>5. MarkerInv' /\ WorkServed' /\ QueueServed'
  BY <1>1, <1>3, <1>4 DEF ChatInv, ServedInv, MarkerInv, WorkServed, QueueServed
<1> QED BY <1>4, <1>5 DEF ChatInv, ServedInv

\* A worker that does not own the session, or one of a session left to itself, is done.
LEMMA StepsAside ==
    ASSUME ChatInv, NEW w \in Workers,
           at[w] \in {"streaming", "reading", "chatting", "refused", "accepted"},
           at' = To(w, "done"), UNCHANGED <<chat, queue, aborts, bridge>>, Asleep,
           ~Owns(w) \/ ~chat.working
    PROVE  ChatInv'
<1>1. "done" \in AtStages \cap ResumeStages
  BY DEF AtStages, Ends, ResumeStages
<1>2. /\ ChatTypeOK' /\ Exact(queue, at)' /\ StageInv' /\ (Broken => Broken')
      /\ \A v \in Workers : at'[v] = IF v = w THEN "done" ELSE at[v]
  BY <1>1, ChatFacts, StageStep DEF bridge
<1>3. MarkerInv'
  BY <1>2, ChatFacts DEF ChatInv, ServedInv, MarkerInv, Owns, Chat
<1>4. WorkServed'
  BY <1>2 DEF ChatInv, ServedInv, WorkServed, FreeingStages
<1>5. QueueServed'
  BY <1>2 DEF ChatInv, ServedInv, QueueServed
<1> QED BY <1>2, <1>3, <1>4, <1>5 DEF ChatInv, ServedInv

\* A worker that owns the session goes on owning it.
LEMMA StaysOwner ==
    ASSUME ChatInv, NEW w \in Workers, NEW s \in OwnStages \cap ResumeStages,
           at[w] \in {"streaming", "reading"},
           at' = To(w, s), UNCHANGED <<queue, aborts, bridge>>, Asleep,
           chat' \in {chat, [chat EXCEPT !.run = w[2]]}
    PROVE  ChatInv'
<1>1. s \in AtStages /\ s # "waiting" /\ w[2] \in Runs /\ w[2] # NoRun
  BY WorkerParts DEF AtStages, Alive, OwnStages, Runs, NoRun
<1>2. /\ chat' \in Chat /\ chat'.working = chat.working /\ chat'.marker = chat.marker
      /\ chat'.run = chat.run \/ chat'.run # NoRun
  BY <1>1, ChatFacts DEF Chat
<1>3. /\ ChatTypeOK' /\ Exact(queue, at)' /\ StageInv' /\ (Broken => Broken')
      /\ \A v \in Workers : at'[v] = IF v = w THEN s ELSE at[v]
  BY <1>1, <1>2, ChatFacts, StageStep DEF bridge
<1>4. MarkerInv'
  BY <1>2, <1>3, ChatFacts DEF ChatInv, ServedInv, MarkerInv, Chat
<1>5. WorkServed'
  BY <1>2, <1>3 DEF ChatInv, ServedInv, WorkServed, FreeingStages
<1>6. QueueServed'
  BY <1>2, <1>3 DEF ChatInv, ServedInv, QueueServed
<1> QED BY <1>3, <1>4, <1>5, <1>6 DEF ChatInv, ServedInv

LEMMA TerminalChunkStep ==
    ASSUME ChatInv, NEW w \in Workers, TerminalChunk(w)
    PROVE  ChatInv'
<1>1. /\ at[w] = "streaming" /\ UNCHANGED <<queue, aborts, bridge>> /\ Asleep
      /\ \/ chat' = [chat EXCEPT !.run = w[2]] /\ at' = To(w, "reading")
         \/ ~Owns(w) /\ at' = To(w, "done") /\ UNCHANGED chat
  BY DEF TerminalChunk, others, Asleep
<1>2. "reading" \in OwnStages \cap ResumeStages
  BY DEF OwnStages, ResumeStages
<1> QED BY <1>1, <1>2, StaysOwner, StepsAside

LEMMA ReadDoneStep ==
    ASSUME ChatInv, NEW w \in Workers, ReadDone(w)
    PROVE  ChatInv'
<1>1. /\ at[w] = "reading" /\ UNCHANGED <<chat, queue, aborts, bridge>> /\ Asleep
      /\ \/ ~chat.working /\ at' = To(w, "done")
         \/ at' = To(w, "releasing")
         \/ at' = To(w, "closing")
  BY DEF ReadDone, others, session, Asleep
<1>2. "releasing" \in OwnStages \cap ResumeStages /\ "closing" \in OwnStages \cap ResumeStages
  BY DEF OwnStages, ResumeStages
<1> QED BY <1>1, <1>2, StaysOwner, StepsAside

\* The session is reset and the queue, if there is one, goes on.
LEMMA AbortCompletedStep ==
    ASSUME ChatInv, NEW stages \in Stages, Exact(queue, stages), Continues(stages),
           AbortCompleted(stages), ChatRest',
           \A a \in DOMAIN aborts : aborts[a] = "ignored"
                => a \in DOMAIN aborts' /\ aborts'[a] = "ignored"
    PROVE  ChatInv'
<1>1. queue \in Seq(Runs)
  BY ChatFacts
<1>2. CASE queue # <<>>
  <2>1. chat' = Working /\ Dequeue(queue, stages)
    BY <1>2 DEF AbortCompleted
  <2>2. chat' \in Chat /\ chat'.working /\ chat'.marker = Nobody
    BY <2>1 DEF Working, Free, Chat
  <2> QED BY <1>1, <1>2, <2>1, <2>2, DequeueStep
<1>3. CASE queue = <<>>
  <2>1. chat' = Free /\ Keep(queue, stages) /\ queue' = <<>>
    BY <1>3 DEF AbortCompleted, Keep
  <2>2. chat' \in Chat /\ ~chat'.working /\ chat'.marker = Nobody
    BY <2>1 DEF Free, Chat
  <2>3. ServedInv'
    BY <2>1, <2>2 DEF ServedInv, MarkerInv, WorkServed, QueueServed
  <2> QED BY <1>1, <2>1, <2>2, <2>3, KeepStep
<1> QED BY <1>2, <1>3

LEMMA AbortedByChunkStep ==
    ASSUME ChatInv, NEW w \in Workers, AbortedByChunk(w)
    PROVE  ChatInv'
<1>1. at[w] = "releasing" /\ AbortCompleted(To(w, "done"))
  BY DEF AbortedByChunk
<1>2. ChatRest' /\ aborts' = aborts
  BY RestFacts DEF AbortedByChunk, bridge, others, ChatRest
<1>3. "done" \in AtStages \cap ResumeStages
  BY DEF AtStages, Ends, ResumeStages
<1>4. To(w, "done") \in Stages /\ Exact(queue, To(w, "done")) /\ Continues(To(w, "done"))
  BY <1>1, <1>3, ToContinues
<1> QED BY <1>1, <1>2, <1>4, AbortCompletedStep

LEMMA CatchStep ==
    ASSUME ChatInv, NEW w \in Workers, Catch(w), UNCHANGED <<queue, bridge, others>>,
           at[w] \in {"chatting", "refused", "accepted", "streaming"}
    PROVE  ChatInv'
<1>1. UNCHANGED <<queue, aborts, bridge>> /\ Asleep
  BY DEF others, Asleep
<1>2. CASE (~Owns(w) \/ ~chat.working) /\ at' = To(w, "done") /\ UNCHANGED chat
  BY <1>1, <1>2, StepsAside
<1>3. CASE \E s \in {"failing", "failingQueued", "gaveUp"} :
             /\ chat' = Free /\ at' = To(w, s)
             /\ s = "failing" => queue = <<>>
             /\ w[1] = "resume" => s = "gaveUp"
  <2>1. PICK s \in {"failing", "failingQueued", "gaveUp"} :
          /\ chat' = Free /\ at' = To(w, s)
          /\ s = "failing" => queue = <<>>
          /\ w[1] = "resume" => s = "gaveUp"
    BY <1>3
  <2>2. s \in AtStages /\ (w[1] = "resume" => s \in ResumeStages)
    BY <2>1 DEF AtStages, Alive, Ends, ResumeStages
  <2>3. chat' \in Chat /\ ~chat'.working /\ chat'.marker = Nobody
    BY <2>1 DEF Free, Chat
  <2>4. /\ ChatTypeOK' /\ Exact(queue, at)' /\ StageInv'
        /\ \A v \in Workers : at'[v] = IF v = w THEN s ELSE at[v]
    BY <1>1, <2>1, <2>2, <2>3, ChatFacts, StageStep DEF bridge
  <2>5. MarkerInv' /\ WorkServed'
    BY <2>3 DEF MarkerInv, WorkServed
  <2>6. QueueServed'
    BY <1>1, <2>1, <2>4 DEF QueueServed
  <2> QED BY <2>4, <2>5, <2>6 DEF ChatInv, ServedInv
<1>4. w[1] = "run" \/ w[1] = "resume"
  BY WorkerParts
<1> QED BY <1>2, <1>3, <1>4 DEF Catch, RunCatch, ResumeCatch

LEMMA FailureReportedStep ==
    ASSUME ChatInv, NEW w \in Workers, FailureReported(w)
    PROVE  ChatInv'
<1> DEFINE stages == To(w, "done")
<1>1. at[w] \in {"failing", "failingQueued"} /\ queue \in Seq(Runs) /\ chat \in Chat
  BY ChatFacts DEF FailureReported
<1>2. ChatRest' /\ aborts' = aborts
  BY RestFacts DEF FailureReported, bridge, others, ChatRest
<1>3. /\ stages \in Stages /\ Exact(queue, stages) /\ Continues(stages)
      /\ \A v \in Workers : stages[v] = IF v = w THEN "done" ELSE at[v]
  <2>1. "done" \in AtStages \cap ResumeStages
    BY DEF AtStages, Ends, ResumeStages
  <2> QED BY <1>1, <2>1, ToContinues
<1>4. chat.marker # Nobody /\ at[chat.marker] \in OwnStages
        => stages[chat.marker] = at[chat.marker]
  BY <1>1, <1>3 DEF Chat, OwnStages
<1> HIDE DEF stages
<1>5. CASE at[w] = "failingQueued" /\ queue # <<>>
  <2>1. chat' = [chat EXCEPT !.working = TRUE] /\ Dequeue(queue, stages)
    BY <1>5 DEF FailureReported, stages
  <2>2. chat' \in Chat /\ chat'.working /\ chat'.marker = chat.marker
    BY <1>1, <2>1 DEF Chat
  <2> QED BY <1>1, <1>2, <1>3, <1>4, <1>5, <2>1, <2>2, DequeueStep
<1>6. CASE ~(at[w] = "failingQueued" /\ queue # <<>>)
  <2>1. Keep(queue, stages) /\ UNCHANGED chat /\ at' = stages /\ queue' = queue
    BY <1>6 DEF FailureReported, Keep, stages
  <2>2. Broken => Broken'
    BY <1>2, <1>3, <2>1, BrokenContinues
  <2>3. ASSUME ~Broken PROVE ServedInv'
    <3>1. MarkerInv'
      BY <1>4, <2>1, <2>3 DEF ChatInv, ServedInv, MarkerInv
    <3>2. WorkServed'
      BY <1>1, <1>2, <1>3, <2>1, <2>3 DEF ChatInv, ServedInv, WorkServed, FreeingStages
    <3>3. QueueServed'
      BY <1>1, <1>3, <1>6, <2>1, <2>3 DEF ChatInv, ServedInv, QueueServed
    <3> QED BY <3>1, <3>2, <3>3 DEF ServedInv
  <2> QED BY <1>1, <1>2, <1>3, <2>1, <2>2, <2>3, KeepStep
<1> QED BY <1>5, <1>6

-----------------------------------------------------------------------------
(* The runs of a chat session: the page, aborts, resumes, and restarts.      *)

LEMMA Element ==
    ASSUME NEW S, NEW s \in Seq(S), NEW k \in DOMAIN s
    PROVE  s[k] \in S
OBVIOUS

\* A message is sent: it waits, or it is taken by the session.
LEMMA SendStep ==
    ASSUME ChatInv, NEW i \in Runs, Send(i)
    PROVE  ChatInv'
<1> DEFINE w == <<"run", i>>
<1>1. /\ w \in Workers /\ at[w] = "none" /\ queue \in Seq(Runs) /\ chat \in Chat
      /\ w[1] = "run"
  BY ChatFacts, RunIsWorker DEF Send, Fresh
<1>2. ChatRest' /\ aborts' = aborts
  BY RestFacts DEF Send, bridge, ChatRest
<1> HIDE DEF w
<1>3. CASE chat.working
  <2> DEFINE stages == To(w, "waiting")
  <2>1. Keep(Append(queue, i), stages) /\ UNCHANGED chat /\ at' = stages
    BY <1>3 DEF Send, Keep, w
  <2>2. /\ stages \in Stages
        /\ \A v \in Workers : stages[v] = IF v = w THEN "waiting" ELSE at[v]
    BY <1>1, ChatFacts, ToFacts DEF AtStages
  <2> HIDE DEF stages
  <2>3. Append(queue, i) \in Seq(Runs) /\ Exact(Append(queue, i), stages)
    BY <1>1, <2>2, ChatFacts, Appended DEF w
  <2>4. Continues(stages)
    <3>1. ASSUME NEW j \in Runs PROVE stages[<<"resume", j>>] \in ResumeStages
      <4>1. /\ <<"resume", j>> \in Workers /\ at[<<"resume", j>>] \in ResumeStages
            /\ <<"resume", j>> # w
        BY RunIsWorker DEF ChatInv, StageInv, w
      <4> QED BY <2>2, <4>1
    <3> QED BY <1>1, <2>2, <3>1 DEF Continues
  <2>5. Broken => Broken'
    BY <1>2, <2>1, <2>2, <2>4, BrokenContinues
  <2>6. ASSUME ~Broken PROVE ServedInv'
    <3>1. MarkerInv'
      BY <1>1, <2>1, <2>2, <2>6 DEF ChatInv, ServedInv, MarkerInv, OwnStages, Chat
    <3>2. WorkServed'
      BY <1>1, <1>2, <2>1, <2>2, <2>6 DEF ChatInv, ServedInv, WorkServed, FreeingStages
    <3>3. QueueServed'
      BY <1>3, <2>1 DEF QueueServed
    <3> QED BY <3>1, <3>2, <3>3 DEF ServedInv
  <2> QED BY <1>1, <1>2, <2>1, <2>2, <2>3, <2>4, <2>5, <2>6, KeepStep
<1>4. CASE ~chat.working
  <2>1. /\ chat' = [chat EXCEPT !.working = TRUE] /\ at' = To(w, "ready") /\ queue' = queue
    BY <1>4 DEF Send, w
  <2>2. /\ at' \in Stages
        /\ \A v \in Workers : at'[v] = IF v = w THEN "ready" ELSE at[v]
    BY <1>1, <2>1, ChatFacts, ToFacts DEF AtStages, Alive
  <2>3. /\ To(w, "ready") \in Stages /\ Exact(queue, To(w, "ready")) /\ Continues(To(w, "ready"))
    BY <1>1, ToContinues DEF AtStages, Alive
  <2>4. chat' \in Chat /\ chat'.working /\ chat'.marker = chat.marker
    BY <1>1, <2>1 DEF Chat
  <2>5. Keep(queue, To(w, "ready"))
    BY <2>1 DEF Keep
  <2>6. Broken => Broken'
    BY <1>2, <2>1, <2>3, BrokenContinues
  <2>7. MarkerInv'
    BY <1>1, <1>4, <2>4, <2>6 DEF ChatInv, ServedInv, MarkerInv
  <2>8. WorkServed' /\ QueueServed'
    BY <1>1, <2>2, <2>4 DEF WorkServed, QueueServed, FreeingStages
  <2> QED BY <1>1, <1>2, <2>3, <2>4, <2>5, <2>7, <2>8, KeepStep DEF ServedInv
<1> QED BY <1>3, <1>4

\* Messages leave the queue beside whoever has the session.
LEMMA WithdrawnStep ==
    ASSUME ChatInv, NEW S, NEW after \in Stages,
           \A v \in Workers :
              after[v] = IF v[1] = "run" /\ v[2] \in S /\ at[v] = "waiting"
                           THEN "cancelled" ELSE at[v],
           Keep(Without(S), after), UNCHANGED chat, ChatRest',
           \A a \in DOMAIN aborts : aborts[a] = "ignored"
                => a \in DOMAIN aborts' /\ aborts'[a] = "ignored",
           \A a \in DOMAIN aborts : aborts[a] \notin {"returned", "ignored"}
                => a \in DOMAIN aborts' /\ aborts'[a] \notin {"returned", "ignored"}
    PROVE  ChatInv'
<1>1. chat \in Chat /\ queue \in Seq(Runs) /\ queue' = Without(S) /\ at' = after
  BY ChatFacts DEF Keep
<1>2. \A v \in Workers : at[v] # "waiting" => after[v] = at[v]
  OBVIOUS
<1>3. Without(S) \in Seq(Runs) /\ Exact(Without(S), after)
  <2>1. ASSUME NEW i \in Runs
        PROVE  after[<<"run", i>>] = "waiting" <=> at[<<"run", i>>] = "waiting" /\ i \notin S
    <3>1. <<"run", i>> \in Workers /\ <<"run", i>>[1] = "run" /\ <<"run", i>>[2] = i
      BY RunIsWorker
    <3> QED BY <3>1
  <2> QED BY <2>1, ChatFacts, Withdrawn
<1>4. Continues(after)
  <2>1. ASSUME NEW j \in Runs PROVE after[<<"resume", j>>] \in ResumeStages
    BY <1>2, RunIsWorker DEF ChatInv, StageInv, ResumeStages
  <2> QED BY <1>2, <2>1 DEF Continues
<1>5. queue' # <<>> => queue # <<>>
  <2> DEFINE K == {k \in DOMAIN queue : queue[k] \notin S}
             r == Kept(queue, K)
  <2>1. SUFFICES ASSUME queue = <<>> PROVE r = <<>>
    BY <1>1 DEF Without
  <2>2. K \in SUBSET (DOMAIN queue) /\ K = {} /\ \A j, k \in DOMAIN queue : queue[j] = queue[k] => j = k
    BY <2>1
  <2> HIDE DEF K
  <2>3. r \in Seq(Runs) /\ {r[n] : n \in DOMAIN r} = {queue[k] : k \in K}
    BY <1>1, <2>2, KeptRuns
  <2> HIDE DEF r
  <2>4. DOMAIN r = 1..Len(r) /\ Len(r) \in Nat /\ \A n \in DOMAIN r : FALSE
    BY <2>2, <2>3
  <2> QED BY <2>3, <2>4
<1>6. Broken => Broken'
  BY <1>1, <1>4, BrokenContinues
<1>7. ASSUME ~Broken PROVE ServedInv'
  <2>1. MarkerInv'
    BY <1>1, <1>2, <1>7 DEF ChatInv, ServedInv, MarkerInv, OwnStages, Chat
  <2>2. WorkServed'
    BY <1>1, <1>2, <1>7 DEF ChatInv, ServedInv, WorkServed, FreeingStages
  <2>3. QueueServed'
    BY <1>1, <1>2, <1>5, <1>7 DEF ChatInv, ServedInv, QueueServed
  <2> QED BY <2>1, <2>2, <2>3 DEF ServedInv
<1> QED BY <1>1, <1>3, <1>4, <1>6, <1>7, KeepStep

LEMMA CancelQueuedRunStep ==
    ASSUME ChatInv, NEW i \in Runs, CancelQueuedRun(i)
    PROVE  ChatInv'
<1> DEFINE w == <<"run", i>>
           after == To(w, "cancelled")
<1>1. /\ Keep(Without({i}), after) /\ UNCHANGED chat /\ aborts' = aborts /\ ChatRest'
  BY RestFacts DEF CancelQueuedRun, bridge, others, ChatRest
<1>2. w \in Workers /\ at[w] = "waiting"
  <2>1. i \in {queue[k] : k \in DOMAIN queue}
    BY DEF CancelQueuedRun
  <2> QED BY <2>1, ChatFacts, RunIsWorker DEF Exact
<1>3. /\ after \in Stages
      /\ \A v \in Workers : after[v] = IF v = w THEN "cancelled" ELSE at[v]
  BY <1>2, ChatFacts, ToFacts DEF AtStages, Ends
<1> HIDE DEF after
<1>4. ASSUME NEW v \in Workers
      PROVE  after[v] = IF v[1] = "run" /\ v[2] \in {i} /\ at[v] = "waiting"
                          THEN "cancelled" ELSE at[v]
  <2>1. CASE v = w
    BY <1>2, <1>3, <2>1
  <2>2. CASE v # w
    <3>1. v = <<v[1], v[2]>>
      BY WorkerParts
    <3>2. ~(v[1] = "run" /\ v[2] \in {i})
      BY <2>2, <3>1
    <3> QED BY <1>3, <2>2, <3>2
  <2> QED BY <2>1, <2>2
<1> HIDE DEF w
<1> QED BY <1>1, <1>3, <1>4, WithdrawnStep

LEMMA GoalPausedStep ==
    ASSUME ChatInv, NEW a \in DOMAIN aborts, GoalPaused(a)
    PROVE  ChatInv'
<1>1. /\ aborts[a] \in {"pausing", "pausingUnsynced"} /\ UNCHANGED chat /\ DOMAIN aborts' = DOMAIN aborts
      /\ \A b \in DOMAIN aborts : aborts'[b] = aborts[b]
              \/ (b = a /\ aborts'[b] \in {"releasing", "destroying"})
  <2>1. aborts[a] \in {"pausing", "pausingUnsynced"} /\ UNCHANGED chat
    BY DEF GoalPaused
  <2>2. PICK s \in {"releasing", "destroying"} : aborts' = [aborts EXCEPT ![a] = s]
    BY <2>1 DEF GoalPaused
  <2>3. DOMAIN aborts' = DOMAIN aborts
    BY <2>2
  <2>4. \A b \in DOMAIN aborts : aborts'[b] = IF b = a THEN s ELSE aborts[b]
    BY <2>2
  <2> QED BY <2>1, <2>3, <2>4
<1>2. ChatRest'
  BY RestFacts, <1>1 DEF GoalPaused, bridge, ChatRest
<1>3. /\ \A b \in DOMAIN aborts : aborts[b] = "ignored"
                => b \in DOMAIN aborts' /\ aborts'[b] = "ignored"
      /\ \A b \in DOMAIN aborts : aborts[b] \notin {"returned", "ignored"}
                => b \in DOMAIN aborts' /\ aborts'[b] \notin {"returned", "ignored"}
  BY <1>1
<1>4. CASE UNCHANGED <<queue, at>>
  <2>1. /\ Exact(queue, at)' /\ ChatTypeOK' /\ StageInv'
    BY <1>1, <1>2, <1>4 DEF ChatInv, ChatTypeOK, ChatRest, Exact, StageInv
  <2>2. Broken <=> Broken'
    <3>1. \A b \in DOMAIN aborts : aborts[b] = "ignored" <=> aborts'[b] = "ignored"
      BY <1>1
    <3> QED BY <1>1, <1>4, <3>1 DEF Broken, Inside
  <2>3. ServedInv'
    BY <1>1, <1>3, <1>4, <2>2 DEF ChatInv, ServedInv, MarkerInv, WorkServed, QueueServed
  <2> QED BY <2>1, <2>3 DEF ChatInv
<1>5. CASE Keep(Without(goal), [w \in Workers |->
                 IF w[1] = "run" /\ w[2] \in goal /\ at[w] = "waiting"
                   THEN "cancelled" ELSE at[w]])
  <2> DEFINE after == [w \in Workers |->
                 IF w[1] = "run" /\ w[2] \in goal /\ at[w] = "waiting"
                   THEN "cancelled" ELSE at[w]]
  <2>1. after \in Stages
    BY ChatFacts DEF Stages, AtStages, Ends
  <2>2. \A v \in Workers :
              after[v] = IF v[1] = "run" /\ v[2] \in goal /\ at[v] = "waiting"
                           THEN "cancelled" ELSE at[v]
    OBVIOUS
  <2>3. Keep(Without(goal), after)
    BY <1>5
  <2> HIDE DEF after
  <2> QED BY <1>1, <1>2, <1>3, <2>1, <2>2, <2>3, WithdrawnStep
<1> QED BY <1>4, <1>5 DEF GoalPaused

\* An abort, a lookup or the bridge moves; the session and its workers do not.
LEMMA BesideStep ==
    ASSUME ChatInv, UNCHANGED <<queue, at>>, ChatRest', chat' \in Chat,
           chat'.working = chat.working, chat'.marker = chat.marker, chat'.run = chat.run,
           \A a \in DOMAIN aborts : aborts[a] = "ignored"
                => a \in DOMAIN aborts' /\ aborts'[a] = "ignored",
           \A a \in DOMAIN aborts : aborts[a] \notin {"returned", "ignored"}
                => a \in DOMAIN aborts' /\ aborts'[a] \notin {"returned", "ignored"}
    PROVE  ChatInv'
<1>1. /\ Exact(queue, at)' /\ ChatTypeOK' /\ StageInv'
  BY DEF ChatInv, ChatTypeOK, ChatRest, Chat, Exact, StageInv
<1>2. Broken => Broken'
  BY BrokenStays
<1>3. ServedInv'
  BY <1>2 DEF ChatInv, ServedInv, MarkerInv, WorkServed, QueueServed
<1> QED BY <1>1, <1>3 DEF ChatInv

LEMMA AbortingStep ==
    ASSUME ChatInv, NEW a \in DOMAIN aborts, Interrupted(a) \/ Destroyed(a)
    PROVE  ChatInv'
<1>1. /\ aborts[a] \in {"interrupting", "destroying"} /\ UNCHANGED <<chat, queue, at>>
      /\ DOMAIN aborts' = DOMAIN aborts
      /\ \A b \in DOMAIN aborts : aborts'[b] = aborts[b]
              \/ (b = a /\ aborts'[b] \in {"pausing", "pausingUnsynced", "releasing"})
  <2>1. aborts[a] \in {"interrupting", "destroying"} /\ UNCHANGED <<chat, queue, at>>
    BY DEF Interrupted, Destroyed, session
  <2>2. PICK s \in {"pausing", "pausingUnsynced", "releasing"} : aborts' = [aborts EXCEPT ![a] = s]
    BY DEF Interrupted, Destroyed
  <2>3. DOMAIN aborts' = DOMAIN aborts
    BY <2>2
  <2>4. \A b \in DOMAIN aborts : aborts'[b] = IF b = a THEN s ELSE aborts[b]
    BY <2>2
  <2> QED BY <2>1, <2>3, <2>4
<1>2. ChatRest'
  BY RestFacts DEF Interrupted, Destroyed, bridge, ChatRest
<1>3. chat' \in Chat
  BY <1>1, ChatFacts
<1>4. /\ \A b \in DOMAIN aborts : aborts[b] = "ignored"
                => b \in DOMAIN aborts' /\ aborts'[b] = "ignored"
      /\ \A b \in DOMAIN aborts : aborts[b] \notin {"returned", "ignored"}
                => b \in DOMAIN aborts' /\ aborts'[b] \notin {"returned", "ignored"}
  BY <1>1
<1> QED BY <1>1, <1>2, <1>3, <1>4, BesideStep

LEMMA AbortedByUserStep ==
    ASSUME ChatInv, NEW a \in DOMAIN aborts, AbortedByUser(a)
    PROVE  ChatInv'
<1>1. /\ aborts[a] = "releasing" /\ AbortCompleted(at) /\ DOMAIN aborts' = DOMAIN aborts
      /\ \A b \in DOMAIN aborts : aborts'[b] = aborts[b] \/ b = a
  BY DEF AbortedByUser
<1>2. ChatRest'
  BY RestFacts DEF AbortedByUser, bridge, ChatRest
<1>3. \A b \in DOMAIN aborts : aborts[b] = "ignored"
                => b \in DOMAIN aborts' /\ aborts'[b] = "ignored"
  BY <1>1
<1>4. at \in Stages /\ Exact(queue, at) /\ Continues(at)
  BY ChatFacts DEF ChatInv, StageInv, Continues
<1> QED BY <1>1, <1>2, <1>3, <1>4, AbortCompletedStep

LEMMA AbortStep ==
    ASSUME ChatInv, Abort
    PROVE  ChatInv'
<1>1. PICK s \in {"ignored", "returned", "interrupting"} :
        /\ aborts' = Append(aborts, s) /\ UNCHANGED <<queue, at>>
        /\ s = "ignored" => chat' = [Free EXCEPT !.marker = chat.marker]
        /\ s = "returned" => ~chat.working /\ chat' = [Free EXCEPT !.marker = chat.marker]
        /\ s = "interrupting" => chat' = [chat EXCEPT !.aborting = TRUE]
  BY DEF Abort
<1>2. /\ DOMAIN aborts' = 1..(Len(aborts) + 1) /\ DOMAIN aborts = 1..Len(aborts)
      /\ Len(aborts) \in Nat /\ aborts'[Len(aborts) + 1] = s
      /\ \A b \in DOMAIN aborts : aborts'[b] = aborts[b]
  BY <1>1, RestFacts DEF ChatRest
<1>3. ChatRest'
  BY <1>1, RestFacts DEF Abort, bridge, ChatRest
<1>4. chat' \in Chat /\ chat'.marker = chat.marker
      /\ (s = "interrupting" => chat'.working = chat.working /\ chat'.run = chat.run)
      /\ (s = "returned" => ~chat'.working /\ ~chat.working)
  BY <1>1, ChatFacts DEF Chat, Free
<1>5. /\ Exact(queue, at)' /\ ChatTypeOK' /\ StageInv'
  BY <1>1, <1>3, <1>4 DEF ChatInv, ChatTypeOK, ChatRest, Chat, Exact, StageInv
<1>6. (Broken => Broken') /\ (s = "ignored" => Broken')
  <2>1. Broken => Broken'
    BY <1>1, <1>2, BrokenStays
  <2>2. s = "ignored" => Broken'
    BY <1>2 DEF Broken
  <2> QED BY <2>1, <2>2
<1>7. CASE s = "ignored"
  BY <1>5, <1>6, <1>7 DEF ChatInv, ServedInv, MarkerInv, WorkServed, QueueServed
<1>8. CASE s = "returned"
  <2>1. MarkerInv' /\ WorkServed' /\ QueueServed'
    BY <1>1, <1>4, <1>6, <1>8 DEF ChatInv, ServedInv, MarkerInv, WorkServed, QueueServed
  <2> QED BY <1>5, <2>1 DEF ChatInv, ServedInv
<1>9. CASE s = "interrupting"
  <2>1. MarkerInv' /\ QueueServed'
    BY <1>1, <1>4, <1>6, <1>9 DEF ChatInv, ServedInv, MarkerInv, QueueServed
  <2>2. WorkServed'
    BY <1>2, <1>9 DEF WorkServed
  <2> QED BY <1>5, <2>1, <2>2 DEF ChatInv, ServedInv
<1> QED BY <1>7, <1>8, <1>9

LEMMA ResumeStep ==
    ASSUME ChatInv, Resume \/ \E k \in DOMAIN resumes : StatusRead(k)
    PROVE  ChatInv'
<1>1. UNCHANGED <<chat, queue, at, aborts>>
  BY DEF Resume, StatusRead, session
<1>2. ChatRest'
  <2> DEFINE Lookup == [stage : {"asking", "answered", "returned"}, run : Runs \union {NoRun}]
  <2>1. ChatRest /\ UNCHANGED <<direct, goal, aborts, current, agent, faults, budget>>
    BY RestFacts DEF Resume, StatusRead, bridge
  <2>2. resumes \in Seq(Lookup)
    BY <2>1 DEF ChatRest
  <2>3. CASE Resume
    <3>1. [stage |-> "asking", run |-> NoRun] \in Lookup
      OBVIOUS
    <3>2. resumes' \in Seq(Lookup)
      BY <2>2, <2>3, <3>1 DEF Resume
    <3> QED BY <2>1, <3>2 DEF ChatRest
  <2>4. CASE \E k \in DOMAIN resumes : StatusRead(k)
    <3>1. PICK k \in DOMAIN resumes : resumes' = [resumes EXCEPT ![k] = [stage |-> "answered", run |-> current]]
      BY <2>4 DEF StatusRead
    <3>2. [stage |-> "answered", run |-> current] \in Lookup
      BY <2>1 DEF ChatRest
    <3>3. resumes' \in Seq(Lookup)
      BY <2>2, <3>1, <3>2
    <3> QED BY <2>1, <3>3 DEF ChatRest
  <2> QED BY <2>3, <2>4
<1>3. chat' \in Chat
  BY <1>1, ChatFacts
<1> QED BY <1>1, <1>2, <1>3, BesideStep

\* A page that finds a run takes the session for a poll of it.
LEMMA ReattachedStep ==
    ASSUME ChatInv, NEW k \in DOMAIN resumes, Reattached(k)
    PROVE  ChatInv'
<1> DEFINE w == <<"resume", resumes[k].run>>
<1>1. UNCHANGED <<queue, aborts>>
  BY DEF Reattached
<1> DEFINE Lookup == [stage : {"asking", "answered", "returned"}, run : Runs \union {NoRun}]
<1>2. ChatRest /\ resumes[k] \in Lookup /\ resumes[k].run \in Runs \union {NoRun}
  <2>1. ChatRest /\ resumes \in Seq(Lookup)
    BY RestFacts DEF ChatRest
  <2>2. resumes[k] \in Lookup
    BY <2>1, Element
  <2> QED BY <2>1, <2>2
<1>3. ChatRest'
  <2>1. UNCHANGED <<direct, goal, aborts, current, agent, faults, budget>>
    BY DEF Reattached, bridge
  <2>2. resumes' = [resumes EXCEPT ![k] = [resumes[k] EXCEPT !.stage = "returned"]]
    BY DEF Reattached
  <2>3. [resumes[k] EXCEPT !.stage = "returned"] \in Lookup
    BY <1>2
  <2>4. resumes \in Seq(Lookup)
    BY <1>2 DEF ChatRest
  <2>5. resumes' \in Seq(Lookup)
    BY <2>2, <2>3, <2>4
  <2> QED BY <1>2, <2>1, <2>5 DEF ChatRest
<1>4. CASE UNCHANGED <<chat, at>>
  <2>1. chat' \in Chat
    BY <1>4, ChatFacts
  <2> QED BY <1>1, <1>3, <1>4, <2>1, BesideStep
<1>5. CASE /\ resumes[k].run # NoRun /\ w \notin Inside(Alive)
           /\ chat' = [working |-> TRUE, aborting |-> chat.aborting,
                       run |-> w[2], marker |-> w]
           /\ at' = To(w, "streaming")
  <2>1. w \in Workers /\ w[1] = "resume" /\ w[2] \in Runs
    <3>1. resumes[k].run \in Runs
      BY <1>2, <1>5
    <3> QED BY <3>1, RunIsWorker
  <2>2. at[w] \in ResumeStages /\ at[w] \notin Alive
    BY <1>5, <2>1, ResumeStage DEF Inside
  <2> HIDE DEF w
  <2>3. /\ To(w, "streaming") \in Stages /\ Exact(queue, To(w, "streaming"))
        /\ Continues(To(w, "streaming"))
        /\ \A v \in Workers : To(w, "streaming")[v] = IF v = w THEN "streaming" ELSE at[v]
    BY <2>1, <2>2, ToContinues DEF AtStages, Alive, ResumeStages
  <2>4. /\ chat' \in Chat /\ chat'.working /\ chat'.marker = w
    BY <1>5, <2>1, ChatFacts DEF Chat
  <2>5. Keep(queue, To(w, "streaming")) /\ queue \in Seq(Runs)
    BY <1>1, <1>5, ChatFacts DEF Keep
  <2>6. MarkerInv' /\ WorkServed' /\ QueueServed'
    BY <1>5, <2>1, <2>3, <2>4, NobodyIsNoWorker DEF MarkerInv, WorkServed, QueueServed, OwnStages
  <2> QED BY <1>1, <1>3, <2>3, <2>4, <2>5, <2>6, KeepStep DEF ServedInv
<1> QED BY <1>4, <1>5 DEF Reattached

LEMMA BridgeMovesStep ==
    ASSUME ChatInv, BridgeDies \/ \E i \in Runs : AgentEnds(i)
    PROVE  ChatInv'
<1>1. UNCHANGED <<chat, queue, at, aborts>>
  BY DEF BridgeDies, AgentEnds, session, others
<1>2. ChatRest'
  <2>1. ChatRest /\ UNCHANGED <<direct, goal, aborts, resumes, budget>>
    BY RestFacts DEF BridgeDies, AgentEnds, others
  <2>2. current' \in Runs \union {NoRun} /\ faults' \in Nat
    BY <2>1 DEF BridgeDies, AgentEnds, others, ChatRest
  <2>3. agent' \in [Runs -> {"none", "running", "ended", "lost"}]
    BY <2>1 DEF BridgeDies, AgentEnds, ChatRest
  <2> QED BY <2>1, <2>2, <2>3 DEF ChatRest
<1>3. chat' \in Chat
  BY <1>1, ChatFacts
<1> QED BY <1>1, <1>2, <1>3, BesideStep

LEMMA ServerDiesStep ==
    ASSUME ChatInv, ServerDies
    PROVE  ChatInv'
<1>1. chat' = Free /\ queue' = <<>>
      /\ at' = [w \in Workers |-> IF at[w] \in Alive \union {"waiting"} THEN "lost" ELSE at[w]]
  BY DEF ServerDies, Keep
<1>2. ChatRest'
  <2>1. ChatRest /\ UNCHANGED <<direct, goal, current, agent, budget>> /\ faults' = faults + 1
    BY RestFacts DEF ServerDies, bridge
  <2>2. aborts' \in Seq({"interrupting", "pausing", "pausingUnsynced", "destroying",
                        "releasing", "returned", "ignored"})
    BY <2>1 DEF ServerDies, ChatRest
  <2>3. resumes' \in Seq([stage : {"asking", "answered", "returned"}, run : Runs \union {NoRun}])
    <3> DEFINE Lookup == [stage : {"asking", "answered", "returned"}, run : Runs \union {NoRun}]
    <3>1. resumes \in Seq(Lookup) /\ DOMAIN resumes = 1..Len(resumes) /\ Len(resumes) \in Nat
      BY <2>1 DEF ChatRest
    <3>2. ASSUME NEW k \in DOMAIN resumes PROVE [resumes[k] EXCEPT !.stage = "returned"] \in Lookup
      <4>1. resumes[k] \in Lookup
        BY <3>1, Element
      <4> QED BY <4>1
    <3>3. resumes' = [k \in DOMAIN resumes |-> [resumes[k] EXCEPT !.stage = "returned"]]
      BY DEF ServerDies
    <3>4. resumes' \in [1..Len(resumes) -> Lookup]
      BY <3>1, <3>2, <3>3
    <3> QED BY <3>1, <3>4
  <2> QED BY <2>1, <2>2, <2>3 DEF ChatRest
<1>3. at' \in Stages /\ \A v \in Workers : at'[v] # "waiting" /\ at'[v] \in {at[v], "lost"}
  BY <1>1, ChatFacts DEF Stages, AtStages, Ends
<1>4. ChatTypeOK'
  BY <1>1, <1>2, <1>3 DEF ChatTypeOK, ChatRest, Free, Stages
<1>5. Exact(queue, at)'
  <2>1. \A i \in Runs : at'[<<"run", i>>] # "waiting"
    BY <1>3, RunIsWorker
  <2> QED BY <1>1, <2>1 DEF Exact
<1>6. StageInv'
  <2>1. ASSUME NEW i \in Runs PROVE at'[<<"resume", i>>] \in ResumeStages
    BY <1>3, RunIsWorker DEF ChatInv, StageInv, ResumeStages
  <2> QED BY <2>1 DEF StageInv
<1>7. ServedInv'
  BY <1>1 DEF ServedInv, MarkerInv, WorkServed, QueueServed, Free
<1> QED BY <1>4, <1>5, <1>6, <1>7 DEF ChatInv

-----------------------------------------------------------------------------
(* The runs of a chat session: the theorems.                                 *)

LEMMA ProgressStep ==
    ASSUME ChatInv, NEW w \in Workers, Progress(w)
    PROVE  ChatInv'
<1>1. CASE BridgeIsReady(w) \/ AskChat(w) \/ BridgeAnswersChat(w)
  BY <1>1, QuietSteps
<1>2. CASE (at[w] = "refused" /\ ChatThrows(w)) \/ (agent[w[2]] = "lost" /\ StreamThrows(w))
  BY <1>2, CatchStep DEF ChatThrows, StreamThrows
<1> QED
  BY <1>1, <1>2, PreparedStep, ChatStartedStep, TerminalChunkStep, ReadDoneStep, CloseRunStep,
     GoalJudgedStep, AbortedByChunkStep, FailureReportedStep DEF Progress

LEMMA TroubleStep ==
    ASSUME ChatInv, NEW w \in Workers, Trouble(w)
    PROVE  ChatInv'
<1>1. CASE ChatThrows(w) \/ StreamThrows(w)
  BY <1>1, CatchStep DEF ChatThrows, StreamThrows
<1> QED BY <1>1, BridgeNotReadyStep, QuietSteps, PreparationThrowsStep DEF Trouble

LEMMA ChatInvStep == ChatInv /\ [ChatNext]_chatVars => ChatInv'
<1> SUFFICES ASSUME ChatInv, [ChatNext]_chatVars PROVE ChatInv'
  OBVIOUS
<1>1. CASE \E i \in Runs : Send(i) \/ CancelQueuedRun(i) \/ AgentEnds(i)
  BY <1>1, SendStep, CancelQueuedRunStep, BridgeMovesStep
<1>2. CASE \E w \in Workers : Progress(w) \/ Trouble(w) \/ Chunk(w)
  BY <1>2, ProgressStep, TroubleStep, ChunkStep
<1>3. CASE \E w \in Workers, i \in Runs : GoalContinues(w, i)
  BY <1>3, GoalContinuesStep
<1>4. CASE \E a \in DOMAIN aborts : Aborting(a)
  BY <1>4, AbortingStep, GoalPausedStep, AbortedByUserStep DEF Aborting
<1>5. CASE \E k \in DOMAIN resumes : Resuming(k)
  BY <1>5, ResumeStep, ReattachedStep DEF Resuming
<1>6. CASE Abort \/ Resume \/ BridgeDies \/ ServerDies
  BY <1>6, AbortStep, ResumeStep, BridgeMovesStep, ServerDiesStep
<1>7. CASE UNCHANGED chatVars
  <2>1. ChatTypeOK' /\ Exact(queue, at)' /\ StageInv' /\ ServedInv'
    BY <1>7 DEF chatVars, ChatInv, ChatTypeOK, Exact, StageInv, ServedInv, MarkerInv,
                WorkServed, QueueServed, Broken, Inside
  <2> QED BY <2>1 DEF ChatInv
<1> QED BY <1>1, <1>2, <1>3, <1>4, <1>5, <1>6, <1>7 DEF ChatNext

LEMMA ChatInvInit == ChatInit => ChatInv
<1> SUFFICES ASSUME ChatInit PROVE ChatInv
  OBVIOUS
<1>1. ChatTypeOK
  BY DEF ChatInit, ChatTypeOK, Free, AtStages
<1>2. Exact(queue, at)
  <2>1. queue = <<>> /\ \A i \in Runs : at[<<"run", i>>] = "none"
    BY RunIsWorker DEF ChatInit
  <2> QED BY <2>1 DEF Exact
<1>3. StageInv
  BY RunIsWorker DEF ChatInit, StageInv, ResumeStages
<1>4. ServedInv
  BY DEF ChatInit, ServedInv, MarkerInv, WorkServed, QueueServed, Free
<1> QED BY <1>1, <1>2, <1>3, <1>4 DEF ChatInv

\* The inductive invariant of a chat session: its queue, the stages of its workers, its
\* marker, and who serves it.
THEOREM ChatSpecInv == ChatSpec => []ChatInv
BY ChatInvInit, ChatInvStep, PTL DEF ChatSpec

\* The types of the session, its workers, aborts and lookups, and of the bridge's runs.
THEOREM ChatTypeCorrect == ChatSpec => []ChatTypeOK
BY ChatSpecInv, PTL DEF ChatInv

\* However many messages, aborts and reloads of the page there are: a message waits exactly
\* while it is in the queue of the session, and it is there once.
THEOREM QueueStaysExact == ChatSpec => []QueueIsExact
<1>1. ChatInv => QueueIsExact
  BY DEF ChatInv, Exact, QueueIsExact
<1> QED BY <1>1, ChatSpecInv, PTL

\* The marker that tells a run's chunks from stale ones never outlives the run, unless a
\* preparation threw, a memory mode was refused or an abort was ignored.
THEOREM MarkerDiesWithItsRun == ChatSpec => []MarkerIsAlive
<1>1. ChatInv => MarkerIsAlive
  BY DEF ChatInv, ChatTypeOK, ServedInv, MarkerInv, MarkerIsAlive, Inside, OwnStages, Alive
<1> QED BY <1>1, ChatSpecInv, PTL

\* A session that works or has messages queued has somebody at work who will free it,
\* except in the five ways of the code to leave it to itself that the property names.
THEOREM SessionHasAServer == ChatSpec => []SessionIsServed
<1>1. ChatInv => SessionIsServed
  <2> SUFFICES ASSUME ChatInv, chat.working \/ queue # <<>>, ~Busy, ~Broken, chat.run = NoRun
               PROVE  ~chat.working /\ Inside({"gaveUp"}) # {}
    BY DEF SessionIsServed
  <2>1. /\ \A w \in Workers : at[w] \notin Alive
        /\ \A a \in DOMAIN aborts : aborts[a] \in {"returned", "ignored"}
    BY DEF Busy, Inside
  <2>2. chat.marker = Nobody
    BY <2>1 DEF ChatInv, ChatTypeOK, ServedInv, MarkerInv, OwnStages, Alive
  <2>3. ~chat.working
    BY <2>1, <2>2 DEF ChatInv, ServedInv, WorkServed, FreeingStages, Alive
  <2>4. \E w \in Workers : at[w] = "gaveUp"
    BY <2>1, <2>3 DEF ChatInv, ServedInv, QueueServed, Alive
  <2> QED BY <2>3, <2>4 DEF Inside
<1> QED BY <1>1, ChatSpecInv, PTL

-----------------------------------------------------------------------------
(* The manager of the agent bridge: what its methods make of its fields.     *)

Manager == [child : Spawned \union {NoProcess}, attached : BOOLEAN, ready : BOOLEAN,
            stopping : BOOLEAN, timer : BOOLEAN,
            starting : {"no", "attach", "spawn", "boot"},
            waiting : SUBSET {"caller", "timer", "recovery"},
            recovery : {"no", "term", "kill", "start", "check"},
            recovering : Spawned \union {NoProcess}, outrun : BOOLEAN,
            stop : {"no", "shutdown", "exit"}, stopped : Spawned \union {NoProcess}]

\* What a start, a recovery or their failure leaves alone.
SameChild(n, m) ==
    /\ n.child = m.child /\ n.attached = m.attached /\ n.ready = m.ready
    /\ n.recovering = m.recovering /\ n.outrun = m.outrun
    /\ n.stop = m.stop /\ n.stopped = m.stopped

SameStart(n, m) ==
    n.starting = m.starting /\ n.timer = m.timer /\ n.stopping = m.stopping

\* Only a recovery that has called start waits for it.
WaitsAsCaller(m) == "recovery" \in m.waiting => m.recovery = "start"

\* A start begins: there was none, and the bridge did not run.
Begins(n, m) ==
    /\ m.starting = "no" /\ ~Running(m)
    /\ n.starting = "attach" /\ ~n.timer /\ ~n.stopping

LEMMA RunningIsOf ==
    ASSUME NEW m \in Manager, NEW n \in Manager, SameChild(n, m)
    PROVE  Running(n) = Running(m)
BY DEF SameChild, Running

LEMMA StartCallFacts ==
    ASSUME NEW m \in Manager, NEW who \in {"caller", "timer", "recovery"}
    PROVE  /\ StartCall(m, who) \in Manager /\ SameChild(StartCall(m, who), m)
           /\ StartCall(m, who).recovery = m.recovery
           /\ StartCall(m, who).waiting \subseteq m.waiting \union {who}
           /\ \/ SameStart(StartCall(m, who), m) /\ (Running(m) \/ m.starting # "no")
              \/ Begins(StartCall(m, who), m)
<1>1. CASE Running(m)
  BY <1>1 DEF StartCall, SameChild, SameStart
<1>2. CASE ~Running(m) /\ m.starting # "no"
  <2>1. StartCall(m, who) = [m EXCEPT !.waiting = @ \union {who}]
    BY <1>2 DEF StartCall
  <2>2. m.waiting \union {who} \in SUBSET {"caller", "timer", "recovery"}
    BY DEF Manager
  <2>3. StartCall(m, who) \in Manager
    BY <2>1, <2>2 DEF Manager
  <2>4. SameChild(StartCall(m, who), m) /\ SameStart(StartCall(m, who), m)
        /\ StartCall(m, who).recovery = m.recovery
        /\ StartCall(m, who).waiting \subseteq m.waiting \union {who}
    BY <2>1 DEF SameChild, SameStart, Manager
  <2> QED BY <1>2, <2>3, <2>4, Zenon
<1>3. CASE ~Running(m) /\ m.starting = "no"
  <2>1. StartCall(m, who) = [m EXCEPT !.stopping = FALSE, !.timer = FALSE,
                                      !.starting = "attach", !.waiting = {who}]
    BY <1>3 DEF StartCall
  <2>2. StartCall(m, who) \in Manager
    <3>1. {who} \in SUBSET {"caller", "timer", "recovery"}
      OBVIOUS
    <3> QED BY <2>1, <3>1 DEF Manager
  <2>3. SameChild(StartCall(m, who), m) /\ StartCall(m, who).recovery = m.recovery
        /\ StartCall(m, who).waiting \subseteq m.waiting \union {who}
    BY <2>1 DEF SameChild, Manager
  <2>4. StartCall(m, who).starting = "attach" /\ ~StartCall(m, who).timer
        /\ ~StartCall(m, who).stopping
    BY <2>1 DEF Manager
  <2>5. Begins(StartCall(m, who), m)
    BY <1>3, <2>4 DEF Begins
  <2> QED BY <2>2, <2>3, <2>5
<1> QED BY <1>1, <1>2, <1>3

LEMMA ScheduleFacts ==
    ASSUME NEW m \in Manager
    PROVE  /\ ScheduleRestart(m) \in Manager /\ SameChild(ScheduleRestart(m), m)
           /\ ScheduleRestart(m).starting = m.starting
           /\ ScheduleRestart(m).stopping = m.stopping
           /\ ScheduleRestart(m).recovery = m.recovery
           /\ ScheduleRestart(m).waiting = m.waiting
           /\ ScheduleRestart(m).timer <=> m.timer \/ ~m.stopping
<1>1. CASE m.stopping
  BY <1>1 DEF ScheduleRestart, SameChild
<1>2. CASE ~m.stopping
  <2>1. ScheduleRestart(m) = [m EXCEPT !.timer = TRUE]
    BY <1>2 DEF ScheduleRestart
  <2> QED BY <1>2, <2>1 DEF SameChild, Manager
<1> QED BY <1>1, <1>2

LEMMA ReplaceFacts ==
    ASSUME NEW m \in Manager
    PROVE  /\ Replace(m) \in Manager /\ SameChild(Replace(m), m)
           /\ Replace(m).recovery \in {"check", "start"}
           /\ WaitsAsCaller(m) /\ m.recovery # "start" => WaitsAsCaller(Replace(m))
           /\ \/ SameStart(Replace(m), m)
              \/ Begins(Replace(m), m) /\ ~m.outrun
<1>1. CASE m.outrun \/ m.stopping \/ Running(m)
  BY <1>1 DEF Replace, SameChild, SameStart, WaitsAsCaller, Manager
<1>2. CASE ~(m.outrun \/ m.stopping \/ Running(m))
  <2> DEFINE n == [m EXCEPT !.recovery = "start"]
  <2>1. n \in Manager /\ SameChild(n, m) /\ SameStart(n, m) /\ n.recovery = "start"
    BY DEF SameChild, SameStart, Manager
  <2>2. Replace(m) = StartCall(n, "recovery")
    BY <1>2 DEF Replace
  <2>3. Running(n) = Running(m)
    BY <2>1, RunningIsOf
  <2> HIDE DEF n
  <2>4. /\ StartCall(n, "recovery") \in Manager /\ SameChild(StartCall(n, "recovery"), n)
        /\ StartCall(n, "recovery").recovery = n.recovery
        /\ \/ SameStart(StartCall(n, "recovery"), n)
           \/ Begins(StartCall(n, "recovery"), n)
    BY <2>1, StartCallFacts
  <2> QED BY <1>2, <2>1, <2>2, <2>3, <2>4 DEF SameChild, SameStart, Begins, WaitsAsCaller
<1> QED BY <1>1, <1>2

\* A start that returns or throws.
LEMMA ClearedFacts ==
    ASSUME NEW m \in Manager
    PROVE  /\ Cleared(m) \in Manager /\ SameChild(Cleared(m), m)
           /\ Cleared(m).starting = "no" /\ Cleared(m).timer = m.timer
           /\ Cleared(m).stopping = m.stopping
           /\ Cleared(m).recovery \in {m.recovery, "check"}
           /\ Cleared(m).waiting = {}
           /\ WaitsAsCaller(m) /\ m.recovery # "start" => Cleared(m).recovery = m.recovery
BY DEF Cleared, Returned, SameChild, Manager, WaitsAsCaller

LEMMA CaughtFacts ==
    ASSUME NEW m \in Manager, NEW n \in Manager
    PROVE  /\ Caught(m, n) \in Manager /\ SameChild(Caught(m, n), n)
           /\ Caught(m, n).starting = n.starting /\ Caught(m, n).stopping = n.stopping
           /\ Caught(m, n).recovery = n.recovery /\ Caught(m, n).waiting = n.waiting
           /\ Caught(m, n).timer <=> n.timer \/ ("timer" \in m.waiting /\ ~n.stopping)
<1>1. CASE "timer" \in m.waiting
  BY <1>1, ScheduleFacts DEF Caught
<1>2. CASE "timer" \notin m.waiting
  BY <1>2 DEF Caught, SameChild, Manager
<1> QED BY <1>1, <1>2

LEMMA ThrewFacts ==
    ASSUME NEW m \in Manager
    PROVE  /\ Threw(m) \in Manager /\ SameChild(Threw(m), m)
           /\ Threw(m).starting = "no" /\ Threw(m).stopping = m.stopping
           /\ Threw(m).recovery \in {m.recovery, "check"}
           /\ Threw(m).waiting = {}
           /\ WaitsAsCaller(m) /\ m.recovery # "start" => Threw(m).recovery = m.recovery
           /\ Threw(m).timer <=> m.timer \/ ("timer" \in m.waiting /\ ~m.stopping)
<1> DEFINE c == Cleared(m)
           t == Caught(m, c)
<1>1. /\ c \in Manager /\ SameChild(c, m)
      /\ c.starting = "no" /\ c.timer = m.timer
      /\ c.stopping = m.stopping /\ c.recovery \in {m.recovery, "check"}
      /\ c.waiting = {}
      /\ WaitsAsCaller(m) /\ m.recovery # "start" => c.recovery = m.recovery
  BY ClearedFacts
<1> HIDE DEF c
<1>2. /\ t \in Manager /\ SameChild(t, c)
      /\ t.starting = c.starting /\ t.stopping = c.stopping
      /\ t.recovery = c.recovery /\ t.waiting = c.waiting
      /\ t.timer <=> c.timer \/ ("timer" \in m.waiting /\ ~c.stopping)
  BY <1>1, CaughtFacts
<1>3. t = Threw(m)
  BY DEF Threw, c
<1> HIDE DEF t
<1>4. /\ t \in Manager /\ SameChild(t, m)
      /\ t.starting = "no" /\ t.stopping = m.stopping
      /\ t.recovery \in {m.recovery, "check"}
      /\ t.waiting = {}
      /\ WaitsAsCaller(m) /\ m.recovery # "start" => t.recovery = m.recovery
      /\ t.timer <=> m.timer \/ ("timer" \in m.waiting /\ ~m.stopping)
  BY <1>1, <1>2 DEF SameChild
<1> QED BY <1>3, <1>4

\* The exit of a process, as its listeners take it.
LEMMA ExitedFacts ==
    ASSUME NEW m \in Manager, NEW p \in Processes
    PROVE  LET n == StopReturns(ChildExited(m, p), p)
           IN  /\ n \in Manager
               /\ n.child = (IF m.child = p THEN NoProcess ELSE m.child)
               /\ n.attached = m.attached
               /\ n.ready <=> m.ready /\ m.child # p
               /\ n.recovering = m.recovering /\ n.outrun = m.outrun
               /\ n.recovery = m.recovery
               /\ n.starting = m.starting /\ n.waiting = m.waiting
               /\ n.stopping => m.stopping
               /\ m.timer => n.timer
               /\ n.timer => m.timer \/ m.child = p
               /\ m.child = p /\ m.ready /\ ~m.stopping => n.timer
<1> DEFINE c == ChildExited(m, p)
           n == StopReturns(c, p)
<1>1. /\ c \in Manager
      /\ c.child = (IF m.child = p THEN NoProcess ELSE m.child)
      /\ c.attached = m.attached
      /\ c.ready <=> m.ready /\ m.child # p
      /\ c.recovering = m.recovering /\ c.outrun = m.outrun
      /\ c.recovery = m.recovery /\ c.starting = m.starting /\ c.waiting = m.waiting
      /\ c.stopping = m.stopping
      /\ m.timer => c.timer
      /\ c.timer => m.timer \/ m.child = p
      /\ m.child = p /\ m.ready /\ ~m.stopping => c.timer
  <2>1. CASE m.child # p
    BY <2>1 DEF ChildExited
  <2>2. CASE m.child = p
    <3> DEFINE d == [m EXCEPT !.ready = FALSE, !.child = NoProcess]
    <3>1. /\ d \in Manager /\ d.child = NoProcess /\ ~d.ready
          /\ d.attached = m.attached /\ d.recovering = m.recovering /\ d.outrun = m.outrun
          /\ d.recovery = m.recovery /\ d.starting = m.starting /\ d.waiting = m.waiting
          /\ d.stopping = m.stopping /\ d.timer = m.timer
      BY DEF Manager
    <3>2. c = IF m.ready THEN ScheduleRestart(d) ELSE d
      BY <2>2 DEF ChildExited
    <3> HIDE DEF c, d
    <3>3. CASE m.ready
      <4>1. c = ScheduleRestart(d)
        BY <3>2, <3>3
      <4> QED BY <2>2, <3>1, <3>3, <4>1, ScheduleFacts DEF SameChild
    <3>4. CASE ~m.ready
      BY <2>2, <3>1, <3>2, <3>4
    <3> QED BY <3>3, <3>4
  <2> QED BY <2>1, <2>2
<1> HIDE DEF c
<1>2. /\ n \in Manager
      /\ n.child = c.child /\ n.attached = c.attached /\ n.ready = c.ready
      /\ n.recovering = c.recovering /\ n.outrun = c.outrun /\ n.recovery = c.recovery
      /\ n.starting = c.starting /\ n.timer = c.timer /\ n.waiting = c.waiting /\ (n.stopping => c.stopping)
  <2>1. CASE c.stop = "exit" /\ c.stopped = p
    <3>1. n = [c EXCEPT !.stop = "no", !.stopping = FALSE]
      BY <2>1 DEF StopReturns
    <3> QED BY <1>1, <3>1 DEF Manager
  <2>2. CASE ~(c.stop = "exit" /\ c.stopped = p)
    BY <1>1, <2>2 DEF StopReturns
  <2> QED BY <2>1, <2>2
<1> HIDE DEF n
<1> QED BY <1>1, <1>2 DEF c, n

LEMMA RecoveryGoesOnFacts ==
    ASSUME NEW m \in Manager, NEW p \in Processes
    PROVE  LET n == RecoveryGoesOn(m, p)
           IN  /\ n \in Manager /\ SameChild(n, m)
               /\ n.recovery = m.recovery \/ n.recovery \in {"check", "start"}
               /\ n.recovery \in {"term", "kill"} => m.recovering # p
               /\ WaitsAsCaller(m) => WaitsAsCaller(n)
               /\ \/ SameStart(n, m)
                  \/ Begins(n, m) /\ m.recovery \in {"term", "kill"} /\ ~m.outrun
<1>1. CASE m.recovery \in {"term", "kill"} /\ m.recovering = p
  BY <1>1, ReplaceFacts DEF RecoveryGoesOn
<1>2. CASE ~(m.recovery \in {"term", "kill"} /\ m.recovering = p)
  BY <1>2 DEF RecoveryGoesOn, SameChild, SameStart
<1> QED BY <1>1, <1>2

-----------------------------------------------------------------------------
(* The manager of the agent bridge: the inductive invariant.                 *)

\* The processes have been spawned in their order.
ShapeInv ==
    /\ Newest \in 0..MaxProcesses
    /\ \A p \in Spawned : process[p] # "none" <=> p <= Newest

\* The child is the process that boots, or none; it has not been seen to exit.
FieldInv ==
    /\ manager.starting = "boot" => /\ Newest \in Spawned
                                    /\ manager.child \in {Newest, NoProcess}
    /\ manager.recovery \in {"term", "kill"} => manager.recovering \in Spawned
    /\ manager.child \in Spawned => process[manager.child] \in Living \union {"failed"}
    /\ manager.attached => manager.child = NoProcess
    /\ WaitsAsCaller(manager)
    /\ \A p \in signalled : process[p] # "none"

\* What a stop leaves behind cannot start the bridge.
SealInv ==
    past.sealed => /\ manager.starting = "no" /\ ~manager.timer
                   /\ manager.child = NoProcess
                   /\ manager.recovery \in {"term", "kill"} => manager.outrun

\* A process that lives and has not been given up is the child: one that a recovery has
\* told to end, or one that is ready or boots.
Here(p) == p \in Spawned \ past.lost /\ process[p] \in Living

HereInv ==
    /\ \A p \in Spawned : Here(p) => p = manager.child
    /\ Here(manager.child) =>
         \/ /\ manager.child \in signalled
            /\ manager.recovery \in {"term", "kill"} /\ manager.recovering = manager.child
         \/ /\ manager.child \notin signalled
            /\ manager.ready \/ manager.starting = "boot"
            /\ manager.starting \notin {"attach", "spawn"}

\* A bridge that serves is not being stopped, nor somebody else's.
SuperviseInv ==
    past.served => /\ ~manager.stopping /\ ~manager.attached
                   /\ manager.starting = "boot" => manager.child = Newest
                   /\ \/ manager.starting # "no" \/ manager.timer
                      \/ manager.ready /\ manager.child \in Spawned

BridgeInv ==
    BridgeTypeOK /\ ShapeInv /\ FieldInv /\ SealInv /\ HereInv /\ SuperviseInv

Past == [lost : SUBSET Spawned, sealed : BOOLEAN, served : BOOLEAN]
ProcessStates == {"none", "booting", "listening", "leaving", "dead", "failed"}

LEMMA BridgeFacts ==
    ASSUME BridgeInv
    PROVE  /\ manager \in Manager /\ past \in Past /\ asking \in Nat
           /\ process \in [Processes -> ProcessStates]
           /\ probe \in [Spawned -> {"off", "asking", "answered"}]
           /\ signalled \subseteq Spawned /\ allowed \in BridgeBudget
BY DEF BridgeInv, BridgeTypeOK, Manager, Past, ProcessStates

LEMMA BridgeTypes ==
    ASSUME manager' \in Manager, past' \in Past, asking' \in Nat,
           process' \in [Processes -> ProcessStates],
           probe' \in [Spawned -> {"off", "asking", "answered"}],
           signalled' \subseteq Spawned, allowed' \in BridgeBudget
    PROVE  BridgeTypeOK'
BY DEF BridgeTypeOK, Manager, Past, ProcessStates

LEMMA Places ==
    /\ MaxProcesses \in Nat \ {0} /\ Spawned \subseteq Processes /\ Outside \notin Spawned
    /\ NoProcess \notin Processes /\ NoProcess \notin Spawned
BY BridgeAssumption DEF Spawned, Processes, Outside, NoProcess

LEMMA TakeFacts ==
    ASSUME allowed \in BridgeBudget, NEW what \in {"starts", "stops", "asks", "faults"},
           Has(what), Take(what)
    PROVE  allowed' \in BridgeBudget
BY DEF BridgeBudget, Has, Take

\* Processes change their state, but none is spawned.
LEMMA NoSpawn ==
    ASSUME \A p \in Spawned : process'[p] = "none" <=> process[p] = "none"
    PROVE  Newest' = Newest /\ (ShapeInv => ShapeInv')
<1>1. {p \in Spawned : process'[p] # "none"} = {p \in Spawned : process[p] # "none"}
  OBVIOUS
<1>2. Newest' = Newest
  BY <1>1 DEF Newest
<1> QED BY <1>2 DEF ShapeInv

LEMMA OneMore ==
    ASSUME ShapeInv, Newest < MaxProcesses,
           process \in [Processes -> ProcessStates],
           process' = [process EXCEPT ![Newest + 1] = "booting"]
    PROVE  Newest' = Newest + 1 /\ Newest + 1 \in Spawned /\ ShapeInv'
<1>1. Newest \in Nat /\ Newest + 1 \in Spawned /\ Newest + 1 \in Processes /\ MaxProcesses \in Nat
  BY Places DEF ShapeInv, Spawned
<1>2. \A p \in Spawned : process'[p] = IF p = Newest + 1 THEN "booting" ELSE process[p]
  BY <1>1, Places
<1>3. \A p \in Spawned : process'[p] # "none" <=> p <= Newest + 1
  BY <1>1, <1>2 DEF ShapeInv, Spawned
<1>4. {p \in Spawned : process'[p] # "none"} = 1..(Newest + 1)
  BY <1>1, <1>3 DEF Spawned
<1>5. Cardinality(1..(Newest + 1)) = Newest + 1
  BY <1>1, FS_Interval
<1>6. Newest' = Newest + 1
  BY <1>4, <1>5 DEF Newest
<1> QED BY <1>1, <1>3, <1>6 DEF ShapeInv, Spawned

-----------------------------------------------------------------------------
(* The manager of the agent bridge: its steps.                               *)

\* Somebody calls start, and processes and history stay as they are.
LEMMA StartedStep ==
    ASSUME BridgeInv, UNCHANGED processes, asking' = asking, allowed' \in BridgeBudget,
           past' \in Past, past'.lost = past.lost, past'.served = past.served, ~past'.sealed,
           manager' \in Manager, SameChild(manager', manager),
           manager'.recovery = manager.recovery, WaitsAsCaller(manager'),
           \/ Begins(manager', manager)
           \/ /\ manager'.starting = manager.starting
              /\ manager'.stopping = manager.stopping
              /\ past.served => manager'.timer = manager.timer \/ Running(manager)
    PROVE  BridgeInv'
<1>1. BridgeTypeOK'
  BY BridgeFacts, BridgeTypes DEF processes
<1>2. Newest' = Newest /\ ShapeInv'
  BY NoSpawn DEF BridgeInv, processes
<1>3. FieldInv'
  BY <1>2 DEF BridgeInv, FieldInv, SameChild, Begins, processes, WaitsAsCaller
<1>4. SealInv'
  BY DEF SealInv
<1>5. HereInv'
  BY Places DEF BridgeInv, HereInv, Here, SameChild, Begins, Running, processes
<1>6. SuperviseInv'
  BY <1>2, BridgeFacts DEF BridgeInv, SuperviseInv, SameChild, Begins, Running, Manager
<1> QED BY <1>1, <1>2, <1>3, <1>4, <1>5, <1>6 DEF BridgeInv

LEMMA StartStep ==
    ASSUME BridgeInv, Start
    PROVE  BridgeInv'
<1>1. /\ manager' = StartCall(manager, "caller") /\ UNCHANGED processes /\ asking' = asking
      /\ past' = [past EXCEPT !.sealed = FALSE]
  BY DEF Start
<1>2. allowed' \in BridgeBudget
  BY BridgeFacts, TakeFacts DEF Start
<1>3. past' \in Past /\ past'.lost = past.lost /\ past'.served = past.served /\ ~past'.sealed
  BY <1>1, BridgeFacts DEF Past
<1>4. /\ manager' \in Manager /\ SameChild(manager', manager)
      /\ manager'.recovery = manager.recovery
      /\ manager'.waiting \subseteq manager.waiting \union {"caller"}
      /\ SameStart(manager', manager) \/ Begins(manager', manager)
  BY <1>1, BridgeFacts, StartCallFacts
<1>5. WaitsAsCaller(manager')
  BY <1>4 DEF BridgeInv, FieldInv, WaitsAsCaller
<1> QED BY <1>1, <1>2, <1>3, <1>4, <1>5, StartedStep DEF SameStart

LEMMA RestartTimerFiresStep ==
    ASSUME BridgeInv, RestartTimerFires
    PROVE  BridgeInv'
<1> DEFINE m == [manager EXCEPT !.timer = FALSE]
<1>1. /\ manager.timer /\ UNCHANGED processes /\ UNCHANGED <<asking, past, allowed>>
      /\ manager' = IF m.stopping THEN m ELSE StartCall(m, "timer")
  BY DEF RestartTimerFires
<1>2. /\ m \in Manager /\ SameChild(m, manager) /\ m.recovery = manager.recovery /\ ~m.timer
      /\ m.starting = manager.starting /\ m.stopping = manager.stopping
      /\ m.waiting = manager.waiting
  BY BridgeFacts DEF SameChild, Manager
<1>3. ~past.sealed
  BY <1>1 DEF BridgeInv, SealInv
<1>4. Running(m) = Running(manager)
  BY <1>2, BridgeFacts, RunningIsOf
<1> HIDE DEF m
<1>5. CASE m.stopping
  <2>1. manager' = m /\ ~past.served
    BY <1>1, <1>2, <1>5 DEF BridgeInv, SuperviseInv
  <2>2. WaitsAsCaller(manager')
    BY <1>2, <2>1 DEF BridgeInv, FieldInv, WaitsAsCaller
  <2> QED BY <1>1, <1>2, <1>3, <2>1, <2>2, BridgeFacts, StartedStep
<1>6. CASE ~m.stopping
  <2> DEFINE n == StartCall(m, "timer")
  <2>1. manager' = n
    BY <1>1, <1>6
  <2>2. /\ n \in Manager /\ SameChild(n, m) /\ n.recovery = m.recovery
        /\ n.waiting \subseteq m.waiting \union {"timer"}
        /\ \/ SameStart(n, m) /\ (Running(m) \/ m.starting # "no")
           \/ Begins(n, m)
    BY <1>2, StartCallFacts
  <2> HIDE DEF n
  <2>3. SameChild(n, manager) /\ n.recovery = manager.recovery /\ WaitsAsCaller(n)
    BY <1>2, <2>2 DEF SameChild, BridgeInv, FieldInv, WaitsAsCaller
  <2>4. CASE Begins(n, m)
    <3>1. Begins(n, manager)
      BY <1>2, <1>4, <2>4 DEF Begins
    <3> QED BY <1>1, <1>3, <2>1, <2>2, <2>3, <3>1, BridgeFacts, StartedStep
  <2>5. CASE SameStart(n, m) /\ Running(m)
    <3>1. n.starting = manager.starting /\ n.stopping = manager.stopping /\ Running(manager)
      BY <1>2, <1>4, <2>5 DEF SameStart
    <3> QED BY <1>1, <1>3, <2>1, <2>2, <2>3, <3>1, BridgeFacts, StartedStep
  <2>6. CASE SameStart(n, m) /\ m.starting # "no"
    <3>1. /\ n.starting = manager.starting /\ n.stopping = manager.stopping
          /\ manager.starting # "no"
      BY <1>2, <2>6 DEF SameStart
    <3>2. manager' \in Manager /\ SameChild(manager', manager)
          /\ manager'.recovery = manager.recovery
          /\ manager'.starting = manager.starting /\ manager'.stopping = manager.stopping
          /\ WaitsAsCaller(manager')
      BY <2>1, <2>2, <2>3, <3>1
    <3>3. BridgeTypeOK'
      BY <1>1, <3>2, BridgeFacts, BridgeTypes DEF processes
    <3>4. Newest' = Newest /\ ShapeInv'
      BY <1>1, NoSpawn DEF BridgeInv, processes
    <3>5. FieldInv'
      BY <1>1, <3>2, <3>4 DEF BridgeInv, FieldInv, SameChild, processes
    <3>6. SealInv'
      BY <1>1, <1>3 DEF SealInv
    <3>7. HereInv'
      BY <1>1, <3>2 DEF BridgeInv, HereInv, Here, SameChild, processes
    <3>8. SuperviseInv'
      BY <1>1, <3>1, <3>2, <3>4 DEF BridgeInv, SuperviseInv, SameChild
    <3> QED BY <3>3, <3>4, <3>5, <3>6, <3>7, <3>8 DEF BridgeInv
  <2> QED BY <2>2, <2>4, <2>5, <2>6
<1> QED BY <1>5, <1>6

LEMMA ChildFacts ==
    ASSUME BridgeInv
    PROVE  /\ {manager.child} \ {NoProcess} \subseteq Spawned
           /\ manager.child \in Spawned \union {NoProcess}
BY BridgeFacts DEF Manager

LEMMA AttachStep ==
    ASSUME BridgeInv, AttachExistingBridge
    PROVE  BridgeInv'
<1> DEFINE m == [manager EXCEPT !.child = NoProcess, !.attached = TRUE, !.ready = TRUE]
<1>1. /\ manager.starting = "attach" /\ manager' = Cleared(m)
      /\ past' = [past EXCEPT !.lost = @ \union ({manager.child} \ {NoProcess}),
                              !.served = FALSE]
      /\ UNCHANGED processes /\ UNCHANGED <<asking, allowed>>
  BY DEF AttachExistingBridge
<1>2. /\ m \in Manager /\ m.child = NoProcess /\ m.ready /\ m.timer = manager.timer
      /\ m.recovery = manager.recovery /\ m.recovering = manager.recovering
  BY BridgeFacts DEF Manager
<1> HIDE DEF m
<1>3. /\ manager' \in Manager /\ manager'.child = NoProcess /\ manager'.starting = "no"
      /\ manager'.recovery \in {manager.recovery, "check"} /\ manager'.waiting = {}
      /\ manager'.recovering = manager.recovering
  BY <1>1, <1>2, ClearedFacts DEF SameChild
<1>4. /\ past' \in Past /\ past'.lost = past.lost \union ({manager.child} \ {NoProcess})
      /\ ~past'.served /\ past'.sealed = past.sealed
  BY <1>1, BridgeFacts, ChildFacts DEF Past
<1>5. BridgeTypeOK'
  BY <1>1, <1>3, <1>4, BridgeFacts, BridgeTypes DEF processes
<1>6. Newest' = Newest /\ ShapeInv'
  BY <1>1, NoSpawn DEF BridgeInv, processes
<1>7. FieldInv'
  BY <1>1, <1>3, Places DEF BridgeInv, FieldInv, WaitsAsCaller, processes
<1>8. SealInv'
  BY <1>1, <1>4 DEF BridgeInv, SealInv
<1>9. HereInv'
  BY <1>1, <1>3, <1>4, Places DEF BridgeInv, HereInv, Here, processes
<1>10. SuperviseInv'
  BY <1>4 DEF SuperviseInv
<1> QED BY <1>5, <1>6, <1>7, <1>8, <1>9, <1>10 DEF BridgeInv

LEMMA NoReusableBridgeStep ==
    ASSUME BridgeInv, NoReusableBridge
    PROVE  BridgeInv'
<1>1. /\ manager.starting = "attach"
      /\ manager' = [manager EXCEPT !.attached = FALSE, !.ready = FALSE, !.starting = "spawn"]
      /\ UNCHANGED processes /\ UNCHANGED <<asking, past, allowed>>
  BY DEF NoReusableBridge
<1>2. /\ manager' \in Manager /\ manager'.child = manager.child /\ ~manager'.attached
      /\ manager'.starting = "spawn" /\ manager'.timer = manager.timer
      /\ manager'.stopping = manager.stopping /\ manager'.waiting = manager.waiting
      /\ manager'.recovery = manager.recovery /\ manager'.recovering = manager.recovering
  BY <1>1, BridgeFacts DEF Manager
<1>3. BridgeTypeOK'
  BY <1>1, <1>2, BridgeFacts, BridgeTypes DEF processes
<1>4. Newest' = Newest /\ ShapeInv'
  BY <1>1, NoSpawn DEF BridgeInv, processes
<1>5. FieldInv'
  BY <1>1, <1>2 DEF BridgeInv, FieldInv, WaitsAsCaller, processes
<1>6. SealInv'
  BY <1>1 DEF BridgeInv, SealInv
<1>7. HereInv'
  BY <1>1, <1>2 DEF BridgeInv, HereInv, Here, processes
<1>8. SuperviseInv'
  BY <1>1, <1>2 DEF BridgeInv, SuperviseInv
<1> QED BY <1>3, <1>4, <1>5, <1>6, <1>7, <1>8 DEF BridgeInv

LEMMA SpawnStep ==
    ASSUME BridgeInv, Spawn
    PROVE  BridgeInv'
<1> DEFINE p == Newest + 1
<1>1. /\ manager.starting = "spawn" /\ Newest < MaxProcesses
      /\ manager' = [manager EXCEPT !.child = p, !.attached = FALSE, !.ready = FALSE,
                                    !.starting = "boot"]
      /\ process' = [process EXCEPT ![p] = "booting"]
      /\ probe' = [probe EXCEPT ![p] = "asking"]
      /\ past' = [past EXCEPT !.lost = @ \union Overtaken]
      /\ UNCHANGED <<signalled, asking, allowed>>
  BY DEF Spawn
<1>2. Newest' = p /\ p \in Spawned /\ ShapeInv' /\ Newest \in Nat
  BY <1>1, OneMore, BridgeFacts DEF BridgeInv, ShapeInv
<1> HIDE DEF p
<1>3. /\ manager' \in Manager /\ manager'.child = p /\ ~manager'.attached
      /\ manager'.starting = "boot" /\ manager'.timer = manager.timer
      /\ manager'.stopping = manager.stopping /\ manager'.waiting = manager.waiting
      /\ manager'.recovery = manager.recovery /\ manager'.recovering = manager.recovering
  BY <1>1, <1>2, BridgeFacts DEF Manager
<1>4. Overtaken \subseteq Spawned
  BY DEF BridgeInv, FieldInv, Overtaken
<1>5. /\ past' \in Past /\ past'.lost = past.lost \union Overtaken
      /\ past'.served = past.served /\ past'.sealed = past.sealed
  BY <1>1, <1>4, BridgeFacts DEF Past
<1>6. /\ process' \in [Processes -> ProcessStates]
      /\ \A q \in Processes : process'[q] = IF q = p THEN "booting" ELSE process[q]
      /\ probe' \in [Spawned -> {"off", "asking", "answered"}]
  BY <1>1, <1>2, BridgeFacts, Places DEF ProcessStates
<1>7. BridgeTypeOK'
  BY <1>1, <1>3, <1>5, <1>6, BridgeFacts, BridgeTypes
<1>8. FieldInv'
  BY <1>1, <1>2, <1>3, <1>6, BridgeFacts, Places DEF BridgeInv, FieldInv, WaitsAsCaller, Living
<1>9. SealInv'
  BY <1>1, <1>5 DEF BridgeInv, SealInv
<1>10. ASSUME NEW q \in Spawned, Here(q)' PROVE q = p
  <2>1. SUFFICES ASSUME q # p PROVE FALSE
    OBVIOUS
  <2>2. Here(q) /\ q \notin Overtaken
    BY <1>5, <1>6, <1>10, <2>1, Places DEF Here
  <2>3. q = manager.child /\ Here(manager.child)
    BY <2>2 DEF BridgeInv, HereInv
  <2>4. manager.recovery \in {"term", "kill"} /\ manager.recovering = q
    BY <1>1, <2>3 DEF BridgeInv, HereInv
  <2> QED BY <2>2, <2>4 DEF Overtaken
<1>11. Here(manager.child)' => p \notin signalled'
  <2>1. process[p] = "none"
    BY <1>2, BridgeFacts DEF BridgeInv, ShapeInv, p, Spawned
  <2> QED BY <1>1, <1>2, <2>1 DEF BridgeInv, FieldInv
<1>12. HereInv'
  BY <1>3, <1>10, <1>11 DEF HereInv
<1>13. SuperviseInv'
  BY <1>2, <1>3, <1>5 DEF BridgeInv, SuperviseInv
<1> QED BY <1>2, <1>7, <1>8, <1>9, <1>12, <1>13 DEF BridgeInv

\* A start throws: whoever was ready is not touched, and the timer may be set again.
LEMMA FailedStep ==
    ASSUME BridgeInv, manager.starting \in {"spawn", "boot"}, manager' = Threw(manager),
           allowed' \in BridgeBudget, UNCHANGED <<probe, signalled, asking>>,
           past' \in Past, past.lost \subseteq past'.lost, past'.sealed = past.sealed,
           past'.served => past.served /\ "timer" \in manager.waiting,
           process' \in [Processes -> ProcessStates],
           \A p \in Processes : process'[p] = process[p]
                \/ (process[p] = "booting" /\ process'[p] = "failed"),
           manager.starting = "boot" => ~Here(Newest)'
    PROVE  BridgeInv'
<1>1. /\ manager' \in Manager /\ SameChild(manager', manager)
      /\ manager'.starting = "no" /\ manager'.stopping = manager.stopping
      /\ manager'.recovery \in {manager.recovery, "check"}
      /\ manager'.waiting = {}
      /\ manager.recovery # "start" => manager'.recovery = manager.recovery
      /\ manager'.timer <=> manager.timer \/ ("timer" \in manager.waiting /\ ~manager.stopping)
  BY BridgeFacts, ThrewFacts DEF BridgeInv, FieldInv
<1>2. BridgeTypeOK'
  BY <1>1, BridgeFacts, BridgeTypes
<1>3. Newest' = Newest /\ ShapeInv'
  BY NoSpawn, Places DEF BridgeInv
<1>4. FieldInv'
  BY <1>1, BridgeFacts, Places DEF BridgeInv, FieldInv, WaitsAsCaller, SameChild, Living
<1>5. SealInv'
  BY DEF BridgeInv, SealInv
<1>6. ASSUME NEW p \in Spawned, Here(p)' PROVE Here(p) /\ manager.starting = "spawn"
  <2>1. Here(p)
    BY <1>6, Places DEF Here, Living
  <2>2. p = manager.child
    BY <2>1 DEF BridgeInv, HereInv
  <2>3. manager.starting = "boot" => p = Newest
    BY <2>2, Places DEF BridgeInv, FieldInv
  <2>4. manager.starting = "boot" => ~Here(p)'
    BY <1>3, <2>3 DEF Here
  <2> QED BY <1>6, <2>1, <2>4
<1>7. HereInv'
  <2>1. ASSUME NEW p \in Spawned, Here(p)' PROVE p = manager'.child
    BY <1>1, <1>6, <2>1 DEF BridgeInv, HereInv, SameChild
  <2>2. ASSUME Here(manager.child)'
        PROVE  /\ manager'.child \in signalled'
               /\ manager'.recovery \in {"term", "kill"} /\ manager'.recovering = manager'.child
    <3>1. manager.child \in Spawned /\ manager'.child = manager.child
      BY <1>1, <2>2 DEF Here, SameChild
    <3>2. Here(manager.child) /\ manager.starting = "spawn"
      <4>1. manager'.child \in Spawned /\ process'[manager'.child] \in Living
            /\ manager'.child \notin past'.lost
        BY <2>2 DEF Here
      <4>2. Here(manager.child)
        BY <3>1, <4>1, Places DEF Here, Living
      <4>3. manager.starting = "boot" => manager.child = Newest
        BY <3>1, Places DEF BridgeInv, FieldInv
      <4> QED BY <1>3, <3>1, <4>1, <4>2, <4>3 DEF Here
    <3> QED BY <1>1, <3>1, <3>2 DEF BridgeInv, HereInv, SameChild
  <2> QED BY <2>1, <2>2 DEF HereInv
<1>8. SuperviseInv'
  BY <1>1 DEF BridgeInv, SuperviseInv, SameChild
<1> QED BY <1>2, <1>3, <1>4, <1>5, <1>7, <1>8 DEF BridgeInv

LEMMA CallerToldFacts ==
    ASSUME past \in Past
    PROVE  /\ CallerTold \in Past /\ CallerTold.lost = past.lost
           /\ CallerTold.sealed = past.sealed
           /\ CallerTold.served <=> past.served /\ "timer" \in manager.waiting
BY DEF CallerTold, Past

LEMMA SpawnThrowsStep ==
    ASSUME BridgeInv, SpawnThrows
    PROVE  BridgeInv'
<1>1. /\ manager.starting = "spawn" /\ manager' = Threw(manager) /\ past' = CallerTold
      /\ UNCHANGED processes /\ asking' = asking
  BY DEF SpawnThrows
<1>2. allowed' \in BridgeBudget
  BY BridgeFacts, TakeFacts DEF SpawnThrows
<1> QED BY <1>1, <1>2, BridgeFacts, CallerToldFacts, FailedStep DEF processes

LEMMA SpawnFailsStep ==
    ASSUME BridgeInv, SpawnFails
    PROVE  BridgeInv'
<1>1. /\ manager.starting = "boot" /\ process[Newest] = "booting"
      /\ process' = [process EXCEPT ![Newest] = "failed"]
      /\ manager' = Threw(manager) /\ past' = CallerTold
      /\ UNCHANGED <<probe, signalled, asking>>
  BY DEF SpawnFails
<1>2. allowed' \in BridgeBudget
  BY BridgeFacts, TakeFacts DEF SpawnFails
<1>3. Newest \in Spawned /\ Newest \in Processes
  BY <1>1, Places DEF BridgeInv, FieldInv
<1>4. /\ process' \in [Processes -> ProcessStates] /\ process'[Newest] = "failed"
      /\ \A p \in Processes : process'[p] = process[p]
                \/ (process[p] = "booting" /\ process'[p] = "failed")
  BY <1>1, <1>3, BridgeFacts DEF ProcessStates
<1>5. ~Here(Newest)'
  <2>1. Newest' = Newest
    BY <1>4, NoSpawn, Places
  <2> QED BY <1>4, <2>1 DEF Here, Living
<1> QED BY <1>1, <1>2, <1>4, <1>5, BridgeFacts, CallerToldFacts, FailedStep

LEMMA StartupTimesOutStep ==
    ASSUME BridgeInv, StartupTimesOut
    PROVE  BridgeInv'
<1>1. /\ manager.starting = "boot" /\ manager' = Threw(manager)
      /\ past' = [CallerTold EXCEPT !.lost = @ \union {Newest}]
      /\ UNCHANGED processes /\ UNCHANGED <<asking, allowed>>
  BY DEF StartupTimesOut
<1>2. Newest \in Spawned
  BY <1>1 DEF BridgeInv, FieldInv
<1>3. /\ past' \in Past /\ past'.lost = past.lost \union {Newest} /\ past'.sealed = past.sealed
      /\ past'.served <=> past.served /\ "timer" \in manager.waiting
  BY <1>1, <1>2, BridgeFacts, CallerToldFacts DEF Past
<1>4. ~Here(Newest)'
  <2>1. Newest' = Newest
    BY <1>1, NoSpawn DEF processes
  <2> QED BY <1>3, <2>1 DEF Here
<1> QED BY <1>1, <1>3, <1>4, BridgeFacts, FailedStep DEF processes

\* A probe, a ping or a process moves, and the manager does not notice.
LEMMA UnnoticedStep ==
    ASSUME BridgeInv,
           \/ \E p \in Spawned : ProbeIsAnswered(p) \/ ProbeEnds(p) \/ Listen(p)
           \/ EnsureReady \/ PingSucceeds \/ UNCHANGED bridgeVars
    PROVE  BridgeInv'
<1>1. UNCHANGED <<manager, past, signalled>>
  BY DEF ProbeIsAnswered, ProbeEnds, Listen, EnsureReady, PingSucceeds, bridgeVars, processes
<1>2. allowed' \in BridgeBudget /\ asking' \in Nat
  BY BridgeFacts, TakeFacts
  DEF ProbeIsAnswered, ProbeEnds, Listen, EnsureReady, PingSucceeds, bridgeVars
<1>3. probe' \in [Spawned -> {"off", "asking", "answered"}]
  BY BridgeFacts
  DEF ProbeIsAnswered, ProbeEnds, Listen, EnsureReady, PingSucceeds, bridgeVars, processes
<1>4. /\ process' \in [Processes -> ProcessStates]
      /\ \A p \in Processes : process'[p] = process[p]
            \/ (process[p] = "booting" /\ process'[p] = "listening")
  BY BridgeFacts, Places
  DEF ProbeIsAnswered, ProbeEnds, Listen, EnsureReady, PingSucceeds, bridgeVars, processes,
      ProcessStates
<1>5. \A p \in Processes : /\ process'[p] \in Living <=> process[p] \in Living
                           /\ process'[p] = "none" <=> process[p] = "none"
                           /\ process'[p] = "failed" <=> process[p] = "failed"
  BY <1>4 DEF Living
<1>6. BridgeTypeOK'
  BY <1>1, <1>2, <1>3, <1>4, BridgeFacts, BridgeTypes
<1>7. Newest' = Newest /\ ShapeInv'
  BY <1>5, NoSpawn, Places DEF BridgeInv
<1>8. FieldInv'
  BY <1>1, <1>5, <1>7, BridgeFacts, Places DEF BridgeInv, FieldInv, WaitsAsCaller
<1>9. SealInv'
  BY <1>1 DEF BridgeInv, SealInv
<1>10. \A p \in Spawned \union {NoProcess} : Here(p)' <=> Here(p)
  BY <1>1, <1>5, Places DEF Here
<1>11. HereInv'
  BY <1>1, <1>10, ChildFacts DEF BridgeInv, HereInv
<1>12. SuperviseInv'
  BY <1>1, <1>7 DEF BridgeInv, SuperviseInv
<1> QED BY <1>6, <1>7, <1>8, <1>9, <1>11, <1>12 DEF BridgeInv

LEMMA MarkReadyStep ==
    ASSUME BridgeInv, NEW p \in Spawned, MarkReady(p)
    PROVE  BridgeInv'
<1> DEFINE m == [manager EXCEPT !.ready = TRUE]
<1>1. /\ manager' = IF manager.starting = "boot" /\ p = Newest THEN Cleared(m) ELSE m
      /\ probe' = [probe EXCEPT ![p] = "off"]
      /\ UNCHANGED <<process, signalled, asking, allowed>>
      /\ past' = [past EXCEPT !.served = \/ @
                                         \/ /\ manager.child = p /\ ~manager.stopping
                                            /\ process[p] \in Living]
  BY DEF MarkReady, Manager
<1>2. /\ m \in Manager /\ m.ready
      /\ m.child = manager.child /\ m.attached = manager.attached /\ m.timer = manager.timer
      /\ m.recovery = manager.recovery /\ m.recovering = manager.recovering
      /\ m.outrun = manager.outrun
      /\ m.starting = manager.starting /\ m.stopping = manager.stopping
      /\ m.waiting = manager.waiting
  BY BridgeFacts DEF Manager
<1> HIDE DEF m
<1>3. /\ past' \in Past /\ past'.lost = past.lost /\ past'.sealed = past.sealed
      /\ past'.served => past.served \/ (manager.child = p /\ ~manager.stopping)
  BY <1>1, BridgeFacts DEF Past
<1>4. WaitsAsCaller(m)
  BY <1>2 DEF BridgeInv, FieldInv, WaitsAsCaller
<1>5. /\ manager' \in Manager /\ manager'.ready /\ WaitsAsCaller(manager')
      /\ manager'.child = manager.child /\ manager'.attached = manager.attached
      /\ manager'.timer = manager.timer /\ manager'.stopping = manager.stopping
      /\ manager'.recovering = manager.recovering /\ manager'.outrun = manager.outrun
      /\ manager.recovery # "start" => manager'.recovery = manager.recovery
      /\ manager'.recovery \in {manager.recovery, "check"}
      /\ manager'.starting = manager.starting
           \/ (manager.starting = "boot" /\ manager'.starting = "no")
  <2>1. CASE manager.starting = "boot" /\ p = Newest
    <3>1. manager' = Cleared(m)
      BY <1>1, <2>1
    <3>2. /\ Cleared(m) \in Manager /\ SameChild(Cleared(m), m)
          /\ Cleared(m).starting = "no" /\ Cleared(m).timer = m.timer
          /\ Cleared(m).stopping = m.stopping
          /\ Cleared(m).recovery \in {m.recovery, "check"}
          /\ Cleared(m).waiting = {}
          /\ m.recovery # "start" => Cleared(m).recovery = m.recovery
      BY <1>2, <1>4, ClearedFacts
    <3> QED BY <1>2, <2>1, <3>1, <3>2 DEF SameChild, WaitsAsCaller
  <2>2. CASE ~(manager.starting = "boot" /\ p = Newest)
    BY <1>1, <1>2, <1>4, <2>2
  <2> QED BY <2>1, <2>2
<1>6. BridgeTypeOK'
  <2>1. probe' \in [Spawned -> {"off", "asking", "answered"}]
    BY <1>1, BridgeFacts
  <2> QED BY <1>1, <1>3, <1>5, <2>1, BridgeFacts, BridgeTypes
<1>7. Newest' = Newest /\ ShapeInv'
  BY <1>1, NoSpawn DEF BridgeInv
<1>8. FieldInv'
  BY <1>1, <1>5, <1>7 DEF BridgeInv, FieldInv
<1>9. SealInv'
  BY <1>3, <1>5 DEF BridgeInv, SealInv
<1>10. HereInv'
  BY <1>1, <1>3, <1>5 DEF BridgeInv, HereInv, Here
<1>11. SuperviseInv'
  <2> SUFFICES ASSUME past'.served
               PROVE  /\ ~manager'.stopping /\ ~manager'.attached
                      /\ manager'.starting = "boot" => manager'.child = Newest'
                      /\ \/ manager'.starting # "no" \/ manager'.timer
                         \/ manager'.ready /\ manager'.child \in Spawned
    BY DEF SuperviseInv
  <2>1. CASE past.served
    <3>1. /\ ~manager.stopping /\ ~manager.attached
          /\ manager.starting = "boot" => manager.child = Newest
          /\ \/ manager.starting # "no" \/ manager.timer
             \/ manager.ready /\ manager.child \in Spawned
      BY <2>1 DEF BridgeInv, SuperviseInv
    <3>2. manager.starting = "boot" => manager.child \in Spawned
      BY <3>1 DEF BridgeInv, FieldInv
    <3> QED BY <1>5, <1>7, <3>1, <3>2
  <2>2. CASE manager.child = p /\ ~manager.stopping
    <3>1. ~manager.attached /\ (manager.starting = "boot" => manager.child = Newest)
      BY <2>2, Places DEF BridgeInv, FieldInv
    <3> QED BY <1>5, <1>7, <2>2, <3>1
  <2> QED BY <1>3, <2>1, <2>2
<1> QED BY <1>6, <1>7, <1>8, <1>9, <1>10, <1>11 DEF BridgeInv

\* A process has ended, and what was the manager's of it is so no more.
LEMMA ExitStep ==
    ASSUME BridgeInv, NEW p \in Processes, Exit(p)
    PROVE  BridgeInv'
<1> DEFINE m == StopReturns(ChildExited(manager, p), p)
           booting == manager.starting = "boot" /\ p = Newest
<1>1. /\ process[p] \in Living /\ process' = [process EXCEPT ![p] = "dead"]
      /\ UNCHANGED <<probe, signalled, asking>>
      /\ IF booting
           THEN manager' = Caught(m, RecoveryGoesOn(Cleared(m), p)) /\ past' = CallerTold
           ELSE manager' = RecoveryGoesOn(m, p) /\ UNCHANGED past
  BY DEF Exit
<1>2. allowed' \in BridgeBudget
  BY BridgeFacts, TakeFacts DEF Exit
<1>3. /\ m \in Manager
      /\ m.child = (IF manager.child = p THEN NoProcess ELSE manager.child)
      /\ m.attached = manager.attached
      /\ m.ready <=> manager.ready /\ manager.child # p
      /\ m.recovering = manager.recovering /\ m.outrun = manager.outrun
      /\ m.recovery = manager.recovery
      /\ m.starting = manager.starting /\ m.waiting = manager.waiting
      /\ m.stopping => manager.stopping
      /\ manager.timer => m.timer
      /\ m.timer => manager.timer \/ manager.child = p
      /\ manager.child = p /\ manager.ready /\ ~manager.stopping => m.timer
  BY BridgeFacts, ExitedFacts
<1> HIDE DEF m
<1>4. WaitsAsCaller(m)
  BY <1>3 DEF BridgeInv, FieldInv, WaitsAsCaller
<1> DEFINE c == IF booting THEN Cleared(m) ELSE m
           r == RecoveryGoesOn(c, p)
<1>5. /\ c \in Manager /\ SameChild(c, m) /\ WaitsAsCaller(c)
      /\ c.recovery \in {m.recovery, "check"}
      /\ m.recovery # "start" => c.recovery = m.recovery
      /\ c.timer = m.timer /\ c.stopping = m.stopping
      /\ c.starting = IF booting THEN "no" ELSE m.starting
  <2>1. CASE booting
    <3>1. c = Cleared(m)
      BY <2>1
    <3> HIDE DEF c
    <3> QED BY <1>3, <1>4, <2>1, <3>1, ClearedFacts DEF WaitsAsCaller
  <2>2. CASE ~booting
    <3>1. c = m
      BY <2>2
    <3> HIDE DEF c
    <3> QED BY <1>3, <1>4, <2>2, <3>1 DEF SameChild
  <2> QED BY <2>1, <2>2
<1>6. r = RecoveryGoesOn(IF booting THEN Cleared(m) ELSE m, p)
  OBVIOUS
<1> HIDE DEF c
<1>7. /\ r \in Manager /\ SameChild(r, c) /\ WaitsAsCaller(r)
      /\ r.recovery = c.recovery \/ r.recovery \in {"check", "start"}
      /\ r.recovery \in {"term", "kill"} => c.recovering # p
      /\ \/ SameStart(r, c)
         \/ Begins(r, c) /\ c.recovery \in {"term", "kill"} /\ ~c.outrun
  BY <1>5, RecoveryGoesOnFacts
<1> HIDE DEF r, booting
<1>8. /\ manager' \in Manager /\ SameChild(manager', r) /\ WaitsAsCaller(manager')
      /\ manager'.recovery = r.recovery /\ manager'.starting = r.starting
      /\ manager'.stopping = r.stopping
      /\ r.timer => manager'.timer
      /\ booting /\ "timer" \in m.waiting /\ ~r.stopping => manager'.timer
      /\ ~booting => manager'.timer = r.timer
      /\ past' = IF booting THEN CallerTold ELSE past
  <2>1. CASE booting
    <3>1. manager' = Caught(m, r) /\ past' = CallerTold
      BY <1>1, <1>6, <2>1
    <3> QED BY <1>3, <1>7, <2>1, <3>1, CaughtFacts DEF WaitsAsCaller
  <2>2. CASE ~booting
    <3>1. manager' = r /\ past' = past
      BY <1>1, <1>6, <2>2
    <3> QED BY <1>7, <2>2, <3>1 DEF SameChild
  <2> QED BY <2>1, <2>2
<1>9. /\ past' \in Past /\ past'.lost = past.lost /\ past'.sealed = past.sealed
      /\ past'.served => past.served
      /\ past'.served /\ booting => "timer" \in m.waiting
  BY <1>3, <1>8, BridgeFacts, CallerToldFacts
<1>10. /\ process' \in [Processes -> ProcessStates]
       /\ \A q \in Processes : process'[q] = IF q = p THEN "dead" ELSE process[q]
  BY <1>1, BridgeFacts DEF ProcessStates
<1>11. BridgeTypeOK'
  BY <1>1, <1>2, <1>8, <1>9, <1>10, BridgeFacts, BridgeTypes
<1>12. Newest' = Newest /\ ShapeInv'
  BY <1>1, <1>10, NoSpawn, Places DEF BridgeInv, Living
\* Of the child, and of a recovery.
<1>13. /\ manager'.child = (IF manager.child = p THEN NoProcess ELSE manager.child)
       /\ manager'.attached = manager.attached
       /\ manager'.ready <=> manager.ready /\ manager.child # p
       /\ manager'.recovering = manager.recovering /\ manager'.outrun = manager.outrun
       /\ manager'.recovery \in {"term", "kill"}
             => manager'.recovery = manager.recovery /\ manager.recovering # p
       /\ manager.recovery \in {"term", "kill"} /\ manager.recovering # p
             => manager'.recovery = manager.recovery
  <2>1. manager.recovery \in {"term", "kill"} /\ manager.recovering # p
             => r.recovery = c.recovery
    BY <1>3, <1>5, <1>6 DEF RecoveryGoesOn, SameChild, r, c
  <2> QED BY <1>3, <1>5, <1>7, <1>8, <2>1 DEF SameChild
<1>14. FieldInv'
  <2>1. manager'.starting = "boot" => manager.starting = "boot"
    BY <1>3, <1>5, <1>7, <1>8 DEF SameStart, Begins
  <2> QED BY <1>1, <1>8, <1>10, <1>12, <1>13, <2>1, Places DEF BridgeInv, FieldInv, Living
<1>15. SealInv'
  <2> SUFFICES ASSUME past.sealed
               PROVE  /\ manager'.starting = "no" /\ ~manager'.timer
                      /\ manager'.child = NoProcess
                      /\ manager'.recovery \in {"term", "kill"} => manager'.outrun
    BY <1>9 DEF SealInv
  <2>1. /\ manager.starting = "no" /\ ~manager.timer /\ manager.child = NoProcess
        /\ manager.recovery \in {"term", "kill"} => manager.outrun
    BY DEF BridgeInv, SealInv
  <2>2. ~booting /\ manager.child # p
    BY <2>1, Places DEF booting
  <2>3. /\ ~c.timer /\ c.starting = "no"
        /\ c.recovery \in {"term", "kill"} => c.outrun
    BY <1>3, <1>5, <2>1, <2>2 DEF SameChild
  <2>4. ~r.timer /\ r.starting = "no"
    BY <1>7, <2>3 DEF SameStart
  <2> QED BY <1>8, <1>13, <2>1, <2>2, <2>4
<1>16. ASSUME NEW q \in Spawned, Here(q)'
       PROVE  Here(q) /\ q # p /\ q = manager.child /\ q = manager'.child
  <2>1. Here(q) /\ q # p
    BY <1>9, <1>10, <1>16, Places DEF Here, Living
  <2>2. q = manager.child
    BY <2>1 DEF BridgeInv, HereInv
  <2> QED BY <1>13, <2>1, <2>2
<1>17. HereInv'
  <2>1. ASSUME Here(manager.child)'
        PROVE  \/ /\ manager'.child \in signalled'
                  /\ manager'.recovery \in {"term", "kill"}
                  /\ manager'.recovering = manager'.child
               \/ /\ manager'.child \notin signalled'
                  /\ manager'.ready \/ manager'.starting = "boot"
                  /\ manager'.starting \notin {"attach", "spawn"}
    <3>1. manager'.child \in Spawned
      BY <2>1 DEF Here
    <3>2. /\ Here(manager.child) /\ manager.child # p /\ manager'.child = manager.child
          /\ manager.child \in Spawned
      <4>1. Here(manager'.child)
        BY <1>9, <1>10, <2>1, <3>1, Places DEF Here, Living
      <4>2. manager'.child # p
        BY <1>10, <2>1, Places DEF Here, Living
      <4> QED BY <1>13, <3>1, <4>1, <4>2, Places DEF BridgeInv, HereInv
    <3>3. CASE manager.child \in signalled
      BY <1>1, <1>13, <3>2, <3>3 DEF BridgeInv, HereInv
    <3>4. CASE manager.child \notin signalled
      <4>1. /\ manager.ready \/ manager.starting = "boot"
            /\ manager.starting \notin {"attach", "spawn"}
        BY <3>2, <3>4 DEF BridgeInv, HereInv
      <4>2. ~booting
        <5>1. manager.starting = "boot" => manager.child = Newest
          BY <3>2, Places DEF BridgeInv, FieldInv
        <5> QED BY <3>2, <5>1 DEF booting
      <4>3. c.starting = manager.starting /\ (c.ready <=> manager.ready) /\ c.child = manager.child
        BY <1>3, <1>5, <3>2, <4>2 DEF SameChild
      <4>4. ~Begins(r, c)
        BY <3>2, <3>4, <4>1, <4>3 DEF Begins, Running
      <4>5. manager'.starting = manager.starting
        BY <1>7, <1>8, <4>3, <4>4 DEF SameStart
      <4> QED BY <1>1, <1>13, <3>2, <3>4, <4>1, <4>5
    <3> QED BY <3>3, <3>4
  <2> QED BY <1>16, <2>1 DEF HereInv
<1>18. SuperviseInv'
  <2> SUFFICES ASSUME past'.served
               PROVE  /\ ~manager'.stopping /\ ~manager'.attached
                      /\ manager'.starting = "boot" => manager'.child = Newest'
                      /\ \/ manager'.starting # "no" \/ manager'.timer
                         \/ manager'.ready /\ manager'.child \in Spawned
    BY DEF SuperviseInv
  <2>1. /\ ~manager.stopping /\ ~manager.attached
        /\ manager.starting = "boot" => manager.child = Newest
        /\ \/ manager.starting # "no" \/ manager.timer
           \/ manager.ready /\ manager.child \in Spawned
    BY <1>9 DEF BridgeInv, SuperviseInv
  <2>2. ~m.stopping /\ ~c.stopping /\ ~r.stopping
    BY <1>3, <1>5, <1>7, <2>1 DEF SameStart, Begins
  <2>3. CASE booting
    <3>1. manager'.timer
      BY <1>8, <1>9, <2>2, <2>3
    <3>2. manager'.starting # "boot"
      BY <1>5, <1>7, <1>8, <2>3 DEF SameStart, Begins
    <3> QED BY <1>8, <1>13, <2>1, <2>2, <3>1, <3>2
  <2>4. CASE ~booting
    <3>1. c.starting = manager.starting /\ (manager.timer => c.timer)
          /\ (manager.child = p /\ manager.ready => c.timer)
      BY <1>3, <1>5, <2>1, <2>4
    <3>2. CASE Begins(r, c)
      BY <1>8, <1>13, <2>1, <2>2, <3>2 DEF Begins
    <3>3. CASE SameStart(r, c)
      <4>1. manager'.starting = manager.starting
            /\ (manager.timer \/ (manager.child = p /\ manager.ready) => manager'.timer)
        BY <1>8, <2>4, <3>1, <3>3 DEF SameStart
      <4>2. manager.starting = "boot" => manager.child # p
        BY <2>1, <2>4 DEF booting
      <4> QED BY <1>8, <1>12, <1>13, <2>1, <2>2, <4>1, <4>2
    <3> QED BY <1>7, <3>2, <3>3
  <2> QED BY <2>3, <2>4
<1> QED BY <1>11, <1>12, <1>14, <1>15, <1>17, <1>18 DEF BridgeInv

\* Nothing of the processes changes but who was sent a signal; no process is left that
\* lives and was not given up, or it is the child as before.
LEMMA ProcessesStay ==
    ASSUME BridgeInv, process' = process
    PROVE  Newest' = Newest /\ ShapeInv'
BY NoSpawn DEF BridgeInv

LEMMA RecoverStep ==
    ASSUME BridgeInv, manager.recovery = "no", manager.child # NoProcess,
           Recover(manager.child), past' = [past EXCEPT !.served = FALSE],
           asking' \in Nat, UNCHANGED <<process, probe, allowed>>
    PROVE  BridgeInv'
<1> DEFINE p == manager.child
           m == [manager EXCEPT !.ready = FALSE, !.recovery = "term",
                                !.recovering = p, !.outrun = FALSE]
<1>1. p \in Spawned /\ process[p] \in Living \union {"failed"} /\ p \in Processes
  BY ChildFacts, Places DEF BridgeInv, FieldInv
<1>2. /\ past' \in Past /\ past'.lost = past.lost /\ past'.sealed = past.sealed /\ ~past'.served
  BY BridgeFacts DEF Past
<1>3. ~past'.sealed
  BY <1>2 DEF BridgeInv, SealInv
<1>4. /\ m \in Manager /\ m.child = p /\ ~m.ready /\ m.recovery = "term" /\ m.recovering = p
      /\ m.attached = manager.attached /\ m.starting = manager.starting
      /\ m.waiting = manager.waiting /\ m.timer = manager.timer
  BY <1>1, BridgeFacts DEF Manager
<1>5. "recovery" \notin manager.waiting
  BY DEF BridgeInv, FieldInv, WaitsAsCaller
<1>6. Newest' = Newest /\ ShapeInv'
  BY ProcessesStay
<1>7. SealInv' /\ SuperviseInv'
  BY <1>2, <1>3 DEF SealInv, SuperviseInv
<1>8. CASE process[p] = "failed"
  <2> DEFINE n == [m EXCEPT !.child = NoProcess]
  <2>1. /\ manager' = Replace(n) /\ UNCHANGED signalled
    BY <1>8 DEF Recover
  <2>2. /\ n \in Manager /\ n.child = NoProcess /\ n.starting = manager.starting
        /\ n.recovery = "term" /\ n.waiting = manager.waiting
    BY <1>4 DEF Manager
  <2> HIDE DEF n, m
  <2>3. WaitsAsCaller(n)
    BY <1>5, <2>2 DEF WaitsAsCaller
  <2>4. /\ Replace(n) \in Manager /\ SameChild(Replace(n), n)
        /\ Replace(n).recovery \in {"check", "start"}
        /\ WaitsAsCaller(n) /\ n.recovery # "start" => WaitsAsCaller(Replace(n))
        /\ SameStart(Replace(n), n) \/ (Begins(Replace(n), n) /\ ~n.outrun)
    BY <2>2, ReplaceFacts
  <2>5. /\ manager' \in Manager /\ manager'.child = NoProcess
        /\ manager'.recovery \in {"check", "start"} /\ WaitsAsCaller(manager')
        /\ manager'.starting = "boot" => manager.starting = "boot"
    BY <2>1, <2>2, <2>3, <2>4 DEF SameChild, SameStart, Begins
  <2>6. BridgeTypeOK'
    BY <1>2, <2>1, <2>5, BridgeFacts, BridgeTypes
  <2>7. FieldInv'
    BY <1>6, <2>1, <2>5, Places DEF BridgeInv, FieldInv
  <2>8. \A q \in Spawned : ~Here(q)
    BY <1>8 DEF BridgeInv, HereInv, Here, Living
  <2>9. HereInv'
    BY <1>2, <2>5, <2>8, Places DEF HereInv, Here
  <2> QED BY <1>6, <1>7, <2>6, <2>7, <2>9 DEF BridgeInv
<1>9. CASE process[p] # "failed"
  <2>1. manager' = m /\ signalled' = signalled \union {p}
    BY <1>9 DEF Recover
  <2> HIDE DEF m
  <2>2. BridgeTypeOK'
    BY <1>1, <1>2, <1>4, <2>1, BridgeFacts, BridgeTypes
  <2>3. FieldInv'
    BY <1>1, <1>4, <1>5, <1>6, <2>1 DEF BridgeInv, FieldInv, WaitsAsCaller, Living
  <2>4. HereInv'
    BY <1>2, <1>4, <2>1 DEF BridgeInv, HereInv, Here
  <2> QED BY <1>6, <1>7, <2>2, <2>3, <2>4 DEF BridgeInv
<1> QED BY <1>8, <1>9

LEMMA PingFailsStep ==
    ASSUME BridgeInv, PingFails
    PROVE  BridgeInv'
<1>1. asking' \in Nat /\ UNCHANGED <<process, probe, allowed>>
  BY BridgeFacts DEF PingFails
<1>2. CASE manager.recovery # "no"
  <2>1. UNCHANGED <<manager, signalled, past>>
    BY <1>2 DEF PingFails
  <2>2. BridgeTypeOK'
    BY <1>1, <2>1, BridgeFacts, BridgeTypes
  <2>3. Newest' = Newest /\ ShapeInv'
    BY <1>1, ProcessesStay
  <2>4. FieldInv' /\ SealInv' /\ HereInv' /\ SuperviseInv'
    BY <1>1, <2>1, <2>3 DEF BridgeInv, FieldInv, SealInv, HereInv, Here, SuperviseInv,
                            WaitsAsCaller
  <2> QED BY <2>2, <2>3, <2>4 DEF BridgeInv
<1>3. CASE manager.recovery = "no" /\ manager.child = NoProcess
  <2>1. /\ manager' = [manager EXCEPT !.ready = FALSE]
        /\ past' = [past EXCEPT !.served = FALSE] /\ UNCHANGED signalled
    BY <1>3 DEF PingFails
  <2>2. /\ manager' \in Manager /\ manager'.child = NoProcess
        /\ manager'.starting = manager.starting /\ manager'.timer = manager.timer
        /\ manager'.recovery = "no" /\ manager'.waiting = manager.waiting
    BY <1>3, <2>1, BridgeFacts DEF Manager
  <2>3. past' \in Past /\ past'.lost = past.lost /\ past'.sealed = past.sealed /\ ~past'.served
    BY <2>1, BridgeFacts DEF Past
  <2>4. BridgeTypeOK'
    BY <1>1, <2>1, <2>2, <2>3, BridgeFacts, BridgeTypes
  <2>5. Newest' = Newest /\ ShapeInv'
    BY <1>1, ProcessesStay
  <2>6. FieldInv'
    BY <1>1, <1>3, <2>1, <2>2, <2>5, Places DEF BridgeInv, FieldInv, WaitsAsCaller
  <2>7. SealInv' /\ SuperviseInv'
    BY <2>2, <2>3 DEF BridgeInv, SealInv, SuperviseInv
  <2>8. \A q \in Spawned : ~Here(q)
    BY <1>3, Places DEF BridgeInv, HereInv
  <2>9. HereInv'
    BY <1>1, <2>2, <2>3, <2>8, Places DEF HereInv, Here
  <2> QED BY <2>4, <2>5, <2>6, <2>7, <2>9 DEF BridgeInv
<1>4. CASE manager.recovery = "no" /\ manager.child # NoProcess
  <2>1. ~manager.attached
    BY <1>4 DEF BridgeInv, FieldInv
  <2>2. Recover(manager.child) /\ past' = [past EXCEPT !.served = FALSE]
    BY <1>4, <2>1 DEF PingFails
  <2> QED BY <1>1, <1>4, <2>2, RecoverStep
<1> QED BY <1>2, <1>3, <1>4

LEMMA RecoveryMovesStep ==
    ASSUME BridgeInv, RecoveryMoves
    PROVE  BridgeInv'
<1>1. PICK s \in {"kill", "check", "no"} :
        /\ manager' = [manager EXCEPT !.recovery = s] /\ UNCHANGED processes
        /\ UNCHANGED <<asking, allowed>>
        /\ \/ s = "kill" /\ manager.recovery = "term" /\ UNCHANGED past
           \/ /\ s = "check" /\ manager.recovery = "kill"
              /\ past' = [past EXCEPT !.lost = @ \union {manager.recovering}]
           \/ s = "no" /\ manager.recovery = "check" /\ UNCHANGED past
  BY DEF RecoveryMoves, GraceExpires, RecoveryGivesUp, RecoveryReturns
<1>2. /\ manager' \in Manager /\ manager'.recovery = s
      /\ manager'.child = manager.child /\ manager'.attached = manager.attached
      /\ manager'.ready = manager.ready /\ manager'.stopping = manager.stopping
      /\ manager'.timer = manager.timer /\ manager'.starting = manager.starting
      /\ manager'.waiting = manager.waiting /\ manager'.recovering = manager.recovering
      /\ manager'.outrun = manager.outrun
  BY <1>1, BridgeFacts DEF Manager
<1>3. /\ past' \in Past /\ past.lost \subseteq past'.lost
      /\ s = "check" => manager.recovering \in past'.lost
      /\ past'.sealed = past.sealed /\ past'.served = past.served
  <2>1. s = "check" => manager.recovering \in Spawned
    BY <1>1 DEF BridgeInv, FieldInv
  <2> QED BY <1>1, <2>1, BridgeFacts DEF Past
<1>4. BridgeTypeOK'
  BY <1>1, <1>2, <1>3, BridgeFacts, BridgeTypes DEF processes
<1>5. Newest' = Newest /\ ShapeInv'
  BY <1>1, ProcessesStay DEF processes
<1>6. FieldInv'
  BY <1>1, <1>2, <1>5 DEF BridgeInv, FieldInv, WaitsAsCaller, processes
<1>7. SealInv' /\ SuperviseInv'
  BY <1>1, <1>2, <1>3, <1>5 DEF BridgeInv, SealInv, SuperviseInv
<1>8. HereInv'
  BY <1>1, <1>2, <1>3 DEF BridgeInv, HereInv, Here, processes
<1> QED BY <1>4, <1>5, <1>6, <1>7, <1>8 DEF BridgeInv

LEMMA StopBridgeStep ==
    ASSUME BridgeInv, StopBridge
    PROVE  BridgeInv'
<1> DEFINE m == Stopping(manager)
           p == manager.child
<1>1. /\ IF p = NoProcess
          THEN /\ manager' = IF m.attached \/ m.ready THEN [m EXCEPT !.stop = "shutdown"]
                             ELSE StopReturned(m)
               /\ UNCHANGED signalled
          ELSE /\ manager' = [m EXCEPT !.ready = FALSE, !.attached = FALSE,
                                       !.child = NoProcess, !.stop = "exit", !.stopped = p]
               /\ signalled' = signalled \union {q \in {p}: process[q] # "failed"}
      /\ past' = [past EXCEPT !.sealed = (manager.starting = "no"), !.served = FALSE,
                              !.lost = @ \union ({manager.child} \ {NoProcess})]
      /\ UNCHANGED <<process, probe, asking>>
  BY DEF StopBridge
<1>2. allowed' \in BridgeBudget
  BY BridgeFacts, TakeFacts DEF StopBridge
<1>3. /\ m \in Manager /\ m.child = p /\ m.outrun /\ ~m.timer
      /\ m.starting = manager.starting /\ m.waiting = manager.waiting
      /\ m.recovery = manager.recovery /\ m.recovering = manager.recovering
  BY BridgeFacts DEF Stopping, Manager
<1>4. p \in Spawned \union {NoProcess}
  BY ChildFacts
<1> HIDE DEF m
<1>5. /\ manager' \in Manager /\ manager'.child = NoProcess /\ manager'.outrun /\ ~manager'.timer
      /\ manager'.starting = manager.starting /\ manager'.waiting = manager.waiting
      /\ manager'.recovery = manager.recovery /\ manager'.recovering = manager.recovering
  <2>1. CASE p = NoProcess
    <3>1. manager' = [m EXCEPT !.stop = "shutdown"]
          \/ manager' = [m EXCEPT !.stop = "no", !.stopping = FALSE]
      BY <1>1, <2>1 DEF StopReturned
    <3>2. m.child = NoProcess
      BY <1>3, <2>1
    <3>3. CASE manager' = [m EXCEPT !.stop = "shutdown"]
      BY <1>3, <3>2, <3>3 DEF Manager
    <3>4. CASE manager' = [m EXCEPT !.stop = "no", !.stopping = FALSE]
      BY <1>3, <3>2, <3>4 DEF Manager
    <3> QED BY <3>1, <3>3, <3>4
  <2>2. CASE p # NoProcess
    <3>1. PICK c \in Spawned \union {NoProcess} : c = p
      BY <1>4
    <3>2. manager' = [m EXCEPT !.ready = FALSE, !.attached = FALSE,
                               !.child = NoProcess, !.stop = "exit", !.stopped = c]
      BY <1>1, <2>2, <3>1
    <3>3. /\ manager' \in Manager /\ manager'.child = NoProcess
          /\ manager'.outrun = m.outrun /\ manager'.timer = m.timer
          /\ manager'.starting = m.starting /\ manager'.waiting = m.waiting
          /\ manager'.recovery = m.recovery /\ manager'.recovering = m.recovering
      BY <1>3, <3>2 DEF Manager
    <3> QED BY <1>3, <3>3
  <2> QED BY <2>1, <2>2
<1>6. /\ past' \in Past /\ past'.lost = past.lost \union ({manager.child} \ {NoProcess})
      /\ ~past'.served /\ (past'.sealed => manager.starting = "no")
  BY <1>1, BridgeFacts, ChildFacts DEF Past
<1>7. signalled' \subseteq Spawned /\ \A q \in signalled' : process[q] # "none"
  BY <1>1, <1>4, BridgeFacts DEF BridgeInv, FieldInv, Living
<1>8. BridgeTypeOK'
  BY <1>1, <1>2, <1>5, <1>6, <1>7, BridgeFacts, BridgeTypes
<1>9. Newest' = Newest /\ ShapeInv'
  BY <1>1, ProcessesStay
<1>10. FieldInv'
  BY <1>1, <1>5, <1>7, <1>9, Places DEF BridgeInv, FieldInv, WaitsAsCaller
<1>11. SealInv' /\ SuperviseInv'
  BY <1>5, <1>6 DEF SealInv, SuperviseInv
<1>12. HereInv'
  BY <1>1, <1>5, <1>6, Places DEF BridgeInv, HereInv, Here
<1> QED BY <1>8, <1>9, <1>10, <1>11, <1>12 DEF BridgeInv

LEMMA ShutdownSettlesStep ==
    ASSUME BridgeInv, ShutdownSettles
    PROVE  BridgeInv'
<1> DEFINE m == [manager EXCEPT !.ready = FALSE, !.attached = FALSE]
<1>1. /\ manager' = StopReturned(m) /\ UNCHANGED <<probe, signalled, asking, allowed>>
      /\ past' = [past EXCEPT !.served = FALSE,
                              !.lost = @ \union ({manager.child} \ {NoProcess})]
  BY DEF ShutdownSettles
<1>2. /\ process' \in [Processes -> ProcessStates]
      /\ \A p \in Processes : process'[p] = process[p]
            \/ (process[p] = "listening" /\ process'[p] = "leaving")
  BY BridgeFacts DEF ShutdownSettles, ProcessStates
<1>3. /\ manager' \in Manager /\ manager'.child = manager.child /\ ~manager'.attached
      /\ manager'.starting = manager.starting /\ manager'.waiting = manager.waiting
      /\ manager'.timer = manager.timer /\ manager'.outrun = manager.outrun
      /\ manager'.recovery = manager.recovery /\ manager'.recovering = manager.recovering
  BY <1>1, BridgeFacts DEF StopReturned, Manager
<1>4. /\ past' \in Past /\ past'.lost = past.lost \union ({manager.child} \ {NoProcess})
      /\ ~past'.served /\ past'.sealed = past.sealed
  BY <1>1, BridgeFacts, ChildFacts DEF Past
<1>5. BridgeTypeOK'
  BY <1>1, <1>2, <1>3, <1>4, BridgeFacts, BridgeTypes
<1>6. Newest' = Newest /\ ShapeInv'
  BY <1>2, NoSpawn, Places DEF BridgeInv
<1>7. FieldInv'
  BY <1>1, <1>2, <1>3, <1>6, BridgeFacts, Places DEF BridgeInv, FieldInv, WaitsAsCaller, Living
<1>8. SealInv' /\ SuperviseInv'
  BY <1>3, <1>4 DEF BridgeInv, SealInv, SuperviseInv
<1>9. \A q \in Spawned : ~Here(q)'
  BY <1>2, <1>4, Places DEF BridgeInv, HereInv, Here, Living
<1>10. HereInv'
  <2>1. ~Here(manager.child)'
    BY <1>9 DEF Here
  <2> QED BY <1>9, <2>1 DEF HereInv
<1> QED BY <1>5, <1>6, <1>7, <1>8, <1>10 DEF BridgeInv

LEMMA StopTimesOutStep ==
    ASSUME BridgeInv, StopTimesOut
    PROVE  BridgeInv'
<1>1. /\ manager' = StopReturned(manager) /\ UNCHANGED processes
      /\ UNCHANGED <<asking, past, allowed>>
  BY DEF StopTimesOut
<1>2. /\ manager' \in Manager /\ manager'.child = manager.child
      /\ manager'.attached = manager.attached /\ manager'.ready = manager.ready
      /\ manager'.starting = manager.starting /\ manager'.waiting = manager.waiting
      /\ manager'.timer = manager.timer /\ manager'.outrun = manager.outrun /\ ~manager'.stopping
      /\ manager'.recovery = manager.recovery /\ manager'.recovering = manager.recovering
  BY <1>1, BridgeFacts DEF StopReturned, Manager
<1>3. BridgeTypeOK'
  BY <1>1, <1>2, BridgeFacts, BridgeTypes DEF processes
<1>4. Newest' = Newest /\ ShapeInv'
  BY <1>1, ProcessesStay DEF processes
<1>5. FieldInv'
  BY <1>1, <1>2, <1>4 DEF BridgeInv, FieldInv, WaitsAsCaller, processes
<1>6. SealInv' /\ SuperviseInv'
  BY <1>1, <1>2, <1>4 DEF BridgeInv, SealInv, SuperviseInv
<1>7. HereInv'
  BY <1>1, <1>2 DEF BridgeInv, HereInv, Here, processes
<1> QED BY <1>3, <1>4, <1>5, <1>6, <1>7 DEF BridgeInv

-----------------------------------------------------------------------------
(* The manager of the agent bridge: the theorems.                            *)

LEMMA BridgeInvInit == BridgeInit => BridgeInv
<1> SUFFICES ASSUME BridgeInit PROVE BridgeInv
  OBVIOUS
<1>1. /\ manager = Idle /\ signalled = {} /\ asking = 0
      /\ past = [lost |-> {}, sealed |-> FALSE, served |-> FALSE]
      /\ allowed \in BridgeBudgets /\ probe = [p \in Spawned |-> "off"]
  BY DEF BridgeInit
<1>2. process \in [Processes -> ProcessStates] /\ \A p \in Spawned : process[p] = "none"
  BY Places DEF BridgeInit, ProcessStates
<1>3. /\ manager \in Manager /\ manager.child = NoProcess /\ manager.starting = "no"
      /\ manager.recovery = "no" /\ ~manager.attached /\ manager.waiting = {}
  BY <1>1 DEF Idle, Manager
<1>4. BridgeTypeOK
  <2>1. allowed \in BridgeBudget /\ past \in Past
    BY <1>1, BridgeAssumption DEF Past
  <2> QED BY <1>1, <1>2, <1>3, <2>1 DEF BridgeTypeOK, Manager, Past, ProcessStates
<1>5. ShapeInv
  <2>1. {p \in Spawned : process[p] # "none"} = {}
    BY <1>2
  <2>2. Newest = 0
    BY <2>1, FS_EmptySet DEF Newest
  <2> QED BY <1>2, <2>2, Places DEF ShapeInv, Spawned
<1>6. FieldInv /\ SealInv /\ SuperviseInv
  BY <1>1, <1>3, Places DEF FieldInv, SealInv, SuperviseInv, WaitsAsCaller
<1>7. HereInv
  BY <1>2 DEF HereInv, Here, Living
<1> QED BY <1>4, <1>5, <1>6, <1>7 DEF BridgeInv

LEMMA BridgeInvStep == BridgeInv /\ [BridgeNext]_bridgeVars => BridgeInv'
<1> SUFFICES ASSUME BridgeInv, [BridgeNext]_bridgeVars PROVE BridgeInv'
  OBVIOUS
<1>1. CASE StartupMoves
  BY <1>1, AttachStep, NoReusableBridgeStep, SpawnStep, SpawnThrowsStep, StartupTimesOutStep
  DEF StartupMoves
<1>2. CASE \E p \in Spawned : ProbeIsAnswered(p) \/ ProbeEnds(p) \/ MarkReady(p) \/ Listen(p)
  BY <1>2, UnnoticedStep, MarkReadyStep
<1>3. CASE \E p \in Processes : Exit(p)
  BY <1>3, ExitStep
<1>4. CASE EnsureReady \/ PingSucceeds \/ PingFails \/ RecoveryMoves
  BY <1>4, UnnoticedStep, PingFailsStep, RecoveryMovesStep
<1>5. CASE StopBridge \/ StopMoves
  BY <1>5, StopBridgeStep, ShutdownSettlesStep, StopTimesOutStep DEF StopMoves
<1>6. CASE Start \/ RestartTimerFires \/ SpawnFails
  BY <1>6, StartStep, RestartTimerFiresStep, SpawnFailsStep
<1>7. CASE UNCHANGED bridgeVars
  BY <1>7, UnnoticedStep
<1> QED BY <1>1, <1>2, <1>3, <1>4, <1>5, <1>6, <1>7 DEF BridgeNext

\* The inductive invariant of the bridge manager: its fields, its processes, who supervises
\* them, and what a stop seals.
THEOREM BridgeSpecInv == BridgeSpec => []BridgeInv
BY BridgeInvInit, BridgeInvStep, PTL DEF BridgeSpec

\* The types of the manager's fields, of the processes and of what is left of the bounds.
THEOREM BridgeTypeCorrect == BridgeSpec => []BridgeTypeOK
BY BridgeSpecInv, PTL DEF BridgeInv

\* However often it is started, stopped, asked and killed: at most one process of the
\* bridge lives that the manager has not given up.
THEOREM BridgeIsAlone == BridgeSpec => []OneLiveBridge
<1>1. BridgeInv => OneLiveBridge
  <2> SUFFICES ASSUME BridgeInv PROVE OneLiveBridge
    OBVIOUS
  <2> DEFINE S == {p \in Spawned \ past.lost : process[p] \in Living}
  <2>1. S \subseteq {manager.child}
    BY DEF BridgeInv, HereInv, Here
  <2>2. IsFiniteSet({manager.child}) /\ Cardinality({manager.child}) = 1
    BY FS_Singleton
  <2>3. Cardinality(S) <= 1
    BY <2>1, <2>2, FS_Subset
  <2> QED BY <2>3 DEF OneLiveBridge
<1> QED BY <1>1, BridgeSpecInv, PTL

\* A bridge that was ready serves, or is being started, or its restart is scheduled,
\* until it is stopped or recovered or its failure is told to a caller.
THEOREM BridgeStaysSupervised == BridgeSpec => []BridgeIsSupervised
<1>1. BridgeInv => BridgeIsSupervised
  BY Places DEF BridgeInv, FieldInv, SuperviseInv, BridgeIsSupervised
<1> QED BY <1>1, BridgeSpecInv, PTL

\* After a stop that meets no start in progress nothing brings the bridge back but a start.
THEOREM StopIsFinal == BridgeSpec => []StopSticks
<1>1. BridgeInv => StopSticks
  BY DEF BridgeInv, SealInv, StopSticks
<1> QED BY <1>1, BridgeSpecInv, PTL

-----------------------------------------------------------------------------
(* The agents of a group-chat room: the inductive invariant.                 *)

\* A reply is of a session that was or is the room's.  A card that is pending is of a
\* run that began; nobody has interrupted its session unless the session is over, and
\* a reply that stops its run is of such a one.
ReplyOK(r, s, v) ==
    /\ r.seed <= s
    /\ r.at \in {"preparing", "chatting"} => r.run = "none"
    /\ r.at = "accepted" => r.run # "none"
    /\ r.post = "failure" => r.at \in {"posting", "taken", "rejected", "done"}
    /\ r.card = "pending" => /\ r.at # "done" /\ r.run # "none" /\ r.post # "failure"
                             /\ r.seed = s => r.version = v[r.agent][s]
                             /\ r.at \in {"stopping", "destroying"} => r.seed < s
    /\ r.card = "discarded" => r.seed < s

ReplyInv == \A i \in DOMAIN reply : ReplyOK(reply[i], seed, version)

\* A request is for a session that was or is the room's, and no longer is once a clear
\* is done.  A reset interrupts every agent, and a switch that is validated none yet.
RequestOK(q, s) ==
    /\ q.seed <= s
    /\ q.kind = "clear" /\ q.at = "done" => q.seed < s
    /\ q.at = "validating" => q.kind = "workspace" /\ \A a \in Members : q.call[a] = "none"
    /\ q.at = "interrupting" /\ Resets(q) => \A a \in Members : q.call[a] # "none"

RequestInv == \A k \in DOMAIN request : RequestOK(request[k], seed)

\* What the sessions and the interrupts are counted by.
Ended == {k \in DOMAIN request : request[k].at = "done"}
Confirmed(a, s) == {k \in DOMAIN request : request[k].seed = s /\ request[k].call[a] = "returned"}

CountInv ==
    /\ seed <= Cardinality(Ended)
    /\ \A a \in Members, s \in Seeds : version[a][s] <= Cardinality(Confirmed(a, s))

\* A lock is that of a reply.
LockInv == \A a \in busy : \E i \in Unfinished : reply[i].agent = a

\* What is stored is of a reply, and of a session after the last clear.
StoredInv == \A e \in stored : e[1] \in DOMAIN reply

FenceInv == \A s \in fenced : s <= seed

BoundInv ==
    /\ asked \in Nat /\ failures \in Nat
    /\ bounds \in GroupBudget /\ Len(bounds.requests) <= MaxRequests
    /\ Len(request) <= Len(bounds.requests)

GroupInv ==
    /\ GroupTypeOK /\ BoundInv /\ ReplyInv /\ RequestInv /\ CountInv
    /\ LockInv /\ StoredInv /\ FenceInv
    /\ ClearedStaysCleared /\ WaitingMentionIsServed /\ ResetLetsGo

LEMMA GroupFacts ==
    ASSUME GroupInv
    PROVE  /\ seed \in Nat /\ seed \in Seeds /\ MaxReplies \in Nat /\ MaxRequests \in Nat
           /\ MaxDepth \in Nat \ {0}
           /\ Len(reply) \in Nat /\ DOMAIN reply = 1..Len(reply) /\ Len(reply) <= MaxReplies
           /\ Len(request) \in Nat /\ DOMAIN request = 1..Len(request)
           /\ Len(request) <= MaxRequests
           /\ \A i \in DOMAIN reply : reply[i] \in Replies
           /\ \A k \in DOMAIN request : request[k] \in RequestRecords
           /\ \A a \in Members, s \in Seeds : version[a][s] \in Nat
           /\ fenced \subseteq Seeds /\ busy \subseteq Members
<1>1. Len(bounds.requests) \in Nat
  BY DEF GroupInv, BoundInv, GroupBudget
<1> QED BY <1>1, GroupAssumption DEF GroupInv, GroupTypeOK, BoundInv, Seeds

LEMMA WaitingFacts ==
    ASSUME GroupInv
    PROVE  waiting \in [Members -> 0..MaxDepth] /\ NoMention \in 0..MaxDepth
<1>1. waiting \in [Members -> 0..NoMention]
  BY DEF GroupInv, GroupTypeOK
<1> QED BY <1>1, GroupFacts DEF NoMention

LEMMA ReplyFacts ==
    ASSUME GroupInv, NEW i \in DOMAIN reply
    PROVE  /\ reply[i] \in Replies /\ reply[i].agent \in Members /\ reply[i].seed \in Nat
           /\ reply[i].depth \in 0..MaxDepth /\ ReplyOK(reply[i], seed, version)
           /\ reply \in Seq(Replies)
<1>1. reply[i] \in Replies
  BY GroupFacts
<1>2. ReplyInv /\ reply \in Seq(Replies)
  BY DEF GroupInv, GroupTypeOK
<1> QED BY <1>1, <1>2 DEF ReplyInv, Replies, Seeds

\* A reply that begins now.
LEMMA NewReplyFacts ==
    ASSUME GroupInv, NEW a \in Members, NEW d \in 0..MaxDepth
    PROVE  /\ NewReply(a, d) \in Replies /\ ReplyOK(NewReply(a, d), seed, version)
           /\ NewReply(a, d).agent = a /\ NewReply(a, d).at # "done"
           /\ NewReply(a, d).seed = seed
BY GroupFacts DEF NewReply, Replies, ReplyOK, ReplyStages, Posts, Cards

\* What a step of the reply i makes of the replies, but for one that begins.
Moves(i, base) ==
    /\ base \in Seq(Replies) /\ Len(base) = Len(reply)
    /\ \A j \in DOMAIN reply : /\ base[j].seed = reply[j].seed /\ base[j].agent = reply[j].agent
                               /\ j # i => base[j].at = reply[j].at
                               /\ ReplyOK(base[j], seed, version)

\* The replies after a step: those moved, and perhaps one of the agent a that begins.
Begun(base, a, d) ==
    /\ Len(reply) < MaxReplies
    /\ reply' = Append(base, NewReply(a, d))
    /\ busy' = busy \union {a}

LEMMA AppendFacts ==
    ASSUME GroupInv, NEW base \in Seq(Replies), NEW r \in Replies, Len(base) = Len(reply)
    PROVE  /\ Append(base, r) \in Seq(Replies) /\ Len(Append(base, r)) = Len(reply) + 1
           /\ DOMAIN Append(base, r) = 1..(Len(reply) + 1)
           /\ \A j \in DOMAIN reply : Append(base, r)[j] = base[j]
           /\ Append(base, r)[Len(reply) + 1] = r
BY GroupFacts

\* What holds of the replies after a step holds of those moved and of the one that begins.
LEMMA RepliesAfter ==
    ASSUME GroupInv, NEW i \in DOMAIN reply, NEW base, Moves(i, base),
           UNCHANGED <<seed, version>>,
           \/ reply' = base
           \/ \E a \in Members, d \in 0..MaxDepth : Begun(base, a, d)
    PROVE  /\ reply' \in Seq(Replies) /\ Len(reply') <= MaxReplies
           /\ DOMAIN reply' = 1..Len(reply') /\ DOMAIN reply \subseteq DOMAIN reply'
           /\ \A j \in DOMAIN reply : reply'[j] = base[j]
           /\ ReplyInv'
<1>1. /\ base \in Seq(Replies) /\ Len(base) = Len(reply) /\ DOMAIN base = DOMAIN reply
      /\ \A j \in DOMAIN reply : ReplyOK(base[j], seed, version)
  BY GroupFacts DEF Moves
<1>2. CASE reply' = base
  BY <1>1, <1>2, GroupFacts DEF ReplyInv, ReplyOK
<1>3. CASE \E a \in Members, d \in 0..MaxDepth : Begun(base, a, d)
  <2>1. PICK a \in Members, d \in 0..MaxDepth : Begun(base, a, d)
    BY <1>3
  <2>2. PICK r \in Replies : r = NewReply(a, d)
    BY NewReplyFacts
  <2>3. reply' = Append(base, r) /\ Len(reply) < MaxReplies /\ ReplyOK(r, seed, version)
    BY <2>1, <2>2, NewReplyFacts DEF Begun
  <2>4. /\ reply' \in Seq(Replies) /\ Len(reply') = Len(reply) + 1
        /\ DOMAIN reply' = 1..(Len(reply) + 1)
        /\ \A j \in DOMAIN reply : reply'[j] = base[j]
        /\ reply'[Len(reply) + 1] = r
    BY <1>1, <2>3, AppendFacts
  <2>5. \A j \in DOMAIN reply' : ReplyOK(reply'[j], seed, version)
    <3> SUFFICES ASSUME NEW j \in DOMAIN reply' PROVE ReplyOK(reply'[j], seed, version)
      OBVIOUS
    <3>1. j \in DOMAIN reply \/ j = Len(reply) + 1
      BY <2>4, GroupFacts
    <3>2. CASE j \in DOMAIN reply
      <4>1. reply'[j] = base[j]
        BY <2>4, <3>2
      <4> QED BY <1>1, <3>2, <4>1
    <3>3. CASE j = Len(reply) + 1
      BY <2>3, <2>4, <3>3
    <3> QED BY <3>1, <3>2, <3>3
  <2>6. ReplyInv'
    BY <2>5 DEF ReplyInv, ReplyOK
  <2> QED BY <2>3, <2>4, <2>6, GroupFacts
<1> QED BY <1>2, <1>3

\* A reply goes on, is over with what its end makes of the lock and the mention that
\* waits, or mentions another agent.
GoesOn(i, base) ==
    /\ reply' = base /\ UNCHANGED <<busy, waiting>>
    /\ base[i].at = "done" => reply[i].at = "done"

Leaves(i, base) ==
    /\ base[i].at = "done"
    /\ \/ /\ waiting[reply[i].agent] # NoMention
          /\ waiting' = [waiting EXCEPT ![reply[i].agent] = NoMention]
          /\ Begun(base, reply[i].agent, waiting[reply[i].agent])
       \/ /\ paused \/ waiting[reply[i].agent] = NoMention
          /\ reply' = base /\ busy' = busy \ {reply[i].agent} /\ UNCHANGED waiting

Mentions(i, base) ==
    /\ base[i].at = "done" => reply[i].at = "done"
    /\ \E b \in Members, d \in 0..MaxDepth :
          \/ Begun(base, b, d) /\ UNCHANGED waiting
          \/ /\ paused \/ b \in busy
             /\ reply' = base /\ waiting' = [waiting EXCEPT ![b] = d] /\ UNCHANGED busy

\* What the reply i stores is of the session of now.
Stores(i) == \/ UNCHANGED stored
             \/ /\ reply[i].seed = seed
                /\ stored' \subseteq stored \union ({i} \X {"message", "card"})

Fails == failures' \in Nat /\ failures' <= bounds.faults

\* Every unfinished reply stays so, or is followed by another one of its agent, or gives
\* the lock back.
LEMMA LocksAfter ==
    ASSUME GroupInv, NEW i \in DOMAIN reply, NEW base, Moves(i, base), Beside,
           GoesOn(i, base) \/ Leaves(i, base) \/ Mentions(i, base)
    PROVE  /\ busy' \subseteq Members /\ waiting' \in [Members -> 0..NoMention]
           /\ LockInv' /\ WaitingMentionIsServed'
           /\ \/ reply' = base
              \/ \E a \in Members, d \in 0..MaxDepth : Begun(base, a, d)
<1> DEFINE ag == reply[i].agent
<1>1. /\ ag \in Members /\ waiting \in [Members -> 0..MaxDepth] /\ busy \subseteq Members
      /\ waiting[ag] \in 0..MaxDepth /\ NoMention \in 0..MaxDepth
  BY GroupFacts, WaitingFacts, ReplyFacts
<1>2. /\ base \in Seq(Replies) /\ Len(base) = Len(reply) /\ DOMAIN base = DOMAIN reply
      /\ \A j \in DOMAIN reply : /\ base[j].agent = reply[j].agent
                                 /\ j # i => base[j].at = reply[j].at
  BY GroupFacts DEF Moves
<1>3. \/ reply' = base
      \/ \E a \in Members, d \in 0..MaxDepth : Begun(base, a, d)
  BY <1>1 DEF GoesOn, Leaves, Mentions
<1>4. UNCHANGED <<seed, version, paused, request>>
  BY DEF Beside
<1>5. /\ DOMAIN reply' = 1..Len(reply') /\ DOMAIN reply \subseteq DOMAIN reply'
      /\ \A j \in DOMAIN reply : reply'[j] = base[j]
  BY <1>3, <1>4, RepliesAfter
<1>6. \A j \in Unfinished : /\ reply'[j].agent = reply[j].agent
                            /\ j \in Unfinished' \/ (j = i /\ Leaves(i, base))
  <2> SUFFICES ASSUME NEW j \in Unfinished
               PROVE  /\ reply'[j].agent = reply[j].agent
                      /\ j \in Unfinished' \/ (j = i /\ Leaves(i, base))
    OBVIOUS
  <2>1. j \in DOMAIN reply /\ reply[j].at # "done" /\ j \in DOMAIN reply' /\ reply'[j] = base[j]
    BY <1>5 DEF Unfinished
  <2>2. CASE j # i
    BY <1>2, <2>1, <2>2 DEF Unfinished
  <2>3. CASE j = i /\ ~Leaves(i, base)
    BY <1>2, <2>1, <2>3 DEF Unfinished, GoesOn, Mentions
  <2> QED BY <1>2, <2>1, <2>2, <2>3
<1>7. ASSUME NEW a \in Members, NEW d \in 0..MaxDepth, Begun(base, a, d)
      PROVE  \E j \in Unfinished' : reply'[j].agent = a
  <2>1. PICK r \in Replies : r = NewReply(a, d) /\ r.agent = a /\ r.at # "done"
    BY NewReplyFacts
  <2>2. reply' = Append(base, r)
    BY <1>7, <2>1 DEF Begun
  <2>3. Len(reply) + 1 \in DOMAIN reply' /\ reply'[Len(reply) + 1] = r
    BY <1>2, <2>2, AppendFacts, GroupFacts
  <2> QED BY <2>1, <2>3 DEF Unfinished
<1>8. LockInv /\ WaitingMentionIsServed
  BY DEF GroupInv
<1>9. CASE GoesOn(i, base) \/ Mentions(i, base)
  <2>1. ~Leaves(i, base) \/ reply[i].at = "done"
    BY <1>9 DEF Leaves, GoesOn, Mentions
  <2>2. \A j \in Unfinished : j \in Unfinished' /\ reply'[j].agent = reply[j].agent
    BY <1>6, <2>1 DEF Unfinished
  <2>3. CASE GoesOn(i, base)
    BY <1>1, <1>3, <1>4, <1>8, <2>2, <2>3 DEF GoesOn, LockInv, WaitingMentionIsServed, NoMention
  <2>4. CASE Mentions(i, base)
    <3>1. PICK b \in Members, d \in 0..MaxDepth :
            \/ Begun(base, b, d) /\ UNCHANGED waiting
            \/ /\ paused \/ b \in busy
               /\ reply' = base /\ waiting' = [waiting EXCEPT ![b] = d] /\ UNCHANGED busy
      BY <2>4 DEF Mentions
    <3>2. CASE Begun(base, b, d) /\ UNCHANGED waiting
      <4>1. busy' = busy \union {b}
        BY <3>2 DEF Begun
      <4> QED BY <1>1, <1>3, <1>4, <1>7, <1>8, <2>2, <3>2, <4>1
              DEF LockInv, WaitingMentionIsServed, NoMention
    <3>3. CASE /\ paused \/ b \in busy
               /\ reply' = base /\ waiting' = [waiting EXCEPT ![b] = d] /\ UNCHANGED busy
      <4>1. LockInv'
        BY <1>8, <2>2, <3>3 DEF LockInv
      <4>2. waiting' \in [Members -> 0..MaxDepth]
            /\ \A a \in Members : a # b => waiting'[a] = waiting[a]
        BY <1>1, <3>3
      <4>3. WaitingMentionIsServed'
        <5> SUFFICES ASSUME NEW a \in Members, (waiting[a] # NoMention)'
                     PROVE (\/ \E j \in Unfinished : reply[j].agent = a
                            \/ paused
                            \/ \E k \in DOMAIN request : Resets(request[k]) /\ request[k].at = "failed")'
          BY DEF WaitingMentionIsServed
        <5>1. CASE a = b
          BY <1>4, <1>8, <2>2, <3>3, <5>1 DEF LockInv
        <5>2. CASE a # b
          BY <1>4, <1>8, <2>2, <4>2, <5>2 DEF WaitingMentionIsServed, NoMention
        <5> QED BY <5>1, <5>2
      <4> QED BY <1>1, <1>3, <3>3, <4>1, <4>2, <4>3 DEF NoMention
    <3> QED BY <3>1, <3>2, <3>3
  <2> QED BY <1>9, <2>3, <2>4
<1>10. CASE Leaves(i, base)
  <2>1. \A j \in Unfinished : reply[j].agent # ag => j \in Unfinished' /\ reply'[j].agent = reply[j].agent
    BY <1>6
  <2>2. CASE /\ waiting[ag] # NoMention
             /\ waiting' = [waiting EXCEPT ![ag] = NoMention]
             /\ Begun(base, ag, waiting[ag])
    <3>1. busy' = busy \union {ag} /\ \E j \in Unfinished' : reply'[j].agent = ag
      BY <1>1, <1>7, <2>2 DEF Begun
    <3>2. LockInv'
      BY <1>8, <2>1, <3>1 DEF LockInv
    <3>3. waiting' \in [Members -> 0..MaxDepth] /\ waiting'[ag] = NoMention
          /\ \A a \in Members : a # ag => waiting'[a] = waiting[a]
      BY <1>1, <2>2
    <3>4. WaitingMentionIsServed'
      BY <1>4, <1>8, <2>1, <3>3 DEF WaitingMentionIsServed, NoMention
    <3> QED BY <1>1, <1>3, <3>1, <3>2, <3>3, <3>4 DEF NoMention
  <2>3. CASE /\ paused \/ waiting[ag] = NoMention
             /\ reply' = base /\ busy' = busy \ {ag} /\ UNCHANGED waiting
    <3>1. LockInv'
      BY <1>8, <2>1, <2>3 DEF LockInv
    <3>2. WaitingMentionIsServed'
      BY <1>4, <1>8, <2>1, <2>3 DEF WaitingMentionIsServed, NoMention
    <3> QED BY <1>1, <1>3, <2>3, <3>1, <3>2 DEF NoMention
  <2> QED BY <1>10, <2>2, <2>3 DEF Leaves
<1> QED BY <1>9, <1>10

\* A step of a reply beside the requests keeps the invariant.
LEMMA ReplyStep ==
    ASSUME GroupInv, NEW i \in DOMAIN reply, NEW base, Moves(i, base), Beside,
           GoesOn(i, base) \/ Leaves(i, base) \/ Mentions(i, base),
           Stores(i), Fails
    PROVE  GroupInv'
<1>1. UNCHANGED <<seed, workspace, fenced, version, paused, request, asked, bounds>>
  BY DEF Beside, counted
<1>2. /\ busy' \subseteq Members /\ waiting' \in [Members -> 0..NoMention]
      /\ LockInv' /\ WaitingMentionIsServed'
      /\ \/ reply' = base
         \/ \E a \in Members, d \in 0..MaxDepth : Begun(base, a, d)
  BY LocksAfter
<1>3. /\ reply' \in Seq(Replies) /\ Len(reply') <= MaxReplies
      /\ DOMAIN reply' = 1..Len(reply') /\ DOMAIN reply \subseteq DOMAIN reply'
      /\ \A j \in DOMAIN reply : reply'[j].seed = reply[j].seed
      /\ ReplyInv'
  BY <1>1, <1>2, RepliesAfter DEF Moves
<1>4. /\ stored \subseteq (1..MaxReplies) \X {"message", "card"}
      /\ \A e \in stored : e[1] \in DOMAIN reply
  BY DEF GroupInv, GroupTypeOK, StoredInv
<1>5. \A e \in stored' : \/ e \in stored
                         \/ e[1] = i /\ e \in (1..MaxReplies) \X {"message", "card"} /\ reply[i].seed = seed
  <2>1. i \in 1..MaxReplies
    BY GroupFacts
  <2> QED BY <2>1 DEF Stores
<1>6. stored' \subseteq (1..MaxReplies) \X {"message", "card"} /\ StoredInv'
  BY <1>3, <1>4, <1>5 DEF StoredInv
<1>7. ClearedStaysCleared'
  <2>1. \A k \in DOMAIN request : request[k].kind = "clear" /\ request[k].at = "done" =>
           request[k].seed < seed
    BY DEF GroupInv, RequestInv, RequestOK
  <2> SUFFICES ASSUME NEW k \in DOMAIN request, request[k].kind = "clear", request[k].at = "done",
                      NEW e \in stored'
               PROVE  reply'[e[1]].seed > request[k].seed
    BY <1>1 DEF ClearedStaysCleared
  <2>2. CASE e \in stored
    <3>1. reply[e[1]].seed > request[k].seed
      BY <2>2 DEF GroupInv, ClearedStaysCleared
    <3> QED BY <1>3, <1>4, <2>2, <3>1
  <2>3. CASE e[1] = i /\ reply[i].seed = seed
    <3>1. request[k].seed \in Nat /\ seed \in Nat
      BY GroupFacts DEF RequestRecords, Seeds
    <3> QED BY <1>3, <2>1, <2>3, <3>1
  <2> QED BY <1>5, <2>2, <2>3
<1>8. GroupTypeOK'
  BY <1>1, <1>2, <1>3, <1>6 DEF GroupInv, GroupTypeOK, Fails
<1>9. BoundInv'
  BY <1>1 DEF GroupInv, BoundInv, Fails
<1>10. RequestInv' /\ FenceInv'
  BY <1>1 DEF GroupInv, RequestInv, RequestOK, FenceInv, Resets
<1>11. CountInv'
  BY <1>1 DEF GroupInv, CountInv, Ended, Confirmed
<1>12. ResetLetsGo'
  BY <1>1 DEF GroupInv, ResetLetsGo, Interrupts, Resets
<1> QED BY <1>2, <1>3, <1>6, <1>7, <1>8, <1>9, <1>10, <1>11, <1>12 DEF GroupInv

-----------------------------------------------------------------------------
(* The agents of a group-chat room: the steps of a reply.                    *)

\* Another record of the reply i.
LEMMA Moved ==
    ASSUME GroupInv, NEW i \in DOMAIN reply, NEW base, Moves(i, base), NEW r \in Replies,
           r.seed = reply[i].seed, r.agent = reply[i].agent, ReplyOK(r, seed, version)
    PROVE  Moves(i, [base EXCEPT ![i] = r]) /\ [base EXCEPT ![i] = r][i] = r
<1>1. base \in Seq(Replies) /\ Len(base) = Len(reply) /\ i \in DOMAIN base /\ DOMAIN base = DOMAIN reply
  BY GroupFacts DEF Moves
<1>2. /\ [base EXCEPT ![i] = r] \in Seq(Replies) /\ Len([base EXCEPT ![i] = r]) = Len(base)
      /\ [base EXCEPT ![i] = r][i] = r
      /\ \A j \in DOMAIN reply : j # i => [base EXCEPT ![i] = r][j] = base[j]
  BY <1>1
<1> QED BY <1>1, <1>2 DEF Moves

LEMMA Unmoved == ASSUME GroupInv, NEW i \in DOMAIN reply PROVE Moves(i, reply)
BY GroupFacts, ReplyFacts DEF GroupInv, GroupTypeOK, Moves

LEMMA StepFacts ==
    ASSUME GroupInv, NEW i \in DOMAIN reply, NEW r \in Replies,
           r.seed = reply[i].seed, r.agent = reply[i].agent, ReplyOK(r, seed, version),
           r.at = "done" => reply[i].at = "done",
           Step(i, r)
    PROVE  \E base : Moves(i, base) /\ GoesOn(i, base)
<1>1. PICK base : base = [reply EXCEPT ![i] = r]
  OBVIOUS
<1>2. Moves(i, base) /\ base[i] = r
  BY <1>1, Unmoved, Moved
<1>3. GoesOn(i, base)
  BY <1>1, <1>2 DEF Step, GoesOn
<1> QED BY <1>2, <1>3

LEMMA FinishFacts ==
    ASSUME GroupInv, NEW i \in DOMAIN reply, NEW base, Moves(i, base), NEW r \in Replies,
           r.seed = reply[i].seed, r.agent = reply[i].agent,
           r.card # "pending", r.card = "discarded" => r.seed < seed,
           FinishAmong(base, i, r)
    PROVE  \E b : Moves(i, b) /\ Leaves(i, b)
<1>1. PICK c \in Replies : c = [r EXCEPT !.at = "done"]
  BY DEF Replies, ReplyStages
<1>2. /\ c.seed = reply[i].seed /\ c.agent = reply[i].agent /\ c.at = "done"
      /\ ReplyOK(c, seed, version)
  BY <1>1, ReplyFacts DEF ReplyOK, Replies
<1>3. PICK b : b = [base EXCEPT ![i] = c]
  OBVIOUS
<1>4. Moves(i, b) /\ b[i] = c
  BY <1>2, <1>3, Moved
<1>5. \/ /\ waiting[r.agent] # NoMention /\ Len(reply) < MaxReplies
         /\ waiting' = [waiting EXCEPT ![r.agent] = NoMention]
         /\ busy' = busy \union {r.agent}
         /\ reply' = Append(b, NewReply(r.agent, waiting[r.agent]))
      \/ /\ paused \/ waiting[r.agent] = NoMention
         /\ busy' = busy \ {r.agent} /\ reply' = b /\ UNCHANGED waiting
  BY <1>1, <1>3 DEF FinishAmong
<1>6. Leaves(i, b)
  BY <1>2, <1>4, <1>5 DEF Leaves, Begun
<1> QED BY <1>4, <1>6

\* What settling a card leaves as it was.
LEMMA SettledCard ==
    ASSUME GroupInv, NEW i \in DOMAIN reply, NEW status \in {"completed", "failed", "aborted"},
           NEW r, r = CardSettled(reply[i], status)
    PROVE  /\ r \in Replies /\ r.card # "pending" /\ r.seed = reply[i].seed
           /\ r.agent = reply[i].agent /\ r.at = reply[i].at /\ r.run = reply[i].run
           /\ r.post = reply[i].post /\ r.version = reply[i].version
           /\ r.card = "discarded" => r.seed < seed
           /\ ReplyOK(r, seed, version)
<1>1. PICK c \in Replies : c = reply[i]
  BY ReplyFacts
<1>2. ReplyOK(c, seed, version) /\ seed \in Nat /\ c.seed \in Nat
  BY <1>1, ReplyFacts, GroupFacts
<1>3. r = [c EXCEPT !.card = IF c.card # "pending" THEN c.card
                             ELSE IF c.seed = seed THEN status ELSE "discarded"]
  BY <1>1 DEF CardSettled, SessionIsCurrent
<1>4. PICK card \in Cards \ {"pending"} :
         /\ card = IF c.card # "pending" THEN c.card ELSE IF c.seed = seed THEN status ELSE "discarded"
  BY DEF Cards, Replies
<1>5. r = [c EXCEPT !.card = card] /\ (card = "discarded" => c.seed < seed)
  BY <1>2, <1>3, <1>4 DEF ReplyOK
<1>6. /\ r \in Replies /\ r.card = card /\ r.seed = c.seed /\ r.agent = c.agent /\ r.at = c.at
      /\ r.run = c.run /\ r.post = c.post /\ r.version = c.version
  BY <1>5 DEF Replies, Cards
<1> QED BY <1>1, <1>2, <1>4, <1>5, <1>6 DEF ReplyOK

\* The same of a card that is not to be shown any more.
LEMMA DiscardedCard ==
    ASSUME NEW c \in Replies, NEW r, r = Discarded(c)
    PROVE  /\ r \in Replies /\ r.card # "pending" /\ r.seed = c.seed /\ r.agent = c.agent
           /\ r.card = "discarded" => c.card \in {"pending", "discarded"}
BY DEF Discarded, Replies, Cards

\* A settled card is shown in the session of now.
LEMMA SettlesStores == ASSUME NEW i \in DOMAIN reply, Settles(i, reply[i]) PROVE Stores(i)
BY DEF Settles, Shown, Stores, SessionIsCurrent

LEMMA FaultFacts == ASSUME GroupInv, Fault \/ NoFault PROVE Fails
<1>1. failures \in Nat /\ failures <= bounds.faults /\ bounds.faults \in Nat
  BY DEF GroupInv, GroupTypeOK, BoundInv, GroupBudget
<1> QED BY <1>1 DEF Fault, NoFault, Fails

\* The catch of a reply that has not reported its failure yet.
LEMMA ReplyCatchFacts ==
    ASSUME GroupInv, NEW i \in DOMAIN reply, reply[i].post # "failure", reply[i].at # "done",
           ReplyCatch(i, reply[i])
    PROVE  Stores(i) /\ \E base : Moves(i, base) /\ (GoesOn(i, base) \/ Leaves(i, base))
<1>1. PICK c \in Replies : c = reply[i] /\ ReplyOK(c, seed, version)
  BY ReplyFacts
<1>2. CASE IsCurrent(reply[i])
  <2>1. PICK r : r = CardSettled(reply[i], "failed")
    OBVIOUS
  <2>2. /\ r \in Replies /\ r.card # "pending" /\ r.seed = c.seed
        /\ r.agent = c.agent /\ (r.card = "discarded" => r.seed < seed)
    BY <1>1, <2>1, SettledCard
  <2>3. PICK d \in Replies : d = [r EXCEPT !.at = "posting", !.post = "failure"]
    BY <2>2 DEF Replies, ReplyStages, Posts
  <2>4. Step(i, d) /\ Settles(i, reply[i])
    BY <1>2, <2>1, <2>3 DEF ReplyCatch
  <2>5. d.seed = c.seed /\ d.agent = c.agent /\ d.at # "done" /\ ReplyOK(d, seed, version)
    BY <1>1, <2>2, <2>3 DEF ReplyOK, Replies
  <2> QED BY <1>1, <2>4, <2>5, StepFacts, SettlesStores
<1>3. CASE ~IsCurrent(reply[i]) /\ reply[i].run = "none"
  <2>1. FinishAmong(reply, i, c) /\ UNCHANGED stored
    BY <1>1, <1>3 DEF ReplyCatch, Finish
  <2>2. c.card # "pending" /\ (c.card = "discarded" => c.seed < seed)
    BY <1>1, <1>3 DEF ReplyOK
  <2> QED BY <1>1, <2>1, <2>2, Unmoved, FinishFacts DEF Stores
<1>4. CASE ~IsCurrent(reply[i]) /\ reply[i].run # "none"
  <2>1. PICK d \in Replies : d = [c EXCEPT !.at = "stopping"]
    BY DEF Replies, ReplyStages
  <2>2. Step(i, d) /\ UNCHANGED stored
    BY <1>1, <1>4, <2>1 DEF ReplyCatch
  <2>3. c.card = "pending" => c.seed < seed
    BY <1>1, <1>4, GroupFacts DEF IsCurrent, SessionIsCurrent, ReplyOK, Replies, Seeds
  <2>4. d.seed = c.seed /\ d.agent = c.agent /\ d.at # "done" /\ ReplyOK(d, seed, version)
    BY <1>1, <2>1, <2>3 DEF ReplyOK, Replies
  <2> QED BY <1>1, <2>2, <2>4, StepFacts DEF Stores
<1> QED BY <1>2, <1>3, <1>4

\* A step that only another record of the reply is written by.
LEMMA SimpleStep ==
    ASSUME GroupInv, NEW i \in DOMAIN reply, NEW r \in Replies,
           r.seed = reply[i].seed, r.agent = reply[i].agent, ReplyOK(r, seed, version),
           r.at = "done" => reply[i].at = "done",
           Step(i, r), Stores(i), Fault \/ NoFault, Beside
    PROVE  GroupInv'
BY StepFacts, FaultFacts, ReplyStep

LEMMA SimpleEnd ==
    ASSUME GroupInv, NEW i \in DOMAIN reply, NEW base, Moves(i, base), NEW r \in Replies,
           r.seed = reply[i].seed, r.agent = reply[i].agent,
           r.card # "pending", r.card = "discarded" => r.seed < seed,
           FinishAmong(base, i, r), Stores(i), Fault \/ NoFault, Beside
    PROVE  GroupInv'
BY FinishFacts, FaultFacts, ReplyStep

LEMMA ContextBuiltStep ==
    ASSUME GroupInv, NEW i \in DOMAIN reply, ContextBuilt(i)
    PROVE  GroupInv'
<1>1. PICK c \in Replies : c = reply[i] /\ ReplyOK(c, seed, version)
  BY ReplyFacts
<1>2. c.at = "preparing" /\ NoFault /\ UNCHANGED stored /\ Beside /\ Stores(i)
  BY <1>1 DEF ContextBuilt, At, Stores
<1>3. CASE IsCurrent(reply[i])
  <2>1. PICK d \in Replies : d = [c EXCEPT !.at = "chatting"]
    BY DEF Replies, ReplyStages
  <2>2. Step(i, d)
    BY <1>1, <1>3, <2>1 DEF ContextBuilt
  <2>3. d.seed = c.seed /\ d.agent = c.agent /\ d.at # "done" /\ ReplyOK(d, seed, version)
    BY <1>1, <1>2, <2>1 DEF ReplyOK, Replies
  <2> QED BY <1>1, <1>2, <2>2, <2>3, SimpleStep
<1>4. CASE ~IsCurrent(reply[i])
  <2>1. FinishAmong(reply, i, c)
    BY <1>1, <1>4 DEF ContextBuilt, Finish
  <2>2. c.card # "pending" /\ (c.card = "discarded" => c.seed < seed)
    BY <1>1, <1>2 DEF ReplyOK
  <2> QED BY <1>1, <1>2, <2>1, <2>2, Unmoved, SimpleEnd
<1> QED BY <1>3, <1>4

LEMMA BridgeAcceptsStep ==
    ASSUME GroupInv, NEW i \in DOMAIN reply, BridgeAccepts(i)
    PROVE  GroupInv'
<1>1. PICK c \in Replies : c = reply[i] /\ ReplyOK(c, seed, version)
  BY ReplyFacts
<1>2. c.at = "chatting" /\ (Fault \/ NoFault) /\ Beside /\ Stores(i)
  BY <1>1 DEF BridgeAccepts, At, Stores
<1>3. PICK d \in Replies : /\ d = [c EXCEPT !.at = "accepted", !.run = "running"] \/ d = [c EXCEPT !.at = "refused"]
                           /\ Step(i, d)
  <2>1. /\ [c EXCEPT !.at = "accepted", !.run = "running"] \in Replies
        /\ [c EXCEPT !.at = "refused"] \in Replies
    BY DEF Replies, ReplyStages
  <2> QED BY <1>1, <2>1 DEF BridgeAccepts
<1>4. d.seed = c.seed /\ d.agent = c.agent /\ d.at # "done" /\ ReplyOK(d, seed, version)
  BY <1>1, <1>2, <1>3 DEF ReplyOK, Replies
<1> QED BY <1>1, <1>2, <1>3, <1>4, SimpleStep

LEMMA ReplyStartedStep ==
    ASSUME GroupInv, NEW i \in DOMAIN reply, Started(i)
    PROVE  GroupInv'
<1>1. PICK c \in Replies : c = reply[i] /\ ReplyOK(c, seed, version)
  BY ReplyFacts
<1>2. c.at = "accepted" /\ NoFault /\ Beside /\ Stores(i)
  BY <1>1 DEF Started, At, Stores
<1>3. CASE IsCurrent(reply[i])
  <2>1. PICK d \in Replies : d = [c EXCEPT !.at = "streaming", !.card = "pending"]
    BY DEF Replies, ReplyStages, Cards
  <2>2. Step(i, d)
    BY <1>1, <1>3, <2>1 DEF Started
  <2>3. version[c.agent][c.seed] = c.version
    BY <1>1, <1>3 DEF IsCurrent
  <2>4. d.seed = c.seed /\ d.agent = c.agent /\ d.at # "done" /\ ReplyOK(d, seed, version)
    BY <1>1, <1>2, <2>1, <2>3 DEF ReplyOK, Replies
  <2> QED BY <1>1, <1>2, <2>2, <2>4, SimpleStep
<1>4. CASE ~IsCurrent(reply[i])
  <2>1. PICK d \in Replies : d = [c EXCEPT !.at = "stopping"]
    BY DEF Replies, ReplyStages
  <2>2. Step(i, d)
    BY <1>1, <1>4, <2>1 DEF Started
  <2>3. c.card = "pending" => c.seed < seed
    BY <1>1, <1>4, GroupFacts DEF IsCurrent, SessionIsCurrent, ReplyOK, Replies, Seeds
  <2>4. d.seed = c.seed /\ d.agent = c.agent /\ d.at # "done" /\ ReplyOK(d, seed, version)
    BY <1>1, <1>2, <2>1, <2>3 DEF ReplyOK, Replies
  <2> QED BY <1>1, <1>2, <2>2, <2>4, SimpleStep
<1> QED BY <1>3, <1>4

LEMMA RunEndsStep ==
    ASSUME GroupInv, NEW i \in DOMAIN reply, RunEnds(i)
    PROVE  GroupInv'
<1>1. PICK c \in Replies : c = reply[i] /\ ReplyOK(c, seed, version)
  BY ReplyFacts
<1>2. PICK d \in Replies : d = [c EXCEPT !.run = "ended"]
  BY DEF Replies
<1>3. c.run # "none" /\ NoFault /\ Beside /\ Stores(i) /\ Step(i, d)
  BY <1>1, <1>2 DEF RunEnds, Stores
<1>4. d.seed = c.seed /\ d.agent = c.agent /\ d.at = c.at /\ ReplyOK(d, seed, version)
  BY <1>1, <1>2, <1>3 DEF ReplyOK, Replies
<1> QED BY <1>1, <1>3, <1>4, SimpleStep

LEMMA PartSentStep ==
    ASSUME GroupInv, NEW i \in DOMAIN reply, PartSent(i)
    PROVE  GroupInv'
<1>1. PICK c \in Replies : c = reply[i] /\ ReplyOK(c, seed, version)
  BY ReplyFacts
<1>2. c.at = "streaming" /\ NoFault /\ Beside /\ Stores(i)
  BY <1>1 DEF PartSent, At, Stores
<1>3. CASE ~IsCurrent(reply[i])
  <2>1. PICK d \in Replies : d = [c EXCEPT !.at = "stopping"]
    BY DEF Replies, ReplyStages
  <2>2. Step(i, d)
    BY <1>1, <1>3, <2>1 DEF PartSent
  <2>3. c.card = "pending" => c.seed < seed
    BY <1>1, <1>3, GroupFacts DEF IsCurrent, SessionIsCurrent, ReplyOK, Replies, Seeds
  <2>4. d.seed = c.seed /\ d.agent = c.agent /\ d.at # "done" /\ ReplyOK(d, seed, version)
    BY <1>1, <1>2, <2>1, <2>3 DEF ReplyOK, Replies
  <2> QED BY <1>1, <1>2, <2>2, <2>4, SimpleStep
<1>4. CASE IsCurrent(reply[i])
  <2>1. PICK d \in Replies : d = [c EXCEPT !.at = "posting", !.post = "part"]
    BY DEF Replies, ReplyStages, Posts
  <2>2. Step(i, d)
    BY <1>1, <1>4, <2>1 DEF PartSent
  <2>3. d.seed = c.seed /\ d.agent = c.agent /\ d.at # "done" /\ ReplyOK(d, seed, version)
    BY <1>1, <1>2, <2>1 DEF ReplyOK, Replies
  <2> QED BY <1>1, <1>2, <2>2, <2>3, SimpleStep
<1> QED BY <1>3, <1>4

\* A reply ends with its card settled.
LEMMA EndsSettled ==
    ASSUME GroupInv, NEW i \in DOMAIN reply, NEW status \in {"completed", "failed", "aborted"},
           Finish(i, CardSettled(reply[i], status)), Settles(i, reply[i]), NoFault, Beside
    PROVE  GroupInv'
<1>1. PICK r : r = CardSettled(reply[i], status)
  OBVIOUS
<1>2. FinishAmong(reply, i, r)
  BY <1>1 DEF Finish
<1>3. /\ r \in Replies /\ r.card # "pending" /\ r.seed = reply[i].seed
      /\ r.agent = reply[i].agent /\ (r.card = "discarded" => r.seed < seed)
  BY <1>1, SettledCard
<1> QED BY <1>2, <1>3, Unmoved, SettlesStores, SimpleEnd

LEMMA StreamEndsStep ==
    ASSUME GroupInv, NEW i \in DOMAIN reply, StreamEnds(i)
    PROVE  GroupInv'
<1>1. PICK c \in Replies : c = reply[i] /\ ReplyOK(c, seed, version)
  BY ReplyFacts
<1>2. c.at = "streaming" /\ NoFault /\ Beside
  BY <1>1 DEF StreamEnds, At
<1>3. ASSUME NEW p \in {"answer", "error"}, Step(i, [c EXCEPT !.at = "posting", !.post = p]),
             UNCHANGED stored
      PROVE  GroupInv'
  <2>1. PICK d \in Replies : d = [c EXCEPT !.at = "posting", !.post = p]
    BY DEF Replies, ReplyStages, Posts
  <2>2. d.seed = c.seed /\ d.agent = c.agent /\ d.at # "done" /\ ReplyOK(d, seed, version)
    BY <1>1, <1>2, <2>1 DEF ReplyOK, Replies
  <2> QED BY <1>1, <1>2, <1>3, <2>1, <2>2, SimpleStep DEF Stores
<1> QED BY <1>1, <1>2, <1>3, EndsSettled DEF StreamEnds

LEMMA ThrowsStep ==
    ASSUME GroupInv, NEW i \in DOMAIN reply, Throws(i)
    PROVE  GroupInv'
<1>1. reply[i].at \in {"preparing", "refused", "streaming"} /\ (Fault \/ NoFault) /\ Beside
  BY DEF Throws, At
<1>2. reply[i].post # "failure" /\ reply[i].at # "done"
  BY <1>1, ReplyFacts DEF ReplyOK
<1> QED BY <1>1, <1>2, ReplyCatchFacts, FaultFacts, ReplyStep DEF Throws

\* The messages that the server takes, and what they mention.
LEMMA ServerTakesStep ==
    ASSUME GroupInv, NEW i \in DOMAIN reply, ServerTakes(i)
    PROVE  GroupInv'
<1>1. PICK c \in Replies : c = reply[i] /\ ReplyOK(c, seed, version) /\ c.depth \in 0..MaxDepth
  BY ReplyFacts
<1>2. c.at = "posting" /\ NoFault /\ Beside
  BY <1>1 DEF ServerTakes, At
<1>3. CASE ~Admitted(reply[i])
  <2>1. PICK d \in Replies : d = [c EXCEPT !.at = "rejected"]
    BY DEF Replies, ReplyStages
  <2>2. Step(i, d) /\ Stores(i)
    BY <1>1, <1>3, <2>1 DEF ServerTakes, Stores
  <2>3. d.seed = c.seed /\ d.agent = c.agent /\ d.at # "done" /\ ReplyOK(d, seed, version)
    BY <1>1, <1>2, <2>1 DEF ReplyOK, Replies
  <2> QED BY <1>1, <1>2, <2>2, <2>3, SimpleStep
<1>4. CASE Admitted(reply[i])
  <2>1. PICK d \in Replies : d = [c EXCEPT !.at = "taken"]
    BY DEF Replies, ReplyStages
  <2>2. d.seed = c.seed /\ d.agent = c.agent /\ d.at # "done" /\ ReplyOK(d, seed, version)
    BY <1>1, <1>2, <2>1 DEF ReplyOK, Replies
  <2>3. PICK base : base = [reply EXCEPT ![i] = d]
    OBVIOUS
  <2>4. Moves(i, base) /\ base[i] = d
    BY <1>1, <2>2, <2>3, Unmoved, Moved
  <2>5. base = [reply EXCEPT ![i].at = "taken"]
    BY <1>1, <2>1, <2>3
  <2>6. Stores(i)
    BY <1>4 DEF ServerTakes, Admitted, SessionIsCurrent, Stores
  <2>7. \/ reply' = base /\ UNCHANGED <<busy, waiting>>
        \/ \E b \in Members : /\ c.depth + 1 < bounds.depth /\ Len(reply) < MaxReplies
                              /\ Mention(b, c.depth + 1, base)
    BY <1>1, <1>4, <2>5 DEF ServerTakes
  <2>8. GoesOn(i, base) \/ Mentions(i, base)
    <3>1. CASE reply' = base /\ UNCHANGED <<busy, waiting>>
      BY <2>2, <2>4, <3>1 DEF GoesOn
    <3>2. CASE \E b \in Members : /\ c.depth + 1 < bounds.depth /\ Len(reply) < MaxReplies
                                  /\ Mention(b, c.depth + 1, base)
      <4>1. PICK b \in Members : /\ c.depth + 1 < bounds.depth /\ Len(reply) < MaxReplies
                                 /\ Mention(b, c.depth + 1, base)
        BY <3>2
      <4>2. bounds.depth \in 1..MaxDepth
        BY DEF GroupInv, BoundInv, GroupBudget
      <4>3. PICK n \in 0..MaxDepth : n = c.depth + 1
        BY <1>1, <4>1, <4>2, GroupFacts
      <4>4. \/ Begun(base, b, n) /\ UNCHANGED waiting
            \/ /\ paused \/ b \in busy
               /\ reply' = base /\ waiting' = [waiting EXCEPT ![b] = n] /\ UNCHANGED busy
        BY <4>1, <4>3 DEF Mention, Begun
      <4> QED BY <2>2, <2>4, <4>4 DEF Mentions
    <3> QED BY <2>7, <3>1, <3>2
  <2> QED BY <1>2, <2>4, <2>6, <2>8, FaultFacts, ReplyStep
<1> QED BY <1>3, <1>4

LEMMA AcknowledgedStep ==
    ASSUME GroupInv, NEW i \in DOMAIN reply, Acknowledged(i)
    PROVE  GroupInv'
<1>1. PICK c \in Replies : c = reply[i] /\ ReplyOK(c, seed, version)
  BY ReplyFacts
<1>2. c.at = "taken" /\ NoFault /\ Beside
  BY <1>1 DEF Acknowledged, At
<1>3. CASE c.post = "part" /\ Step(i, [c EXCEPT !.at = IF IsCurrent(c) THEN "streaming" ELSE "stopping"])
           /\ UNCHANGED stored
  <2>1. PICK d \in Replies : d = [c EXCEPT !.at = IF IsCurrent(c) THEN "streaming" ELSE "stopping"]
    BY DEF Replies, ReplyStages
  <2>2. ~IsCurrent(c) /\ c.card = "pending" => c.seed < seed
    BY <1>1, GroupFacts DEF IsCurrent, SessionIsCurrent, ReplyOK, Replies, Seeds
  <2>3. d.seed = c.seed /\ d.agent = c.agent /\ d.at # "done" /\ ReplyOK(d, seed, version)
    BY <1>1, <1>2, <1>3, <2>1, <2>2 DEF ReplyOK, Replies
  <2> QED BY <1>1, <1>2, <1>3, <2>1, <2>3, SimpleStep DEF Stores
<1>4. CASE c.post = "failure" /\ Finish(i, c) /\ UNCHANGED stored
  <2>1. c.card # "pending" /\ (c.card = "discarded" => c.seed < seed)
    BY <1>1, <1>4 DEF ReplyOK
  <2> QED BY <1>1, <1>2, <1>4, <2>1, Unmoved, SimpleEnd DEF Stores, Finish
<1> QED BY <1>1, <1>2, <1>3, <1>4, EndsSettled DEF Acknowledged

LEMMA RejectedStep ==
    ASSUME GroupInv, NEW i \in DOMAIN reply, Rejected(i)
    PROVE  GroupInv'
<1>1. PICK c \in Replies : c = reply[i] /\ ReplyOK(c, seed, version)
  BY ReplyFacts
<1>2. c.at = "rejected" /\ NoFault /\ Beside
  BY <1>1 DEF Rejected, At
<1>3. CASE c.post = "failure"
  <2>1. c.card # "pending" /\ (c.card = "discarded" => c.seed < seed)
    BY <1>1, <1>3 DEF ReplyOK
  <2>2. FinishAmong(reply, i, c) /\ Stores(i)
    BY <1>1, <1>3 DEF Rejected, Finish, Stores
  <2> QED BY <1>1, <1>2, <2>1, <2>2, Unmoved, SimpleEnd
<1>4. CASE c.post # "failure"
  <2>1. ReplyCatch(i, reply[i])
    BY <1>1, <1>4 DEF Rejected
  <2> QED BY <1>1, <1>2, <1>4, <2>1, ReplyCatchFacts, FaultFacts, ReplyStep
<1> QED BY <1>3, <1>4

\* What the bridge stops moves no reply but its run.
LEMMA StoppedFacts ==
    ASSUME GroupInv, NEW a, NEW s, NEW how \in {"ended", "detached"},
           NEW base, base = Stopped(a, s, how)
    PROVE  /\ base \in Seq(Replies) /\ Len(base) = Len(reply)
           /\ \A j \in DOMAIN reply :
                 /\ base[j] \in Replies /\ base[j].seed = reply[j].seed
                 /\ base[j].agent = reply[j].agent /\ base[j].at = reply[j].at
                 /\ base[j].card = reply[j].card /\ ReplyOK(base[j], seed, version)
<1>1. base = [j \in 1..Len(reply) |->
        [reply[j] EXCEPT !.run = IF reply[j].agent = a /\ reply[j].seed = s /\ @ = "running"
                                   THEN how ELSE @]]
  BY GroupFacts DEF Stopped
<1>2. ASSUME NEW j \in DOMAIN reply
      PROVE  /\ base[j] \in Replies /\ base[j].seed = reply[j].seed
             /\ base[j].agent = reply[j].agent /\ base[j].at = reply[j].at
             /\ base[j].card = reply[j].card /\ ReplyOK(base[j], seed, version)
  <2>1. PICK c \in Replies : c = reply[j] /\ ReplyOK(c, seed, version)
    BY ReplyFacts
  <2>2. PICK u \in {"none", "running", "detached", "ended"} :
            /\ base[j] = [c EXCEPT !.run = u]
            /\ u = "none" <=> c.run = "none"
    <3>1. base[j] = [c EXCEPT !.run = IF c.agent = a /\ c.seed = s /\ c.run = "running"
                                        THEN how ELSE c.run]
      BY <1>1, <2>1, GroupFacts
    <3>2. c.run \in {"none", "running", "detached", "ended"}
      BY DEF Replies
    <3>3. CASE c.agent = a /\ c.seed = s /\ c.run = "running"
      BY <3>1, <3>2, <3>3
    <3>4. CASE ~(c.agent = a /\ c.seed = s /\ c.run = "running")
      BY <3>1, <3>2, <3>4
    <3> QED BY <3>3, <3>4
  <2>3. PICK d \in Replies : d = [c EXCEPT !.run = u]
    BY <2>2 DEF Replies
  <2>4. /\ d.seed = c.seed /\ d.agent = c.agent /\ d.at = c.at /\ d.card = c.card
        /\ ReplyOK(d, seed, version)
    BY <2>1, <2>2, <2>3 DEF ReplyOK, Replies
  <2> QED BY <2>1, <2>2, <2>3, <2>4
<1> QED BY <1>1, <1>2, GroupFacts

LEMMA StopsAndEnds ==
    ASSUME GroupInv, NEW i \in DOMAIN reply, reply[i].at \in {"stopping", "destroying"},
           NEW how \in {"ended", "detached"}, NEW base,
           base = Stopped(reply[i].agent, reply[i].seed, how) \/ base = reply,
           FinishAmong(base, i, Discarded(base[i])), Stores(i), Fault \/ NoFault, Beside
    PROVE  GroupInv'
<1>1. /\ Moves(i, base) /\ base[i] \in Replies /\ base[i].seed = reply[i].seed
      /\ base[i].agent = reply[i].agent /\ base[i].card = reply[i].card
  <2>1. CASE base = reply
    BY <2>1, Unmoved, ReplyFacts
  <2>2. CASE base = Stopped(reply[i].agent, reply[i].seed, how)
    <3>1. PICK a, s : a = reply[i].agent /\ s = reply[i].seed
      OBVIOUS
    <3> QED BY <2>2, <3>1, StoppedFacts DEF Moves
  <2> QED BY <2>1, <2>2
<1>2. PICK c \in Replies : c = base[i]
  BY <1>1
<1>3. PICK r : r = Discarded(c)
  OBVIOUS
<1>4. /\ r \in Replies /\ r.card # "pending" /\ r.seed = c.seed /\ r.agent = c.agent
      /\ r.card = "discarded" => c.card \in {"pending", "discarded"}
  BY <1>3, DiscardedCard
<1>5. reply[i].card \in {"pending", "discarded"} => reply[i].seed < seed
  BY ReplyFacts DEF ReplyOK
<1> QED BY <1>1, <1>2, <1>3, <1>4, <1>5, SimpleEnd

LEMMA StopRunStep ==
    ASSUME GroupInv, NEW i \in DOMAIN reply, StopRun(i)
    PROVE  GroupInv'
<1>1. PICK c \in Replies : c = reply[i] /\ ReplyOK(c, seed, version)
  BY ReplyFacts
<1>2. c.at = "stopping" /\ Beside /\ Stores(i) /\ reply[i].at = "stopping"
  BY <1>1 DEF StopRun, At, Stores
<1>3. CASE Fault /\ Step(i, [reply[i] EXCEPT !.at = "destroying"])
  <2>1. PICK d \in Replies : d = [c EXCEPT !.at = "destroying"]
    BY DEF Replies, ReplyStages
  <2>2. d.seed = c.seed /\ d.agent = c.agent /\ d.at # "done" /\ ReplyOK(d, seed, version)
    BY <1>1, <1>2, <2>1 DEF ReplyOK, Replies
  <2> QED BY <1>1, <1>2, <1>3, <2>1, <2>2, SimpleStep
<1>4. CASE ~(Fault /\ Step(i, [reply[i] EXCEPT !.at = "destroying"]))
  <2>1. PICK base : base = Stopped(reply[i].agent, reply[i].seed, "ended")
    OBVIOUS
  <2>2. NoFault /\ FinishAmong(base, i, Discarded(base[i]))
    BY <1>4, <2>1 DEF StopRun
  <2> QED BY <1>2, <2>1, <2>2, StopsAndEnds
<1> QED BY <1>3, <1>4

LEMMA DestroyRunStep ==
    ASSUME GroupInv, NEW i \in DOMAIN reply, DestroyRun(i)
    PROVE  GroupInv'
<1>1. Beside /\ Stores(i) /\ reply[i].at = "destroying"
  BY DEF DestroyRun, At, Stores
<1>2. CASE Fault /\ Finish(i, Discarded(reply[i]))
  <2>1. PICK base : base = reply
    OBVIOUS
  <2>2. FinishAmong(base, i, Discarded(base[i]))
    BY <1>2, <2>1 DEF Finish
  <2> QED BY <1>1, <1>2, <2>1, <2>2, StopsAndEnds
<1>3. CASE ~(Fault /\ Finish(i, Discarded(reply[i])))
  <2>1. PICK base : base = Stopped(reply[i].agent, reply[i].seed, "detached")
    OBVIOUS
  <2>2. NoFault /\ FinishAmong(base, i, Discarded(base[i]))
    BY <1>3, <2>1 DEF DestroyRun
  <2> QED BY <1>1, <2>1, <2>2, StopsAndEnds
<1> QED BY <1>2, <1>3

-----------------------------------------------------------------------------
(* The agents of a group-chat room: the mentions of users and the requests.  *)

LEMMA AskStep ==
    ASSUME GroupInv, NEW a \in Members, Ask(a)
    PROVE  GroupInv'
<1>1. /\ asked < bounds.asks /\ asked' = asked + 1 /\ Len(reply) < MaxReplies
      /\ UNCHANGED <<seed, workspace, stored, fenced, version, paused, request, failures, bounds>>
  BY DEF Ask, room
<1>2. PICK r \in Replies : /\ r = NewReply(a, 0) /\ ReplyOK(r, seed, version)
                           /\ r.agent = a /\ r.at # "done"
  BY NewReplyFacts, GroupFacts
<1>3. reply \in Seq(Replies) /\ busy \subseteq Members
  BY DEF GroupInv, GroupTypeOK
<1>4. \/ /\ paused \/ a \in busy
         /\ waiting' = [waiting EXCEPT ![a] = 0] /\ reply' = reply /\ UNCHANGED busy
      \/ busy' = busy \union {a} /\ reply' = Append(reply, r) /\ UNCHANGED waiting
  BY <1>2 DEF Ask, Mention
<1>5. /\ reply' \in Seq(Replies) /\ Len(reply') <= MaxReplies
      /\ DOMAIN reply' = 1..Len(reply') /\ DOMAIN reply \subseteq DOMAIN reply'
      /\ \A j \in DOMAIN reply : reply'[j] = reply[j]
      /\ \A j \in DOMAIN reply' : j \in DOMAIN reply \/ reply'[j] = r
      /\ reply' = Append(reply, r) => Len(reply) + 1 \in DOMAIN reply' /\ reply'[Len(reply) + 1] = r
  <2>1. CASE reply' = reply
    <3>1. reply' # Append(reply, r)
      <4>1. Len(Append(reply, r)) = Len(reply) + 1 /\ Len(reply) \in Nat
        BY <1>3, AppendFacts, GroupFacts
      <4>2. Len(Append(reply, r)) # Len(reply)
        BY <4>1
      <4> QED BY <2>1, <4>2
    <3> QED BY <1>3, <2>1, <3>1, GroupFacts
  <2>2. CASE reply' = Append(reply, r)
    <3>1. /\ reply' \in Seq(Replies) /\ Len(reply') = Len(reply) + 1
          /\ DOMAIN reply' = 1..(Len(reply) + 1)
          /\ \A j \in DOMAIN reply : reply'[j] = reply[j]
          /\ reply'[Len(reply) + 1] = r
      BY <1>3, <2>2, AppendFacts
    <3> QED BY <1>1, <3>1, GroupFacts
  <2> QED BY <1>4, <2>1, <2>2
<1>6. waiting' \in [Members -> 0..NoMention] /\ \A b \in Members : b # a => waiting'[b] = waiting[b]
  BY <1>4, WaitingFacts, GroupFacts DEF NoMention
<1>7. ReplyInv'
  <2>1. \A j \in DOMAIN reply' : ReplyOK(reply'[j], seed, version)
    BY <1>2, <1>5, ReplyFacts
  <2> QED BY <1>1, <2>1 DEF ReplyInv, ReplyOK
<1>8. \A j \in Unfinished : j \in Unfinished' /\ reply'[j].agent = reply[j].agent
  BY <1>5 DEF Unfinished
<1>9. reply' = Append(reply, r) => \E j \in Unfinished' : reply'[j].agent = a
  BY <1>2, <1>5 DEF Unfinished
<1>10. LockInv'
  BY <1>3, <1>4, <1>8, <1>9 DEF GroupInv, LockInv
<1>11. WaitingMentionIsServed'
  <2> SUFFICES ASSUME NEW b \in Members, (waiting[b] # NoMention)'
               PROVE (\/ \E j \in Unfinished : reply[j].agent = b
                      \/ paused
                      \/ \E k \in DOMAIN request : Resets(request[k]) /\ request[k].at = "failed")'
    BY DEF WaitingMentionIsServed
  <2>1. CASE waiting'[b] = waiting[b]
    BY <1>1, <1>8, <2>1 DEF GroupInv, WaitingMentionIsServed, NoMention
  <2>2. CASE waiting'[b] # waiting[b]
    BY <1>1, <1>4, <1>6, <1>8, <2>2 DEF GroupInv, LockInv
  <2> QED BY <2>1, <2>2
<1>12. StoredInv' /\ ClearedStaysCleared'
  BY <1>1, <1>5 DEF GroupInv, StoredInv, ClearedStaysCleared
<1>13. BoundInv' /\ asked' <= bounds.asks
  BY <1>1 DEF GroupInv, BoundInv, GroupBudget
<1>14. GroupTypeOK'
  BY <1>1, <1>3, <1>4, <1>5, <1>6, <1>13 DEF GroupInv, GroupTypeOK
<1>15. RequestInv' /\ FenceInv'
  BY <1>1 DEF GroupInv, RequestInv, RequestOK, FenceInv, Resets
<1>16. CountInv' /\ ResetLetsGo'
  BY <1>1 DEF GroupInv, CountInv, Ended, Confirmed, ResetLetsGo, Interrupts, Resets
<1> QED BY <1>7, <1>10, <1>11, <1>12, <1>13, <1>14, <1>15, <1>16 DEF GroupInv

\* Some of the requests are no more than they.
LEMMA SomeRequests ==
    ASSUME NEW n \in Nat, NEW T \in SUBSET (1..n), NEW S \in SUBSET T
    PROVE  /\ Cardinality(S) \in Nat /\ Cardinality(T) \in Nat
           /\ Cardinality(S) <= Cardinality(T) /\ Cardinality(T) <= n
           /\ \A k \in T : k \notin S => Cardinality(S) + 1 <= Cardinality(T)
<1>1. IsFiniteSet(1..n) /\ Cardinality(1..n) = n
  BY FS_Interval
<1>2. IsFiniteSet(T) /\ Cardinality(T) <= n
  BY <1>1, FS_Subset
<1>3. IsFiniteSet(S) /\ Cardinality(S) <= Cardinality(T)
  BY <1>2, FS_Subset
<1>4. ASSUME NEW k \in T, k \notin S PROVE Cardinality(S) + 1 <= Cardinality(T)
  <2>1. IsFiniteSet(S \union {k}) /\ Cardinality(S \union {k}) = Cardinality(S) + 1
    BY <1>3, <1>4, FS_AddElement
  <2>2. S \union {k} \subseteq T
    BY <1>4
  <2>3. Cardinality(S \union {k}) <= Cardinality(T)
    BY <1>2, <2>2, FS_Subset
  <2> QED BY <2>1, <2>3
<1> QED BY <1>2, <1>3, <1>4, FS_CardinalityType

\* The room goes to its next session.
LEMMA SeedGrows ==
    ASSUME NEW s \in Nat
    PROVE  /\ \A r \in Replies : \A v : ReplyOK(r, s, v) => ReplyOK(r, s + 1, v)
           /\ \A q \in RequestRecords : RequestOK(q, s) => RequestOK(q, s + 1)
BY DEF ReplyOK, RequestOK, Replies, RequestRecords, Seeds

\* What a request that goes on leaves: the other requests, and the counts.
Advances(k, q) ==
    /\ request' = [request EXCEPT ![k] = q]
    /\ q.kind = request[k].kind /\ RequestOK(q, seed')
    /\ request[k].at \notin {"done", "failed"}
    /\ UNCHANGED seed \/ (seed' = seed + 1 /\ q.at = "done")

\* Nobody's interrupt returns; or that of the agent a does.
NoneReturns(k, q) ==
    /\ UNCHANGED version
    /\ \A b \in Members : request[k].call[b] = "returned" =>
          q.call[b] = "returned" /\ q.seed = request[k].seed

OneReturns(k, q, a) ==
    /\ version' = [version EXCEPT ![a][q.seed] = @ + 1]
    /\ q.seed = request[k].seed
    /\ request[k].call[a] # "returned" /\ q.call[a] = "returned"
    /\ \A b \in Members : request[k].call[b] = "returned" => q.call[b] = "returned"

LEMMA RequestsAfter ==
    ASSUME GroupInv, NEW k \in DOMAIN request, NEW q \in RequestRecords, Advances(k, q),
           NoneReturns(k, q) \/ \E a \in Members : OneReturns(k, q, a)
    PROVE  /\ request' \in Seq(RequestRecords) /\ DOMAIN request' = DOMAIN request
           /\ Len(request') = Len(request)
           /\ request'[k] = q /\ \A j \in DOMAIN request : j # k => request'[j] = request[j]
           /\ RequestInv' /\ CountInv'
           /\ seed' \in Seeds /\ version' \in [Members -> [Seeds -> 0..MaxRequests]]
<1>1. request \in Seq(RequestRecords) /\ version \in [Members -> [Seeds -> 0..MaxRequests]]
      /\ RequestInv /\ CountInv
  BY DEF GroupInv, GroupTypeOK
<1>2. request' \in Seq(RequestRecords) /\ DOMAIN request' = DOMAIN request
      /\ Len(request') = Len(request)
      /\ request'[k] = q /\ \A j \in DOMAIN request : j # k => request'[j] = request[j]
  BY <1>1 DEF Advances
<1>3. seed \in Nat /\ DOMAIN request = 1..Len(request) /\ Len(request) \in Nat
      /\ Len(request) <= MaxRequests /\ MaxRequests \in Nat
  BY GroupFacts
<1>4. RequestInv'
  <2>1. \A j \in DOMAIN request : RequestOK(request[j], seed')
    BY <1>1, <1>3, SeedGrows, GroupFacts DEF RequestInv, Advances
  <2>2. \A j \in DOMAIN request' : RequestOK(request'[j], seed')
    BY <1>2, <2>1 DEF Advances
  <2> QED BY <2>2 DEF RequestInv, RequestOK, Resets
<1>5. Ended \subseteq Ended' /\ Ended' \subseteq 1..Len(request) /\ (q.at = "done" => k \in Ended' /\ k \notin Ended)
  BY <1>2, <1>3 DEF Ended, Advances
<1>6. seed' <= Cardinality(Ended') /\ seed' \in Seeds
  <2>1. PICK S, T : S = Ended /\ T = Ended'
    OBVIOUS
  <2>2. /\ Cardinality(S) \in Nat /\ Cardinality(T) \in Nat
        /\ Cardinality(S) <= Cardinality(T) /\ Cardinality(T) <= Len(request)
        /\ q.at = "done" => Cardinality(S) + 1 <= Cardinality(T)
    BY <1>3, <1>5, <2>1, SomeRequests
  <2>3. seed <= Cardinality(S)
    BY <1>1, <2>1 DEF CountInv
  <2>4. seed' <= Cardinality(T) /\ seed' \in Nat
    BY <1>3, <2>2, <2>3 DEF Advances
  <2> QED BY <1>3, <2>1, <2>2, <2>4 DEF Seeds
<1>7. ASSUME NEW b \in Members, NEW s \in Seeds
      PROVE  version'[b][s] \in Nat /\ version'[b][s] <= Cardinality(Confirmed(b, s)')
             /\ Cardinality(Confirmed(b, s)') <= Len(request)
  <2>1. PICK S, T : S = Confirmed(b, s) /\ T = Confirmed(b, s)'
    OBVIOUS
  <2>2. T \subseteq 1..Len(request) /\ S \subseteq T
    BY <1>2, <1>3, <2>1 DEF Confirmed, NoneReturns, OneReturns
  <2>3. /\ Cardinality(S) \in Nat /\ Cardinality(T) \in Nat
        /\ Cardinality(S) <= Cardinality(T) /\ Cardinality(T) <= Len(request)
        /\ k \in T /\ k \notin S => Cardinality(S) + 1 <= Cardinality(T)
    BY <1>3, <2>2, SomeRequests
  <2>4. version[b][s] \in Nat /\ version[b][s] <= Cardinality(S)
    BY <1>1, <2>1, GroupFacts DEF CountInv
  <2>5. CASE version'[b][s] = version[b][s]
    BY <2>1, <2>3, <2>4, <2>5
  <2>6. CASE version'[b][s] # version[b][s]
    <3>1. PICK a \in Members : OneReturns(k, q, a)
      BY <2>6 DEF NoneReturns
    <3>2. a = b /\ s = q.seed /\ version'[b][s] = version[b][s] + 1
      BY <1>1, <2>6, <3>1 DEF OneReturns
    <3>3. k \in T /\ k \notin S
      BY <1>2, <2>1, <3>1, <3>2 DEF OneReturns, Confirmed
    <3> QED BY <2>1, <2>3, <2>4, <3>2, <3>3
  <2> QED BY <2>5, <2>6
<1>8. version' \in [Members -> [Seeds -> 0..MaxRequests]]
  <2>1. version' \in [Members -> [Seeds -> Nat]]
    <3>1. version \in [Members -> [Seeds -> Nat]]
      BY <1>1
    <3>2. CASE UNCHANGED version
      BY <3>1, <3>2
    <3>3. ASSUME NEW a \in Members, version' = [version EXCEPT ![a][q.seed] = @ + 1]
          PROVE  version' \in [Members -> [Seeds -> Nat]]
      <4>1. q.seed \in Seeds
        BY DEF RequestRecords
      <4> QED BY <3>1, <3>3, <4>1
    <3> QED BY <3>2, <3>3 DEF NoneReturns, OneReturns
  <2>2. \A b \in Members, s \in Seeds : version'[b][s] \in 0..MaxRequests
    <3> TAKE b \in Members, s \in Seeds
    <3>1. PICK c : c = Cardinality(Confirmed(b, s)')
      OBVIOUS
    <3>2. c \in Nat
      <4>1. PICK T : T = Confirmed(b, s)'
        OBVIOUS
      <4>2. T \subseteq 1..Len(request)
        BY <1>2, <1>3, <4>1 DEF Confirmed
      <4> QED BY <1>3, <3>1, <4>1, <4>2, SomeRequests
    <3> QED BY <1>3, <1>7, <3>1, <3>2
  <2> QED BY <2>1, <2>2
<1>9. CountInv'
  BY <1>6, <1>7 DEF CountInv, Seeds
<1> QED BY <1>2, <1>4, <1>6, <1>8, <1>9

\* Replies that keep their places, agents, sessions and stages keep what rests on these.
LEMMA RepliesBeside ==
    ASSUME GroupInv, reply' \in Seq(Replies), Len(reply') = Len(reply),
           \A j \in DOMAIN reply :
              /\ reply'[j].agent = reply[j].agent /\ reply'[j].seed = reply[j].seed
              /\ reply'[j].at = reply[j].at /\ ReplyOK(reply'[j], seed', version')
    PROVE  /\ DOMAIN reply' = DOMAIN reply /\ ReplyInv'
           /\ Unfinished' = Unfinished
           /\ \A j \in Unfinished : j \in DOMAIN reply
<1>1. DOMAIN reply' = DOMAIN reply
  BY GroupFacts
<1>2. ReplyInv'
  <2>1. \A j \in DOMAIN reply' : ReplyOK(reply'[j], seed', version')
    BY <1>1
  <2> QED BY <2>1 DEF ReplyInv, ReplyOK
<1> QED BY <1>1, <1>2 DEF Unfinished

LEMMA ReceiveStep ==
    ASSUME GroupInv, Receive
    PROVE  GroupInv'
<1>1. /\ Len(request) < Len(bounds.requests)
      /\ UNCHANGED <<seed, workspace, stored, busy, waiting, version, reply, failures, asked, bounds>>
  BY DEF Receive, counted
<1>2. /\ seed \in Seeds /\ seed \in Nat /\ workspace \in Workspaces /\ Len(request) \in Nat
      /\ DOMAIN request = 1..Len(request) /\ request \in Seq(RequestRecords)
      /\ Len(bounds.requests) \in Nat
      /\ bounds.requests[Len(request) + 1] \in Requests
  BY <1>1, GroupFacts DEF GroupInv, GroupTypeOK, BoundInv, GroupBudget
<1>3. PICK q0 \in RequestRecords :
         q0 = [kind |-> bounds.requests[Len(request) + 1], target |-> workspace,
               seen |-> workspace, seed |-> seed, at |-> "validating",
               call |-> [a \in Members |-> "none"]]
  BY <1>2 DEF RequestRecords, RequestStages, CallStates
<1>4. /\ q0.seed = seed /\ q0.at = "validating" /\ \A b \in Members : q0.call[b] = "none"
  BY <1>3
<1>5. PICK q \in RequestRecords :
         /\ request' = Append(request, q) /\ RequestOK(q, seed) /\ q.at # "done"
         /\ \/ UNCHANGED <<fenced, paused>>
            \/ /\ Resets(q) /\ q.at = "interrupting" /\ q.seed = seed
               /\ fenced' = fenced \union {seed} /\ paused' = TRUE
  <2>1. CASE q0.kind = "agent"
    <3>1. PICK a \in Members :
             request' = Append(request, [q0 EXCEPT !.at = "interrupting", !.call[a] = "called"])
      BY <1>3, <2>1 DEF Receive
    <3>2. PICK q \in RequestRecords : q = [q0 EXCEPT !.at = "interrupting", !.call[a] = "called"]
      BY DEF RequestRecords, RequestStages, CallStates
    <3>3. q.kind = "agent" /\ q.seed = seed /\ q.at = "interrupting"
      BY <1>4, <2>1, <3>2 DEF RequestRecords
    <3>4. RequestOK(q, seed)
      BY <1>2, <3>3 DEF RequestOK, Resets
    <3>5. UNCHANGED <<fenced, paused>>
      BY <1>3, <2>1 DEF Receive
    <3> QED BY <3>1, <3>2, <3>3, <3>4, <3>5
  <2>2. CASE q0.kind = "clear"
    <3>1. request' = Append(request, Interrupting(q0)) /\ FenceAndPause
      BY <1>3, <2>2 DEF Receive
    <3>2. PICK q \in RequestRecords : q = Interrupting(q0)
      BY <1>2 DEF Interrupting, RequestRecords, RequestStages, CallStates
    <3>3. /\ q.kind = "clear" /\ q.seed = seed /\ q.at = "interrupting"
          /\ \A b \in Members : q.call[b] = "called"
      BY <2>2, <3>2 DEF Interrupting, RequestRecords
    <3>4. RequestOK(q, seed) /\ Resets(q)
      BY <1>2, <3>3 DEF RequestOK, Resets
    <3> QED BY <3>1, <3>2, <3>3, <3>4 DEF FenceAndPause
  <2>3. CASE q0.kind = "workspace"
    <3>1. PICK w \in Workspaces : request' = Append(request, [q0 EXCEPT !.target = w])
      BY <1>3, <2>3 DEF Receive
    <3>2. PICK q \in RequestRecords : q = [q0 EXCEPT !.target = w]
      BY DEF RequestRecords
    <3>3. /\ q.kind = "workspace" /\ q.seed = seed /\ q.at = "validating"
          /\ \A b \in Members : q.call[b] = "none"
      BY <1>4, <2>3, <3>2 DEF RequestRecords
    <3>4. RequestOK(q, seed)
      BY <1>2, <3>3 DEF RequestOK
    <3>5. UNCHANGED <<fenced, paused>>
      BY <1>3, <2>3 DEF Receive
    <3> QED BY <3>1, <3>2, <3>3, <3>4, <3>5
  <2> QED BY <2>1, <2>2, <2>3 DEF RequestRecords, Requests
<1>6. /\ request' \in Seq(RequestRecords) /\ Len(request') = Len(request) + 1
      /\ DOMAIN request' = 1..(Len(request) + 1) /\ request'[Len(request) + 1] = q
      /\ \A j \in DOMAIN request : j \in DOMAIN request' /\ request'[j] = request[j]
  BY <1>2, <1>5
<1>7. \A j \in DOMAIN request' : j \in DOMAIN request \/ request'[j] = q
  BY <1>2, <1>6
<1>8. RequestInv'
  <2>1. \A j \in DOMAIN request' : RequestOK(request'[j], seed)
    BY <1>5, <1>6, <1>7 DEF GroupInv, RequestInv
  <2> QED BY <1>1, <2>1 DEF RequestInv, RequestOK, Resets
<1>9. CountInv'
  <2>1. Ended \subseteq Ended' /\ Ended' \subseteq 1..Len(request')
    BY <1>6 DEF Ended
  <2>2. Cardinality(Ended) \in Nat /\ Cardinality(Ended') \in Nat /\ Cardinality(Ended) <= Cardinality(Ended')
    <3>1. PICK S, T : S = Ended /\ T = Ended'
      OBVIOUS
    <3>2. PICK n \in Nat : n = Len(request')
      BY <1>2, <1>6
    <3>3. T \in SUBSET (1..n) /\ S \in SUBSET T
      BY <2>1, <3>1, <3>2
    <3>4. Cardinality(S) \in Nat /\ Cardinality(T) \in Nat /\ Cardinality(S) <= Cardinality(T)
      BY <3>3, SomeRequests
    <3> QED BY <3>1, <3>4
  <2>3. ASSUME NEW b \in Members, NEW s \in Seeds
        PROVE  version'[b][s] <= Cardinality(Confirmed(b, s)')
    <3>1. PICK S, T : S = Confirmed(b, s) /\ T = Confirmed(b, s)'
      OBVIOUS
    <3>2. PICK n \in Nat : n = Len(request')
      BY <1>2, <1>6
    <3>3. T \in SUBSET (1..n) /\ S \in SUBSET T
      BY <1>6, <3>1, <3>2 DEF Confirmed
    <3>4. Cardinality(S) \in Nat /\ Cardinality(T) \in Nat /\ Cardinality(S) <= Cardinality(T)
      BY <3>3, SomeRequests
    <3> QED BY <1>1, <3>1, <3>4, GroupFacts DEF GroupInv, CountInv
  <2>4. seed <= Cardinality(Ended')
    BY <1>2, <2>2 DEF GroupInv, CountInv
  <2> QED BY <1>1, <2>3, <2>4 DEF CountInv, Seeds
<1>10. BoundInv'
  BY <1>1, <1>2, <1>6 DEF GroupInv, BoundInv
<1>11. fenced' \subseteq Seeds /\ paused' \in BOOLEAN /\ FenceInv'
  <2>1. fenced \subseteq Seeds /\ FenceInv /\ paused \in BOOLEAN
    BY DEF GroupInv, GroupTypeOK
  <2>2. fenced' \subseteq fenced \union {seed}
    BY <1>5
  <2>3. FenceInv'
    BY <1>1, <1>2, <2>1, <2>2 DEF FenceInv
  <2>4. paused' \in BOOLEAN
    BY <1>5, <2>1
  <2> QED BY <1>2, <2>1, <2>2, <2>3, <2>4
<1>12. GroupTypeOK'
  BY <1>1, <1>6, <1>11 DEF GroupInv, GroupTypeOK
<1>13. ReplyInv' /\ LockInv' /\ StoredInv'
  BY <1>1 DEF GroupInv, ReplyInv, ReplyOK, LockInv, Unfinished, StoredInv
<1>14. ClearedStaysCleared'
  BY <1>1, <1>5, <1>6, <1>7 DEF GroupInv, ClearedStaysCleared
<1>15. WaitingMentionIsServed'
  BY <1>1, <1>5, <1>6 DEF GroupInv, WaitingMentionIsServed, Unfinished, Resets
<1>16. ResetLetsGo'
  <2>1. CASE UNCHANGED <<fenced, paused>>
    BY <1>1, <1>6, <2>1 DEF GroupInv, ResetLetsGo, Interrupts, Resets
  <2>2. CASE /\ Resets(q) /\ q.at = "interrupting" /\ q.seed = seed
    <3>1. Len(request) + 1 \in DOMAIN request' /\ request'[Len(request) + 1] = q
      BY <1>2, <1>6
    <3> QED BY <1>1, <2>2, <3>1 DEF ResetLetsGo, Interrupts, Resets
  <2> QED BY <1>5, <2>1, <2>2
<1> QED BY <1>8, <1>9, <1>10, <1>12, <1>13, <1>14, <1>15, <1>16, <1>11 DEF GroupInv

LEMMA BridgeStopsStep ==
    ASSUME GroupInv, NEW k \in DOMAIN request, NEW a \in Members, BridgeStops(k, a)
    PROVE  GroupInv'
<1>1. /\ request[k].at = "interrupting" /\ request[k].call[a] = "called"
      /\ UNCHANGED <<seed, workspace, stored, fenced, busy, paused, waiting, version,
                     failures, asked, bounds>>
  BY DEF BridgeStops, Interrupts, room, locks, counted
<1>2. PICK c \in RequestRecords : c = request[k] /\ RequestOK(c, seed)
  BY GroupFacts DEF GroupInv, RequestInv
<1>3. PICK q \in RequestRecords : q = [c EXCEPT !.call[a] = "stopped"]
  BY DEF RequestRecords, CallStates
<1>4. /\ q.kind = c.kind /\ q.seed = c.seed /\ q.at = c.at /\ q.call[a] = "stopped"
      /\ \A b \in Members : b # a => q.call[b] = c.call[b]
  BY <1>3 DEF RequestRecords
<1>5. RequestOK(q, seed)
  BY <1>1, <1>2, <1>4 DEF RequestOK, Resets
<1>6. request' = [request EXCEPT ![k] = q]
  BY <1>2, <1>3 DEF BridgeStops
<1>7. Advances(k, q) /\ NoneReturns(k, q)
  BY <1>1, <1>2, <1>4, <1>5, <1>6 DEF Advances, NoneReturns
<1>8. /\ request' \in Seq(RequestRecords) /\ DOMAIN request' = DOMAIN request
      /\ Len(request') = Len(request)
      /\ request'[k] = q /\ \A j \in DOMAIN request : j # k => request'[j] = request[j]
      /\ RequestInv' /\ CountInv'
  BY <1>7, RequestsAfter
<1>9. \A j \in DOMAIN request : /\ request'[j].kind = request[j].kind /\ request'[j].at = request[j].at
                                /\ request'[j].seed = request[j].seed
  BY <1>2, <1>4, <1>8
<1>10. PICK base : base = Stopped(a, c.seed, "ended")
  OBVIOUS
<1>11. reply' = base
  BY <1>2, <1>10 DEF BridgeStops
<1>12. /\ base \in Seq(Replies) /\ Len(base) = Len(reply)
       /\ \A j \in DOMAIN reply :
             /\ base[j].seed = reply[j].seed /\ base[j].agent = reply[j].agent
             /\ base[j].at = reply[j].at /\ ReplyOK(base[j], seed, version)
  <2>1. PICK s : s = c.seed
    OBVIOUS
  <2> QED BY <1>10, <2>1, StoppedFacts
<1>13. /\ reply' \in Seq(Replies) /\ DOMAIN reply' = DOMAIN reply /\ ReplyInv'
       /\ Unfinished' = Unfinished /\ Len(reply') = Len(reply)
       /\ \A j \in DOMAIN reply : reply'[j].agent = reply[j].agent /\ reply'[j].seed = reply[j].seed
       /\ \A j \in Unfinished : j \in DOMAIN reply
  BY <1>1, <1>11, <1>12, RepliesBeside
<1>14. GroupTypeOK' /\ BoundInv'
  BY <1>1, <1>8, <1>13 DEF GroupInv, GroupTypeOK, BoundInv
<1>15. LockInv' /\ WaitingMentionIsServed'
  <2>1. \A j \in Unfinished : j \in Unfinished' /\ reply'[j].agent = reply[j].agent
    BY <1>13
  <2>2. LockInv'
    BY <1>1, <2>1 DEF GroupInv, LockInv
  <2>3. \A j \in DOMAIN request : Resets(request[j]) => Resets(request'[j])
    BY <1>9 DEF Resets
  <2>4. WaitingMentionIsServed'
    <3> SUFFICES ASSUME NEW b \in Members, waiting[b] # NoMention
                 PROVE  \/ \E j \in Unfinished' : reply'[j].agent = b
                        \/ paused
                        \/ \E j \in DOMAIN request' : Resets(request'[j]) /\ request'[j].at = "failed"
      BY <1>1 DEF WaitingMentionIsServed, NoMention, Resets
    <3>1. \/ \E j \in Unfinished : reply[j].agent = b
          \/ paused
          \/ \E j \in DOMAIN request : Resets(request[j]) /\ request[j].at = "failed"
      BY DEF GroupInv, WaitingMentionIsServed
    <3> QED BY <1>8, <1>9, <2>1, <2>3, <3>1
  <2> QED BY <2>2, <2>4
<1>16. StoredInv' /\ FenceInv' /\ ClearedStaysCleared'
  BY <1>1, <1>8, <1>9, <1>13 DEF GroupInv, StoredInv, FenceInv, ClearedStaysCleared
<1>17. ResetLetsGo'
  BY <1>1, <1>8, <1>9 DEF GroupInv, ResetLetsGo, Interrupts, Resets
<1> QED BY <1>8, <1>13, <1>14, <1>15, <1>16, <1>17 DEF GroupInv

\* Replies under a room that goes to its next session.
LEMMA RepliesStay ==
    ASSUME GroupInv, UNCHANGED <<reply, version>>, seed' = seed \/ seed' = seed + 1
    PROVE  ReplyInv' /\ Unfinished' = Unfinished
<1>1. \A j \in DOMAIN reply : ReplyOK(reply[j], seed', version)
  BY SeedGrows, ReplyFacts, GroupFacts
<1> QED BY <1>1 DEF ReplyInv, ReplyOK, Unfinished

LEMMA ValidatedStep ==
    ASSUME GroupInv, NEW k \in DOMAIN request, Validated(k)
    PROVE  GroupInv'
<1>1. /\ request[k].at = "validating"
      /\ UNCHANGED <<stored, busy, waiting, version, reply, failures, asked, bounds>>
  BY DEF Validated, counted
<1>2. PICK c \in RequestRecords : c = request[k] /\ RequestOK(c, seed)
  BY GroupFacts DEF GroupInv, RequestInv
<1>3. c.kind = "workspace" /\ c.at = "validating" /\ \A b \in Members : c.call[b] = "none"
  BY <1>1, <1>2 DEF RequestOK
<1>4. seed \in Nat /\ seed \in Seeds /\ workspace \in Workspaces /\ fenced \subseteq Seeds
      /\ FenceInv /\ paused \in BOOLEAN
  BY GroupFacts DEF GroupInv, GroupTypeOK
<1>5. CASE c.target # c.seen
  <2>1. PICK q \in RequestRecords : q = Interrupting(c)
    BY <1>4 DEF Interrupting, RequestRecords, RequestStages, CallStates
  <2>2. /\ q.kind = "workspace" /\ q.seed = seed /\ q.at = "interrupting"
        /\ \A b \in Members : q.call[b] = "called"
    BY <1>3, <2>1 DEF Interrupting, RequestRecords
  <2>3. /\ request' = [request EXCEPT ![k] = q]
        /\ fenced' = fenced \union {seed} /\ paused' = TRUE /\ UNCHANGED <<seed, workspace>>
    BY <1>2, <1>5, <2>1 DEF Validated, FenceAndPause
  <2>4. RequestOK(q, seed)
    BY <1>4, <2>2 DEF RequestOK
  <2>5. Advances(k, q) /\ NoneReturns(k, q)
    BY <1>1, <1>2, <1>3, <2>2, <2>3, <2>4 DEF Advances, NoneReturns
  <2>6. /\ request' \in Seq(RequestRecords) /\ DOMAIN request' = DOMAIN request
        /\ Len(request') = Len(request)
        /\ request'[k] = q /\ \A j \in DOMAIN request : j # k => request'[j] = request[j]
        /\ RequestInv' /\ CountInv'
    BY <2>5, RequestsAfter
  <2>7. FenceInv' /\ fenced' \subseteq Seeds
    BY <1>4, <2>3 DEF FenceInv
  <2>8. GroupTypeOK' /\ BoundInv'
    BY <1>1, <2>3, <2>6, <2>7 DEF GroupInv, GroupTypeOK, BoundInv
  <2>9. ReplyInv' /\ Unfinished' = Unfinished
    BY <1>1, <2>3, RepliesStay
  <2>10. LockInv' /\ StoredInv' /\ WaitingMentionIsServed'
    BY <1>1, <2>3, <2>9 DEF GroupInv, LockInv, StoredInv, WaitingMentionIsServed
  <2>11. ClearedStaysCleared'
    BY <1>1, <2>2, <2>6 DEF GroupInv, ClearedStaysCleared
  <2>12. ResetLetsGo'
    <3>1. Resets(q)
      BY <2>2 DEF Resets
    <3> QED BY <2>2, <2>3, <2>6, <3>1 DEF ResetLetsGo, Interrupts, Resets
  <2> QED BY <2>6, <2>7, <2>8, <2>9, <2>10, <2>11, <2>12 DEF GroupInv
<1>6. CASE c.target = c.seen
  <2>1. PICK q \in RequestRecords : q = [c EXCEPT !.at = "done"]
    BY DEF RequestRecords, RequestStages
  <2>2. q.kind = "workspace" /\ q.seed = c.seed /\ q.at = "done" /\ q.call = c.call
    BY <1>3, <2>1 DEF RequestRecords
  <2>3. /\ request' = [request EXCEPT ![k] = q] /\ UNCHANGED <<fenced, paused>>
        /\ workspace' = c.target /\ (seed' = seed \/ seed' = seed + 1)
    BY <1>2, <1>6, <2>1 DEF Validated, WorkspaceUpdated
  <2>4. RequestOK(q, seed')
    <3>1. RequestOK(q, seed)
      BY <1>2, <2>2 DEF RequestOK
    <3> QED BY <1>4, <2>3, <3>1, SeedGrows
  <2>5. Advances(k, q) /\ NoneReturns(k, q)
    BY <1>1, <1>2, <1>3, <2>2, <2>3, <2>4 DEF Advances, NoneReturns
  <2>6. /\ request' \in Seq(RequestRecords) /\ DOMAIN request' = DOMAIN request
        /\ Len(request') = Len(request)
        /\ request'[k] = q /\ \A j \in DOMAIN request : j # k => request'[j] = request[j]
        /\ RequestInv' /\ CountInv' /\ seed' \in Seeds
    BY <2>5, RequestsAfter
  <2>7. FenceInv'
    BY <1>4, <2>3 DEF FenceInv, Seeds
  <2>8. workspace' \in Workspaces
    BY <2>3 DEF RequestRecords
  <2>9. GroupTypeOK' /\ BoundInv'
    BY <1>1, <2>3, <2>6, <2>8 DEF GroupInv, GroupTypeOK, BoundInv
  <2>10. ReplyInv' /\ Unfinished' = Unfinished
    BY <1>1, <2>3, RepliesStay
  <2>11. LockInv' /\ StoredInv' /\ WaitingMentionIsServed'
    BY <1>1, <1>2, <1>3, <2>3, <2>6, <2>10 DEF GroupInv, LockInv, StoredInv, WaitingMentionIsServed
  <2>12. ClearedStaysCleared'
    BY <1>1, <2>2, <2>6 DEF GroupInv, ClearedStaysCleared
  <2>13. ResetLetsGo'
    <3>1. /\ paused => \E j \in DOMAIN request : Resets(request[j]) /\ Interrupts(j)
          /\ seed \in fenced =>
               \E j \in DOMAIN request :
                   /\ request[j].seed = seed /\ Resets(request[j])
                   /\ \/ Interrupts(j)
                      \/ request[j].kind = "workspace" /\ request[j].at = "done"
      BY DEF GroupInv, ResetLetsGo
    <3>2. \A j \in DOMAIN request : Interrupts(j) \/ request[j].at = "done" => j # k
      BY <1>2, <1>3 DEF Interrupts
    <3>3. seed' \in fenced' => seed' = seed
      BY <1>4, <2>3 DEF FenceInv
    <3> QED BY <2>3, <2>6, <3>1, <3>2, <3>3 DEF ResetLetsGo, Interrupts, Resets
  <2> QED BY <2>6, <2>7, <2>9, <2>10, <2>11, <2>12, <2>13 DEF GroupInv
<1> QED BY <1>5, <1>6

\* The replies of an agent whose interrupt was confirmed: their cards are settled, so
\* that none of them minds that its session was marked.
LEMMA SettledReplies ==
    ASSUME GroupInv, NEW a \in Members, NEW x \in Seeds,
           NEW base, base = [j \in DOMAIN reply |->
                               IF reply[j].agent = a THEN CardSettled(reply[j], "aborted") ELSE reply[j]],
           NEW v, v = [version EXCEPT ![a][x] = @ + 1]
    PROVE  /\ base \in Seq(Replies) /\ Len(base) = Len(reply)
           /\ \A j \in DOMAIN reply :
                 /\ base[j] \in Replies /\ base[j].agent = reply[j].agent
                 /\ base[j].seed = reply[j].seed /\ base[j].at = reply[j].at
                 /\ ReplyOK(base[j], seed, v)
<1>1. version \in [Members -> [Seeds -> 0..MaxRequests]]
  BY DEF GroupInv, GroupTypeOK
<1>2. ASSUME NEW r \in Replies, ReplyOK(r, seed, version), r.agent = a => r.card # "pending"
      PROVE  ReplyOK(r, seed, v)
  <2>1. r.agent \in Members
    BY DEF Replies
  <2>2. r.agent # a => v[r.agent] = version[r.agent]
    BY <1>1, <2>1
  <2> QED BY <1>2, <2>2 DEF ReplyOK
<1>3. ASSUME NEW j \in DOMAIN reply
      PROVE  /\ base[j] \in Replies /\ base[j].agent = reply[j].agent
             /\ base[j].seed = reply[j].seed /\ base[j].at = reply[j].at
             /\ ReplyOK(base[j], seed, v)
  <2>1. CASE reply[j].agent = a
    <3>1. PICK r : r = CardSettled(reply[j], "aborted")
      OBVIOUS
    <3>2. base[j] = r
      BY <2>1, <3>1
    <3>3. /\ r \in Replies /\ r.card # "pending" /\ r.seed = reply[j].seed
          /\ r.agent = reply[j].agent /\ r.at = reply[j].at /\ ReplyOK(r, seed, version)
      BY <3>1, SettledCard
    <3> QED BY <1>2, <3>2, <3>3
  <2>2. CASE reply[j].agent # a
    <3>1. PICK r \in Replies : r = reply[j] /\ ReplyOK(r, seed, version)
      BY ReplyFacts
    <3>2. base[j] = r /\ r.agent # a
      BY <2>2, <3>1
    <3>3. ReplyOK(r, seed, v)
      BY <1>2, <3>1, <3>2
    <3> QED BY <3>1, <3>2, <3>3
  <2> QED BY <2>1, <2>2
<1>4. DOMAIN reply = 1..Len(reply) /\ Len(reply) \in Nat
  BY GroupFacts
<1>5. base \in [1..Len(reply) -> Replies]
  BY <1>3, <1>4
<1>6. base \in Seq(Replies) /\ Len(base) = Len(reply)
  BY <1>4, <1>5, SeqDef, LenProperties
<1> QED BY <1>3, <1>6

\* What is stored once the cards of an agent's replies are settled.
Late(a, confirmed) ==
    stored \union UNION {Shown(j, reply[j]) : j \in {j \in DOMAIN reply : confirmed /\ reply[j].agent = a}}

IsLate(late) ==
    \A e \in late : /\ e \in (1..MaxReplies) \X {"message", "card"} /\ e[1] \in DOMAIN reply
                    /\ e \in stored \/ reply[e[1]].seed = seed

LEMMA LateFacts ==
    ASSUME GroupInv, NEW a \in Members, NEW confirmed \in BOOLEAN
    PROVE  IsLate(Late(a, confirmed))
<1>1. /\ stored \subseteq (1..MaxReplies) \X {"message", "card"}
      /\ \A e \in stored : e[1] \in DOMAIN reply
  BY DEF GroupInv, GroupTypeOK, StoredInv
<1>2. ASSUME NEW j \in DOMAIN reply, NEW e \in Shown(j, reply[j])
      PROVE  /\ e \in (1..MaxReplies) \X {"message", "card"} /\ e[1] \in DOMAIN reply
             /\ reply[e[1]].seed = seed
  <2>1. e = <<j, "card">> /\ reply[j].seed = seed
    BY <1>2 DEF Shown, SessionIsCurrent
  <2>2. j \in 1..MaxReplies
    BY GroupFacts
  <2> QED BY <2>1, <2>2
<1> QED BY <1>1, <1>2 DEF IsLate, Late

\* What holds after an interrupt has returned, whatever becomes of its request.
LEMMA ReturnedFacts ==
    ASSUME GroupInv, NEW k \in DOMAIN request, NEW q \in RequestRecords, Advances(k, q),
           NoneReturns(k, q) \/ \E a \in Members : OneReturns(k, q, a),
           reply' \in Seq(Replies), Len(reply') = Len(reply),
           \A j \in DOMAIN reply :
              /\ reply'[j].agent = reply[j].agent /\ reply'[j].seed = reply[j].seed
              /\ reply'[j].at = reply[j].at /\ ReplyOK(reply'[j], seed', version'),
           NEW late, IsLate(late), stored' \subseteq late,
           q.kind = "clear" /\ q.at = "done" => stored' = {},
           workspace' \in Workspaces, busy' \subseteq busy, fenced' \subseteq fenced,
           paused' \in BOOLEAN, waiting' \in [Members -> 0..NoMention],
           Fails, UNCHANGED <<asked, bounds>>
    PROVE  /\ GroupTypeOK' /\ BoundInv' /\ ReplyInv' /\ RequestInv' /\ CountInv'
           /\ LockInv' /\ StoredInv' /\ FenceInv' /\ ClearedStaysCleared'
           /\ DOMAIN request' = DOMAIN request /\ request'[k] = q
           /\ \A j \in DOMAIN request : j # k => request'[j] = request[j]
           /\ \A j \in Unfinished : j \in Unfinished' /\ reply'[j].agent = reply[j].agent
<1>1. /\ request' \in Seq(RequestRecords) /\ DOMAIN request' = DOMAIN request
      /\ Len(request') = Len(request)
      /\ request'[k] = q /\ \A j \in DOMAIN request : j # k => request'[j] = request[j]
      /\ RequestInv' /\ CountInv'
      /\ seed' \in Seeds /\ version' \in [Members -> [Seeds -> 0..MaxRequests]]
  BY RequestsAfter
<1>2. /\ DOMAIN reply' = DOMAIN reply /\ ReplyInv' /\ Unfinished' = Unfinished
      /\ \A j \in Unfinished : j \in DOMAIN reply
  BY RepliesBeside
<1>3. /\ \A j \in Unfinished : j \in Unfinished' /\ reply'[j].agent = reply[j].agent
  BY <1>2
<1>4. LockInv'
  BY <1>3 DEF GroupInv, LockInv
<1>5. StoredInv' /\ stored' \subseteq (1..MaxReplies) \X {"message", "card"}
  BY <1>2 DEF StoredInv, IsLate
<1>6. seed \in Nat /\ seed' \in Nat /\ seed <= seed' /\ fenced \subseteq Seeds
  BY GroupFacts DEF Advances
<1>7. FenceInv' /\ fenced' \subseteq Seeds
  BY <1>6 DEF GroupInv, FenceInv, Seeds
<1>8. ClearedStaysCleared'
  <2> SUFFICES ASSUME NEW j \in DOMAIN request', request'[j].kind = "clear", request'[j].at = "done",
                      NEW e \in stored'
               PROVE  reply'[e[1]].seed > request'[j].seed
    BY DEF ClearedStaysCleared
  <2>1. j # k /\ j \in DOMAIN request /\ request'[j] = request[j]
    BY <1>1
  <2>2. e[1] \in DOMAIN reply /\ (e \in stored \/ reply[e[1]].seed = seed)
    BY DEF IsLate
  <2>3. CASE e \in stored
    <3>1. reply[e[1]].seed > request[j].seed
      BY <2>1, <2>3 DEF GroupInv, ClearedStaysCleared
    <3> QED BY <2>1, <2>2, <3>1
  <2>4. CASE reply[e[1]].seed = seed
    <3>1. request[j].seed < seed /\ request[j].seed \in Nat
      BY <2>1, GroupFacts DEF GroupInv, RequestInv, RequestOK, RequestRecords, Seeds
    <3> QED BY <1>6, <2>1, <2>2, <2>4, <3>1
  <2> QED BY <2>2, <2>3, <2>4
<1>9. busy' \subseteq Members
  BY GroupFacts
<1>10. GroupTypeOK'
  BY <1>1, <1>5, <1>7, <1>9 DEF GroupInv, GroupTypeOK, Fails
<1>11. BoundInv'
  BY <1>1 DEF GroupInv, BoundInv, Fails
<1> QED BY <1>1, <1>2, <1>3, <1>4, <1>5, <1>7, <1>8, <1>10, <1>11

\* An interrupt returns and its request goes on, fails or is done.
LEMMA InterruptReturnsStep ==
    ASSUME GroupInv, NEW k \in DOMAIN request, NEW a \in Members, InterruptReturns(k, a)
    PROVE  GroupInv'
<1>1. request[k].at = "interrupting" /\ UNCHANGED <<asked, bounds>>
  BY DEF InterruptReturns, Interrupts, counted
<1>2. PICK c \in RequestRecords : c = request[k] /\ RequestOK(c, seed)
  BY GroupFacts DEF GroupInv, RequestInv
<1>3. PICK confirmed \in BOOLEAN :
         LET q == [request[k] EXCEPT !.call[a] = IF confirmed THEN "returned" ELSE "unsynced"]
             mine == {j \in DOMAIN reply : confirmed /\ reply[j].agent = a}
             late == stored \union UNION {Shown(j, reply[j]) : j \in mine}
         IN  /\ IF confirmed THEN request[k].call[a] = "stopped" /\ NoFault
                             ELSE request[k].call[a] = "called" /\ Fault
             /\ version' = IF confirmed THEN [version EXCEPT ![a][q.seed] = @ + 1] ELSE version
             /\ reply' = [j \in DOMAIN reply |-> IF j \in mine THEN CardSettled(reply[j], "aborted")
                                                               ELSE reply[j]]
             /\ IF \E b \in Members : q.call[b] \in {"called", "stopped"}
                  THEN /\ request' = [request EXCEPT ![k] = q] /\ stored' = late
                       /\ UNCHANGED <<seed, workspace, fenced, locks>>
                  ELSE RequestEnds(k, q, late)
  BY DEF InterruptReturns
<1>4. PICK q \in RequestRecords :
         q = [c EXCEPT !.call[a] = IF confirmed THEN "returned" ELSE "unsynced"]
  BY DEF RequestRecords, CallStates
<1>5. PICK late : late = Late(a, confirmed)
  OBVIOUS
<1>6. /\ confirmed => c.call[a] = "stopped"
      /\ ~confirmed => c.call[a] = "called"
      /\ Fails
      /\ version' = IF confirmed THEN [version EXCEPT ![a][q.seed] = @ + 1] ELSE version
      /\ reply' = [j \in DOMAIN reply |->
                     IF confirmed /\ reply[j].agent = a THEN CardSettled(reply[j], "aborted") ELSE reply[j]]
      /\ \/ /\ request' = [request EXCEPT ![k] = q] /\ stored' = late
            /\ UNCHANGED <<seed, workspace, fenced, busy, paused, waiting>>
         \/ RequestEnds(k, q, late) /\ \A b \in Members : q.call[b] \notin {"called", "stopped"}
  <2>1. q = [request[k] EXCEPT !.call[a] = IF confirmed THEN "returned" ELSE "unsynced"]
    BY <1>2, <1>4
  <2>2. /\ IF confirmed THEN request[k].call[a] = "stopped" /\ NoFault
                        ELSE request[k].call[a] = "called" /\ Fault
        /\ version' = IF confirmed THEN [version EXCEPT ![a][q.seed] = @ + 1] ELSE version
        /\ reply' = [j \in DOMAIN reply |->
                       IF confirmed /\ reply[j].agent = a THEN CardSettled(reply[j], "aborted") ELSE reply[j]]
        /\ IF \E b \in Members : q.call[b] \in {"called", "stopped"}
             THEN /\ request' = [request EXCEPT ![k] = q] /\ stored' = late
                  /\ UNCHANGED <<seed, workspace, fenced, locks>>
             ELSE RequestEnds(k, q, late)
    BY <1>3, <1>5, <2>1 DEF Late
  <2>3. Fails
    BY <2>2, FaultFacts
  <2> QED BY <1>2, <2>2, <2>3 DEF locks
<1> HIDE DEF InterruptReturns
<1>7. /\ q.kind = c.kind /\ q.seed = c.seed /\ q.at = "interrupting" /\ q.target = c.target
      /\ q.target \in Workspaces /\ q.seed \in Seeds
      /\ q.call[a] = IF confirmed THEN "returned" ELSE "unsynced"
      /\ \A b \in Members : b # a => q.call[b] = c.call[b]
  BY <1>1, <1>2, <1>4 DEF RequestRecords
<1>8. /\ RequestOK(q, seed)
      /\ Resets(q) => \A b \in Members : q.call[b] # "none"
  BY <1>1, <1>2, <1>7 DEF RequestOK, Resets
<1>9. seed \in Nat /\ workspace \in Workspaces /\ paused \in BOOLEAN /\ IsLate(late)
      /\ waiting \in [Members -> 0..NoMention] /\ NoMention \in 0..NoMention
  <2>1. NoMention \in 0..NoMention
    BY GroupFacts DEF NoMention
  <2> QED BY <1>5, <2>1, LateFacts, GroupFacts DEF GroupInv, GroupTypeOK
<1>10. /\ reply' \in Seq(Replies) /\ Len(reply') = Len(reply)
       /\ \A j \in DOMAIN reply :
             /\ reply'[j].agent = reply[j].agent /\ reply'[j].seed = reply[j].seed
             /\ reply'[j].at = reply[j].at
             /\ ReplyOK(reply'[j], seed, version') /\ ReplyOK(reply'[j], seed + 1, version')
  <2>1. CASE confirmed
    <3>0. PICK x \in Seeds : x = q.seed
      BY <1>7
    <3>1. PICK base, v : base = reply' /\ v = version'
      OBVIOUS
    <3>2. /\ base = [j \in DOMAIN reply |->
                       IF reply[j].agent = a THEN CardSettled(reply[j], "aborted") ELSE reply[j]]
          /\ v = [version EXCEPT ![a][x] = @ + 1]
      BY <1>6, <2>1, <3>0, <3>1
    <3>3. /\ base \in Seq(Replies) /\ Len(base) = Len(reply)
          /\ \A j \in DOMAIN reply :
                /\ base[j] \in Replies /\ base[j].agent = reply[j].agent
                /\ base[j].seed = reply[j].seed /\ base[j].at = reply[j].at
                /\ ReplyOK(base[j], seed, v)
      BY <3>2, SettledReplies
    <3> QED BY <1>9, <3>1, <3>3, SeedGrows
  <2>2. CASE ~confirmed
    <3>1. reply \in Seq(Replies) /\ version' = version /\ reply' = reply
      BY <1>6, <2>2, GroupFacts DEF GroupInv, GroupTypeOK
    <3>2. \A j \in DOMAIN reply : reply[j] \in Replies /\ ReplyOK(reply[j], seed, version)
      BY ReplyFacts
    <3> QED BY <1>9, <3>1, <3>2, SeedGrows
  <2> QED BY <2>1, <2>2
<1>11. ASSUME NEW d \in RequestRecords, d.kind = c.kind, d.seed = c.seed, d.call = q.call
       PROVE  NoneReturns(k, d) \/ \E b \in Members : OneReturns(k, d, b)
  <2>1. CASE confirmed
    <3>1. /\ version' = [version EXCEPT ![a][d.seed] = @ + 1]
          /\ request[k].call[a] # "returned" /\ d.call[a] = "returned"
          /\ \A b \in Members : request[k].call[b] = "returned" => d.call[b] = "returned"
      BY <1>2, <1>6, <1>7, <1>11, <2>1
    <3> QED BY <1>2, <1>11, <3>1 DEF OneReturns
  <2>2. CASE ~confirmed
    <3>1. /\ UNCHANGED version
          /\ \A b \in Members : request[k].call[b] = "returned" => d.call[b] = "returned"
      BY <1>2, <1>6, <1>7, <1>11, <2>2
    <3> QED BY <1>2, <1>11, <3>1 DEF NoneReturns
  <2> QED BY <2>1, <2>2
<1>12. \A j \in DOMAIN request : Resets(request[j]) <=> request[j].kind \in {"clear", "workspace"}
  BY DEF Resets
<1>13. CASE /\ request' = [request EXCEPT ![k] = q] /\ stored' = late
            /\ UNCHANGED <<seed, workspace, fenced, busy, paused, waiting>>
  <2>1. Advances(k, q)
    BY <1>1, <1>2, <1>7, <1>8, <1>13 DEF Advances
  <2>2. NoneReturns(k, q) \/ \E b \in Members : OneReturns(k, q, b)
    BY <1>7, <1>11
  <2>3. /\ GroupTypeOK' /\ BoundInv' /\ ReplyInv' /\ RequestInv' /\ CountInv'
        /\ LockInv' /\ StoredInv' /\ FenceInv' /\ ClearedStaysCleared'
        /\ DOMAIN request' = DOMAIN request /\ request'[k] = q
        /\ \A j \in DOMAIN request : j # k => request'[j] = request[j]
        /\ \A j \in Unfinished : j \in Unfinished' /\ reply'[j].agent = reply[j].agent
    BY <1>1, <1>6, <1>7, <1>9, <1>10, <1>13, <2>1, <2>2, ReturnedFacts
  <2>4. \A j \in DOMAIN request : /\ request'[j].kind = request[j].kind /\ request'[j].at = request[j].at
                                  /\ request'[j].seed = request[j].seed
                                  /\ Resets(request[j]) => Resets(request'[j])
    BY <1>1, <1>2, <1>7, <2>3 DEF Resets
  <2>5. WaitingMentionIsServed'
    <3> SUFFICES ASSUME NEW b \in Members, waiting[b] # NoMention
                 PROVE  \/ \E j \in Unfinished' : reply'[j].agent = b
                        \/ paused
                        \/ \E j \in DOMAIN request' : Resets(request'[j]) /\ request'[j].at = "failed"
      BY <1>13 DEF WaitingMentionIsServed, NoMention, Resets
    <3>1. \/ \E j \in Unfinished : reply[j].agent = b
          \/ paused
          \/ \E j \in DOMAIN request : Resets(request[j]) /\ request[j].at = "failed"
      BY DEF GroupInv, WaitingMentionIsServed
    <3> QED BY <2>3, <2>4, <3>1
  <2>6. ResetLetsGo'
    BY <1>13, <2>3, <2>4 DEF GroupInv, ResetLetsGo, Interrupts, Resets
  <2> QED BY <2>3, <2>5, <2>6 DEF GroupInv
<1>14. ASSUME RequestEnds(k, q, late), \E b \in Members : q.call[b] = "unsynced"
       PROVE  GroupInv'
  <2>1. PICK d \in RequestRecords : d = [q EXCEPT !.at = "failed"]
    BY DEF RequestRecords, RequestStages
  <2>2. d.kind = q.kind /\ d.seed = q.seed /\ d.call = q.call /\ d.at = "failed"
    BY <2>1 DEF RequestRecords
  <2>3. /\ request' = [request EXCEPT ![k] = d]
        /\ fenced' = IF Resets(q) THEN fenced \ {q.seed} ELSE fenced
        /\ paused' = (paused /\ ~Resets(q))
        /\ stored' = late
        /\ UNCHANGED <<seed, workspace, busy, waiting>>
    BY <1>14, <2>1 DEF RequestEnds
  <2>4. Advances(k, d)
    <3>1. RequestOK(d, seed)
      BY <1>8, <2>2 DEF RequestOK
    <3> QED BY <1>1, <1>2, <1>7, <2>2, <2>3, <3>1 DEF Advances
  <2>5. NoneReturns(k, d) \/ \E b \in Members : OneReturns(k, d, b)
    BY <1>7, <1>11, <2>2
  <2>6. fenced' \subseteq fenced /\ paused' \in BOOLEAN
    BY <1>9, <2>3
  <2>7. /\ GroupTypeOK' /\ BoundInv' /\ ReplyInv' /\ RequestInv' /\ CountInv'
        /\ LockInv' /\ StoredInv' /\ FenceInv' /\ ClearedStaysCleared'
        /\ DOMAIN request' = DOMAIN request /\ request'[k] = d
        /\ \A j \in DOMAIN request : j # k => request'[j] = request[j]
        /\ \A j \in Unfinished : j \in Unfinished' /\ reply'[j].agent = reply[j].agent
    BY <1>1, <1>6, <1>9, <1>10, <2>2, <2>3, <2>4, <2>5, <2>6, ReturnedFacts
  <2>8. Resets(q) => Resets(request'[k]) /\ request'[k].at = "failed"
    BY <2>2, <2>7 DEF Resets
  <2>9. \A j \in DOMAIN request : request[j].at # "interrupting" => j # k
    BY <1>1
  <2>10. WaitingMentionIsServed'
    <3> SUFFICES ASSUME NEW b \in Members, waiting[b] # NoMention
                 PROVE  \/ \E j \in Unfinished' : reply'[j].agent = b
                        \/ paused'
                        \/ \E j \in DOMAIN request' : Resets(request'[j]) /\ request'[j].at = "failed"
      BY <2>3 DEF WaitingMentionIsServed, NoMention, Resets
    <3>1. \/ \E j \in Unfinished : reply[j].agent = b
          \/ paused
          \/ \E j \in DOMAIN request : Resets(request[j]) /\ request[j].at = "failed"
      BY DEF GroupInv, WaitingMentionIsServed
    <3>2. CASE paused
      BY <2>3, <2>7, <2>8, <3>2
    <3> QED BY <2>7, <2>9, <3>1, <3>2
  <2>11. ResetLetsGo'
    <3>1. ASSUME NEW j \in DOMAIN request, j # k
          PROVE  /\ j \in DOMAIN request' /\ request'[j] = request[j]
                 /\ Resets(request[j]) => Resets(request'[j])
      BY <2>7, <3>1 DEF Resets
    <3>2. ~Resets(q) => ~Resets(request[k])
      BY <1>2, <1>7 DEF Resets
    <3>3. q.seed = request[k].seed
      BY <1>2, <1>7
    <3>4. paused' => \E j \in DOMAIN request' : Resets(request'[j]) /\ request'[j].at = "interrupting"
      BY <2>3, <3>1, <3>2 DEF GroupInv, ResetLetsGo, Interrupts
    <3>5. seed' \in fenced' =>
             \E j \in DOMAIN request' :
                /\ request'[j].seed = seed' /\ Resets(request'[j])
                /\ \/ request'[j].at = "interrupting"
                   \/ request'[j].kind = "workspace" /\ request'[j].at = "done"
      <4> SUFFICES ASSUME seed \in fenced'
                   PROVE  \E j \in DOMAIN request' :
                             /\ request'[j].seed = seed /\ Resets(request'[j])
                             /\ \/ request'[j].at = "interrupting"
                                \/ request'[j].kind = "workspace" /\ request'[j].at = "done"
        BY <2>3
      <4>1. seed \in fenced /\ (Resets(q) => q.seed # seed)
        BY <2>3
      <4>2. PICK j \in DOMAIN request :
               /\ request[j].seed = seed /\ Resets(request[j])
               /\ \/ request[j].at = "interrupting"
                  \/ request[j].kind = "workspace" /\ request[j].at = "done"
        BY <4>1 DEF GroupInv, ResetLetsGo, Interrupts
      <4>3. j # k
        BY <3>2, <3>3, <4>1, <4>2
      <4> QED BY <3>1, <4>2, <4>3
    <3> QED BY <3>4, <3>5 DEF ResetLetsGo, Interrupts, Resets
  <2> QED BY <2>7, <2>10, <2>11 DEF GroupInv
<1>15. ASSUME RequestEnds(k, q, late), \A b \in Members : q.call[b] \notin {"called", "stopped"},
              \A b \in Members : q.call[b] # "unsynced"
       PROVE  GroupInv'
  <2>1. PICK d \in RequestRecords : d = [q EXCEPT !.at = "done"]
    BY DEF RequestRecords, RequestStages
  <2>2. d.kind = q.kind /\ d.seed = q.seed /\ d.call = q.call /\ d.at = "done"
    BY <2>1 DEF RequestRecords
  <2>3. /\ request' = [request EXCEPT ![k] = d]
        /\ waiting' = [b \in Members |-> IF q.call[b] = "returned" THEN NoMention ELSE waiting[b]]
        /\ paused' = (paused /\ ~Resets(q))
        /\ UNCHANGED fenced
        /\ \/ /\ q.kind = "agent" /\ stored' = late
              /\ UNCHANGED <<seed, workspace, busy>>
           \/ /\ q.kind = "clear" /\ stored' = {} /\ busy' = {} /\ seed' = seed + 1
              /\ UNCHANGED workspace
           \/ /\ q.kind = "workspace" /\ workspace' = q.target /\ (seed' = seed \/ seed' = seed + 1)
              /\ stored' = late /\ UNCHANGED busy
    BY <1>15, <2>1 DEF RequestEnds, WorkspaceUpdated
  <2>4. /\ stored' \subseteq late /\ (d.kind = "clear" => stored' = {})
        /\ busy' \subseteq busy /\ workspace' \in Workspaces
        /\ seed' = seed \/ seed' = seed + 1
        /\ d.kind = "clear" => seed' = seed + 1
    BY <1>7, <1>9, <2>2, <2>3
  <2>5. Advances(k, d)
    <3>1. d.seed <= seed /\ d.seed \in Nat
      BY <1>8, <2>2 DEF RequestOK, RequestRecords, Seeds
    <3>2. RequestOK(d, seed')
      BY <1>9, <2>2, <2>4, <3>1 DEF RequestOK
    <3> QED BY <1>1, <1>2, <1>7, <2>2, <2>3, <2>4, <3>2 DEF Advances
  <2>6. NoneReturns(k, d) \/ \E b \in Members : OneReturns(k, d, b)
    BY <1>7, <1>11, <2>2
  <2>7. /\ paused' \in BOOLEAN /\ waiting' \in [Members -> 0..NoMention]
        /\ \A b \in Members : waiting'[b] # NoMention =>
              q.call[b] # "returned" /\ waiting[b] # NoMention
    BY <1>9, <2>3
  <2>8. \A j \in DOMAIN reply :
           /\ reply'[j].agent = reply[j].agent /\ reply'[j].seed = reply[j].seed
           /\ reply'[j].at = reply[j].at /\ ReplyOK(reply'[j], seed', version')
    BY <1>10, <2>4
  <2>9. /\ GroupTypeOK' /\ BoundInv' /\ ReplyInv' /\ RequestInv' /\ CountInv'
        /\ LockInv' /\ StoredInv' /\ FenceInv' /\ ClearedStaysCleared'
        /\ DOMAIN request' = DOMAIN request /\ request'[k] = d
        /\ \A j \in DOMAIN request : j # k => request'[j] = request[j]
        /\ \A j \in Unfinished : j \in Unfinished' /\ reply'[j].agent = reply[j].agent
    BY <1>1, <1>6, <1>9, <1>10, <2>3, <2>4, <2>5, <2>6, <2>7, <2>8, ReturnedFacts
  <2>10. ASSUME NEW j \in DOMAIN request, j # k
         PROVE  /\ j \in DOMAIN request' /\ request'[j] = request[j]
                /\ Resets(request[j]) => Resets(request'[j])
    BY <2>9, <2>10 DEF Resets
  <2>11. WaitingMentionIsServed'
    <3> SUFFICES ASSUME NEW b \in Members, waiting'[b] # NoMention
                 PROVE  \/ \E j \in Unfinished' : reply'[j].agent = b
                        \/ paused'
                        \/ \E j \in DOMAIN request' : Resets(request'[j]) /\ request'[j].at = "failed"
      BY DEF WaitingMentionIsServed, NoMention, Resets
    <3>1. \/ \E j \in Unfinished : reply[j].agent = b
          \/ paused
          \/ \E j \in DOMAIN request : Resets(request[j]) /\ request[j].at = "failed"
      BY <2>7 DEF GroupInv, WaitingMentionIsServed
    <3>2. ~Resets(q)
      <4>1. q.call[b] \in CallStates /\ q.call[b] # "returned"
        BY <2>7 DEF RequestRecords
      <4> QED BY <1>8, <1>15, <4>1 DEF CallStates
    <3> QED BY <1>1, <2>3, <2>9, <2>10, <3>1, <3>2
  <2>12. ResetLetsGo'
    <3>1. ~Resets(q) => ~Resets(request[k])
      BY <1>2, <1>7 DEF Resets
    <3>2. paused' => \E j \in DOMAIN request' : Resets(request'[j]) /\ request'[j].at = "interrupting"
      BY <2>3, <2>10, <3>1 DEF GroupInv, ResetLetsGo, Interrupts
    <3>3. ASSUME seed' \in fenced'
          PROVE  \E j \in DOMAIN request' :
                    /\ request'[j].seed = seed' /\ Resets(request'[j])
                    /\ \/ request'[j].at = "interrupting"
                       \/ request'[j].kind = "workspace" /\ request'[j].at = "done"
      <4>1. seed' = seed /\ seed \in fenced /\ d.kind # "clear"
        BY <1>9, <2>3, <2>4, <3>3 DEF GroupInv, FenceInv
      <4>2. PICK j \in DOMAIN request :
               /\ request[j].seed = seed /\ Resets(request[j])
               /\ \/ request[j].at = "interrupting"
                  \/ request[j].kind = "workspace" /\ request[j].at = "done"
        BY <4>1 DEF GroupInv, ResetLetsGo, Interrupts
      <4>3. CASE j # k
        BY <2>10, <4>1, <4>2, <4>3
      <4>4. CASE j = k
        <5>1. request'[k].kind = "workspace" /\ request'[k].seed = seed /\ request'[k].at = "done"
          BY <1>2, <1>7, <2>2, <2>9, <4>1, <4>2, <4>4 DEF Resets
        <5> QED BY <2>9, <4>1, <5>1 DEF Resets
      <4> QED BY <4>3, <4>4
    <3> QED BY <3>2, <3>3 DEF ResetLetsGo, Interrupts, Resets
  <2> QED BY <2>9, <2>11, <2>12 DEF GroupInv
<1> QED BY <1>6, <1>13, <1>14, <1>15

LEMMA GroupStutters == ASSUME GroupInv, UNCHANGED groupVars PROVE GroupInv'
<1>1. UNCHANGED <<seed, workspace, stored, fenced, busy, paused, waiting, version, reply,
                  request, asked, failures, bounds>>
  BY DEF groupVars, room, locks
<1>2. GroupTypeOK' /\ BoundInv'
  BY <1>1 DEF GroupInv, GroupTypeOK, BoundInv
<1>3. ReplyInv' /\ RequestInv'
  BY <1>1 DEF GroupInv, ReplyInv, ReplyOK, RequestInv, RequestOK, Resets
<1>4. CountInv'
  BY <1>1 DEF GroupInv, CountInv, Ended, Confirmed
<1>5. LockInv' /\ StoredInv' /\ FenceInv' /\ ClearedStaysCleared'
  BY <1>1 DEF GroupInv, LockInv, StoredInv, FenceInv, Unfinished, ClearedStaysCleared
<1>6. WaitingMentionIsServed'
  BY <1>1 DEF GroupInv, WaitingMentionIsServed, Unfinished, Resets
<1>7. ResetLetsGo'
  BY <1>1 DEF GroupInv, ResetLetsGo, Interrupts, Resets
<1> QED BY <1>2, <1>3, <1>4, <1>5, <1>6, <1>7 DEF GroupInv

LEMMA GroupInvInit == GroupInit => GroupInv
<1> SUFFICES ASSUME GroupInit PROVE GroupInv
  OBVIOUS
<1>1. /\ seed = 0 /\ workspace = "first" /\ stored = {} /\ fenced = {}
      /\ version = [a \in Members |-> [s \in Seeds |-> 0]]
      /\ busy = {} /\ paused = FALSE
      /\ waiting = [a \in Members |-> NoMention]
      /\ reply = <<>> /\ request = <<>>
      /\ asked = 0 /\ failures = 0
  BY DEF GroupInit
<1>2. /\ MaxDepth \in Nat \ {0} /\ MaxReplies \in Nat /\ MaxRequests \in Nat
      /\ bounds \in GroupBudget /\ Len(bounds.requests) <= MaxRequests
  BY GroupAssumption DEF GroupInit
<1>3. /\ bounds.asks \in Nat /\ bounds.faults \in Nat /\ Len(bounds.requests) \in Nat
  BY <1>2 DEF GroupBudget
<1>4. BoundInv
  BY <1>1, <1>2, <1>3 DEF BoundInv
<1>5. /\ version \in [Members -> [Seeds -> 0..MaxRequests]]
      /\ waiting \in [Members -> 0..NoMention] /\ seed \in Seeds
  BY <1>1, <1>2 DEF Seeds, NoMention
<1>6. GroupTypeOK
  <2>1. /\ fenced \subseteq Seeds /\ workspace \in Workspaces
        /\ stored \subseteq (1..MaxReplies) \X {"message", "card"}
        /\ busy \subseteq Members /\ paused \in BOOLEAN
    BY <1>1 DEF Workspaces
  <2>2. reply \in Seq(Replies) /\ Len(reply) <= MaxReplies /\ request \in Seq(RequestRecords)
    BY <1>1, <1>2
  <2>3. asked <= bounds.asks /\ failures <= bounds.faults
    BY <1>1, <1>3
  <2> QED BY <1>5, <2>1, <2>2, <2>3 DEF GroupTypeOK
<1>7. ReplyInv /\ RequestInv
  BY <1>1 DEF ReplyInv, RequestInv
<1>8. CountInv
  <2>1. Cardinality(Ended) \in Nat
    <3>1. PICK S : S = Ended
      OBVIOUS
    <3>2. S \subseteq 1..0
      BY <1>1, <3>1 DEF Ended
    <3> QED BY <3>1, <3>2, SomeRequests
  <2>2. ASSUME NEW a \in Members, NEW s \in Seeds
        PROVE  Cardinality(Confirmed(a, s)) \in Nat
    <3>1. PICK S : S = Confirmed(a, s)
      OBVIOUS
    <3>2. S \subseteq 1..0
      BY <1>1, <3>1 DEF Confirmed
    <3> QED BY <3>1, <3>2, SomeRequests
  <2> QED BY <1>1, <2>1, <2>2 DEF CountInv
<1>9. LockInv /\ StoredInv /\ FenceInv /\ ClearedStaysCleared
  BY <1>1 DEF LockInv, StoredInv, FenceInv, ClearedStaysCleared
<1>10. WaitingMentionIsServed /\ ResetLetsGo
  BY <1>1, <1>5 DEF WaitingMentionIsServed, ResetLetsGo, NoMention
<1> QED BY <1>4, <1>6, <1>7, <1>8, <1>9, <1>10 DEF GroupInv

LEMMA GroupInvStep == GroupInv /\ [GroupNext]_groupVars => GroupInv'
<1> SUFFICES ASSUME GroupInv, [GroupNext]_groupVars PROVE GroupInv'
  OBVIOUS
<1>1. CASE \E a \in Members : Ask(a)
  BY <1>1, AskStep
<1>2. ASSUME NEW i \in DOMAIN reply, ReplyMoves(i) PROVE GroupInv'
  BY <1>2, ContextBuiltStep, BridgeAcceptsStep, ReplyStartedStep, RunEndsStep, PartSentStep,
     StreamEndsStep, ThrowsStep, ServerTakesStep, AcknowledgedStep, RejectedStep, StopRunStep,
     DestroyRunStep
     DEF ReplyMoves
<1>3. CASE Receive
  BY <1>3, ReceiveStep
<1>4. ASSUME NEW k \in DOMAIN request,
             \/ Validated(k)
             \/ \E a \in Members : BridgeStops(k, a) \/ InterruptReturns(k, a)
      PROVE  GroupInv'
  BY <1>4, ValidatedStep, BridgeStopsStep, InterruptReturnsStep
<1>5. CASE UNCHANGED groupVars
  BY <1>5, GroupStutters
<1> QED BY <1>1, <1>2, <1>3, <1>4, <1>5 DEF GroupNext

\* The invariant of the room holds in every behaviour.
THEOREM GroupSpecInv == GroupSpec => []GroupInv
BY GroupInvInit, GroupInvStep, PTL DEF GroupSpec

\* The room's variables keep their types, and the replies, the requests, the depth of
\* a mention and the marks of the sessions their bounds (agent-clients.ts).
THEOREM GroupTypeCorrect == GroupSpec => []GroupTypeOK
<1>1. GroupInv => GroupTypeOK
  BY DEF GroupInv
<1> QED BY <1>1, GroupSpecInv, PTL

\* A room that was cleared stays cleared, however late what was said or changed before
\* arrives (canPersistAgentMessageForCurrentSession, finalizeWorkspaceDiffOnce).
THEOREM ClearedIsGone == GroupSpec => []ClearedStaysCleared
<1>1. GroupInv => ClearedStaysCleared
  BY DEF GroupInv
<1> QED BY <1>1, GroupSpecInv, PTL

\* The agents of a room never fall silent: a waiting mention has somebody who will
\* answer or discard it, and a reset lets go of the room (interruptRoom, _drainQueue).
THEOREM RoomIsOpen == GroupSpec => []RoomStaysOpen
<1>1. GroupInv => RoomStaysOpen
  BY DEF GroupInv, RoomStaysOpen
<1> QED BY <1>1, GroupSpecInv, PTL

\* What a run changed is shown: its card is settled when the reply is over, and is
\* dropped only with the session itself (finalizeWorkspaceDiffOnce).
THEOREM ChangesShown == GroupSpec => []ChangesAreShown
<1>1. ASSUME GroupInv PROVE ChangesAreShown
  <2>1. seed \in Nat /\ \A i \in DOMAIN reply : reply[i] \in Replies /\ ReplyOK(reply[i], seed, version)
    BY <1>1, GroupFacts, ReplyFacts
  <2> QED BY <2>1 DEF ChangesAreShown, ReplyOK, Replies, Seeds
<1> QED BY <1>1, GroupSpecInv, PTL

-----------------------------------------------------------------------------
(* MCStudio: the parts side by side.                                         *)

\* A behaviour of MCStudio is one of the chat session, one of the workflow, one of the
\* bridge and one of the room, which stutter while another part is explored.
LEMMA StudioIsItsParts == Spec => /\ ChatInit /\ [][ChatNext]_chatVars
                                  /\ WorkflowInit /\ [][WorkflowNext]_workflowVars
                                  /\ BridgeInit /\ [][BridgeNext]_bridgeVars
                                  /\ GroupInit /\ [][GroupNext]_groupVars
<1>1. Init => ChatInit /\ WorkflowInit /\ BridgeInit /\ GroupInit
  BY DEF Init
<1>2. [Next]_vars => /\ [ChatNext]_chatVars /\ [WorkflowNext]_workflowVars
                     /\ [BridgeNext]_bridgeVars /\ [GroupNext]_groupVars
  BY DEF Next, vars
<1> QED BY <1>1, <1>2, PTL DEF Spec

\* Side by side, the chat session, the workflow, the bridge and the room keep their types.
THEOREM StudioTypesCorrect == Spec => []StudioTypeOK
<1>1. ChatInv /\ WorkflowInv /\ BridgeInv /\ GroupInv => StudioTypeOK
  BY InvImpliesTypes DEF ChatInv, BridgeInv, GroupInv, StudioTypeOK
<1>2. WorkflowInit => WorkflowInv
  BY InitKeeps
<1>3. WorkflowInv /\ [WorkflowNext]_workflowVars => WorkflowInv'
  BY NextKeeps
<1> QED BY <1>1, <1>2, <1>3, StudioIsItsParts, ChatInvInit, ChatInvStep, BridgeInvInit,
           BridgeInvStep, GroupInvInit, GroupInvStep, PTL
=============================================================================
