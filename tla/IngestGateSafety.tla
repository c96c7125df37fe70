-------------------------- MODULE IngestGateSafety --------------------------
(***************************************************************************)
(* What the steps of IngestGate may do to a draft, and the theorems that    *)
(* follow: a rejection is final in every deployment; in the deployments the *)
(* gate is built for, one thread works at a time, a publication is final,   *)
(* and a reviewer decides about a proposal that is current and stable; and, *)
(* with any number of drafts, threads and compilers, with crashes, failures *)
(* and lost kicks, IngestGate implements ReviewLedger and shows nothing     *)
(* nobody approved.                                                         *)
(***************************************************************************)
EXTENDS IngestGateProofs

-----------------------------------------------------------------------------
(* How a status can change. *)

\* A step of the thread w: the only one that writes a status it did not test
\* in the same critical section, except for a rejection.
Worked(w) ==
    \/ UNCHANGED status
    \/ /\ pc[w] # "idle" /\ status[job[w]] # "Rejected"
       /\ \E s \in {"Drafting", "AwaitingReview", "Failed"} : Moved(job[w], s)

\* A step of anybody else on the draft d.
OtherMove(d) ==
    \/ status'[d] = status[d]
    \/ status[d] = "Absent" /\ status'[d] = "Uploaded"
    \/ status[d] \in {"Uploaded", "RevisionRequested"} /\ status'[d] \in {"Parsing", "Drafting"}
    \/ /\ status[d] = "Drafting" /\ status'[d] \in {"AwaitingReview", "Failed"}
       /\ kind[d] = "source" /\ Compilers # {}
    \/ status[d] \in {"AwaitingReview", "Failed"} /\ status'[d] = "RevisionRequested"
    \/ status[d] \notin {"Absent", "Trusted", "Publishing"} /\ status'[d] = "Rejected"
    \/ status[d] = "AwaitingReview" /\ status'[d] = "Publishing"
    \/ /\ status[d] = "Publishing" /\ status'[d] = "Trusted"
       /\ PublishDraft /\ d = tx.draft
    \/ /\ status[d] = "Publishing" /\ status'[d] = "AwaitingReview"
       /\ PublishFails /\ d = tx.draft
    \/ /\ Interrupted(d) /\ status'[d] = "Uploaded"
       /\ ~up \/ "select" \in Disturbances

\* Every step that is not a thread's own.
OtherStep ==
    \/ \E c \in Contents : CreateSource(c)
    \/ \E c \in Contents, p \in TopicPages : CreateGenerated(c, p)
    \/ KickQueue
    \/ KickIsLost
    \/ \E x \in Compilers : Compile(x)
    \/ \E d \in Drafts : RequestRevision(d) \/ RejectDraft(d) \/ ApproveDraft(d)
    \/ PublishStep
    \/ PublishFails
    \/ PublishFailureIsLost
    \/ Crash
    \/ Restart
    \/ SelectProject
    \/ UNCHANGED vars

LEMMA StepsAreOfThreadsOrOthers ==
    ASSUME [Next]_vars
    PROVE  OtherStep \/ \E w \in Workers : ThreadStep(w)
  BY DEF Next, OtherStep

LEMMA ThreadMoves ==
    ASSUME Inv, NEW w \in Workers, ThreadStep(w)
    PROVE  Worked(w)
<1>1. CASE ThreadStops(w) \/ Enrich(w) \/ Propose(w) \/ FailureIsLost(w)
  BY <1>1 DEF Worked, ThreadStops, Enrich, Propose, FailureIsLost, disk
<1>2. CASE Extract(w) \/ MarkForEnrichment(w) \/ Finish(w)
  BY <1>2 DEF Worked, Extract, MarkForEnrichment, Finish, Withdrawn
<1>3. CASE ThreadFails(w)
  BY <1>3 DEF Worked, ThreadFails, ThreadMayFail, Withdrawn, Moved
<1> QED BY <1>1, <1>2, <1>3 DEF ThreadStep

\* Moved writes one status and no other.
LEMMA MovedOnly ==
    ASSUME Inv, NEW d \in Drafts, NEW s, Moved(d, s), NEW e \in Drafts
    PROVE  status'[e] = IF e = d THEN s ELSE status[e]
  BY DEF Moved, Inv, TypeOK

LEMMA ClaimedDraft ==
    ASSUME Claimable # {}
    PROVE  NextClaim \in Claimable
<1> DEFINE S == {e \in Claimable : status[e] = "Drafting"}
<1>1. S \in SUBSET Drafts /\ Claimable \in SUBSET Drafts
  BY DEF Claimable
<1>2. CASE S # {}
  BY <1>1, <1>2, OldestIsMember DEF NextClaim
<1>3. CASE S = {}
  BY <1>1, <1>3, OldestIsMember DEF NextClaim
<1> QED BY <1>2, <1>3

LEMMA OtherMoves ==
    ASSUME Inv, OtherStep, NEW e \in Drafts
    PROVE  OtherMove(e)
<1>1. CASE UNCHANGED status
  BY <1>1 DEF OtherMove
<1>2. ASSUME NEW k, NEW c, NewDraft(k, c) PROVE OtherMove(e)
  <2>1. created + 1 \in Drafts /\ status[created + 1] = "Absent" /\ Moved(created + 1, "Uploaded")
    BY <1>2, BoundsAreNaturals DEF NewDraft, Inv, TypeOK, DraftInv, Drafts
  <2> QED BY <2>1, MovedOnly DEF OtherMove
<1>3. CASE KickQueue
  <2>1. CASE KickFindsNothing
    BY <1>1, <2>1 DEF KickFindsNothing, disk
  <2>2. ASSUME NEW w \in Workers, KickStartsThread(w) PROVE OtherMove(e)
    BY <2>2, QueuedIsOldest, MovedOnly DEF KickStartsThread, OtherMove
  <2> QED BY <1>3, <2>1, <2>2 DEF KickQueue
<1>4. ASSUME NEW x \in Compilers, Compile(x) PROVE OtherMove(e)
  <2>1. CASE ClaimCompilation(x)
    <3>1. NextClaim \in Claimable /\ Moved(NextClaim, "Drafting")
      BY <2>1, ClaimedDraft DEF ClaimCompilation
    <3> QED BY <3>1, MovedOnly DEF OtherMove, Claimable
  <2>2. CASE DropCompilation(x)
    BY <1>1, <2>2 DEF DropCompilation, disk
  <2>3. ASSUME NEW s \in {"AwaitingReview", "Failed"}, Reports(x),
               ClaimIsCurrent(compiling[x].draft, compiling[x].rev),
               Moved(compiling[x].draft, s)
        PROVE  OtherMove(e)
    <3>1. compiling[x].draft \in Drafts /\ kind[compiling[x].draft] = "source"
      BY <2>3 DEF Reports, Inv, ClaimInv, Existing
    <3> QED BY <2>3, <3>1, MovedOnly DEF OtherMove, ClaimIsCurrent
  <2> QED BY <1>4, <2>1, <2>2, <2>3 DEF Compile, SubmitCompilation, FailCompilation
<1>5. ASSUME NEW d \in Drafts, RequestRevision(d) \/ RejectDraft(d) \/ ApproveDraft(d)
      PROVE  OtherMove(e)
  BY <1>5, MovedOnly
  DEF RequestRevision, RejectDraft, ApproveDraft, CanRevise, CanReject, CanApprove, OtherMove
<1>6. CASE PublishDraft \/ PublishFails
  <2>1. tx.draft \in Drafts /\ status[tx.draft] = "Publishing"
    BY <1>6 DEF Inv, TxInv, PublishDraft, PublishFails, RollBack
  <2> QED BY <1>6, <2>1, MovedOnly DEF PublishDraft, PublishFails, OtherMove
<1>7. CASE Restart \/ SelectProject
  <2>1. ResumeQueuedDrafts /\ (~up \/ "select" \in Disturbances)
    BY <1>7 DEF Restart, SelectProject, Disturb
  <2> QED BY <2>1 DEF ResumeQueuedDrafts, OtherMove
<1>8. CASE KickIsLost \/ PublishPage \/ PublishRegistry \/ PublishFailureIsLost
           \/ Crash \/ UNCHANGED vars
  BY <1>1, <1>8
  DEF KickIsLost, PublishPage, PublishRegistry, PublishFailureIsLost, Crash, vars, disk
<1> QED
  BY <1>2, <1>3, <1>4, <1>5, <1>6, <1>7, <1>8
  DEF OtherStep, CreateSource, CreateGenerated, PublishStep

-----------------------------------------------------------------------------
(* Rejections. *)

\* Nobody moves a rejected draft: everybody who takes the mutex looks first.
LEMMA RejectedStays ==
    ASSUME Inv, [Next]_vars, NEW d \in Drafts, status[d] = "Rejected"
    PROVE  status'[d] = "Rejected"
<1>1. CASE OtherStep
  BY <1>1, OtherMoves DEF OtherMove, Interrupted
<1>2. ASSUME NEW w \in Workers, ThreadStep(w) PROVE status'[d] = "Rejected"
  <2>1. CASE UNCHANGED status
    BY <2>1
  <2>2. ASSUME NEW s, pc[w] # "idle", status[job[w]] # "Rejected", Moved(job[w], s)
        PROVE  status'[d] = "Rejected"
    BY <2>2, ThreadHasDraft, MovedOnly
  <2> QED BY <1>2, <2>1, <2>2, ThreadMoves DEF Worked
<1> QED BY <1>1, <1>2, StepsAreOfThreadsOrOthers

\* RejectedIsFinal in every deployment and with every disturbance, also where
\* two threads or a thread and a compiler work on one draft.
THEOREM RejectedFinal == Spec => RejectedIsFinal
<1>1. ASSUME Inv, [Next]_vars, NEW d \in Drafts, status[d] = "Rejected"
      PROVE  status'[d] = "Rejected"
  BY <1>1, RejectedStays
<1>2. Inv /\ [Next]_vars
        => [\A d \in Drafts : status[d] = "Rejected" => status'[d] = "Rejected"]_vars
  BY <1>1
<1> QED BY <1>2, SpecInv, PTL DEF Spec, RejectedIsFinal

-----------------------------------------------------------------------------
(* One thread at a time. *)

\* The deployments the gate is built for: its threads and the compilers do not
\* share drafts, because the native compiler leaves sources to the compilers or
\* there are none; and a project is not selected again while threads live.
SoundDeployment ==
    /\ NativeCompile \/ Compilers = {}
    /\ "select" \notin Disturbances

\* What a thread left in draft.json before its next step.
StatusAt(step) ==
    CASE step \in {"extract", "mark"} -> {"Parsing"}
      [] step \in {"enrich", "propose"} -> {"Drafting"}
      [] OTHER -> {"Parsing", "Drafting"}

\* The strengthening of SingleWorker: the draft of a thread blocks the queue
\* until it is rejected, so no kick starts another thread next to it.
WorkInv ==
    /\ \A w \in Workers : pc[w] # "idle" =>
         /\ status[job[w]] \in StatusAt(pc[w]) \cup {"Rejected"}
         /\ NativeCompile => kind[job[w]] = "generated"
    /\ SingleWorker

\* A step of anybody else leaves the draft of a thread alone or rejects it.
LEMMA OthersLeaveJobs ==
    ASSUME SoundDeployment, Inv, WorkInv, OtherStep, NEW w \in Workers, pc[w] # "idle"
    PROVE  status'[job[w]] \in {status[job[w]], "Rejected"}
<1>1. job[w] \in Drafts
  BY ThreadHasDraft
<1>2. OtherMove(job[w])
  BY <1>1, OtherMoves
<1>3. status[job[w]] \in {"Parsing", "Drafting", "Rejected"}
  BY DEF WorkInv, StatusAt
<1>4. up
  BY DEF Inv, DeadInv
<1>5. ~(kind[job[w]] = "source" /\ Compilers # {})
  BY DEF WorkInv, SoundDeployment
<1> QED BY <1>2, <1>3, <1>4, <1>5 DEF OtherMove, SoundDeployment

\* The kind of a draft never changes.
LEMMA KindsStay ==
    ASSUME Inv, [Next]_vars, NEW d \in Existing
    PROVE  kind'[d] = kind[d]
<1>1. ASSUME NEW k, NEW c \in Contents, NewDraft(k, c) PROVE kind'[d] = kind[d]
  BY <1>1, NewDraftKeeps
<1>2. CASE OtherStep
  BY <1>1, <1>2
  DEF OtherStep, CreateSource, CreateGenerated, KickQueue, KickFindsNothing,
      KickStartsThread, KickIsLost, Compile, ClaimCompilation, SubmitCompilation,
      FailCompilation, DropCompilation, RequestRevision, RejectDraft, ApproveDraft,
      PublishStep, PublishPage, PublishRegistry, PublishDraft, PublishFails,
      PublishFailureIsLost, RollBack, Crash, Restart, SelectProject,
      ResumeQueuedDrafts, vars, disk
<1>3. ASSUME NEW w \in Workers, ThreadStep(w) PROVE kind'[d] = kind[d]
  BY <1>3
  DEF ThreadStep, ThreadStops, Extract, MarkForEnrichment, Enrich, Propose, Finish,
      ThreadFails, FailureIsLost, disk
<1> QED BY <1>2, <1>3, StepsAreOfThreadsOrOthers

\* Besides its own steps and the kick that starts it, only a crash touches a thread.
LEMMA OthersLeaveThreads ==
    ASSUME Inv, OtherStep, NEW w \in Workers
    PROVE  \/ pc'[w] = pc[w] /\ job'[w] = job[w] /\ seen'[w] = seen[w]
           \/ pc'[w] = "idle"
           \/ KickStartsThread(w)
<1>1. ASSUME NEW v \in Workers, KickStartsThread(v), v # w
      PROVE  pc'[w] = pc[w] /\ job'[w] = job[w] /\ seen'[w] = seen[w]
  BY <1>1 DEF KickStartsThread, Inv, TypeOK
<1>2. CASE KickQueue
  BY <1>1, <1>2 DEF KickQueue, KickFindsNothing, threads
<1>3. CASE Crash
  BY <1>3 DEF Crash
<1>4. CASE UNCHANGED threads
  BY <1>4 DEF threads
<1> QED
  BY <1>2, <1>3, <1>4
  DEF OtherStep, CreateSource, CreateGenerated, KickIsLost, Compile, ClaimCompilation,
      SubmitCompilation, FailCompilation, DropCompilation, RequestRevision, RejectDraft,
      ApproveDraft, PublishStep, PublishPage, PublishRegistry, PublishDraft, PublishFails,
      PublishFailureIsLost, RollBack, Restart, SelectProject, vars

\* A kick finds no thread at work: the draft of such a thread would block it.
LEMMA NobodyWorksAtKick ==
    ASSUME Inv, WorkInv, NEW v \in Workers, KickStartsThread(v),
           NEW w \in Workers, pc[w] # "idle"
    PROVE  status[job[w]] = "Rejected"
<1>1. job[w] \in Drafts
  BY ThreadHasDraft
<1>2. status[job[w]] \in {"Parsing", "Drafting", "Rejected"}
  BY DEF WorkInv, StatusAt
<1> QED BY <1>1, <1>2 DEF KickStartsThread, QueueBlocked, BlocksQueue

LEMMA KickKeepsWork ==
    ASSUME Inv, WorkInv, NEW v \in Workers, KickStartsThread(v)
    PROVE  WorkInv'
<1> DEFINE d == Oldest(Queued)
<1>1. /\ d \in Drafts /\ status[d] # "Rejected" /\ Moved(d, "Parsing")
      /\ NativeCompile => kind[d] = "generated"
  BY QueuedIsOldest DEF KickStartsThread
<1>2. pc[v] = "idle" /\ pc' = [pc EXCEPT ![v] = FirstStep(d)] /\ job' = [job EXCEPT ![v] = d]
  BY DEF KickStartsThread
<1>3. kind' = kind /\ pc \in [Workers -> ThreadStates] /\ job \in [Workers -> 0..MaxDrafts]
  BY DEF KickStartsThread, Inv, TypeOK
<1>4. pc'[v] = FirstStep(d) /\ job'[v] = d /\ status'[d] = "Parsing"
  BY <1>1, <1>2, <1>3, MovedOnly
<1>5. ASSUME NEW w \in Workers, w # v, pc'[w] # "idle"
      PROVE  pc'[w] = pc[w] /\ job'[w] = job[w] /\ status'[job'[w]] = "Rejected"
  <2>1. pc'[w] = pc[w] /\ job'[w] = job[w]
    BY <1>2, <1>3, <1>5
  <2>2. job[w] \in Drafts /\ status[job[w]] = "Rejected"
    BY <1>5, <2>1, NobodyWorksAtKick, ThreadHasDraft
  <2> QED BY <1>1, <2>1, <2>2, MovedOnly
<1>6. FirstStep(d) \in {"extract", "mark", "finish"}
  BY DEF FirstStep
<1>7. \A w \in Workers : pc'[w] # "idle" =>
        /\ status'[job'[w]] \in StatusAt(pc'[w]) \cup {"Rejected"}
        /\ NativeCompile => kind'[job'[w]] = "generated"
  <2>1. "Parsing" \in StatusAt(FirstStep(d))
    BY <1>6 DEF StatusAt
  <2>2. ASSUME NEW w \in Workers, pc[w] # "idle", NativeCompile PROVE kind[job[w]] = "generated"
    BY <2>2 DEF WorkInv
  <2> QED BY <1>1, <1>3, <1>4, <1>5, <2>1, <2>2
<1>8. SingleWorker'
  BY <1>5 DEF SingleWorker, Working
<1> QED BY <1>7, <1>8 DEF WorkInv

LEMMA OthersKeepWork ==
    ASSUME SoundDeployment, Inv, WorkInv, [Next]_vars, OtherStep,
           \A v \in Workers : ~KickStartsThread(v)
    PROVE  WorkInv'
<1>1. ASSUME NEW w \in Workers, pc'[w] # "idle"
      PROVE  /\ pc'[w] = pc[w] /\ job'[w] = job[w] /\ job[w] \in Existing
             /\ status'[job[w]] \in {status[job[w]], "Rejected"}
             /\ kind'[job[w]] = kind[job[w]]
  <2>1. pc'[w] = pc[w] /\ job'[w] = job[w]
    BY <1>1, OthersLeaveThreads
  <2>2. job[w] \in Existing
    BY <1>1, <2>1, ThreadHasDraft
  <2> QED BY <1>1, <2>1, <2>2, OthersLeaveJobs, KindsStay
<1>2. \A w \in Workers : pc'[w] # "idle" =>
        /\ status'[job'[w]] \in StatusAt(pc'[w]) \cup {"Rejected"}
        /\ NativeCompile => kind'[job'[w]] = "generated"
  BY <1>1 DEF WorkInv
<1>3. \A w \in Workers : pc'[w] # "idle" /\ status'[job'[w]] # "Rejected" => Working(w)
  BY <1>1 DEF Working
<1>4. SingleWorker'
  BY <1>3 DEF WorkInv, SingleWorker, Working
<1> QED BY <1>2, <1>4 DEF WorkInv

\* A step of one thread moves no other thread.
LEMMA ThreadsApart ==
    ASSUME Inv, NEW w \in Workers, ThreadStep(w), NEW v \in Workers, v # w
    PROVE  pc'[v] = pc[v] /\ job'[v] = job[v] /\ seen'[v] = seen[v]
  BY DEF Inv, TypeOK, ThreadStep, ThreadStops, Extract, MarkForEnrichment, Enrich,
         Propose, Finish, ThreadFails, FailureIsLost, ThreadEnds

\* Where a thread that does not end gets to.
LEMMA ThreadGoesOn ==
    ASSUME Inv, WorkInv, NEW w \in Workers, ThreadStep(w), pc'[w] # "idle"
    PROVE  /\ pc[w] # "idle" /\ job'[w] = job[w] /\ kind' = kind
           /\ status'[job[w]] \in StatusAt(pc'[w]) \cup {"Rejected"}
           /\ status[job[w]] = "Rejected" => status'[job[w]] = "Rejected"
<1>1. pc \in [Workers -> ThreadStates]
  BY DEF Inv, TypeOK
<1>2. CASE Extract(w) \/ MarkForEnrichment(w)
  <2>1. pc[w] # "idle" /\ job' = job /\ kind' = kind /\ status[job[w]] # "Rejected"
    BY <1>2 DEF Extract, MarkForEnrichment, Withdrawn
  <2>2. job[w] \in Drafts /\ Moved(job[w], "Drafting") /\ pc'[w] \in {"propose", "enrich"}
    BY <1>1, <1>2, <2>1, ThreadHasDraft DEF Extract, MarkForEnrichment
  <2> QED BY <2>1, <2>2, MovedOnly DEF StatusAt
<1>3. CASE Enrich(w) \/ Propose(w)
  <2>1. pc[w] \in {"enrich", "propose"} /\ pc'[w] = "finish" /\ job' = job
        /\ status' = status /\ kind' = kind
    BY <1>1, <1>3 DEF Enrich, Propose, disk
  <2> QED BY <2>1 DEF WorkInv, StatusAt
<1>4. CASE ThreadStops(w) \/ Finish(w) \/ ThreadFails(w) \/ FailureIsLost(w)
  BY <1>1, <1>4 DEF ThreadStops, Finish, ThreadFails, FailureIsLost, ThreadEnds
<1> QED BY <1>2, <1>3, <1>4 DEF ThreadStep

LEMMA ThreadsKeepWork ==
    ASSUME Inv, WorkInv, [Next]_vars, NEW w \in Workers, ThreadStep(w)
    PROVE  WorkInv'
<1>1. ASSUME NEW v \in Workers, v # w, pc'[v] # "idle"
      PROVE  /\ pc'[v] = pc[v] /\ job'[v] = job[v] /\ job[v] \in Existing
             /\ status'[job[v]] = status[job[v]]
  <2>1. pc'[v] = pc[v] /\ job'[v] = job[v] /\ job[v] \in Existing /\ job[v] \in Drafts
    BY <1>1, ThreadsApart, ThreadHasDraft
  <2>2. CASE UNCHANGED status
    BY <2>1, <2>2
  <2>3. ASSUME NEW s \in {"Drafting", "AwaitingReview", "Failed"}, pc[w] # "idle",
               status[job[w]] # "Rejected", Moved(job[w], s)
        PROVE  status'[job[v]] = status[job[v]]
    <3>1. job[v] # job[w]
      BY <1>1, <2>1, <2>3 DEF WorkInv, SingleWorker, Working
    <3>2. job[w] \in Drafts
      BY <2>3, ThreadHasDraft
    <3> QED BY <2>1, <2>3, <3>1, <3>2, MovedOnly
  <2> QED BY <2>1, <2>2, <2>3, ThreadMoves DEF Worked
<1>2. \A v \in Workers : pc'[v] # "idle" =>
        /\ pc[v] # "idle" /\ job'[v] = job[v] /\ kind'[job[v]] = kind[job[v]]
        /\ status'[job[v]] \in StatusAt(pc'[v]) \cup {"Rejected"}
        /\ status[job[v]] = "Rejected" => status'[job[v]] = "Rejected"
  <2>1. ASSUME NEW v \in Workers, pc'[v] # "idle", v # w
        PROVE  /\ pc[v] # "idle" /\ job'[v] = job[v] /\ kind'[job[v]] = kind[job[v]]
               /\ status'[job[v]] \in StatusAt(pc'[v]) \cup {"Rejected"}
               /\ status[job[v]] = "Rejected" => status'[job[v]] = "Rejected"
    BY <1>1, <2>1, KindsStay DEF WorkInv
  <2> QED BY <2>1, ThreadGoesOn
<1>3. SingleWorker'
  BY <1>2 DEF WorkInv, SingleWorker, Working
<1> QED BY <1>2, <1>3 DEF WorkInv

LEMMA WorkInvHolds ==
    ASSUME SoundDeployment
    PROVE  Spec => []WorkInv
<1>1. Init => WorkInv
  BY DEF Init, WorkInv, SingleWorker, Working
<1>2. ASSUME Inv, WorkInv, [Next]_vars PROVE WorkInv'
  BY <1>2, KickKeepsWork, OthersKeepWork, ThreadsKeepWork, StepsAreOfThreadsOrOthers
<1> QED BY <1>1, <1>2, SpecInv, PTL DEF Spec

\* The single-worker guard of kick_queue, for any number of threads, drafts and
\* kicks, with crashes, failing reads and writes and lost kicks.
THEOREM OneWorker ==
    ASSUME SoundDeployment
    PROVE  Spec => []SingleWorker
<1>1. WorkInv => SingleWorker
  BY DEF WorkInv
<1> QED BY <1>1, WorkInvHolds, PTL

\* A published draft stays published: a thread that is late finds its draft as
\* it left it, and a compiler that is late is refused.
THEOREM TrustedFinal ==
    ASSUME SoundDeployment
    PROVE  Spec => TrustedIsFinal
<1>1. ASSUME Inv, WorkInv, [Next]_vars, NEW d \in Drafts, status[d] = "Trusted"
      PROVE  status'[d] = "Trusted"
  <2>1. CASE OtherStep
    BY <1>1, <2>1, OtherMoves DEF OtherMove, Interrupted
  <2>2. ASSUME NEW w \in Workers, ThreadStep(w) PROVE status'[d] = "Trusted"
    <3>1. CASE UNCHANGED status
      BY <1>1, <3>1
    <3>2. ASSUME NEW s, pc[w] # "idle", Moved(job[w], s)
          PROVE  status'[d] = "Trusted"
      <4>1. job[w] # d
        BY <1>1, <3>2 DEF WorkInv, StatusAt
      <4> QED BY <1>1, <3>2, <4>1, ThreadHasDraft, MovedOnly
    <3> QED BY <1>1, <2>2, <3>1, <3>2, ThreadMoves DEF Worked
  <2> QED BY <1>1, <2>1, <2>2, StepsAreOfThreadsOrOthers
<1>2. Inv /\ WorkInv /\ [Next]_vars
        => [\A d \in Drafts : status[d] = "Trusted" => status'[d] = "Trusted"]_vars
  BY <1>1
<1> QED BY <1>2, SpecInv, WorkInvHolds, PTL DEF Spec, TrustedIsFinal

-----------------------------------------------------------------------------
(* What a reviewer decides about. *)

\* Who writes the proposal of a draft that exists.
LEMMA ProposalWrites ==
    ASSUME Inv, [Next]_vars, NEW d \in Existing
    PROVE  \/ proposal'[d] = proposal[d]
           \/ \E w \in Workers : /\ pc[w] = "propose" /\ job[w] = d
                                /\ proposal'[d].rev = seen[w]
           \/ /\ status[d] = "Drafting" /\ kind[d] = "source" /\ Compilers # {}
              /\ proposal'[d].rev = revision[d]
<1>1. CASE UNCHANGED proposal
  BY <1>1
<1>2. ASSUME NEW c \in Contents, NEW p \in TopicPages, CreateGenerated(c, p)
      PROVE  proposal'[d] = proposal[d]
  <2>1. d # created + 1
    BY <1>2, NewDraftKeeps DEF CreateGenerated, Existing
  <2> QED BY <1>2, <2>1 DEF CreateGenerated, Inv, TypeOK, Existing
<1>3. ASSUME NEW w \in Workers, Propose(w)
      PROVE  proposal'[d] = proposal[d]
             \/ (pc[w] = "propose" /\ job[w] = d /\ proposal'[d].rev = seen[w])
  BY <1>3 DEF Propose, Inv, TypeOK, Existing
<1>4. ASSUME NEW x \in Compilers, NEW p, NEW o, SubmitCompilation(x, p, o)
      PROVE  proposal'[d] = proposal[d]
             \/ /\ status[d] = "Drafting" /\ kind[d] = "source"
                /\ proposal'[d].rev = revision[d]
  <2>1. compiling[x].draft \in Drafts /\ kind[compiling[x].draft] = "source"
    BY <1>4 DEF SubmitCompilation, Reports, Inv, ClaimInv, Existing
  <2>2. CASE d = compiling[x].draft
    <3>1. proposal'[d].rev = compiling[x].rev
      BY <1>4, <2>1, <2>2 DEF SubmitCompilation, Inv, TypeOK
    <3> QED BY <1>4, <2>1, <2>2, <3>1 DEF SubmitCompilation, ClaimIsCurrent
  <2>3. CASE d # compiling[x].draft
    BY <1>4, <2>3 DEF SubmitCompilation, Inv, TypeOK, Existing
  <2> QED BY <2>2, <2>3
<1>5. ASSUME NEW x \in Compilers, Compile(x), ~ \E p \in Pages, o \in {"create", "update"} : SubmitCompilation(x, p, o)
      PROVE  UNCHANGED proposal
  BY <1>5 DEF Compile, ClaimCompilation, FailCompilation, DropCompilation, disk
<1>6. ASSUME NEW w \in Workers, ThreadStep(w), ~Propose(w)
      PROVE  UNCHANGED proposal
  BY <1>6 DEF ThreadStep, ThreadStops, Extract, MarkForEnrichment, Enrich, Finish,
              ThreadFails, FailureIsLost, disk
<1>7. CASE KickQueue \/ KickIsLost \/ (\E c \in Contents : CreateSource(c))
           \/ (\E e \in Drafts : RequestRevision(e) \/ RejectDraft(e) \/ ApproveDraft(e))
           \/ PublishStep \/ PublishFails \/ PublishFailureIsLost
           \/ Crash \/ Restart \/ SelectProject \/ UNCHANGED vars
  <2>1. UNCHANGED proposal
    BY <1>7
    DEF CreateSource, KickQueue, KickFindsNothing, KickStartsThread, KickIsLost,
        RequestRevision, RejectDraft, ApproveDraft, PublishStep, PublishPage,
        PublishRegistry, PublishDraft, PublishFails, PublishFailureIsLost, RollBack,
        Crash, Restart, SelectProject, ResumeQueuedDrafts, vars, disk
  <2> QED BY <2>1
<1>8. CASE \E x \in Compilers : Compile(x)
  BY <1>1, <1>4, <1>5, <1>8
<1>9. CASE \E w \in Workers : ThreadStep(w)
  BY <1>1, <1>3, <1>6, <1>9
<1> QED BY <1>2, <1>7, <1>8, <1>9 DEF Next

\* While a draft waits for its decision nobody writes its proposal: a thread
\* that proposes finds its draft in drafting or rejected, a compiler that
\* submits must.
THEOREM ReviewStable ==
    ASSUME SoundDeployment
    PROVE  Spec => ReviewIsStable
<1>1. ASSUME Inv, WorkInv, [Next]_vars, NEW d \in Drafts, status[d] = "AwaitingReview"
      PROVE  proposal'[d] = proposal[d]
  <2>1. d \in Existing
    BY <1>1 DEF Existing
  <2>2. ASSUME NEW w \in Workers, pc[w] = "propose" PROVE job[w] # d
    BY <1>1, <2>2 DEF WorkInv, StatusAt
  <2> QED BY <1>1, <2>1, <2>2, ProposalWrites
<1>2. Inv /\ WorkInv /\ [Next]_vars
        => [\A d \in Drafts :
              status[d] = "AwaitingReview" /\ status'[d] = "AwaitingReview"
                => proposal'[d] = proposal[d]]_vars
  BY <1>1
<1> QED BY <1>2, SpecInv, WorkInvHolds, PTL DEF Spec, ReviewIsStable

\* Only a request for a revision counts one up.
LEMMA RevisionWrites ==
    ASSUME Inv, [Next]_vars, NEW d \in Existing
    PROVE  \/ revision'[d] = revision[d]
           \/ status[d] \in {"AwaitingReview", "Failed"} /\ status'[d] = "RevisionRequested"
<1>1. ASSUME NEW k, NEW c \in Contents, NewDraft(k, c) PROVE revision'[d] = revision[d]
  <2>1. d # created + 1
    BY <1>1, NewDraftKeeps DEF Existing
  <2> QED BY <1>1, <2>1 DEF NewDraft, Inv, TypeOK, Existing
<1>2. ASSUME NEW e \in Drafts, RequestRevision(e)
      PROVE  revision'[d] = revision[d]
             \/ (status[d] \in {"AwaitingReview", "Failed"} /\ status'[d] = "RevisionRequested")
  BY <1>2, MovedOnly DEF RequestRevision, CanRevise, Inv, TypeOK, Existing
<1>3. CASE OtherStep
  BY <1>1, <1>2, <1>3
  DEF OtherStep, CreateSource, CreateGenerated, KickQueue, KickFindsNothing,
      KickStartsThread, KickIsLost, Compile, ClaimCompilation, SubmitCompilation,
      FailCompilation, DropCompilation, RejectDraft, ApproveDraft, PublishStep,
      PublishPage, PublishRegistry, PublishDraft, PublishFails, PublishFailureIsLost,
      RollBack, Crash, Restart, SelectProject, ResumeQueuedDrafts, vars, disk
<1>4. ASSUME NEW w \in Workers, ThreadStep(w) PROVE revision'[d] = revision[d]
  BY <1>4
  DEF ThreadStep, ThreadStops, Extract, MarkForEnrichment, Enrich, Propose, Finish,
      ThreadFails, FailureIsLost, disk
<1> QED BY <1>3, <1>4, StepsAreOfThreadsOrOthers

UnderReview == {d \in Drafts : status[d] \in {"AwaitingReview", "Publishing"}}

\* Nobody but a thread or a compiler that submits ends the drafting with a review.
LEMMA SubmissionOnly ==
    ASSUME Inv, OtherStep, NEW d \in Drafts, status[d] = "Drafting",
           status'[d] = "AwaitingReview"
    PROVE  \E x \in Compilers, p \in Pages, o \in {"create", "update"} :
               SubmitCompilation(x, p, o)
<1>1. ~UNCHANGED status
  OBVIOUS
<1>2. \A e \in Drafts : \A s : Moved(e, s) => e = d /\ s = "AwaitingReview"
  BY MovedOnly
<1>3. ASSUME NEW k, NEW c \in Contents, NewDraft(k, c) PROVE FALSE
  BY <1>2, <1>3, NewDraftKeeps DEF NewDraft
<1>4. ~KickQueue
  BY <1>1, <1>2, QueuedIsOldest DEF KickQueue, KickFindsNothing, KickStartsThread, disk
<1>5. ASSUME NEW x \in Compilers, ClaimCompilation(x) \/ FailCompilation(x) \/ DropCompilation(x)
      PROVE  FALSE
  <2>1. ~DropCompilation(x)
    BY <1>1 DEF DropCompilation, disk
  <2>2. ~ClaimCompilation(x)
    BY <1>2, ClaimedDraft DEF ClaimCompilation, Claimable
  <2>3. ~FailCompilation(x)
    BY <1>2 DEF FailCompilation, Reports, Inv, ClaimInv, Existing
  <2> QED BY <1>5, <2>1, <2>2, <2>3
<1>6. ASSUME NEW e \in Drafts, RequestRevision(e) \/ RejectDraft(e) \/ ApproveDraft(e)
      PROVE  FALSE
  BY <1>2, <1>6 DEF RequestRevision, RejectDraft, ApproveDraft
<1>7. ~PublishDraft /\ ~PublishFails
  BY <1>2 DEF PublishDraft, PublishFails, RollBack, Inv, TxInv
<1>8. ~Restart /\ ~SelectProject
  BY DEF Restart, SelectProject, ResumeQueuedDrafts
<1>9. ~KickIsLost /\ ~PublishPage /\ ~PublishRegistry /\ ~PublishFailureIsLost
      /\ ~Crash /\ ~UNCHANGED vars
  BY <1>1 DEF KickIsLost, PublishPage, PublishRegistry, PublishFailureIsLost, Crash, vars, disk
<1> QED
  BY <1>3, <1>4, <1>5, <1>6, <1>7, <1>8, <1>9
  DEF OtherStep, CreateSource, CreateGenerated, PublishStep, Compile

\* A draft gets under review by the last step of a thread or by a submission.
LEMMA ReviewEntered ==
    ASSUME Inv, [Next]_vars, NEW d \in Drafts, d \in UnderReview'
    PROVE  \/ d \in UnderReview
           \/ \E w \in Workers : /\ pc[w] = "finish" /\ job[w] = d
                                /\ proposal'[d] = proposal[d]
           \/ /\ status[d] = "Drafting"
              /\ proposal'[d].rev = revision[d]
<1>1. status'[d] \in {"AwaitingReview", "Publishing"}
  BY DEF UnderReview
<1>2. ASSUME NEW w \in Workers, ThreadStep(w)
      PROVE  d \in UnderReview
             \/ (pc[w] = "finish" /\ job[w] = d /\ proposal'[d] = proposal[d])
  <2>1. CASE Finish(w)
    <3>1. job[w] \in Drafts /\ Moved(job[w], "AwaitingReview") /\ pc[w] = "finish"
          /\ proposal' = proposal
      BY <2>1, ThreadHasDraft DEF Finish
    <3> QED BY <1>1, <3>1, MovedOnly DEF UnderReview
  <2>2. CASE Extract(w) \/ MarkForEnrichment(w)
    <3>1. job[w] \in Drafts /\ Moved(job[w], "Drafting")
      BY <2>2, ThreadHasDraft DEF Extract, MarkForEnrichment
    <3> QED BY <1>1, <3>1, MovedOnly DEF UnderReview
  <2>3. CASE ThreadFails(w)
    <3>1. job[w] \in Drafts
      BY <2>3, ThreadHasDraft DEF ThreadFails, ThreadMayFail
    <3>2. status' = status \/ Moved(job[w], "Failed")
      BY <2>3 DEF ThreadFails, Moved
    <3> QED BY <1>1, <3>1, <3>2, MovedOnly DEF UnderReview
  <2>4. CASE ThreadStops(w) \/ Enrich(w) \/ Propose(w) \/ FailureIsLost(w)
    BY <1>1, <2>4 DEF ThreadStops, Enrich, Propose, FailureIsLost, disk, UnderReview
  <2> QED BY <1>2, <2>1, <2>2, <2>3, <2>4 DEF ThreadStep
<1>3. ASSUME OtherStep
      PROVE  d \in UnderReview \/ (status[d] = "Drafting" /\ proposal'[d].rev = revision[d])
  <2>1. d \in UnderReview \/ (status[d] = "Drafting" /\ status'[d] = "AwaitingReview")
    BY <1>1, <1>3, OtherMoves DEF OtherMove, UnderReview
  <2>2. ASSUME status[d] = "Drafting", status'[d] = "AwaitingReview"
        PROVE  proposal'[d].rev = revision[d]
    <3>1. PICK x \in Compilers, p \in Pages, o \in {"create", "update"} :
            SubmitCompilation(x, p, o)
      BY <1>3, <2>2, SubmissionOnly
    <3>2. compiling[x].draft \in Drafts /\ Moved(compiling[x].draft, "AwaitingReview")
      BY <3>1 DEF SubmitCompilation, Reports, Inv, ClaimInv, Existing
    <3>3. d = compiling[x].draft
      BY <2>2, <3>2, MovedOnly
    <3> QED BY <3>1, <3>2, <3>3 DEF SubmitCompilation, ClaimIsCurrent, Inv, TypeOK
  <2> QED BY <2>1, <2>2
<1> QED BY <1>2, <1>3, StepsAreOfThreadsOrOthers

\* The strengthening of ReviewedProposalIsCurrent: what a thread read at its
\* mark, and what it wrote, is of the revision the draft has; and a failed
\* approval puts back a draft whose proposal is current.
CurrentInv ==
    /\ \A w \in Workers :
         /\ pc[w] = "propose" => seen[w] = revision[job[w]]
         /\ pc[w] = "finish" /\ kind[job[w]] = "source"
              => proposal[job[w]].rev = revision[job[w]]
    /\ \A d \in UnderReview : kind[d] = "source" => proposal[d].rev = revision[d]

\* Nobody asks for a revision of a draft that has a thread.
LEMMA JobsKeepRevision ==
    ASSUME Inv, WorkInv, [Next]_vars, NEW w \in Workers, pc[w] # "idle"
    PROVE  revision'[job[w]] = revision[job[w]]
<1>1. status[job[w]] \in {"Parsing", "Drafting", "Rejected"}
  BY DEF WorkInv, StatusAt
<1> QED BY <1>1, ThreadHasDraft, RevisionWrites

\* A proposal of the current revision is only replaced by another one.
LEMMA CurrentStays ==
    ASSUME Inv, CurrentInv, [Next]_vars, NEW d \in Existing,
           proposal[d].rev = revision[d]
    PROVE  proposal'[d].rev = revision[d]
  BY ProposalWrites DEF CurrentInv

LEMMA ThreadsStayCurrent ==
    ASSUME Inv, WorkInv, CurrentInv, [Next]_vars, NEW w \in Workers,
           pc'[w] = "propose" \/ (pc'[w] = "finish" /\ kind'[job'[w]] = "source")
    PROVE  /\ pc'[w] = "propose" => seen'[w] = revision'[job'[w]]
           /\ pc'[w] = "finish" => proposal'[job'[w]].rev = revision'[job'[w]]
<1>1. ASSUME pc'[w] = pc[w], job'[w] = job[w], seen'[w] = seen[w]
      PROVE  /\ pc'[w] = "propose" => seen'[w] = revision'[job'[w]]
             /\ pc'[w] = "finish" => proposal'[job'[w]].rev = revision'[job'[w]]
  <2>1. pc[w] # "idle" /\ job[w] \in Existing
    BY <1>1, ThreadHasDraft
  <2>2. kind'[job[w]] = kind[job[w]] /\ revision'[job[w]] = revision[job[w]]
    BY <2>1, KindsStay, JobsKeepRevision
  <2>3. pc[w] = "propose" => seen[w] = revision[job[w]]
    BY DEF CurrentInv
  <2>4. pc[w] = "finish" => proposal[job[w]].rev = revision[job[w]]
    BY <1>1, <2>2 DEF CurrentInv
  <2> QED BY <1>1, <2>1, <2>2, <2>3, <2>4, CurrentStays
<1>2. ASSUME KickStartsThread(w)
      PROVE  FALSE
  <2>1. pc'[w] = FirstStep(Oldest(Queued)) /\ job'[w] = Oldest(Queued) /\ kind' = kind
    BY <1>2 DEF KickStartsThread, Inv, TypeOK
  <2> QED BY <2>1 DEF FirstStep
<1>3. CASE OtherStep
  BY <1>1, <1>2, <1>3, OthersLeaveThreads
<1>4. ASSUME NEW v \in Workers, ThreadStep(v), v # w
      PROVE  pc'[w] = pc[w] /\ job'[w] = job[w] /\ seen'[w] = seen[w]
  BY <1>4, ThreadsApart
<1>5. ASSUME ThreadStep(w)
      PROVE  /\ pc'[w] = "propose" => seen'[w] = revision'[job'[w]]
             /\ pc'[w] = "finish" => proposal'[job'[w]].rev = revision'[job'[w]]
  <2>1. CASE Extract(w)
    BY <2>1 DEF Extract, Inv, TypeOK
  <2>2. CASE Propose(w)
    <3>1. job[w] \in Drafts /\ seen[w] = revision[job[w]]
      BY <2>2, ThreadHasDraft DEF Propose, CurrentInv
    <3> QED BY <2>2, <3>1 DEF Propose, Inv, TypeOK
  <2>3. CASE Enrich(w)
    <3>1. kind[job[w]] = "generated" /\ kind' = kind /\ job' = job /\ pc'[w] = "finish"
      BY <2>3 DEF Enrich, Inv, ThreadInv, TypeOK, disk
    <3> QED BY <3>1
  <2>4. CASE MarkForEnrichment(w)
    BY <2>4 DEF MarkForEnrichment, Inv, TypeOK
  <2>5. CASE ThreadStops(w) \/ Finish(w) \/ ThreadFails(w) \/ FailureIsLost(w)
    BY <2>5 DEF ThreadStops, Finish, ThreadFails, FailureIsLost, ThreadEnds, Inv, TypeOK
  <2> QED BY <1>5, <2>1, <2>2, <2>3, <2>4, <2>5 DEF ThreadStep
<1> QED BY <1>1, <1>3, <1>4, <1>5, StepsAreOfThreadsOrOthers

LEMMA ReviewsStayCurrent ==
    ASSUME Inv, WorkInv, CurrentInv, [Next]_vars, NEW d \in Drafts,
           d \in UnderReview', kind'[d] = "source"
    PROVE  proposal'[d].rev = revision'[d]
<1>1. d \in Existing
  <2>1. CASE d \in UnderReview
    BY <2>1 DEF UnderReview, Existing
  <2>2. ASSUME NEW w \in Workers, pc[w] = "finish", job[w] = d PROVE d \in Existing
    BY <2>2, ThreadHasDraft
  <2>3. CASE status[d] = "Drafting"
    BY <2>3 DEF Existing
  <2> QED BY <2>1, <2>2, <2>3, ReviewEntered
<1>2. kind[d] = "source" /\ revision'[d] = revision[d]
  BY <1>1, KindsStay, RevisionWrites DEF UnderReview
<1>3. CASE d \in UnderReview
  BY <1>1, <1>2, <1>3, CurrentStays DEF CurrentInv
<1>4. ASSUME NEW w \in Workers, pc[w] = "finish", job[w] = d, proposal'[d] = proposal[d]
      PROVE  proposal'[d].rev = revision'[d]
  BY <1>2, <1>4 DEF CurrentInv
<1> QED BY <1>2, <1>3, <1>4, ReviewEntered

\* What a reviewer is offered of an imported source was made from the revision
\* asked for last, and still is after an approval that failed.
THEOREM ReviewedCurrent ==
    ASSUME SoundDeployment
    PROVE  Spec => []ReviewedProposalIsCurrent
<1>1. Init => CurrentInv
  BY DEF Init, CurrentInv, UnderReview
<1>2. Inv /\ WorkInv /\ CurrentInv /\ [Next]_vars => CurrentInv'
  BY ThreadsStayCurrent, ReviewsStayCurrent DEF CurrentInv, UnderReview
<1>3. CurrentInv => ReviewedProposalIsCurrent
  BY DEF CurrentInv, UnderReview, ReviewedProposalIsCurrent
<1> QED BY <1>1, <1>2, <1>3, SpecInv, WorkInvHolds, PTL DEF Spec

-----------------------------------------------------------------------------
(* The refinement. *)

\* A step creates a draft, moves one, moves none, or resumes interrupted ones.
LEMMA StepShape ==
    ASSUME Inv, [Next]_vars
    PROVE  \/ \E k \in Kinds, c \in Contents : NewDraft(k, c) /\ ~Duplicate(c)
           \/ UNCHANGED <<status, sha>>
           \/ UNCHANGED sha /\ ResumeQueuedDrafts
           \/ UNCHANGED sha /\ \E d \in Existing, s \in Statuses : Moved(d, s)
<1> DEFINE Shape == \/ \E k \in Kinds, c \in Contents : NewDraft(k, c) /\ ~Duplicate(c)
                    \/ UNCHANGED <<status, sha>>
                    \/ UNCHANGED sha /\ ResumeQueuedDrafts
                    \/ UNCHANGED sha /\ \E d \in Existing, s \in Statuses : Moved(d, s)
<1>1. CASE \/ \E c \in Contents : CreateSource(c)
           \/ \E c \in Contents, p \in TopicPages : CreateGenerated(c, p)
  <2>1. \E k \in Kinds, c \in Contents : NewDraft(k, c) /\ ~Duplicate(c)
    <3>1. ASSUME NEW c \in Contents, CreateSource(c)
          PROVE  NewDraft("source", c) /\ ~Duplicate(c) /\ "source" \in Kinds
      BY <3>1 DEF CreateSource, NewDraft
    <3>2. ASSUME NEW c \in Contents, NEW p, CreateGenerated(c, p)
          PROVE  NewDraft("generated", c) /\ ~Duplicate(c) /\ "generated" \in Kinds
      BY <3>2 DEF CreateGenerated, NewDraft
    <3> QED BY <1>1, <3>1, <3>2
  <2> QED BY <2>1
<1>2. CASE KickQueue
  BY <1>2, QueuedIsOldest DEF KickQueue, KickFindsNothing, KickStartsThread, disk, Statuses
<1>3. ASSUME NEW w \in Workers, ThreadStep(w) PROVE Shape
  <2>1. UNCHANGED sha
    BY <1>3 DEF ThreadStep, ThreadStops, Extract, MarkForEnrichment, Enrich, Propose,
                Finish, ThreadFails, FailureIsLost, disk
  <2> QED BY <1>3, <2>1, ThreadMoves, ThreadHasDraft DEF Worked, Statuses
<1>4. ASSUME NEW x \in Compilers, Compile(x) PROVE Shape
  <2>1. CASE ClaimCompilation(x)
    <3>1. NextClaim \in Existing
      BY <2>1, ClaimedDraft DEF ClaimCompilation, Claimable, Existing
    <3> QED BY <2>1, <3>1 DEF ClaimCompilation, Statuses
  <2>2. CASE ~ClaimCompilation(x)
    BY <1>4, <2>2
    DEF Compile, SubmitCompilation, FailCompilation, DropCompilation, Reports,
        Inv, ClaimInv, disk, Statuses
  <2> QED BY <2>1, <2>2
<1>5. ASSUME NEW d \in Drafts, RequestRevision(d) \/ RejectDraft(d) \/ ApproveDraft(d)
      PROVE  Shape
  BY <1>5 DEF RequestRevision, RejectDraft, ApproveDraft, CanRevise, CanReject,
              CanApprove, Existing, Statuses
<1>6. CASE PublishDraft \/ PublishFails
  <2>1. tx.draft \in Existing
    BY <1>6 DEF PublishDraft, PublishFails, RollBack, Inv, TxInv, Existing
  <2> QED BY <1>6, <2>1 DEF PublishDraft, PublishFails, RollBack, Statuses
<1>7. CASE Restart \/ SelectProject
  BY <1>7 DEF Restart, SelectProject, ResumeQueuedDrafts
<1>8. CASE KickIsLost \/ PublishPage \/ PublishRegistry \/ PublishFailureIsLost
           \/ Crash \/ UNCHANGED vars
  BY <1>8 DEF KickIsLost, PublishPage, PublishRegistry, PublishFailureIsLost, RollBack,
              Crash, vars, disk
<1> QED BY <1>1, <1>2, <1>3, <1>4, <1>5, <1>6, <1>7, <1>8 DEF Next, PublishStep

\* A draft that exists moves from phase to phase as the ledger says.
PhaseMove(d) ==
    \/ Phase(status'[d]) = Phase(status[d])
    \/ Phase(status[d]) = "queued" /\ Phase(status'[d]) \in {"review", "rejected"}
    \/ Phase(status[d]) = "review" /\ Phase(status'[d]) \in {"queued", "trusted", "rejected"}

LEMMA PhasesMove ==
    ASSUME SoundDeployment, Inv, WorkInv, [Next]_vars, NEW d \in Existing
    PROVE  PhaseMove(d)
<1>1. d \in Drafts /\ status[d] # "Absent" /\ status[d] \in Statuses
  BY DEF Existing, Inv, TypeOK
<1>2. CASE OtherStep
  <2>1. OtherMove(d)
    BY <1>1, <1>2, OtherMoves
  <2> QED BY <1>1, <2>1 DEF OtherMove, PhaseMove, Phase, Interrupted, Statuses
<1>3. ASSUME NEW w \in Workers, ThreadStep(w) PROVE PhaseMove(d)
  <2>1. CASE UNCHANGED status
    BY <2>1 DEF PhaseMove
  <2>2. ASSUME NEW s \in {"Drafting", "AwaitingReview", "Failed"}, pc[w] # "idle",
               status[job[w]] # "Rejected", Moved(job[w], s)
        PROVE  PhaseMove(d)
    <3>1. job[w] \in Drafts /\ status[job[w]] \in {"Parsing", "Drafting"}
      BY <2>2, ThreadHasDraft DEF WorkInv, StatusAt
    <3>2. status'[d] = IF d = job[w] THEN s ELSE status[d]
      BY <1>1, <2>2, <3>1, MovedOnly
    <3> QED BY <3>1, <3>2 DEF PhaseMove, Phase
  <2> QED BY <1>3, <2>1, <2>2, ThreadMoves DEF Worked
<1> QED BY <1>2, <1>3, StepsAreOfThreadsOrOthers

\* A new draft is a submission to the ledger: its content is in no live draft.
LEMMA CreationSubmits ==
    ASSUME Inv, NEW k, NEW c \in Contents, NewDraft(k, c), ~Duplicate(c)
    PROVE  Ledger!Next
<1> DEFINE n == created + 1
           P == [d \in Drafts |-> Phase(status[d])]
           Q == [d \in Drafts |-> Phase(status'[d])]
<1>1. n \in Drafts /\ status[n] = "Absent" /\ Moved(n, "Uploaded") /\ sha' = [sha EXCEPT ![n] = c]
  BY NewDraftKeeps DEF NewDraft
<1>2. \A d \in Drafts : status'[d] = IF d = n THEN "Uploaded" ELSE status[d]
  BY <1>1, MovedOnly
<1>3. Q = [P EXCEPT ![n] = "queued"] /\ P[n] = "unknown"
  BY <1>1, <1>2 DEF Phase
<1>4. \A e \in Drafts : P[e] \notin {"unknown", "rejected"} => sha[e] # c
  BY DEF Phase, Duplicate, Existing
<1>5. Ledger!Submit(n, c)
  BY <1>1, <1>3, <1>4 DEF Ledger!Submit, Ledger!Live
<1> QED BY <1>1, <1>5 DEF Ledger!Next

LEMMA MoveIsLedgerMove ==
    ASSUME Inv, NEW d \in Existing, NEW s, Moved(d, s), UNCHANGED sha, PhaseMove(d)
    PROVE  Ledger!Next \/ UNCHANGED Ledger!ledger
<1> DEFINE P == [e \in Drafts |-> Phase(status[e])]
           Q == [e \in Drafts |-> Phase(status'[e])]
<1>1. d \in Drafts /\ \A e \in Drafts : status'[e] = IF e = d THEN s ELSE status[e]
  BY MovedOnly DEF Existing
<1>2. Q = [P EXCEPT ![d] = Phase(s)] /\ P[d] = Phase(status[d])
  BY <1>1
<1>3. CASE Phase(s) = Phase(status[d])
  <2>1. Q = P
    BY <1>1, <1>3
  <2> QED BY <2>1 DEF Ledger!ledger
<1>4. CASE Phase(status[d]) = "queued" /\ Phase(s) = "review"
  BY <1>1, <1>2, <1>4 DEF Ledger!Next, Ledger!Offer, Ledger!MoveTo
<1>5. CASE Phase(status[d]) \in {"queued", "review"} /\ Phase(s) = "rejected"
  BY <1>1, <1>2, <1>5 DEF Ledger!Next, Ledger!Reject, Ledger!MoveTo
<1>6. CASE Phase(status[d]) = "review" /\ Phase(s) = "queued"
  BY <1>1, <1>2, <1>6 DEF Ledger!Next, Ledger!SendBack, Ledger!MoveTo
<1>7. CASE Phase(status[d]) = "review" /\ Phase(s) = "trusted"
  BY <1>1, <1>2, <1>7 DEF Ledger!Next, Ledger!Publish, Ledger!MoveTo
<1> QED BY <1>1, <1>3, <1>4, <1>5, <1>6, <1>7 DEF PhaseMove

LEMMA StepsAreLedgerSteps ==
    ASSUME SoundDeployment, Inv, WorkInv, [Next]_vars
    PROVE  Ledger!Next \/ UNCHANGED Ledger!ledger
<1>1. CASE UNCHANGED <<status, sha>>
  BY <1>1 DEF Ledger!ledger
<1>2. CASE UNCHANGED sha /\ ResumeQueuedDrafts
  <2>1. \A d \in Drafts : Phase(status'[d]) = Phase(status[d])
    BY <1>2 DEF ResumeQueuedDrafts, Interrupted, Phase
  <2> QED BY <1>2, <2>1 DEF Ledger!ledger
<1> QED BY <1>1, <1>2, StepShape, PhasesMove, CreationSubmits, MoveIsLedgerMove

\* The gate implements the review ledger: no draft is published that was not
\* offered for review, decisions are final, and no content is in two live drafts.
THEOREM LedgerImplemented ==
    ASSUME SoundDeployment
    PROVE  Spec => ImplementsLedger
<1>1. Init => Ledger!Init
  BY DEF Init, Ledger!Init, Phase
<1>2. Inv /\ WorkInv /\ [Next]_vars => [Ledger!Next]_Ledger!ledger
  BY StepsAreLedgerSteps
<1> QED BY <1>1, <1>2, SpecInv, WorkInvHolds, PTL DEF Spec, ImplementsLedger, Ledger!Spec

-----------------------------------------------------------------------------
(* What readers of the wiki see. *)

\* 0 stands for no draft: a page or an entry that is not there.
Kept(d) == d = 0 \/ status[d] \in {"Publishing", "Trusted"}

\* The strengthening of VisibleIsApproved: an approval in progress can put back
\* everything that names its draft, and puts back nothing that names it.
VisibleInv ==
    /\ \A p \in Pages : Kept(wiki[p].draft)
    /\ \A c \in Contents : Kept(registry[c].draft)
    /\ tx.stage # "none" =>
         /\ Kept(tx.oldPage.draft) /\ tx.oldPage.draft # tx.draft
         /\ Kept(tx.oldEntry.draft) /\ tx.oldEntry.draft # tx.draft
         /\ \A p \in Pages : wiki[p].draft = tx.draft => p = tx.change.page
         /\ \A c \in Contents : registry[c].draft = tx.draft
              => c = sha[tx.draft] /\ kind[tx.draft] = "source"

\* Only a failed approval takes back what was approved, and only its own draft.
LEMMA KeptStays ==
    ASSUME Inv, WorkInv, [Next]_vars, NEW d \in 0..MaxDrafts, Kept(d),
           PublishFails => d # tx.draft
    PROVE  d = 0 \/ status'[d] \in {"Publishing", "Trusted"}
<1>1. SUFFICES ASSUME d # 0 PROVE status'[d] \in {"Publishing", "Trusted"}
  OBVIOUS
<1>2. d \in Drafts /\ status[d] \in {"Publishing", "Trusted"}
  BY <1>1, BoundsAreNaturals DEF Drafts, Kept
<1>3. CASE OtherStep
  BY <1>2, <1>3, OtherMoves DEF OtherMove, Interrupted
<1>4. ASSUME NEW w \in Workers, ThreadStep(w)
      PROVE  status'[d] = status[d]
  <2>1. CASE UNCHANGED status
    BY <2>1
  <2>2. ASSUME NEW s, pc[w] # "idle", Moved(job[w], s) PROVE status'[d] = status[d]
    <3>1. job[w] # d
      BY <1>2, <2>2 DEF WorkInv, StatusAt
    <3> QED BY <1>2, <2>2, <3>1, ThreadHasDraft, MovedOnly
  <2> QED BY <1>4, <2>1, <2>2, ThreadMoves DEF Worked
<1> QED BY <1>2, <1>3, <1>4, StepsAreOfThreadsOrOthers

\* The drafts that pages, entries and an approval name are drafts.
LEMMA NamedDrafts ==
    ASSUME Inv
    PROVE  /\ \A p \in Pages : wiki[p].draft \in 0..MaxDrafts
           /\ \A c \in Contents : registry[c].draft \in 0..MaxDrafts
           /\ tx.oldPage.draft \in 0..MaxDrafts /\ tx.oldEntry.draft \in 0..MaxDrafts
  BY DEF Inv, TypeOK, PageVersions, Claims, Transactions

LEMMA ContentsStay ==
    ASSUME Inv, [Next]_vars, NEW d \in Existing
    PROVE  sha'[d] = sha[d]
  BY StepShape, NewDraftKeeps

\* A step that publishes nothing and takes nothing back.
LEMMA QuietVisible ==
    ASSUME Inv, WorkInv, VisibleInv, [Next]_vars, UNCHANGED <<wiki, registry>>,
           tx' = tx \/ tx'.stage = "none", ~PublishFails
    PROVE  VisibleInv'
<1>1. \A d \in 0..MaxDrafts : Kept(d) => d = 0 \/ status'[d] \in {"Publishing", "Trusted"}
  BY KeptStays
<1>2. /\ \A p \in Pages : Kept(wiki[p].draft)'
      /\ \A c \in Contents : Kept(registry[c].draft)'
  BY <1>1, NamedDrafts DEF VisibleInv, Kept
<1>3. ASSUME tx' = tx, tx.stage # "none"
      PROVE  /\ Kept(tx.oldPage.draft)' /\ Kept(tx.oldEntry.draft)'
             /\ sha'[tx.draft] = sha[tx.draft] /\ kind'[tx.draft] = kind[tx.draft]
  <2>1. tx.draft \in Existing
    BY <1>3 DEF Inv, TxInv, Existing
  <2>2. Kept(tx.oldPage.draft)' /\ Kept(tx.oldEntry.draft)'
    BY <1>1, <1>3, NamedDrafts DEF VisibleInv, Kept
  <2> QED BY <2>1, <2>2, ContentsStay, KindsStay
<1> QED BY <1>2, <1>3 DEF VisibleInv

LEMMA ApproveVisible ==
    ASSUME Inv, WorkInv, VisibleInv, [Next]_vars, NEW d \in Drafts, ApproveDraft(d)
    PROVE  VisibleInv'
<1>1. d # 0 /\ ~Kept(d) /\ proposal[d].page \in Pages /\ sha[d] \in Contents
  BY BoundsAreNaturals
  DEF ApproveDraft, CanApprove, Kept, Drafts, Inv, DraftInv, Existing
<1>2. ~PublishFails
  BY DEF ApproveDraft, GateFree, PublishFails, RollBack
<1>3. \A e \in 0..MaxDrafts : Kept(e) => e = 0 \/ status'[e] \in {"Publishing", "Trusted"}
  BY <1>2, KeptStays
<1>4. /\ UNCHANGED <<wiki, registry, sha, kind>>
      /\ tx'.draft = d /\ tx'.oldPage = wiki[proposal[d].page]
      /\ tx'.oldEntry = IF kind[d] = "source" THEN registry[sha[d]] ELSE NoClaim
  BY DEF ApproveDraft
<1>5. /\ Kept(tx'.oldPage.draft) /\ tx'.oldPage.draft # d
      /\ Kept(tx'.oldEntry.draft) /\ tx'.oldEntry.draft # d
  BY <1>1, <1>4 DEF VisibleInv, NoClaim, Kept
<1>6. tx'.oldPage.draft \in 0..MaxDrafts /\ tx'.oldEntry.draft \in 0..MaxDrafts
  BY <1>1, <1>4, NamedDrafts, BoundsAreNaturals DEF NoClaim
<1>7. /\ \A p \in Pages : Kept(wiki[p].draft)' /\ wiki'[p].draft # d
      /\ \A c \in Contents : Kept(registry[c].draft)' /\ registry'[c].draft # d
  BY <1>1, <1>3, <1>4, NamedDrafts DEF VisibleInv, Kept
<1> QED BY <1>3, <1>4, <1>5, <1>6, <1>7 DEF VisibleInv, Kept

LEMMA PublishVisible ==
    ASSUME Inv, WorkInv, VisibleInv, PublishPage \/ PublishRegistry
    PROVE  VisibleInv'
<1>1. tx.stage # "none" /\ UNCHANGED <<status, sha, kind>>
  BY DEF PublishPage, PublishRegistry
<1>2. Kept(tx.draft)
  BY <1>1 DEF Inv, TxInv, Kept
<1>3. /\ tx'.draft = tx.draft /\ tx'.change = tx.change /\ tx'.oldPage = tx.oldPage
      /\ tx'.oldEntry = tx.oldEntry
  BY DEF PublishPage, PublishRegistry, Inv, TypeOK, Transactions
<1>4. CASE PublishPage
  <2>1. registry' = registry /\ \A p \in Pages :
          wiki'[p].draft = IF p = tx.change.page THEN tx.draft ELSE wiki[p].draft
    BY <1>4 DEF PublishPage, Inv, TypeOK
  <2> QED BY <1>1, <1>2, <1>3, <2>1 DEF VisibleInv, Kept
<1>5. CASE PublishRegistry
  <2>1. wiki' = wiki /\ \A c \in Contents :
          registry'[c].draft = IF c = sha[tx.draft] /\ kind[tx.draft] = "source"
                               THEN tx.draft ELSE registry[c].draft
    BY <1>5 DEF PublishRegistry, Inv, TypeOK
  <2> QED BY <1>1, <1>2, <1>3, <2>1 DEF VisibleInv, Kept
<1> QED BY <1>4, <1>5

LEMMA FailureVisible ==
    ASSUME Inv, WorkInv, VisibleInv, [Next]_vars, PublishFails \/ PublishFailureIsLost
    PROVE  VisibleInv'
<1>1. RollBack /\ tx.stage # "none" /\ tx'.stage = "none"
  BY DEF PublishFails, PublishFailureIsLost, RollBack, NoTx
<1>2. ASSUME NEW p \in Pages PROVE wiki'[p].draft # tx.draft /\ Kept(wiki'[p].draft)
                                   /\ wiki'[p].draft \in 0..MaxDrafts
  <2>1. wiki'[p] = IF p = tx.change.page THEN tx.oldPage ELSE wiki[p]
    BY <1>1 DEF RollBack, Inv, TypeOK
  <2> QED BY <1>1, <2>1, NamedDrafts DEF VisibleInv
<1>3. ASSUME NEW c \in Contents PROVE registry'[c].draft # tx.draft /\ Kept(registry'[c].draft)
                                      /\ registry'[c].draft \in 0..MaxDrafts
  <2>1. registry'[c] = IF c = sha[tx.draft] /\ kind[tx.draft] = "source"
                       THEN tx.oldEntry ELSE registry[c]
    BY <1>1 DEF RollBack, Inv, TypeOK
  <2> QED BY <1>1, <2>1, NamedDrafts DEF VisibleInv
<1>4. \A d \in 0..MaxDrafts :
        Kept(d) /\ d # tx.draft => d = 0 \/ status'[d] \in {"Publishing", "Trusted"}
  BY KeptStays
<1> QED BY <1>1, <1>2, <1>3, <1>4 DEF VisibleInv, Kept

\* Only an approval and a crash in one touch what readers see or would see.
LEMMA OtherStepsShowNothing ==
    ASSUME [Next]_vars, ~PublishPage, ~PublishRegistry, ~PublishDraft, ~PublishFails,
           ~PublishFailureIsLost, \A d \in Drafts : ~ApproveDraft(d)
    PROVE  UNCHANGED <<wiki, registry>> /\ (tx' = tx \/ tx'.stage = "none")
<1>1. ASSUME NEW w \in Workers, ThreadStep(w)
      PROVE  UNCHANGED <<wiki, registry, tx>>
  BY <1>1 DEF ThreadStep, ThreadStops, Extract, MarkForEnrichment, Enrich, Propose,
              Finish, ThreadFails, FailureIsLost, disk
<1>2. ASSUME NEW x \in Compilers, Compile(x)
      PROVE  UNCHANGED <<wiki, registry, tx>>
  BY <1>2 DEF Compile, ClaimCompilation, SubmitCompilation, FailCompilation,
              DropCompilation, disk
<1>3. ASSUME \/ \E c \in Contents : CreateSource(c)
             \/ \E c \in Contents, p \in TopicPages : CreateGenerated(c, p)
             \/ KickQueue \/ KickIsLost
             \/ \E d \in Drafts : RequestRevision(d) \/ RejectDraft(d)
             \/ Restart \/ SelectProject \/ UNCHANGED vars
      PROVE  UNCHANGED <<wiki, registry, tx>>
  BY <1>3 DEF CreateSource, CreateGenerated, KickQueue, KickFindsNothing,
              KickStartsThread, KickIsLost, RequestRevision, RejectDraft,
              Restart, SelectProject, ResumeQueuedDrafts, vars, disk
<1>4. ASSUME Crash
      PROVE  UNCHANGED <<wiki, registry>> /\ tx'.stage = "none"
  BY <1>4 DEF Crash, disk, NoTx
<1> QED BY <1>1, <1>2, <1>3, <1>4 DEF Next, PublishStep

LEMMA VisibleInvStep ==
    ASSUME Inv, WorkInv, VisibleInv, [Next]_vars
    PROVE  VisibleInv'
<1>1. ASSUME NEW d \in Drafts, ApproveDraft(d) PROVE VisibleInv'
  BY <1>1, ApproveVisible
<1>2. CASE PublishPage \/ PublishRegistry \/ PublishFails \/ PublishFailureIsLost
  BY <1>2, PublishVisible, FailureVisible
<1>3. CASE /\ UNCHANGED <<wiki, registry>> /\ ~PublishFails
           /\ tx' = tx \/ tx'.stage = "none"
  BY <1>3, QuietVisible
<1>4. PublishDraft => UNCHANGED <<wiki, registry>> /\ tx'.stage = "none"
  BY DEF PublishDraft, NoTx
<1> QED BY <1>1, <1>2, <1>3, <1>4, OtherStepsShowNothing

\* At every moment, in the middle of an approval and after a crash in the middle
\* of one, every visible page and every registered source was approved.
THEOREM OnlyApprovedIsVisible ==
    ASSUME SoundDeployment
    PROVE  Spec => []VisibleIsApproved
<1>1. Init => VisibleInv
  BY DEF Init, VisibleInv, Kept, NoPage, NoClaim, NoTx
<1>2. Inv /\ WorkInv /\ VisibleInv /\ [Next]_vars => VisibleInv'
  BY VisibleInvStep
<1>3. VisibleInv => VisibleIsApproved
  BY DEF VisibleInv, Kept, VisibleIsApproved
<1> QED BY <1>1, <1>2, <1>3, SpecInv, WorkInvHolds, PTL DEF Spec

-----------------------------------------------------------------------------
(* Registry, wiki and drafts tell the same story. *)

\* The version v of the page p, and the entry e of the content c, are what the
\* drafts they name have to say.
PageIsOf(v, p) ==
    v.draft # 0 => /\ Kept(v.draft) /\ proposal[v.draft].page = p
                   /\ v.rev = proposal[v.draft].rev /\ v.by = proposal[v.draft].by

EntryIsOf(e, c) ==
    e.draft # 0 => /\ Kept(e.draft) /\ kind[e.draft] = "source"
                   /\ sha[e.draft] = c /\ e.rev = revision[e.draft]

ShownInv ==
    /\ \A p \in Pages : PageIsOf(wiki[p], p)
    /\ \A c \in Contents : EntryIsOf(registry[c], c)

TrustedInv ==
    \A d \in Drafts : status[d] = "Trusted" =>
        /\ proposal[d].page \in Pages /\ wiki[proposal[d].page].draft # 0
        /\ kind[d] = "source" => registry[sha[d]].draft = d

\* No content is in two drafts that are not rejected.
UniqueInv ==
    \A d, e \in Existing :
        status[d] # "Rejected" /\ status[e] # "Rejected" /\ sha[d] = sha[e] => d = e

\* What an approval in progress would put back is consistent without its draft,
\* and what it has written so far is of its draft.
RestoreInv ==
    tx.stage # "none" =>
        /\ tx.change = proposal[tx.draft]
        /\ PageIsOf(tx.oldPage, tx.change.page) /\ tx.oldPage.draft # tx.draft
        /\ \A d \in Drafts : status[d] = "Trusted" /\ proposal[d].page = tx.change.page
              => tx.oldPage.draft # 0
        /\ kind[tx.draft] = "source" => tx.oldEntry.draft = 0
        /\ tx.stage \in {"page", "registry"} => wiki[tx.change.page].draft = tx.draft
        /\ tx.stage = "registry" /\ kind[tx.draft] = "source"
              => registry[sha[tx.draft]].draft = tx.draft

StoryInv == ShownInv /\ TrustedInv /\ UniqueInv /\ RestoreInv

\* A draft that exists keeps whether it is rejected or not, unless it is rejected.
LEMMA ContentsUnique ==
    ASSUME Inv, UniqueInv, [Next]_vars
    PROVE  UniqueInv'
<1>1. ASSUME NEW k, NEW c \in Contents, NewDraft(k, c), ~Duplicate(c) PROVE UniqueInv'
  <2> DEFINE n == created + 1
  <2>1. /\ n \in Drafts /\ Existing' = Existing \cup {n}
        /\ \A d \in Existing : sha'[d] = sha[d] /\ status'[d] = status[d]
    BY <1>1, NewDraftKeeps
  <2>2. sha'[n] = c
    BY <1>1, <2>1 DEF NewDraft, Inv, TypeOK
  <2>3. \A d \in Existing : sha[d] = c => status[d] = "Rejected"
    BY <1>1 DEF Duplicate
  <2> QED BY <2>1, <2>2, <2>3 DEF UniqueInv
<1>2. ASSUME UNCHANGED sha, Existing' \subseteq Existing PROVE UniqueInv'
  <2>1. \A d \in Existing : status[d] = "Rejected" => status'[d] = "Rejected"
    BY RejectedStays DEF Existing
  <2> QED BY <1>2, <2>1 DEF UniqueInv
<1>3. CASE UNCHANGED <<status, sha>>
  BY <1>3 DEF UniqueInv, Existing
<1>4. CASE UNCHANGED sha /\ ResumeQueuedDrafts
  <2>1. Existing' \subseteq Existing
    BY <1>4 DEF ResumeQueuedDrafts, Interrupted, Existing
  <2> QED BY <1>2, <1>4, <2>1
<1>5. ASSUME UNCHANGED sha, NEW d \in Existing, NEW s, Moved(d, s) PROVE UniqueInv'
  <2>1. Existing' \subseteq Existing
    BY <1>5, MovedOnly DEF Existing
  <2> QED BY <1>2, <1>5, <2>1
<1> QED BY <1>1, <1>3, <1>4, <1>5, StepShape

\* Nobody writes to a draft that is being published or is published.
LEMMA PublishedStays ==
    ASSUME Inv, WorkInv, [Next]_vars, NEW d \in Drafts,
           status[d] \in {"Publishing", "Trusted"}
    PROVE  /\ proposal'[d] = proposal[d] /\ sha'[d] = sha[d]
           /\ kind'[d] = kind[d] /\ revision'[d] = revision[d]
<1>1. d \in Existing
  BY DEF Existing
<1>2. ASSUME NEW w \in Workers, pc[w] = "propose" PROVE job[w] # d
  BY <1>2 DEF WorkInv, StatusAt
<1>3. proposal'[d] = proposal[d]
  BY <1>1, <1>2, ProposalWrites
<1>4. revision'[d] = revision[d]
  BY <1>1, RevisionWrites
<1> QED BY <1>1, <1>3, <1>4, ContentsStay, KindsStay

\* Only the end of an approval makes a draft trusted.
LEMMA TrustIsPublished ==
    ASSUME Inv, WorkInv, [Next]_vars, NEW d \in Drafts,
           status'[d] = "Trusted", status[d] # "Trusted"
    PROVE  PublishDraft /\ d = tx.draft
<1>1. CASE OtherStep
  BY <1>1, OtherMoves DEF OtherMove
<1>2. ASSUME NEW w \in Workers, ThreadStep(w) PROVE FALSE
  BY <1>2, ThreadMoves, ThreadHasDraft, MovedOnly DEF Worked
<1> QED BY <1>1, <1>2, StepsAreOfThreadsOrOthers

\* What names a draft that stays published remains what the draft has to say.
LEMMA PageStays ==
    ASSUME Inv, WorkInv, [Next]_vars, NEW v \in PageVersions, NEW p, PageIsOf(v, p),
           PublishFails => v.draft # tx.draft
    PROVE  v.draft # 0 => /\ status'[v.draft] \in {"Publishing", "Trusted"}
                          /\ proposal'[v.draft].page = p
                          /\ v.rev = proposal'[v.draft].rev
                          /\ v.by = proposal'[v.draft].by
<1>1. SUFFICES ASSUME v.draft # 0
      PROVE  /\ status'[v.draft] \in {"Publishing", "Trusted"}
             /\ proposal'[v.draft] = proposal[v.draft]
  BY DEF PageIsOf
<1>2. v.draft \in 0..MaxDrafts /\ Kept(v.draft)
  BY <1>1 DEF PageVersions, PageIsOf
<1>3. v.draft \in Drafts /\ status[v.draft] \in {"Publishing", "Trusted"}
  BY <1>1, <1>2, BoundsAreNaturals DEF Kept, Drafts
<1> QED BY <1>1, <1>2, <1>3, KeptStays, PublishedStays

LEMMA EntryStays ==
    ASSUME Inv, WorkInv, [Next]_vars, NEW e \in Claims, NEW c, EntryIsOf(e, c),
           PublishFails => e.draft # tx.draft
    PROVE  e.draft # 0 => /\ status'[e.draft] \in {"Publishing", "Trusted"}
                          /\ kind'[e.draft] = "source" /\ sha'[e.draft] = c
                          /\ e.rev = revision'[e.draft]
<1>1. SUFFICES ASSUME e.draft # 0
      PROVE  /\ status'[e.draft] \in {"Publishing", "Trusted"}
             /\ kind'[e.draft] = kind[e.draft] /\ sha'[e.draft] = sha[e.draft]
             /\ revision'[e.draft] = revision[e.draft]
  BY DEF EntryIsOf
<1>2. e.draft \in 0..MaxDrafts /\ Kept(e.draft)
  BY <1>1 DEF Claims, EntryIsOf
<1>3. e.draft \in Drafts /\ status[e.draft] \in {"Publishing", "Trusted"}
  BY <1>1, <1>2, BoundsAreNaturals DEF Kept, Drafts
<1> QED BY <1>1, <1>2, <1>3, KeptStays, PublishedStays

\* A step that publishes nothing and takes nothing back.
LEMMA QuietStory ==
    ASSUME Inv, WorkInv, StoryInv, [Next]_vars, UNCHANGED <<wiki, registry>>,
           tx' = tx \/ tx'.stage = "none", ~PublishFails, ~PublishDraft
    PROVE  ShownInv' /\ TrustedInv' /\ RestoreInv'
<1>1. /\ wiki \in [Pages -> PageVersions] /\ registry \in [Contents -> Claims]
      /\ tx \in Transactions
  BY DEF Inv, TypeOK
<1>2. ASSUME NEW p \in Pages PROVE PageIsOf(wiki[p], p)'
  <2>1. wiki[p] \in PageVersions /\ PageIsOf(wiki[p], p)
    BY <1>1 DEF StoryInv, ShownInv
  <2> QED BY <2>1, PageStays DEF PageIsOf, Kept
<1>3. ASSUME NEW c \in Contents PROVE EntryIsOf(registry[c], c)'
  <2>1. registry[c] \in Claims /\ EntryIsOf(registry[c], c)
    BY <1>1 DEF StoryInv, ShownInv
  <2> QED BY <2>1, EntryStays DEF EntryIsOf, Kept
<1>4. ASSUME NEW d \in Drafts, status'[d] = "Trusted"
      PROVE  /\ status[d] = "Trusted" /\ proposal'[d] = proposal[d] /\ sha'[d] = sha[d]
             /\ kind'[d] = kind[d]
  BY <1>4, TrustIsPublished, PublishedStays
<1>5. TrustedInv'
  BY <1>4 DEF StoryInv, TrustedInv
<1>6. ASSUME tx' = tx, tx.stage # "none" PROVE RestoreInv'
  <2>1. tx.draft \in Drafts /\ status[tx.draft] = "Publishing"
    BY <1>6 DEF Inv, TxInv
  <2>2. /\ proposal'[tx.draft] = proposal[tx.draft] /\ sha'[tx.draft] = sha[tx.draft]
        /\ kind'[tx.draft] = kind[tx.draft]
    BY <2>1, PublishedStays
  <2>3. tx.oldPage \in PageVersions /\ PageIsOf(tx.oldPage, tx.change.page)
    BY <1>1, <1>6 DEF Transactions, StoryInv, RestoreInv
  <2>4. PageIsOf(tx.oldPage, tx.change.page)'
    BY <1>6, <2>3, PageStays DEF PageIsOf, Kept
  <2> QED BY <1>4, <1>6, <2>2, <2>4 DEF StoryInv, RestoreInv
<1>7. RestoreInv'
  BY <1>6 DEF RestoreInv
<1> QED BY <1>2, <1>3, <1>5, <1>7 DEF ShownInv

\* What an approval finds names its draft nowhere.
LEMMA ApproveStory ==
    ASSUME Inv, WorkInv, StoryInv, [Next]_vars, NEW d \in Drafts, ApproveDraft(d)
    PROVE  ShownInv' /\ TrustedInv' /\ RestoreInv'
<1> DEFINE p == proposal[d].page
<1>1. /\ d # 0 /\ ~Kept(d) /\ d \in Existing /\ status[d] = "AwaitingReview"
      /\ p \in Pages /\ sha[d] \in Contents
  BY BoundsAreNaturals
  DEF ApproveDraft, CanApprove, Kept, Drafts, Inv, DraftInv, Existing
<1>2. /\ wiki \in [Pages -> PageVersions] /\ registry \in [Contents -> Claims]
      /\ UNCHANGED <<wiki, registry, sha, kind, proposal, revision>>
      /\ kind[d] = "source" => registry[sha[d]].draft # d
      /\ tx' = [stage |-> "staged", draft |-> d, change |-> proposal[d], oldPage |-> wiki[p],
                oldEntry |-> IF kind[d] = "source" THEN registry[sha[d]] ELSE NoClaim]
  BY DEF ApproveDraft, StagedSourceExists, Inv, TypeOK
<1>3. \A e \in Drafts : status'[e] = IF e = d THEN "Publishing" ELSE status[e]
  BY MovedOnly DEF ApproveDraft
<1>4. ~PublishFails
  BY DEF ApproveDraft, GateFree, PublishFails, RollBack
<1>5. ASSUME NEW q \in Pages PROVE PageIsOf(wiki[q], q)'
  <2>1. wiki[q] \in PageVersions /\ PageIsOf(wiki[q], q)
    BY <1>2 DEF StoryInv, ShownInv
  <2> QED BY <1>2, <1>4, <2>1, PageStays DEF PageIsOf, Kept
<1>6. ASSUME NEW c \in Contents PROVE EntryIsOf(registry[c], c)'
  <2>1. registry[c] \in Claims /\ EntryIsOf(registry[c], c)
    BY <1>2 DEF StoryInv, ShownInv
  <2> QED BY <1>2, <1>4, <2>1, EntryStays DEF EntryIsOf, Kept
<1>7. TrustedInv'
  BY <1>1, <1>2, <1>3 DEF StoryInv, TrustedInv
<1>8. wiki[p].draft # d
  BY <1>1 DEF StoryInv, ShownInv, PageIsOf
<1>9. ASSUME kind[d] = "source" PROVE registry[sha[d]].draft = 0
  <2> DEFINE e == registry[sha[d]].draft
  <2>1. SUFFICES ASSUME e # 0 PROVE FALSE
    OBVIOUS
  <2>2. Kept(e) /\ sha[e] = sha[d] /\ e \in 0..MaxDrafts
    BY <1>1, <1>2, <2>1, NamedDrafts DEF StoryInv, ShownInv, EntryIsOf
  <2>3. e \in Existing /\ status[e] # "Rejected"
    BY <2>1, <2>2, BoundsAreNaturals DEF Kept, Existing, Drafts
  <2>4. e = d
    BY <1>1, <2>2, <2>3 DEF StoryInv, UniqueInv
  <2> QED BY <1>2, <1>9, <2>4
<1>10. \A e \in Drafts : status'[e] = "Trusted" /\ proposal[e].page = p => wiki[p].draft # 0
  BY <1>3 DEF StoryInv, TrustedInv
<1>11. \A q \in Pages : PageIsOf(wiki[q], q)'
  BY <1>5
<1>12. /\ tx'.stage = "staged" /\ tx'.draft = d /\ tx'.change = proposal[d] /\ tx'.oldPage = wiki[p]
       /\ kind[d] = "source" => tx'.oldEntry = registry[sha[d]]
  BY <1>2
<1>13. RestoreInv'
  BY <1>1, <1>2, <1>8, <1>9, <1>10, <1>11, <1>12 DEF RestoreInv
<1> QED BY <1>5, <1>6, <1>7, <1>13 DEF ShownInv

\* What an approval writes is what its draft has to say.
LEMMA PublishStory ==
    ASSUME Inv, WorkInv, StoryInv, PublishPage \/ PublishRegistry
    PROVE  ShownInv' /\ TrustedInv' /\ RestoreInv'
<1>1. tx.stage # "none" /\ UNCHANGED <<status, sha, kind, proposal, revision>>
  BY DEF PublishPage, PublishRegistry
<1>2. /\ tx.draft \in Drafts /\ tx.draft # 0 /\ status[tx.draft] = "Publishing"
      /\ Kept(tx.draft) /\ tx.draft \in Existing
      /\ tx.change.page \in Pages /\ tx.change = proposal[tx.draft]
  BY <1>1, BoundsAreNaturals DEF Inv, TxInv, Kept, Existing, Drafts, StoryInv, RestoreInv
<1>3. /\ tx'.draft = tx.draft /\ tx'.change = tx.change /\ tx'.oldPage = tx.oldPage
      /\ tx'.oldEntry = tx.oldEntry
      /\ tx'.stage = IF PublishPage THEN "page" ELSE "registry"
  BY DEF PublishPage, PublishRegistry, Inv, TypeOK, Transactions
<1>4. CASE PublishPage
  <2>1. registry' = registry /\ \A p \in Pages :
          wiki'[p] = IF p = tx.change.page
                     THEN [draft |-> tx.draft, rev |-> tx.change.rev, by |-> tx.change.by]
                     ELSE wiki[p]
    BY <1>4 DEF PublishPage, Inv, TypeOK
  <2>2. \A p \in Pages : PageIsOf(wiki'[p], p)
    BY <1>2, <2>1 DEF StoryInv, ShownInv, PageIsOf
  <2>3. ShownInv'
    BY <1>1, <2>1, <2>2 DEF StoryInv, ShownInv, PageIsOf, EntryIsOf, Kept
  <2>4. TrustedInv'
    BY <1>1, <1>2, <2>1 DEF StoryInv, TrustedInv
  <2>5. RestoreInv'
    BY <1>1, <1>2, <1>3, <1>4, <2>1 DEF StoryInv, RestoreInv, PageIsOf, Kept
  <2> QED BY <2>3, <2>4, <2>5
<1>5. CASE PublishRegistry
  <2>1. wiki' = wiki /\ \A c \in Contents :
          registry'[c] = IF c = sha[tx.draft] /\ kind[tx.draft] = "source"
                         THEN [draft |-> tx.draft, rev |-> revision[tx.draft]]
                         ELSE registry[c]
    BY <1>5 DEF PublishRegistry, Inv, TypeOK
  <2>2. \A c \in Contents : EntryIsOf(registry'[c], c)
    BY <1>2, <2>1 DEF StoryInv, ShownInv, EntryIsOf
  <2>3. ShownInv'
    BY <1>1, <2>1, <2>2 DEF StoryInv, ShownInv, PageIsOf, EntryIsOf, Kept
  <2>4. ASSUME NEW d \in Drafts, status[d] = "Trusted"
        PROVE  d # tx.draft /\ sha[d] # sha[tx.draft] /\ sha[d] \in Contents
    BY <1>2, <2>4 DEF StoryInv, UniqueInv, Existing, Inv, DraftInv
  <2>5. TrustedInv'
    BY <1>1, <2>1, <2>4 DEF StoryInv, TrustedInv
  <2>6. ~PublishPage /\ tx.stage = "page" /\ sha[tx.draft] \in Contents
    BY <1>2, <1>5 DEF PublishPage, PublishRegistry, Inv, DraftInv
  <2>7. RestoreInv'
    BY <1>1, <1>2, <1>3, <2>1, <2>6 DEF StoryInv, RestoreInv, PageIsOf, Kept
  <2> QED BY <2>3, <2>5, <2>7
<1> QED BY <1>4, <1>5

\* A draft becomes trusted when its page and its entry are there.
LEMMA TrustStory ==
    ASSUME Inv, WorkInv, StoryInv, [Next]_vars, PublishDraft
    PROVE  ShownInv' /\ TrustedInv' /\ RestoreInv'
<1>1. /\ tx.stage = "registry" /\ tx'.stage = "none" /\ Moved(tx.draft, "Trusted")
      /\ UNCHANGED <<wiki, registry, sha, kind, proposal, revision>> /\ ~PublishFails
  <2>1. tx.draft \in Drafts /\ status[tx.draft] = "Publishing"
    BY DEF PublishDraft, Inv, TxInv
  <2>2. status'[tx.draft] = "Trusted"
    BY <2>1, MovedOnly DEF PublishDraft
  <2>3. ~PublishFails
    BY <2>1, <2>2, MovedOnly DEF PublishFails
  <2> QED BY <2>3 DEF PublishDraft, NoTx
<1>2. /\ wiki \in [Pages -> PageVersions] /\ registry \in [Contents -> Claims]
  BY DEF Inv, TypeOK
<1>3. ASSUME NEW p \in Pages PROVE PageIsOf(wiki[p], p)'
  <2>1. wiki[p] \in PageVersions /\ PageIsOf(wiki[p], p)
    BY <1>2 DEF StoryInv, ShownInv
  <2> QED BY <1>1, <2>1, PageStays DEF PageIsOf, Kept
<1>4. ASSUME NEW c \in Contents PROVE EntryIsOf(registry[c], c)'
  <2>1. registry[c] \in Claims /\ EntryIsOf(registry[c], c)
    BY <1>2 DEF StoryInv, ShownInv
  <2> QED BY <1>1, <2>1, EntryStays DEF EntryIsOf, Kept
<1>5. /\ tx.draft \in Drafts /\ tx.draft # 0 /\ tx.change.page \in Pages
      /\ tx.change = proposal[tx.draft] /\ wiki[tx.change.page].draft = tx.draft
      /\ kind[tx.draft] = "source" => registry[sha[tx.draft]].draft = tx.draft
  BY <1>1, BoundsAreNaturals DEF Inv, TxInv, Drafts, StoryInv, RestoreInv
<1>6. \A d \in Drafts : status'[d] = "Trusted" => d = tx.draft \/ status[d] = "Trusted"
  BY <1>1, <1>5, MovedOnly
<1>7. TrustedInv'
  BY <1>1, <1>5, <1>6 DEF StoryInv, TrustedInv
<1> QED BY <1>1, <1>3, <1>4, <1>7 DEF ShownInv, RestoreInv

\* A failed approval leaves no page and no entry of its draft.
LEMMA FailureStory ==
    ASSUME Inv, WorkInv, StoryInv, [Next]_vars, PublishFails \/ PublishFailureIsLost
    PROVE  ShownInv' /\ TrustedInv' /\ RestoreInv'
<1>1. /\ RollBack /\ tx.stage # "none" /\ tx'.stage = "none"
      /\ UNCHANGED <<sha, kind, proposal, revision>>
  BY DEF PublishFails, PublishFailureIsLost, RollBack, NoTx
<1>2. /\ tx.draft \in Drafts /\ tx.draft # 0 /\ status[tx.draft] = "Publishing"
      /\ tx.draft \in Existing
      /\ tx.change.page \in Pages /\ tx.change = proposal[tx.draft]
      /\ tx.oldPage \in PageVersions /\ tx.oldEntry \in Claims
      /\ wiki \in [Pages -> PageVersions] /\ registry \in [Contents -> Claims]
      /\ PageIsOf(tx.oldPage, tx.change.page) /\ tx.oldPage.draft # tx.draft
      /\ kind[tx.draft] = "source" => tx.oldEntry.draft = 0
  BY <1>1, BoundsAreNaturals
  DEF Inv, TypeOK, Transactions, TxInv, Existing, Drafts, StoryInv, RestoreInv
<1>3. \A p \in Pages : wiki'[p] = IF p = tx.change.page THEN tx.oldPage ELSE wiki[p]
  BY <1>1, <1>2 DEF RollBack
<1>4. \A c \in Contents : registry'[c] = IF c = sha[tx.draft] /\ kind[tx.draft] = "source"
                                         THEN tx.oldEntry ELSE registry[c]
  BY <1>1, <1>2 DEF RollBack
<1>5. ASSUME NEW p \in Pages PROVE PageIsOf(wiki[p], p)'
  <2>1. /\ wiki'[p] \in PageVersions /\ PageIsOf(wiki'[p], p) /\ wiki'[p].draft # tx.draft
    <3>1. CASE p = tx.change.page
      BY <1>2, <1>3, <3>1
    <3>2. CASE p # tx.change.page
      BY <1>2, <1>3, <3>2 DEF StoryInv, ShownInv, PageIsOf
    <3> QED BY <3>1, <3>2
  <2> QED BY <2>1, PageStays DEF PageIsOf, Kept
<1>6. ASSUME NEW c \in Contents PROVE EntryIsOf(registry[c], c)'
  <2>1. /\ registry'[c] \in Claims /\ EntryIsOf(registry'[c], c)
        /\ registry'[c].draft # tx.draft
    <3>1. CASE c = sha[tx.draft] /\ kind[tx.draft] = "source"
      BY <1>2, <1>4, <3>1 DEF EntryIsOf
    <3>2. CASE ~(c = sha[tx.draft] /\ kind[tx.draft] = "source")
      BY <1>2, <1>4, <3>2 DEF StoryInv, ShownInv, EntryIsOf
    <3> QED BY <3>1, <3>2
  <2> QED BY <2>1, EntryStays DEF EntryIsOf, Kept
<1>7. ASSUME NEW d \in Drafts, status'[d] = "Trusted"
      PROVE  status[d] = "Trusted" /\ d # tx.draft
  <2>1. ~PublishDraft
    BY <1>1, <1>2, MovedOnly DEF PublishDraft, PublishFails, PublishFailureIsLost
  <2> QED BY <1>2, <1>7, <2>1, TrustIsPublished
<1>8. ASSUME NEW d \in Drafts, status[d] = "Trusted", d # tx.draft
      PROVE  sha[d] # sha[tx.draft] /\ sha[d] \in Contents
  BY <1>2, <1>8 DEF StoryInv, UniqueInv, Existing, Inv, DraftInv
<1>9. \A d \in Drafts : status[d] = "Trusted" /\ proposal[d].page = tx.change.page
        => tx.oldPage.draft # 0
  BY <1>1 DEF StoryInv, RestoreInv
<1>10. TrustedInv'
  BY <1>1, <1>3, <1>4, <1>7, <1>8, <1>9 DEF StoryInv, TrustedInv
<1> QED BY <1>1, <1>5, <1>6, <1>10 DEF ShownInv, RestoreInv

LEMMA StoryInvStep ==
    ASSUME Inv, WorkInv, StoryInv, [Next]_vars
    PROVE  StoryInv'
<1>1. SUFFICES ShownInv' /\ TrustedInv' /\ RestoreInv'
  BY ContentsUnique DEF StoryInv
<1>2. ASSUME NEW d \in Drafts, ApproveDraft(d) PROVE ShownInv' /\ TrustedInv' /\ RestoreInv'
  BY <1>2, ApproveStory
<1>3. CASE PublishPage \/ PublishRegistry \/ PublishFails \/ PublishFailureIsLost \/ PublishDraft
  BY <1>3, PublishStory, FailureStory, TrustStory
<1>4. CASE /\ UNCHANGED <<wiki, registry>> /\ ~PublishFails /\ ~PublishDraft
           /\ tx' = tx \/ tx'.stage = "none"
  BY <1>4, QuietStory
<1> QED BY <1>1, <1>2, <1>3, <1>4, OtherStepsShowNothing

\* Whenever the mutex is free, registry, wiki and drafts agree: what is there
\* is of a published draft, in the version that was reviewed, and what is trusted
\* is there, after failed approvals and after a crash in one.
THEOREM PublicationConsistent ==
    ASSUME SoundDeployment
    PROVE  Spec => []PublicationIsConsistent
<1>1. Init => StoryInv
  BY DEF Init, StoryInv, ShownInv, TrustedInv, UniqueInv, RestoreInv, PageIsOf, EntryIsOf,
         Existing, NoPage, NoClaim, NoTx
<1>2. Inv /\ WorkInv /\ StoryInv /\ [Next]_vars => StoryInv'
  BY StoryInvStep
<1>3. StoryInv => PublicationIsConsistent
  BY DEF StoryInv, ShownInv, TrustedInv, PageIsOf, EntryIsOf, Kept, PublicationIsConsistent
<1> QED BY <1>1, <1>2, <1>3, SpecInv, WorkInvHolds, PTL DEF Spec

=============================================================================
