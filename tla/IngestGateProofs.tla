-------------------------- MODULE IngestGateProofs --------------------------
(***************************************************************************)
(* Theorems about IngestGate, for every value of its constants.             *)
(***************************************************************************)
EXTENDS IngestGate, FiniteSetTheorems, WellFoundedInduction, TLAPS

-----------------------------------------------------------------------------
(* The oldest draft of a set of drafts. *)

\* The queue and the claims pick the draft created first: in every non-empty
\* set of drafts there is one, by the well-founded order of their initial
\* segments under inclusion.
LEMMA OldestIsMember ==
    ASSUME NEW S \in SUBSET Drafts, S # {}
    PROVE  Oldest(S) \in S /\ \A e \in S : Oldest(S) <= e
<1> DEFINE T == {1..d : d \in S}
<1> USE BoundsAreNaturals
<1>1. IsFiniteSet(Drafts)
  BY FS_Interval DEF Drafts
<1>2. IsWellFoundedOn(StrictSubsetOrdering(Drafts), FiniteSubsetsOf(Drafts))
  BY FS_StrictSubsetOrderingWellFounded
<1>3. \A d \in S : 1..d \in SUBSET Drafts
  BY DEF Drafts
<1>4. T \subseteq SUBSET Drafts /\ T # {}
  BY <1>3, Zenon
<1>5. T \subseteq FiniteSubsetsOf(Drafts)
  BY <1>1, <1>4, FS_FiniteSubsetsOfFinite
<1>6. \E x \in T : \A y \in T : <<y, x>> \notin StrictSubsetOrdering(Drafts)
  BY <1>2, <1>4, <1>5, WFMin
<1>7. PICK d \in S : \A e \in S : <<1..e, 1..d>> \notin StrictSubsetOrdering(Drafts)
  BY <1>6
<1>8. ASSUME NEW e \in S PROVE d <= e
  <2>1. d \in Nat /\ e \in Nat /\ 1 <= d /\ d <= MaxDrafts /\ e <= MaxDrafts
    BY DEF Drafts
  <2>2. SUFFICES ASSUME e < d PROVE FALSE
    BY <2>1
  <2>3. 1..e \subseteq 1..d /\ 1..d \subseteq Drafts
    BY <2>1, <2>2 DEF Drafts
  <2>4. d \in 1..d /\ d \notin 1..e
    BY <2>1, <2>2
  <2>5. <<1..e, 1..d>> \in StrictSubsetOrdering(Drafts)
    BY <2>3, <2>4, Zenon DEF StrictSubsetOrdering
  <2> QED BY <1>7, <2>5
<1> QED BY <1>8 DEF Oldest

-----------------------------------------------------------------------------
(* The inductive invariant behind type correctness. *)

\* A draft exists once it was created, and then has content; its proposal names
\* a page as long as the draft can be approved, or put back after a failure.
DraftInv ==
    /\ \A d \in Drafts : status[d] = "Absent" <=> d > created
    /\ \A d \in Existing :
         /\ sha[d] \in Contents
         /\ kind[d] = "generated" \/ status[d] \in {"AwaitingReview", "Publishing"}
              => proposal[d].page \in Pages

\* A thread has a draft of the kind its steps are for.
ThreadInv ==
    \A w \in Workers : pc[w] # "idle" =>
        /\ job[w] \in Existing
        /\ pc[w] \in {"mark", "enrich"} => kind[job[w]] = "generated"
        /\ pc[w] \in {"extract", "propose"} => kind[job[w]] = "source"
        /\ pc[w] = "finish" => proposal[job[w]].page \in Pages

ClaimInv ==
    \A x \in Compilers : compiling[x] # NoClaim =>
        /\ compiling[x].draft \in Existing
        /\ kind[compiling[x].draft] = "source"

\* While an approval holds the mutex its draft is being published: whatever
\* changes a status takes the mutex first.
TxInv ==
    tx.stage # "none" =>
        /\ tx.draft \in Drafts
        /\ status[tx.draft] = "Publishing"
        /\ tx.change.page \in Pages

\* A dead process has no threads and no approval.
DeadInv == ~up => tx.stage = "none" /\ \A w \in Workers : pc[w] = "idle"

Inv == TypeOK /\ DraftInv /\ ThreadInv /\ ClaimInv /\ TxInv /\ DeadInv

\* What is left of an invariant when a step changes nothing it mentions is
\* stated once: drafts that exist go on existing, and change only status.
LEMMA MoveKeepsDrafts ==
    ASSUME Inv, NEW d \in Existing, NEW s \in Statuses \ {"Absent"},
           s \in {"AwaitingReview", "Publishing"} => proposal[d].page \in Pages,
           Moved(d, s), UNCHANGED <<created, kind, sha, proposal>>
    PROVE  /\ status' \in [Drafts -> Statuses]
           /\ Existing' = Existing
           /\ DraftInv'
<1>1. /\ status \in [Drafts -> Statuses] /\ d \in Drafts /\ status[d] # "Absent"
      /\ status' = [status EXCEPT ![d] = s] /\ DraftInv
  BY DEF Inv, TypeOK, Existing, Moved
<1>2. status' \in [Drafts -> Statuses]
  BY <1>1
<1>3. \A e \in Drafts : status'[e] = IF e = d THEN s ELSE status[e]
  BY <1>1
<1>4. Existing' = Existing
  BY <1>1, <1>3 DEF Existing
<1>5. \A e \in Drafts : status'[e] = "Absent" <=> status[e] = "Absent"
  BY <1>1, <1>3
<1>6. DraftInv'
  BY <1>1, <1>3, <1>4, <1>5 DEF DraftInv
<1> QED BY <1>2, <1>4, <1>6

LEMMA ThreadsKept ==
    ASSUME Inv, Existing' = Existing, UNCHANGED <<kind, proposal, pc, job>>
    PROVE  ThreadInv'
  BY DEF Inv, ThreadInv

LEMMA ClaimsKept ==
    ASSUME Inv, Existing' = Existing, UNCHANGED <<kind, compiling>>
    PROVE  ClaimInv'
  BY DEF Inv, ClaimInv

LEMMA NoTxKept ==
    ASSUME tx.stage = "none", up, UNCHANGED <<tx, up>>
    PROVE  TxInv' /\ DeadInv'
  BY DEF TxInv, DeadInv

LEMMA ThreadHasDraft ==
    ASSUME Inv, NEW w \in Workers, pc[w] # "idle"
    PROVE  job[w] \in Existing /\ job[w] \in Drafts
  BY DEF Inv, ThreadInv, Existing

LEMMA InitInv == Init => Inv
<1> SUFFICES ASSUME Init PROVE Inv
  OBVIOUS
<1>1. TypeOK
  BY BoundsAreNaturals
  DEF Init, TypeOK, Statuses, Claims, PageVersions, Proposals, Authors,
      Transactions, ThreadStates, NoProposal, NoClaim, NoPage, NoTx
<1>2. Existing = {}
  BY DEF Init, Existing
<1>3. DraftInv
  BY <1>2, BoundsAreNaturals DEF Init, DraftInv, Drafts
<1>4. ThreadInv /\ ClaimInv /\ TxInv /\ DeadInv
  BY DEF Init, ThreadInv, ClaimInv, TxInv, DeadInv, NoTx
<1> QED BY <1>1, <1>3, <1>4 DEF Inv


-----------------------------------------------------------------------------
(* One lemma per action. *)

\* A new draft takes the number after the last one.
LEMMA NewDraftKeeps ==
    ASSUME Inv, NEW k, NEW c \in Contents, NewDraft(k, c)
    PROVE  /\ created + 1 \in Drafts
           /\ status[created + 1] = "Absent"
           /\ created' \in 0..MaxDrafts
           /\ status' \in [Drafts -> Statuses]
           /\ kind' \in [Drafts -> {"source", "generated"}]
           /\ sha' \in [Drafts -> Contents \cup {None}]
           /\ revision' \in [Drafts -> 0..MaxRevision]
           /\ Existing' = Existing \cup {created + 1}
           /\ \A d \in Existing : kind'[d] = kind[d] /\ sha'[d] = sha[d]
                                  /\ status'[d] = status[d]
           /\ status'[created + 1] = "Uploaded"
           /\ kind'[created + 1] = k
           /\ sha'[created + 1] = c
           /\ \A d \in Drafts : status'[d] = "Absent" <=> d > created'
<1> DEFINE n == created + 1
<1>1. /\ created \in Nat /\ n \in Drafts /\ n \in 0..MaxDrafts
      /\ \A d \in Drafts : d \in Nat
  BY BoundsAreNaturals DEF Inv, TypeOK, NewDraft, Drafts
<1>2. /\ status \in [Drafts -> Statuses] /\ kind \in [Drafts -> {"source", "generated"}]
      /\ sha \in [Drafts -> Contents \cup {None}] /\ revision \in [Drafts -> 0..MaxRevision]
      /\ \A d \in Drafts : status[d] = "Absent" <=> d > created
  BY DEF Inv, TypeOK, DraftInv
<1>3. /\ created' = n /\ status' = [status EXCEPT ![n] = "Uploaded"]
      /\ kind' = [kind EXCEPT ![n] = k] /\ sha' = [sha EXCEPT ![n] = c]
      /\ revision' = [revision EXCEPT ![n] = 1] /\ k \in {"source", "generated"}
  BY KindsAreKnown DEF NewDraft, Moved
<1>4. status[n] = "Absent" /\ n \notin Existing
  BY <1>1, <1>2 DEF Existing
<1>5. status' \in [Drafts -> Statuses] /\ kind' \in [Drafts -> {"source", "generated"}]
  BY <1>1, <1>2, <1>3 DEF Statuses
<1>6. sha' \in [Drafts -> Contents \cup {None}] /\ revision' \in [Drafts -> 0..MaxRevision]
  BY <1>1, <1>2, <1>3, BoundsAreNaturals
<1>7. \A d \in Drafts : status'[d] = IF d = n THEN "Uploaded" ELSE status[d]
  BY <1>2, <1>3
<1>8. Existing' = Existing \cup {n}
  BY <1>1, <1>7 DEF Existing
<1>9. \A d \in Existing : kind'[d] = kind[d] /\ sha'[d] = sha[d] /\ status'[d] = status[d]
  BY <1>2, <1>3, <1>4, <1>7 DEF Existing
<1>10. \A d \in Drafts : status'[d] = "Absent" <=> d > created'
  BY <1>1, <1>2, <1>3, <1>7
<1> QED BY <1>1, <1>2, <1>3, <1>4, <1>5, <1>6, <1>7, <1>8, <1>9, <1>10

LEMMA CreateSourceInv ==
    ASSUME Inv, NEW c \in Contents, CreateSource(c)
    PROVE  Inv'
<1> DEFINE n == created + 1
<1>1. NewDraft("source", c)
  BY DEF CreateSource
<1>2. TypeOK'
  BY <1>1, NewDraftKeeps DEF Inv, TypeOK, CreateSource, Kicked, threads
<1>3. DraftInv'
  <2>1. \A d \in Existing : /\ sha'[d] \in Contents
                            /\ kind'[d] = "generated" \/ status'[d] \in {"AwaitingReview", "Publishing"}
                                 => proposal'[d].page \in Pages
    BY <1>1, NewDraftKeeps DEF Inv, DraftInv, CreateSource
  <2>2. sha'[n] \in Contents /\ kind'[n] = "source" /\ status'[n] = "Uploaded"
    BY <1>1, NewDraftKeeps
  <2>3. Existing' = Existing \cup {n} /\ \A d \in Drafts : status'[d] = "Absent" <=> d > created'
    BY <1>1, NewDraftKeeps
  <2> QED BY <2>1, <2>2, <2>3 DEF DraftInv
<1>4. ThreadInv' /\ ClaimInv'
  BY <1>1, NewDraftKeeps DEF Inv, ThreadInv, ClaimInv, CreateSource, threads
<1>5. TxInv' /\ DeadInv'
  BY NoTxKept DEF CreateSource, GateFree
<1> QED BY <1>2, <1>3, <1>4, <1>5 DEF Inv

LEMMA CreateGeneratedInv ==
    ASSUME Inv, NEW c \in Contents, NEW p \in TopicPages, CreateGenerated(c, p)
    PROVE  Inv'
<1> DEFINE n == created + 1
           given == [rev |-> 1, by |-> "given", page |-> p,
                     op |-> IF wiki[p].draft = 0 THEN "create" ELSE "update"]
<1>1. NewDraft("generated", c)
  BY DEF CreateGenerated
<1>2. given \in Proposals /\ given.page \in Pages
  BY BoundsAreNaturals DEF Proposals, Authors, Pages
<1>3. proposal' = [proposal EXCEPT ![n] = given] /\ proposal \in [Drafts -> Proposals]
  BY DEF CreateGenerated, Inv, TypeOK
<1>4. n \in Drafts /\ n \notin Existing
  BY <1>1, NewDraftKeeps DEF Existing
<1>5. /\ proposal' \in [Drafts -> Proposals] /\ proposal'[n] = given
      /\ \A d \in Existing : proposal'[d] = proposal[d]
  BY <1>2, <1>3, <1>4 DEF Existing
<1>6. TypeOK'
  BY <1>1, <1>5, NewDraftKeeps DEF Inv, TypeOK, CreateGenerated, Kicked, threads
<1>7. DraftInv'
  <2>1. \A d \in Existing : /\ sha'[d] \in Contents
                            /\ kind'[d] = "generated" \/ status'[d] \in {"AwaitingReview", "Publishing"}
                                 => proposal'[d].page \in Pages
    BY <1>1, <1>5, NewDraftKeeps DEF Inv, DraftInv
  <2>2. sha'[n] \in Contents /\ proposal'[n].page \in Pages
    BY <1>1, <1>2, <1>5, NewDraftKeeps
  <2>3. Existing' = Existing \cup {n} /\ \A d \in Drafts : status'[d] = "Absent" <=> d > created'
    BY <1>1, NewDraftKeeps
  <2> QED BY <2>1, <2>2, <2>3 DEF DraftInv
<1>8. ThreadInv' /\ ClaimInv'
  BY <1>1, <1>5, NewDraftKeeps DEF Inv, ThreadInv, ClaimInv, CreateGenerated, threads
<1>9. TxInv' /\ DeadInv'
  BY NoTxKept DEF CreateGenerated, GateFree
<1> QED BY <1>6, <1>7, <1>8, <1>9 DEF Inv

LEMMA NothingMoves ==
    ASSUME Inv, UNCHANGED disk
    PROVE  Existing' = Existing /\ DraftInv'
  BY DEF Inv, DraftInv, Existing, disk

\* A kick that finds nothing, or is lost, only takes itself away.
LEMMA KickSpentInv ==
    ASSUME Inv, KickFindsNothing \/ KickIsLost
    PROVE  Inv'
<1>1. UNCHANGED <<disk, threads, compiling, tx, up>> /\ GateFree /\ owedKicks' \in Nat
  BY DEF Inv, TypeOK, KickFindsNothing, KickIsLost
<1>2. disturbed' \in 0..MaxDisturbances
  BY BoundsAreNaturals DEF Inv, TypeOK, KickFindsNothing, KickIsLost, Disturb
<1>3. TypeOK'
  BY <1>1, <1>2 DEF Inv, TypeOK, disk, threads
<1>4. Existing' = Existing /\ DraftInv'
  BY <1>1, NothingMoves
<1>5. ThreadInv' /\ ClaimInv' /\ TxInv' /\ DeadInv'
  BY <1>1, <1>4, ThreadsKept, ClaimsKept, NoTxKept DEF disk, threads, GateFree
<1> QED BY <1>3, <1>4, <1>5 DEF Inv

\* The draft a kick starts is a queued one, so it exists.
LEMMA QueuedIsOldest ==
    ASSUME Queued # {}
    PROVE  /\ Oldest(Queued) \in Existing /\ Oldest(Queued) \in Drafts
           /\ status[Oldest(Queued)] \in {"Uploaded", "RevisionRequested"}
           /\ NativeCompile => kind[Oldest(Queued)] = "generated"
<1>1. Queued \in SUBSET Drafts
  BY DEF Queued
<1>2. Oldest(Queued) \in Queued
  BY <1>1, OldestIsMember
<1> QED BY <1>2 DEF Queued, Existing

LEMMA KickStartsThreadInv ==
    ASSUME Inv, NEW w \in Workers, KickStartsThread(w)
    PROVE  Inv'
<1> DEFINE d == Oldest(Queued)
<1>1. d \in Existing /\ d \in Drafts /\ d \in 0..MaxDrafts /\ d # 0
  BY QueuedIsOldest, BoundsAreNaturals DEF KickStartsThread, Drafts
<1>2. /\ Moved(d, "Parsing") /\ pc' = [pc EXCEPT ![w] = FirstStep(d)]
      /\ job' = [job EXCEPT ![w] = d]
  BY DEF KickStartsThread
<1>3. status' \in [Drafts -> Statuses] /\ Existing' = Existing /\ DraftInv'
  BY <1>1, <1>2, MoveKeepsDrafts DEF KickStartsThread, Statuses
<1>4. /\ FirstStep(d) \in {"extract", "mark", "finish"}
      /\ FirstStep(d) = "extract" => kind[d] = "source"
      /\ FirstStep(d) \in {"mark", "finish"} => kind[d] = "generated"
  BY <1>1 DEF FirstStep, Inv, TypeOK
<1>5. TypeOK'
  BY <1>1, <1>2, <1>3, <1>4 DEF Inv, TypeOK, KickStartsThread, ThreadStates
<1>6. ThreadInv'
  <2>1. FirstStep(d) = "finish" => proposal[d].page \in Pages
    BY <1>1, <1>4 DEF Inv, DraftInv
  <2> QED BY <1>1, <1>2, <1>3, <1>4, <2>1 DEF Inv, TypeOK, ThreadInv, KickStartsThread
<1>7. ClaimInv' /\ TxInv' /\ DeadInv'
  BY <1>3, ClaimsKept, NoTxKept DEF KickStartsThread, GateFree
<1> QED BY <1>3, <1>5, <1>6, <1>7 DEF Inv

\* A thread that ends leaves the other threads as they are.
LEMMA ThreadEndsKeeps ==
    ASSUME Inv, NEW w \in Workers, ThreadEnds(w)
    PROVE  /\ pc' \in [Workers -> ThreadStates] /\ job' \in [Workers -> 0..MaxDrafts]
           /\ seen' \in [Workers -> 0..MaxRevision] /\ owedKicks' \in Nat
           /\ \A v \in Workers : pc'[v] = "idle" <=> job'[v] = 0
           /\ \A v \in Workers : pc'[v] # "idle" => v # w /\ pc'[v] = pc[v] /\ job'[v] = job[v]
  BY BoundsAreNaturals DEF Inv, TypeOK, ThreadEnds, Kicked, ThreadStates

LEMMA EndedThreadInv ==
    ASSUME Inv, NEW w \in Workers, ThreadEnds(w), GateFree,
           status' \in [Drafts -> Statuses], Existing' = Existing, DraftInv',
           disturbed' \in 0..MaxDisturbances,
           UNCHANGED <<created, kind, sha, revision, proposal, registry, wiki,
                       compiling, tx, up>>
    PROVE  Inv'
<1>1. TypeOK'
  BY ThreadEndsKeeps DEF Inv, TypeOK
<1>2. ThreadInv'
  BY ThreadEndsKeeps DEF Inv, ThreadInv
<1>3. ClaimInv' /\ TxInv' /\ DeadInv'
  BY ClaimsKept, NoTxKept DEF GateFree
<1> QED BY <1>1, <1>2, <1>3 DEF Inv

LEMMA ThreadStopsInv ==
    ASSUME Inv, NEW w \in Workers, ThreadStops(w)
    PROVE  Inv'
<1>1. Existing' = Existing /\ DraftInv'
  BY NothingMoves DEF ThreadStops
<1> QED BY <1>1, EndedThreadInv DEF ThreadStops, disk, Inv, TypeOK

LEMMA ExtractInv ==
    ASSUME Inv, NEW w \in Workers, Extract(w)
    PROVE  Inv'
<1>1. job[w] \in Existing /\ job[w] \in Drafts
  BY ThreadHasDraft DEF Extract
<1>2. status' \in [Drafts -> Statuses] /\ Existing' = Existing /\ DraftInv'
  BY <1>1, MoveKeepsDrafts DEF Extract, Statuses
<1>3. TypeOK'
  BY <1>1, <1>2 DEF Inv, TypeOK, Extract, ThreadStates
<1>4. ThreadInv'
  BY <1>2 DEF Inv, TypeOK, ThreadInv, Extract
<1>5. ClaimInv' /\ TxInv' /\ DeadInv'
  BY <1>2, ClaimsKept, NoTxKept DEF Extract, GateFree
<1> QED BY <1>2, <1>3, <1>4, <1>5 DEF Inv

LEMMA MarkForEnrichmentInv ==
    ASSUME Inv, NEW w \in Workers, MarkForEnrichment(w)
    PROVE  Inv'
<1>1. job[w] \in Existing /\ job[w] \in Drafts
  BY ThreadHasDraft DEF MarkForEnrichment
<1>2. status' \in [Drafts -> Statuses] /\ Existing' = Existing /\ DraftInv'
  BY <1>1, MoveKeepsDrafts DEF MarkForEnrichment, Statuses
<1>3. TypeOK'
  BY <1>1, <1>2 DEF Inv, TypeOK, MarkForEnrichment, ThreadStates
<1>4. ThreadInv'
  BY <1>2 DEF Inv, TypeOK, ThreadInv, MarkForEnrichment
<1>5. ClaimInv' /\ TxInv' /\ DeadInv'
  BY <1>2, ClaimsKept, NoTxKept DEF MarkForEnrichment, GateFree
<1> QED BY <1>2, <1>3, <1>4, <1>5 DEF Inv

LEMMA EnrichInv ==
    ASSUME Inv, NEW w \in Workers, Enrich(w)
    PROVE  Inv'
<1>1. job[w] \in Existing /\ kind[job[w]] = "generated"
  BY DEF Inv, ThreadInv, Enrich
<1>2. TypeOK'
  BY DEF Inv, TypeOK, Enrich, disk, ThreadStates
<1>3. Existing' = Existing /\ DraftInv'
  BY NothingMoves DEF Enrich
<1>4. ThreadInv'
  <2>1. proposal[job[w]].page \in Pages
    BY <1>1 DEF Inv, DraftInv
  <2> QED BY <1>1, <1>3, <2>1 DEF Inv, TypeOK, ThreadInv, Enrich, disk
<1>5. ClaimInv'
  BY <1>3, ClaimsKept DEF Enrich, disk
<1>6. TxInv' /\ DeadInv'
  BY DEF Inv, TxInv, DeadInv, Enrich, disk
<1> QED BY <1>2, <1>3, <1>4, <1>5, <1>6 DEF Inv

\* The write without the mutex: it changes one proposal and no status.
LEMMA ProposeInv ==
    ASSUME Inv, NEW w \in Workers, Propose(w)
    PROVE  Inv'
<1> DEFINE d == job[w]
           p == [rev |-> seen[w], by |-> "gate", page |-> sha[d], op |-> "create"]
<1>1. d \in Existing /\ d \in Drafts
  BY ThreadHasDraft DEF Propose
<1>2. sha[d] \in Contents
  BY <1>1 DEF Inv, DraftInv
<1>3. p \in Proposals /\ p.page \in Pages
  BY <1>2 DEF Proposals, Authors, Pages, Inv, TypeOK
<1>4. proposal' = [proposal EXCEPT ![d] = p] /\ proposal \in [Drafts -> Proposals]
  BY DEF Propose, Inv, TypeOK
<1>5. /\ proposal' \in [Drafts -> Proposals]
      /\ \A e \in Drafts : proposal'[e] = IF e = d THEN p ELSE proposal[e]
  BY <1>1, <1>3, <1>4
<1>6. Existing' = Existing
  BY DEF Propose, Existing
<1>7. TypeOK'
  BY <1>5 DEF Inv, TypeOK, Propose, ThreadStates
<1>8. DraftInv'
  BY <1>3, <1>5, <1>6 DEF Inv, DraftInv, Propose, Existing
<1>9. ThreadInv'
  <2>1. \A v \in Workers : pc[v] # "idle" => job[v] \in Drafts
    BY ThreadHasDraft
  <2> QED BY <1>1, <1>3, <1>5, <1>6, <2>1 DEF Inv, TypeOK, ThreadInv, Propose
<1>10. ClaimInv'
  BY <1>6, ClaimsKept DEF Propose
<1>11. TxInv' /\ DeadInv'
  BY DEF Inv, TypeOK, TxInv, DeadInv, Propose
<1> QED BY <1>7, <1>8, <1>9, <1>10, <1>11 DEF Inv

LEMMA FinishInv ==
    ASSUME Inv, NEW w \in Workers, Finish(w)
    PROVE  Inv'
<1>1. job[w] \in Existing /\ proposal[job[w]].page \in Pages
  BY DEF Inv, ThreadInv, Finish
<1>2. status' \in [Drafts -> Statuses] /\ Existing' = Existing /\ DraftInv'
  BY <1>1, MoveKeepsDrafts DEF Finish, Statuses
<1> QED BY <1>2, EndedThreadInv DEF Finish, Inv, TypeOK

LEMMA ThreadFailsInv ==
    ASSUME Inv, NEW w \in Workers, ThreadFails(w) \/ FailureIsLost(w)
    PROVE  Inv'
<1>1. pc[w] # "idle" /\ disturbed' \in 0..MaxDisturbances
  BY BoundsAreNaturals
  DEF ThreadFails, FailureIsLost, ThreadMayFail, Disturb, Inv, TypeOK
<1>2. job[w] \in Existing
  BY <1>1, ThreadHasDraft
<1>3. status' = status \/ Moved(job[w], "Failed")
  BY DEF ThreadFails, FailureIsLost, Moved, disk
<1>4. UNCHANGED <<created, kind, sha, revision, proposal, registry, wiki,
                  compiling, tx, up>>
  BY DEF ThreadFails, FailureIsLost, disk
<1>5. status' \in [Drafts -> Statuses] /\ Existing' = Existing /\ DraftInv'
  <2>1. CASE status' = status
    BY <1>4, <2>1, NothingMoves DEF disk, Inv, TypeOK
  <2>2. CASE Moved(job[w], "Failed")
    BY <1>2, <1>4, <2>2, MoveKeepsDrafts DEF Statuses
  <2> QED BY <1>3, <2>1, <2>2
<1> QED BY <1>1, <1>4, <1>5, EndedThreadInv DEF ThreadFails, FailureIsLost

\* What a step on one draft with the mutex keeps, when threads and approvals
\* are left alone.
LEMMA DecisionInv ==
    ASSUME Inv, GateFree, NEW d \in Existing, NEW s \in Statuses \ {"Absent"},
           s \in {"AwaitingReview", "Publishing"} => proposal[d].page \in Pages,
           Moved(d, s), owedKicks' \in Nat, revision' \in [Drafts -> 0..MaxRevision],
           compiling' \in [Compilers -> Claims], ClaimInv',
           UNCHANGED <<created, kind, sha, proposal, registry, wiki, threads,
                       tx, up, disturbed>>
    PROVE  Inv'
<1>1. status' \in [Drafts -> Statuses] /\ Existing' = Existing /\ DraftInv'
  BY MoveKeepsDrafts
<1>2. TypeOK'
  BY <1>1 DEF Inv, TypeOK, threads
<1>3. ThreadInv' /\ TxInv' /\ DeadInv'
  BY <1>1, ThreadsKept, NoTxKept DEF threads, GateFree
<1> QED BY <1>1, <1>2, <1>3 DEF Inv

LEMMA ClaimCompilationInv ==
    ASSUME Inv, NEW x \in Compilers, ClaimCompilation(x)
    PROVE  Inv'
<1> DEFINE d == NextClaim
<1>1. d \in Existing /\ d \in Drafts /\ kind[d] = "source"
  <2> DEFINE S == {e \in Claimable : status[e] = "Drafting"}
  <2>1. S \in SUBSET Drafts /\ Claimable \in SUBSET Drafts /\ Claimable # {}
    BY DEF Claimable, ClaimCompilation
  <2>2. d \in Claimable
    <3>1. CASE S # {}
      BY <2>1, <3>1, OldestIsMember DEF NextClaim
    <3>2. CASE S = {}
      BY <2>1, <3>2, OldestIsMember DEF NextClaim
    <3> QED BY <3>1, <3>2
  <2> QED BY <2>2 DEF Claimable, Existing
<1>2. [draft |-> d, rev |-> revision[d]] \in Claims
  BY <1>1, BoundsAreNaturals DEF Claims, Inv, TypeOK, Drafts
<1>3. /\ compiling' = [compiling EXCEPT ![x] = [draft |-> d, rev |-> revision[d]]]
      /\ compiling \in [Compilers -> Claims] /\ Moved(d, "Drafting")
  BY DEF ClaimCompilation, Inv, TypeOK
<1>4. compiling' \in [Compilers -> Claims]
  BY <1>2, <1>3
<1>5. Existing' = Existing
  BY <1>1, <1>3, MoveKeepsDrafts DEF ClaimCompilation, Statuses
<1>6. ClaimInv'
  BY <1>1, <1>3, <1>5 DEF Inv, ClaimInv, ClaimCompilation
<1> QED BY <1>1, <1>3, <1>4, <1>6, DecisionInv DEF ClaimCompilation, Inv, TypeOK, Statuses

\* Whatever a compiler reports, the claims that remain were there before.
LEMMA ReportKeepsClaims ==
    ASSUME Inv, NEW x \in Compilers, Reports(x)
    PROVE  /\ compiling' \in [Compilers -> Claims]
           /\ compiling[x].draft \in Existing
           /\ \A y \in Compilers : compiling'[y] # NoClaim => compiling'[y] = compiling[y]
<1>1. NoClaim \in Claims
  BY BoundsAreNaturals DEF NoClaim, Claims
<1>2. compiling' = [compiling EXCEPT ![x] = NoClaim] /\ compiling \in [Compilers -> Claims]
  BY DEF Reports, Inv, TypeOK
<1>3. compiling[x].draft \in Existing
  BY DEF Reports, Inv, ClaimInv
<1> QED BY <1>1, <1>2, <1>3

LEMMA SubmitCompilationInv ==
    ASSUME Inv, NEW x \in Compilers, NEW p \in Pages, NEW o \in {"create", "update"},
           SubmitCompilation(x, p, o)
    PROVE  Inv'
<1> DEFINE d == compiling[x].draft
           new == [rev |-> compiling[x].rev, by |-> "native", page |-> p, op |-> o]
<1>1. Reports(x) /\ Moved(d, "AwaitingReview") /\ GateFree
  BY DEF SubmitCompilation, Reports
<1>2. d \in Existing /\ d \in Drafts
  BY <1>1, ReportKeepsClaims DEF Existing
<1>3. new \in Proposals /\ new.page \in Pages
  BY DEF Proposals, Authors, Claims, Inv, TypeOK
<1>4. proposal' = [proposal EXCEPT ![d] = new] /\ proposal \in [Drafts -> Proposals]
  BY DEF SubmitCompilation, Inv, TypeOK
<1>5. /\ proposal' \in [Drafts -> Proposals]
      /\ \A e \in Drafts : proposal'[e] = IF e = d THEN new ELSE proposal[e]
  BY <1>2, <1>3, <1>4
<1>6. /\ status \in [Drafts -> Statuses] /\ status' = [status EXCEPT ![d] = "AwaitingReview"]
      /\ status[d] # "Absent"
  BY <1>1, <1>2 DEF Moved, Inv, TypeOK, Existing
<1>7. /\ status' \in [Drafts -> Statuses]
      /\ \A e \in Drafts : status'[e] = IF e = d THEN "AwaitingReview" ELSE status[e]
  BY <1>2, <1>6 DEF Statuses
<1>8. Existing' = Existing
  BY <1>6, <1>7 DEF Existing
<1>9. TypeOK'
  BY <1>1, <1>5, <1>7, ReportKeepsClaims DEF Inv, TypeOK, SubmitCompilation, threads
<1>10. DraftInv'
  <2>1. \A e \in Drafts : status'[e] = "Absent" <=> status[e] = "Absent"
    BY <1>6, <1>7
  <2>2. \A e \in Existing : e \in Drafts
    BY DEF Existing
  <2> QED BY <1>3, <1>5, <1>7, <1>8, <2>1, <2>2 DEF Inv, DraftInv, SubmitCompilation
<1>11. ThreadInv'
  <2>1. \A v \in Workers : pc[v] # "idle" => job[v] \in Drafts
    BY ThreadHasDraft
  <2> QED BY <1>3, <1>5, <1>8, <2>1 DEF Inv, ThreadInv, SubmitCompilation, threads
<1>12. ClaimInv'
  BY <1>1, <1>8, ReportKeepsClaims DEF Inv, ClaimInv, SubmitCompilation
<1>13. TxInv' /\ DeadInv'
  BY <1>1, NoTxKept DEF SubmitCompilation, GateFree
<1> QED BY <1>9, <1>10, <1>11, <1>12, <1>13 DEF Inv

LEMMA FailCompilationInv ==
    ASSUME Inv, NEW x \in Compilers, FailCompilation(x)
    PROVE  Inv'
<1> DEFINE d == compiling[x].draft
<1>1. Reports(x) /\ Moved(d, "Failed") /\ GateFree
  BY DEF FailCompilation, Reports
<1>2. d \in Existing /\ compiling' \in [Compilers -> Claims]
  BY <1>1, ReportKeepsClaims
<1>3. Existing' = Existing
  BY <1>1, <1>2, MoveKeepsDrafts DEF FailCompilation, Statuses
<1>4. ClaimInv'
  BY <1>1, <1>3, ReportKeepsClaims DEF Inv, ClaimInv, FailCompilation
<1> QED BY <1>1, <1>2, <1>4, DecisionInv
        DEF FailCompilation, Kicked, Inv, TypeOK, Statuses

LEMMA DropCompilationInv ==
    ASSUME Inv, NEW x \in Compilers, DropCompilation(x)
    PROVE  Inv'
<1>1. Reports(x) /\ GateFree /\ UNCHANGED <<disk, threads, tx, owedKicks, up, disturbed>>
  BY DEF DropCompilation, Reports
<1>2. Existing' = Existing /\ DraftInv'
  BY <1>1, NothingMoves
<1>3. TypeOK'
  BY <1>1, ReportKeepsClaims DEF Inv, TypeOK, disk, threads
<1>4. ClaimInv'
  BY <1>1, <1>2, ReportKeepsClaims DEF Inv, ClaimInv, disk
<1>5. ThreadInv' /\ TxInv' /\ DeadInv'
  BY <1>1, <1>2, ThreadsKept, NoTxKept DEF disk, threads, GateFree
<1> QED BY <1>2, <1>3, <1>4, <1>5 DEF Inv

LEMMA RequestRevisionInv ==
    ASSUME Inv, NEW d \in Drafts, RequestRevision(d)
    PROVE  Inv'
<1>1. d \in Existing
  BY DEF RequestRevision, CanRevise, Existing
<1>2. revision' \in [Drafts -> 0..MaxRevision]
  BY BoundsAreNaturals DEF RequestRevision, Inv, TypeOK
<1>3. Existing' = Existing
  BY <1>1, MoveKeepsDrafts DEF RequestRevision, Statuses
<1>4. ClaimInv'
  BY <1>3, ClaimsKept DEF RequestRevision
<1> QED BY <1>1, <1>2, <1>4, DecisionInv DEF RequestRevision, Kicked, Inv, TypeOK, Statuses

LEMMA RejectDraftInv ==
    ASSUME Inv, NEW d \in Drafts, RejectDraft(d)
    PROVE  Inv'
<1>1. d \in Existing
  BY DEF RejectDraft, CanReject, Existing
<1>2. Existing' = Existing
  BY <1>1, MoveKeepsDrafts DEF RejectDraft, Statuses
<1>3. ClaimInv'
  BY <1>2, ClaimsKept DEF RejectDraft
<1> QED BY <1>1, <1>3, DecisionInv DEF RejectDraft, Kicked, Inv, TypeOK, Statuses

LEMMA ApproveDraftInv ==
    ASSUME Inv, NEW d \in Drafts, ApproveDraft(d)
    PROVE  Inv'
<1>1. d \in Existing /\ proposal[d].page \in Pages
  BY DEF ApproveDraft, CanApprove, Existing, Inv, DraftInv
<1>2. sha[d] \in Contents /\ d \in 0..MaxDrafts
  BY <1>1, BoundsAreNaturals DEF Inv, DraftInv, Drafts
<1>3. status' \in [Drafts -> Statuses] /\ Existing' = Existing /\ DraftInv'
  BY <1>1, MoveKeepsDrafts DEF ApproveDraft, Statuses
<1>4. NoClaim \in Claims
  BY BoundsAreNaturals DEF NoClaim, Claims
<1>5. (IF kind[d] = "source" THEN registry[sha[d]] ELSE NoClaim) \in Claims
  BY <1>2, <1>4 DEF Inv, TypeOK
<1>6. wiki[proposal[d].page] \in PageVersions /\ proposal[d] \in Proposals
  BY <1>1 DEF Inv, TypeOK
<1>7. tx' \in Transactions
  BY <1>2, <1>5, <1>6 DEF ApproveDraft, Transactions
<1>8. TypeOK'
  BY <1>3, <1>7 DEF Inv, TypeOK, ApproveDraft, threads
<1>9. ThreadInv' /\ ClaimInv'
  BY <1>3, ThreadsKept, ClaimsKept DEF ApproveDraft, threads
<1>10. TxInv'
  BY <1>1 DEF TxInv, ApproveDraft, Moved, Inv, TypeOK
<1>11. DeadInv'
  BY DEF DeadInv, ApproveDraft, GateFree
<1> QED BY <1>3, <1>8, <1>9, <1>10, <1>11 DEF Inv

LEMMA PublishPageInv ==
    ASSUME Inv, PublishPage
    PROVE  Inv'
<1>1. tx \in Transactions /\ tx.stage = "staged" /\ tx.draft \in Drafts
      /\ status[tx.draft] = "Publishing" /\ tx.change.page \in Pages
  BY DEF Inv, TypeOK, TxInv, PublishPage
<1>2. [draft |-> tx.draft, rev |-> tx.change.rev, by |-> tx.change.by] \in PageVersions
  BY <1>1 DEF Transactions, Proposals, PageVersions
<1>3. wiki' \in [Pages -> PageVersions]
  BY <1>2 DEF Inv, TypeOK, PublishPage
<1>4. tx' \in Transactions /\ tx'.draft = tx.draft /\ tx'.change = tx.change
  BY <1>1 DEF Transactions, PublishPage
<1>5. Existing' = Existing
  BY DEF PublishPage, Existing
<1>6. TypeOK'
  BY <1>3, <1>4 DEF Inv, TypeOK, PublishPage, threads
<1>7. DraftInv'
  BY <1>5 DEF Inv, DraftInv, PublishPage
<1>8. ThreadInv' /\ ClaimInv'
  BY <1>5, ThreadsKept, ClaimsKept DEF PublishPage, threads
<1>9. TxInv' /\ DeadInv'
  BY <1>1, <1>4 DEF TxInv, DeadInv, PublishPage
<1> QED BY <1>6, <1>7, <1>8, <1>9 DEF Inv

LEMMA PublishRegistryInv ==
    ASSUME Inv, PublishRegistry
    PROVE  Inv'
<1>1. tx \in Transactions /\ tx.stage = "page" /\ tx.draft \in Drafts
      /\ status[tx.draft] = "Publishing" /\ tx.change.page \in Pages
  BY DEF Inv, TypeOK, TxInv, PublishRegistry
<1>2. [draft |-> tx.draft, rev |-> revision[tx.draft]] \in Claims
  BY <1>1 DEF Inv, TypeOK, Transactions, Claims
<1>3. registry' \in [Contents -> Claims]
  BY <1>2 DEF Inv, TypeOK, PublishRegistry
<1>4. tx' \in Transactions /\ tx'.draft = tx.draft /\ tx'.change = tx.change
  BY <1>1 DEF Transactions, PublishRegistry
<1>5. Existing' = Existing
  BY DEF PublishRegistry, Existing
<1>6. TypeOK'
  BY <1>3, <1>4 DEF Inv, TypeOK, PublishRegistry, threads
<1>7. DraftInv'
  BY <1>5 DEF Inv, DraftInv, PublishRegistry
<1>8. ThreadInv' /\ ClaimInv'
  BY <1>5, ThreadsKept, ClaimsKept DEF PublishRegistry, threads
<1>9. TxInv' /\ DeadInv'
  BY <1>1, <1>4 DEF TxInv, DeadInv, PublishRegistry
<1> QED BY <1>6, <1>7, <1>8, <1>9 DEF Inv

LEMMA NoTxIsTransaction == NoTx \in Transactions
  BY BoundsAreNaturals
  DEF NoTx, NoProposal, NoPage, NoClaim, Transactions, Proposals, PageVersions,
      Claims, Authors

LEMMA PublishDraftInv ==
    ASSUME Inv, PublishDraft
    PROVE  Inv'
<1>1. tx.draft \in Existing
  BY DEF Inv, TxInv, PublishDraft, Existing
<1>2. status' \in [Drafts -> Statuses] /\ Existing' = Existing /\ DraftInv'
  BY <1>1, MoveKeepsDrafts DEF PublishDraft, Statuses
<1>3. TypeOK'
  BY <1>2, NoTxIsTransaction DEF Inv, TypeOK, PublishDraft, Kicked, threads
<1>4. ThreadInv' /\ ClaimInv'
  BY <1>2, ThreadsKept, ClaimsKept DEF PublishDraft, threads
<1>5. TxInv' /\ DeadInv'
  BY DEF Inv, TxInv, DeadInv, PublishDraft, NoTx
<1> QED BY <1>2, <1>3, <1>4, <1>5 DEF Inv

LEMMA RollBackInv ==
    ASSUME Inv, PublishFails \/ PublishFailureIsLost
    PROVE  Inv'
<1>1. RollBack /\ up /\ tx.stage # "none"
  BY DEF PublishFails, PublishFailureIsLost, RollBack
<1>2. tx \in Transactions /\ tx.draft \in Drafts /\ status[tx.draft] = "Publishing"
  BY <1>1 DEF Inv, TypeOK, TxInv
<1>3. tx.draft \in Existing
  BY <1>2 DEF Existing
<1>4. wiki' \in [Pages -> PageVersions] /\ registry' \in [Contents -> Claims]
  BY <1>1, <1>2 DEF RollBack, Inv, TypeOK, Transactions
<1>5. disturbed' \in 0..MaxDisturbances
  BY <1>1, BoundsAreNaturals DEF RollBack, Disturb, Inv, TypeOK
<1>6. status' \in [Drafts -> Statuses] /\ Existing' = Existing /\ DraftInv'
  <2>1. CASE PublishFailureIsLost
    <3>1. UNCHANGED <<created, status, kind, sha, proposal>>
      BY <2>1 DEF PublishFailureIsLost, RollBack
    <3>2. Existing' = Existing
      BY <3>1 DEF Existing
    <3> QED BY <3>1, <3>2 DEF Inv, TypeOK, DraftInv
  <2>2. CASE PublishFails
    <3>1. /\ Moved(tx.draft, "AwaitingReview")
          /\ UNCHANGED <<created, kind, sha, proposal>>
      BY <2>2 DEF PublishFails, RollBack
    <3>2. proposal[tx.draft].page \in Pages
      BY <1>2, <1>3 DEF Inv, DraftInv
    <3> QED BY <1>3, <3>1, <3>2, MoveKeepsDrafts DEF Statuses
  <2> QED BY <2>1, <2>2
<1>7. TypeOK'
  BY <1>1, <1>4, <1>5, <1>6, NoTxIsTransaction DEF RollBack, Inv, TypeOK, threads
<1>8. ThreadInv' /\ ClaimInv'
  BY <1>1, <1>6, ThreadsKept, ClaimsKept DEF RollBack, threads
<1>9. TxInv' /\ DeadInv'
  BY <1>1 DEF Inv, TxInv, DeadInv, RollBack, NoTx
<1> QED BY <1>6, <1>7, <1>8, <1>9 DEF Inv

LEMMA CrashInv ==
    ASSUME Inv, Crash
    PROVE  Inv'
<1>1. Existing' = Existing /\ DraftInv'
  BY NothingMoves DEF Crash
<1>2. NoClaim \in Claims
  BY BoundsAreNaturals DEF NoClaim, Claims
<1>3. disturbed' \in 0..MaxDisturbances
  BY BoundsAreNaturals DEF Crash, Disturb, Inv, TypeOK
<1>4. TypeOK'
  <2>1. /\ pc' \in [Workers -> ThreadStates] /\ job' \in [Workers -> 0..MaxDrafts]
        /\ seen' \in [Workers -> 0..MaxRevision]
        /\ \A w \in Workers : pc'[w] = "idle" <=> job'[w] = 0
    BY BoundsAreNaturals DEF Crash, ThreadStates
  <2>2. /\ compiling' \in [Compilers -> Claims] /\ tx' \in Transactions
        /\ owedKicks' \in Nat /\ up' \in BOOLEAN
    BY <1>2, NoTxIsTransaction DEF Crash
  <2> QED BY <1>3, <2>1, <2>2 DEF Inv, TypeOK, Crash, disk
<1>5. ThreadInv' /\ ClaimInv' /\ TxInv' /\ DeadInv'
  BY DEF ThreadInv, ClaimInv, TxInv, DeadInv, Crash, NoTx
<1> QED BY <1>1, <1>4, <1>5 DEF Inv

\* A draft that is resumed exists and goes on existing.
LEMMA ResumeKeeps ==
    ASSUME Inv, ResumeQueuedDrafts
    PROVE  /\ status' \in [Drafts -> Statuses] /\ Existing' = Existing /\ DraftInv'
           /\ owedKicks' \in Nat
<1>1. /\ status \in [Drafts -> Statuses]
      /\ status' = [d \in Drafts |-> IF Interrupted(d) THEN "Uploaded" ELSE status[d]]
      /\ UNCHANGED <<created, kind, sha, revision, proposal, registry, wiki>>
  BY DEF ResumeQueuedDrafts, Inv, TypeOK
<1>2. status' \in [Drafts -> Statuses]
  BY <1>1 DEF Statuses
<1>3. \A d \in Drafts : /\ status'[d] = "Absent" <=> status[d] = "Absent"
                        /\ Interrupted(d) => kind[d] = "generated"
                        /\ ~Interrupted(d) => status'[d] = status[d]
  BY <1>1 DEF Interrupted
<1>4. Existing' = Existing
  BY <1>3 DEF Existing
<1>5. DraftInv'
  <2>1. \A d \in Existing : d \in Drafts
    BY DEF Existing
  <2> QED BY <1>1, <1>3, <1>4, <2>1 DEF Inv, DraftInv
<1> QED BY <1>2, <1>4, <1>5 DEF ResumeQueuedDrafts, Kicked, Inv, TypeOK

LEMMA ResumeInv ==
    ASSUME Inv, Restart \/ SelectProject
    PROVE  Inv'
<1>1. /\ ResumeQueuedDrafts /\ tx.stage = "none" /\ up' \in BOOLEAN /\ up'
      /\ UNCHANGED <<threads, compiling, tx>>
  BY DEF Restart, SelectProject, GateFree, Inv, TypeOK, DeadInv
<1>2. disturbed' \in 0..MaxDisturbances
  BY BoundsAreNaturals DEF Restart, SelectProject, Disturb, Inv, TypeOK
<1>3. status' \in [Drafts -> Statuses] /\ Existing' = Existing /\ DraftInv' /\ owedKicks' \in Nat
  BY <1>1, ResumeKeeps
<1>4. TypeOK'
  BY <1>1, <1>2, <1>3 DEF Inv, TypeOK, ResumeQueuedDrafts, threads
<1>5. ThreadInv' /\ ClaimInv'
  BY <1>1, <1>3, ThreadsKept, ClaimsKept DEF ResumeQueuedDrafts, threads
<1>6. TxInv' /\ DeadInv'
  BY <1>1 DEF TxInv, DeadInv
<1> QED BY <1>3, <1>4, <1>5, <1>6 DEF Inv

LEMMA StutterInv ==
    ASSUME Inv, UNCHANGED vars
    PROVE  Inv'
<1>1. Existing' = Existing /\ DraftInv'
  BY NothingMoves DEF vars
<1>2. TypeOK'
  BY DEF Inv, TypeOK, vars, disk, threads
<1>3. ThreadInv' /\ ClaimInv'
  BY <1>1, ThreadsKept, ClaimsKept DEF vars, disk, threads
<1>4. TxInv' /\ DeadInv'
  BY DEF Inv, TxInv, DeadInv, vars, disk, threads
<1> QED BY <1>1, <1>2, <1>3, <1>4 DEF Inv

LEMMA NextInv == Inv /\ [Next]_vars => Inv'
<1> SUFFICES ASSUME Inv, [Next]_vars PROVE Inv'
  OBVIOUS
<1>1. CASE \E c \in Contents : CreateSource(c)
  BY <1>1, CreateSourceInv
<1>2. CASE \E c \in Contents, p \in TopicPages : CreateGenerated(c, p)
  BY <1>2, CreateGeneratedInv
<1>3. CASE KickQueue \/ KickIsLost
  BY <1>3, KickSpentInv, KickStartsThreadInv DEF KickQueue
<1>4. CASE \E w \in Workers : ThreadStep(w)
  BY <1>4, ThreadStopsInv, ExtractInv, MarkForEnrichmentInv, EnrichInv, ProposeInv,
     FinishInv, ThreadFailsInv DEF ThreadStep
<1>5. CASE \E x \in Compilers : Compile(x)
  BY <1>5, ClaimCompilationInv, SubmitCompilationInv, FailCompilationInv,
     DropCompilationInv DEF Compile
<1>6. CASE \E d \in Drafts : RequestRevision(d) \/ RejectDraft(d) \/ ApproveDraft(d)
  BY <1>6, RequestRevisionInv, RejectDraftInv, ApproveDraftInv
<1>7. CASE PublishStep \/ PublishFails \/ PublishFailureIsLost
  BY <1>7, PublishPageInv, PublishRegistryInv, PublishDraftInv, RollBackInv
  DEF PublishStep
<1>8. CASE Crash
  BY <1>8, CrashInv
<1>9. CASE Restart \/ SelectProject
  BY <1>9, ResumeInv
<1>10. CASE UNCHANGED vars
  BY <1>10, StutterInv
<1> QED
  BY <1>1, <1>2, <1>3, <1>4, <1>5, <1>6, <1>7, <1>8, <1>9, <1>10 DEF Next

LEMMA SpecInv == Spec => []Inv
  BY InitInv, NextInv, PTL DEF Spec

\* Every variable of the gate keeps its type, and a thread has a draft exactly
\* while it runs: with any number of drafts, threads and compilers, and with
\* every disturbance.
THEOREM TypeCorrect == Spec => []TypeOK
<1>1. Inv => TypeOK
  BY DEF Inv
<1> QED BY <1>1, SpecInv, PTL

-----------------------------------------------------------------------------
(* The queue never waits for a kick nobody owes: in every deployment and with *)
(* every disturbance but a lost kick.                                         *)

\* The strengthening of NoStalledQueue.  An approval of a generated page blocks
\* the queue only while it holds the mutex, and nobody kicks when it fails; so
\* the kick must be owed already if that draft is all that blocks.
KickInv ==
    /\ up /\ Queued # {}
    /\ \A d \in Drafts : BlocksQueue(d)
         => tx.stage # "none" /\ d = tx.draft /\ kind[d] = "generated"
    => owedKicks > 0

LEMMA KickedIsOwed ==
    ASSUME Inv, Kicked(1)
    PROVE  KickInv'
  BY DEF KickInv, Kicked, Inv, TypeOK

\* A draft that blocks, with the mutex free, is enough.
LEMMA BlockedNeedsNoKick ==
    ASSUME NEW d \in Drafts, tx'.stage = "none",
           \/ status'[d] \in {"Parsing", "Drafting", "Publishing"}
           \/ status'[d] = "AwaitingReview" /\ kind'[d] = "source"
    PROVE  KickInv'
  BY DEF KickInv, BlocksQueue

\* A step that moves no draft keeps what is owed.
LEMMA NoMoveKeepsKick ==
    ASSUME KickInv, UNCHANGED <<status, kind, owedKicks, up>>,
           tx'.stage # "none" <=> tx.stage # "none", tx'.draft = tx.draft
    PROVE  KickInv'
<1>1. Queued' = Queued
  BY DEF Queued
<1>2. \A d \in Drafts : BlocksQueue(d)' <=> BlocksQueue(d)
  BY DEF BlocksQueue
<1> QED BY <1>1, <1>2 DEF KickInv

LEMMA CreationOwes ==
    ASSUME Inv, KickInv, NEW c \in Contents, CreateSource(c)
    PROVE  KickInv'
<1>1. CASE ~NativeCompile
  BY <1>1, KickedIsOwed DEF CreateSource
<1>2. CASE NativeCompile
  <2> DEFINE n == created + 1
  <2>1. NewDraft("source", c) /\ tx' = tx /\ up' = up /\ owedKicks' = owedKicks
    BY <1>2 DEF CreateSource, Kicked, Inv, TypeOK
  <2>2. /\ n \in Drafts /\ status[n] = "Absent" /\ status'[n] = "Uploaded"
        /\ kind'[n] = "source"
    BY <2>1, NewDraftKeeps
  <2>3. \A d \in Drafts : d # n => status'[d] = status[d] /\ kind'[d] = kind[d]
    BY <2>1 DEF NewDraft, Moved, Inv, TypeOK
  <2>4. Queued' = Queued
    BY <1>2, <2>2, <2>3 DEF Queued
  <2>5. \A d \in Drafts : BlocksQueue(d) => BlocksQueue(d)' /\ kind'[d] = kind[d]
    BY <2>2, <2>3 DEF BlocksQueue
  <2> QED BY <2>1, <2>4, <2>5 DEF KickInv
<1> QED BY <1>1, <1>2

LEMMA KicksOwe ==
    ASSUME Inv, KickInv, KickQueue
    PROVE  KickInv'
<1>1. CASE KickFindsNothing
  <2>1. /\ UNCHANGED <<status, kind, tx, up>> /\ tx.stage = "none"
        /\ QueueBlocked \/ Queued = {}
    BY <1>1 DEF KickFindsNothing, disk, GateFree
  <2>2. Queued' = Queued /\ \A d \in Drafts : BlocksQueue(d)' <=> BlocksQueue(d)
    BY <2>1 DEF Queued, BlocksQueue
  <2> QED BY <2>1, <2>2 DEF KickInv, QueueBlocked
<1>2. ASSUME NEW w \in Workers, KickStartsThread(w) PROVE KickInv'
  <2> DEFINE d == Oldest(Queued)
  <2>1. d \in Drafts /\ status'[d] = "Parsing" /\ tx'.stage = "none"
    BY <1>2, QueuedIsOldest DEF KickStartsThread, GateFree, Moved, Inv, TypeOK
  <2> QED BY <2>1, BlockedNeedsNoKick
<1> QED BY <1>1, <1>2 DEF KickQueue

LEMMA ThreadsOwe ==
    ASSUME Inv, KickInv, NEW w \in Workers, ThreadStep(w)
    PROVE  KickInv'
<1>1. CASE ThreadStops(w) \/ Finish(w) \/ ThreadFails(w) \/ FailureIsLost(w)
  BY <1>1, KickedIsOwed DEF ThreadStops, Finish, ThreadFails, FailureIsLost, ThreadEnds
<1>2. CASE Extract(w) \/ MarkForEnrichment(w)
  <2>1. /\ job[w] \in Drafts /\ tx'.stage = "none" /\ Moved(job[w], "Drafting")
    BY <1>2, ThreadHasDraft DEF Extract, MarkForEnrichment, GateFree
  <2>2. status'[job[w]] = "Drafting"
    BY <2>1 DEF Moved, Inv, TypeOK
  <2> QED BY <2>1, <2>2, BlockedNeedsNoKick
<1>3. CASE Enrich(w) \/ Propose(w)
  BY <1>3, NoMoveKeepsKick DEF Enrich, Propose, disk
<1> QED BY <1>1, <1>2, <1>3 DEF ThreadStep

LEMMA CompilersOwe ==
    ASSUME Inv, KickInv, NEW x \in Compilers, Compile(x)
    PROVE  KickInv'
<1>1. CASE ClaimCompilation(x)
  <2>1. NextClaim \in Drafts /\ tx'.stage = "none" /\ status'[NextClaim] = "Drafting"
    <3>1. NextClaim \in Claimable
      <4> DEFINE S == {e \in Claimable : status[e] = "Drafting"}
      <4>1. S \in SUBSET Drafts /\ Claimable \in SUBSET Drafts /\ Claimable # {}
        BY <1>1 DEF Claimable, ClaimCompilation
      <4>2. CASE S # {}
        BY <4>1, <4>2, OldestIsMember DEF NextClaim
      <4>3. CASE S = {}
        BY <4>1, <4>3, OldestIsMember DEF NextClaim
      <4> QED BY <4>2, <4>3
    <3> QED BY <1>1, <3>1 DEF ClaimCompilation, Claimable, GateFree, Moved, Inv, TypeOK
  <2> QED BY <2>1, BlockedNeedsNoKick
<1>2. ASSUME NEW p, NEW o, SubmitCompilation(x, p, o) PROVE KickInv'
  <2> DEFINE d == compiling[x].draft
  <2>1. /\ d \in Drafts /\ kind[d] = "source" /\ tx'.stage = "none"
        /\ Moved(d, "AwaitingReview") /\ kind' = kind
    BY <1>2 DEF SubmitCompilation, Reports, GateFree, Inv, ClaimInv, Existing
  <2>2. status'[d] = "AwaitingReview"
    BY <2>1 DEF Moved, Inv, TypeOK
  <2> QED BY <2>1, <2>2, BlockedNeedsNoKick
<1>3. CASE FailCompilation(x)
  BY <1>3, KickedIsOwed DEF FailCompilation
<1>4. CASE DropCompilation(x)
  BY <1>4, NoMoveKeepsKick DEF DropCompilation, disk
<1> QED BY <1>1, <1>2, <1>3, <1>4 DEF Compile

LEMMA ApprovalsOwe ==
    ASSUME Inv, KickInv, NEW d \in Drafts, ApproveDraft(d)
    PROVE  KickInv'
<1>1. /\ status[d] = "AwaitingReview" /\ status'[d] = "Publishing" /\ tx'.draft = d
      /\ tx'.stage # "none" /\ tx.stage = "none"
      /\ UNCHANGED <<kind, owedKicks, up>>
      /\ \A e \in Drafts : e # d => status'[e] = status[e]
  BY DEF ApproveDraft, CanApprove, GateFree, Moved, Inv, TypeOK
<1>2. Queued' = Queued
  BY <1>1 DEF Queued
<1>3. BlocksQueue(d)' /\ \A e \in Drafts : e # d => (BlocksQueue(e)' <=> BlocksQueue(e))
  BY <1>1 DEF BlocksQueue
<1>4. kind[d] = "generated" => ~BlocksQueue(d)
  BY <1>1 DEF BlocksQueue
<1> QED BY <1>1, <1>2, <1>3, <1>4 DEF KickInv

LEMMA FailuresOwe ==
    ASSUME Inv, KickInv, PublishFails \/ PublishFailureIsLost
    PROVE  KickInv'
<1>1. /\ tx.draft \in Drafts /\ status[tx.draft] = "Publishing" /\ tx.stage # "none"
      /\ tx'.stage = "none" /\ UNCHANGED <<kind, owedKicks, up>>
      /\ kind[tx.draft] \in {"source", "generated"}
  BY DEF PublishFails, PublishFailureIsLost, RollBack, NoTx, Inv, TypeOK, TxInv
<1>2. CASE PublishFailureIsLost
  BY <1>1, <1>2, BlockedNeedsNoKick DEF PublishFailureIsLost
<1>3. CASE PublishFails
  <2>1. PICK d \in Drafts : d = tx.draft
    BY <1>1
  <2>2. /\ status[d] = "Publishing" /\ status'[d] = "AwaitingReview"
        /\ \A e \in Drafts : e # d => status'[e] = status[e]
    BY <1>1, <1>3, <2>1 DEF PublishFails, Moved, Inv, TypeOK
  <2>3. Queued' = Queued
    BY <1>1, <2>2 DEF Queued
  <2>4. \A e \in Drafts : e # d => (BlocksQueue(e)' <=> BlocksQueue(e))
    BY <1>1, <2>2 DEF BlocksQueue
  <2>5. ~BlocksQueue(d)' => kind[d] = "generated"
    BY <1>1, <2>1, <2>2 DEF BlocksQueue
  <2> QED BY <1>1, <2>1, <2>3, <2>4, <2>5 DEF KickInv
<1> QED BY <1>2, <1>3

LEMMA KickInvStep ==
    ASSUME "lost_kick" \notin Disturbances, Inv, KickInv, [Next]_vars
    PROVE  KickInv'
<1>1. ASSUME NEW c \in Contents, NEW p, CreateGenerated(c, p) PROVE KickInv'
  BY <1>1, KickedIsOwed DEF CreateGenerated
<1>2. ASSUME NEW d \in Drafts, RequestRevision(d) \/ RejectDraft(d) PROVE KickInv'
  BY <1>2, KickedIsOwed DEF RequestRevision, RejectDraft
<1>3. CASE PublishDraft
  BY <1>3, KickedIsOwed DEF PublishDraft
<1>4. CASE PublishPage \/ PublishRegistry
  BY <1>4, NoMoveKeepsKick DEF PublishPage, PublishRegistry, Inv, TypeOK, Transactions
<1>5. CASE Restart \/ SelectProject
  BY <1>5, KickedIsOwed DEF Restart, SelectProject, ResumeQueuedDrafts
<1>6. CASE Crash
  BY <1>6 DEF Crash, KickInv
<1>7. CASE UNCHANGED vars
  BY <1>7, NoMoveKeepsKick DEF vars, disk
<1>8. ~KickIsLost
  BY DEF KickIsLost, Disturb
<1> QED
  BY <1>1, <1>2, <1>3, <1>4, <1>5, <1>6, <1>7, <1>8, CreationOwes, KicksOwe, ThreadsOwe,
     CompilersOwe, ApprovalsOwe, FailuresOwe
  DEF Next, PublishStep

\* When a queued draft could start, some caller still has to call kick_queue:
\* every operation that could have unblocked the queue kicks it, or the kick of
\* another one is still to come.
THEOREM QueueNeverStalls ==
    ASSUME "lost_kick" \notin Disturbances
    PROVE  Spec => []NoStalledQueue
<1>1. Init => KickInv
  BY DEF Init, KickInv, Queued
<1>2. Inv /\ KickInv /\ [Next]_vars => KickInv'
  BY KickInvStep
<1>3. KickInv => NoStalledQueue
  BY DEF KickInv, NoStalledQueue, QueueBlocked
<1> QED BY <1>1, <1>2, <1>3, SpecInv, PTL DEF Spec

=============================================================================
