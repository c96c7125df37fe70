----------------------------- MODULE IngestGate -----------------------------
(***************************************************************************)
(* The strict-ingest gate of LLM Wiki, src/apps/llm-wiki/src-tauri/src/     *)
(* ingest_gate.rs, for one project directory.                               *)
(*                                                                          *)
(* A draft is a directory with a draft.json (status, revision, SHA-256) and *)
(* a proposal.json (the page it would write).  Three kinds of actor change  *)
(* them: API calls (import, review decisions, approval), worker threads     *)
(* that kick_queue spawns, and the compilers of the WebView, which claim a  *)
(* draft, compile it outside the process and submit the result.  One        *)
(* process-wide mutex, PROJECT_GATE, is held for each critical section and  *)
(* released between them; an action below is one critical section, or one   *)
(* step a thread takes without the mutex.  An approval holds the mutex over *)
(* several writes, so it is the only operation split into actions with the  *)
(* mutex held: the mutex is free exactly when tx.stage = "none".            *)
(***************************************************************************)
EXTENDS Naturals, FiniteSets

CONSTANTS
    MaxDrafts,       \* bound: drafts ever created
    MaxRevision,     \* bound: revisions of one draft
    MaxKicks,        \* bound: callers that still owe kick_queue a call
    MaxDisturbances, \* bound: how often the events of Disturbances occur
    Contents,        \* imported bytes, told apart by their SHA-256
    TopicPages,      \* wiki pages that are not the page of one paper
    None,
    Workers,         \* bound: process_draft threads alive at a time
    Compilers,       \* strict-ingest workers of the WebView, {} when headless
    NativeCompile,   \* LLM_WIKI_NATIVE_COMPILE = "1"
    Enrichment,      \* LLM_WIKI_INGEST_ENRICHMENT = "1"
    Kinds,           \* kinds of draft that are imported
    Disturbances     \* which of the events below may happen

Drafts == 1..MaxDrafts

\* build_proposal names the page of a paper by its SHA-256.
Pages == Contents \cup TopicPages

AllDisturbances ==
    { "crash",      \* the process dies, and is started again
      "io",         \* a read or a write fails
      "lost_kick",  \* kick_queue itself fails: logged, never retried
      "select" }    \* the project is selected again while threads are alive

ASSUME BoundsAreNaturals ==
    /\ MaxDrafts \in Nat
    /\ MaxRevision \in Nat \ {0}
    /\ MaxKicks \in Nat
    /\ MaxDisturbances \in Nat

ASSUME NoneIsNoPage == None \notin Pages

ASSUME ModesAreBoolean == NativeCompile \in BOOLEAN /\ Enrichment \in BOOLEAN

ASSUME KindsAreKnown == Kinds \subseteq {"source", "generated"}

ASSUME DisturbancesAreKnown == Disturbances \subseteq AllDisturbances

VARIABLES
    \* The disk: it survives a crash.
    created,      \* number of drafts created; draft i is the i-th by created_at
    status,       \* draft.json: status, "Absent" before the draft exists
    kind,         \* draft.json: source_kind, "source" for pdf, docx, ...
    sha,          \* draft.json: sha256
    revision,     \* draft.json: revision
    proposal,     \* proposal.json
    registry,     \* trusted_sources.json: which draft and revision, per content
    wiki,         \* wiki/*.md: which draft and revision each page was written by
    \* The process.
    pc,           \* where each process_draft thread is, "idle" for no thread
    job,          \* the draft_id of that thread, 0 for none
    seen,         \* the revision it read when it marked the draft
    compiling,    \* the draft and revision each compiler has claimed
    tx,           \* the approval that holds PROJECT_GATE
    owedKicks,    \* calls of kick_queue that are due
    up,           \* the process runs
    disturbed     \* disturbances so far

disk == <<created, status, kind, sha, revision, proposal, registry, wiki>>
threads == <<pc, job, seen>>
vars == <<disk, threads, compiling, tx, owedKicks, up, disturbed>>

Statuses ==
    { "Absent", "Uploaded", "Parsing", "Drafting", "AwaitingReview",
      "Publishing", "Trusted", "RevisionRequested", "Rejected", "Failed" }

NoProposal == [rev |-> 0, by |-> "none", page |-> None, op |-> "create"]
NoClaim == [draft |-> 0, rev |-> 0]
NoPage == [draft |-> 0, rev |-> 0, by |-> "none"]
NoTx == [stage |-> "none", draft |-> 0, change |-> NoProposal,
         oldPage |-> NoPage, oldEntry |-> NoClaim]

Authors == {"none", "gate", "native", "given"}
Claims == [draft : 0..MaxDrafts, rev : 0..MaxRevision]
PageVersions == [draft : 0..MaxDrafts, rev : 0..MaxRevision, by : Authors]
Proposals ==
    [rev : 0..MaxRevision, by : Authors, page : Pages \cup {None},
     op : {"create", "update"}]
Transactions ==
    [stage : {"none", "staged", "page", "registry"}, draft : 0..MaxDrafts,
     change : Proposals, oldPage : PageVersions, oldEntry : Claims]

ThreadStates == {"idle", "extract", "mark", "enrich", "propose", "finish"}

TypeOK ==
    /\ created \in 0..MaxDrafts
    /\ status \in [Drafts -> Statuses]
    /\ kind \in [Drafts -> {"source", "generated"}]
    /\ sha \in [Drafts -> Contents \cup {None}]
    /\ revision \in [Drafts -> 0..MaxRevision]
    /\ proposal \in [Drafts -> Proposals]
    /\ registry \in [Contents -> Claims]
    /\ wiki \in [Pages -> PageVersions]
    /\ pc \in [Workers -> ThreadStates]
    /\ job \in [Workers -> 0..MaxDrafts]
    /\ seen \in [Workers -> 0..MaxRevision]
    /\ compiling \in [Compilers -> Claims]
    /\ tx \in Transactions
    /\ owedKicks \in Nat
    /\ up \in BOOLEAN
    /\ disturbed \in 0..MaxDisturbances
    /\ \A w \in Workers : pc[w] = "idle" <=> job[w] = 0

Init ==
    /\ created = 0
    /\ status = [d \in Drafts |-> "Absent"]
    /\ kind = [d \in Drafts |-> "source"]
    /\ sha = [d \in Drafts |-> None]
    /\ revision = [d \in Drafts |-> 0]
    /\ proposal = [d \in Drafts |-> NoProposal]
    /\ registry = [c \in Contents |-> NoClaim]
    /\ wiki = [p \in Pages |-> NoPage]
    /\ pc = [w \in Workers |-> "idle"]
    /\ job = [w \in Workers |-> 0]
    /\ seen = [w \in Workers |-> 0]
    /\ compiling = [x \in Compilers |-> NoClaim]
    /\ tx = NoTx
    /\ owedKicks = 0
    /\ up = TRUE
    /\ disturbed = 0

-----------------------------------------------------------------------------
(* Conditions the operations test. *)

GateFree == up /\ tx.stage = "none"

Existing == {d \in Drafts : status[d] # "Absent"}

Oldest(S) == CHOOSE d \in S : \A e \in S : d <= e

\* Mutant: a failed draft is not taken for a duplicate.
DuplicateOfUnfailed(c) ==
    \E d \in Existing : sha[d] = c /\ status[d] \notin {"Rejected", "Failed"}

\* list_drafts(...).find(sha256 equal and not rejected)
Duplicate(c) == \E d \in Existing : sha[d] = c /\ status[d] # "Rejected"

AlreadyTrusted(c) == registry[c].draft # 0

\* Mutant: a draft blocks the queue only while it is parsed or reviewed.
BlocksUnlessDrafting(d) ==
    /\ status[d] \in {"Parsing", "AwaitingReview", "Publishing"}
    /\ ~ (kind[d] = "generated" /\ status[d] = "AwaitingReview")

\* Mutant: the exception for generated pages is forgotten.
BlocksInReview(d) ==
    status[d] \in {"Parsing", "Drafting", "AwaitingReview", "Publishing"}

\* DraftStatus::blocks_queue, and the exception kick_queue makes to it.
BlocksQueue(d) ==
    /\ status[d] \in {"Parsing", "Drafting", "AwaitingReview", "Publishing"}
    /\ ~ (kind[d] = "generated" /\ status[d] = "AwaitingReview")

QueueBlocked == \E d \in Drafts : BlocksQueue(d)

Queued ==
    {d \in Drafts :
        /\ status[d] \in {"Uploaded", "RevisionRequested"}
        /\ NativeCompile => kind[d] = "generated"}

ClaimsClosed == \E d \in Drafts : status[d] \in {"AwaitingReview", "Publishing"}

Claimable ==
    {d \in Drafts :
        /\ kind[d] = "source"
        /\ status[d] \in {"Uploaded", "RevisionRequested", "Drafting"}}

\* Drafts left in drafting come first, then the oldest.
NextClaim ==
    LET interrupted == {d \in Claimable : status[d] = "Drafting"}
    IN  Oldest(IF interrupted # {} THEN interrupted ELSE Claimable)

\* publish_transaction removes the staged file once the registry names it.
StagedSourceExists(d) == registry[sha[d]].draft # d

\* Mutants: half of the comparison.
ClaimOfAnyRevision(d, r) == status[d] = "Drafting"
ClaimOfAnyStatus(d, r) == revision[d] = r

\* ensure_compilation_cas
ClaimIsCurrent(d, r) == status[d] = "Drafting" /\ revision[d] = r

CanRevise(d) == status[d] \in {"AwaitingReview", "Failed"}

\* Mutant: a published draft can be rejected.
CanRejectPublished(d) == status[d] \notin {"Absent", "Publishing"}

CanReject(d) == status[d] \notin {"Absent", "Trusted", "Publishing"}

CanApprove(d) == status[d] = "AwaitingReview"

\* Mutant: the test is left out.
NeverWithdrawn(d) == FALSE

\* What a thread tests each time it takes the mutex again.
Withdrawn(d) == status[d] = "Rejected"

CallerMayKick == owedKicks < MaxKicks

Kicked(n) == owedKicks' = owedKicks + n

Moved(d, s) == status' = [status EXCEPT ![d] = s]

Disturb(e) ==
    /\ e \in Disturbances
    /\ disturbed < MaxDisturbances
    /\ disturbed' = disturbed + 1

-----------------------------------------------------------------------------
(* Imports. *)

\* The directory and draft.json of a new draft.
NewDraft(k, c) ==
    LET d == created + 1
    IN  /\ k \in Kinds
        /\ created < MaxDrafts
        /\ created' = d
        /\ Moved(d, "Uploaded")
        /\ kind' = [kind EXCEPT ![d] = k]
        /\ sha' = [sha EXCEPT ![d] = c]
        /\ revision' = [revision EXCEPT ![d] = 1]

\* create_source_draft: with the native compiler the queue is not kicked.
CreateSource(c) ==
    /\ GateFree /\ CallerMayKick
    /\ ~Duplicate(c) /\ ~AlreadyTrusted(c)
    /\ NewDraft("source", c)
    /\ Kicked(IF NativeCompile THEN 0 ELSE 1)
    /\ UNCHANGED <<proposal, registry, wiki, threads, compiling, tx, up, disturbed>>

\* create_generated_page_draft: the page to write is part of the request.
CreateGenerated(c, p) ==
    /\ GateFree /\ CallerMayKick
    /\ ~Duplicate(c)
    /\ NewDraft("generated", c)
    /\ proposal' = [proposal EXCEPT ![created + 1] =
                      [rev |-> 1, by |-> "given", page |-> p,
                       op |-> IF wiki[p].draft = 0 THEN "create" ELSE "update"]]
    /\ Kicked(1)
    /\ UNCHANGED <<registry, wiki, threads, compiling, tx, up, disturbed>>

-----------------------------------------------------------------------------
(* kick_queue and the threads it spawns. *)

\* A thread reads the kind of its draft first, which never changes.
FirstStep(d) ==
    IF kind[d] = "source" THEN "extract"
    ELSE IF Enrichment THEN "mark" ELSE "finish"

KickFindsNothing ==
    /\ GateFree /\ owedKicks > 0
    /\ QueueBlocked \/ Queued = {}
    /\ owedKicks' = owedKicks - 1
    /\ UNCHANGED <<disk, threads, compiling, tx, up, disturbed>>

KickStartsThread(w) ==
    /\ GateFree /\ owedKicks > 0
    /\ ~QueueBlocked /\ Queued # {}
    /\ pc[w] = "idle"
    /\ LET d == Oldest(Queued)
       IN  /\ Moved(d, "Parsing")
           /\ pc' = [pc EXCEPT ![w] = FirstStep(d)]
           /\ job' = [job EXCEPT ![w] = d]
    /\ owedKicks' = owedKicks - 1
    /\ UNCHANGED <<created, kind, sha, revision, proposal, registry, wiki,
                   seen, compiling, tx, up, disturbed>>

KickQueue == KickFindsNothing \/ \E w \in Workers : KickStartsThread(w)

\* kick_queue's own read or write fails: it is logged and nothing retries it.
KickIsLost ==
    /\ GateFree /\ owedKicks > 0
    /\ Disturb("lost_kick")
    /\ owedKicks' = owedKicks - 1
    /\ UNCHANGED <<disk, threads, compiling, tx, up>>

\* Mutant: a thread that ends does not kick the queue.
ThreadEndsQuietly(w) ==
    /\ pc' = [pc EXCEPT ![w] = "idle"]
    /\ job' = [job EXCEPT ![w] = 0]
    /\ seen' = [seen EXCEPT ![w] = 0]
    /\ Kicked(0)

\* Mutant: a thread that ends keeps its draft.
ThreadEndsHolding(w) ==
    /\ pc' = [pc EXCEPT ![w] = "idle"]
    /\ seen' = [seen EXCEPT ![w] = 0]
    /\ Kicked(1)
    /\ UNCHANGED job

\* process_draft returns: the thread kicks the queue and is gone.
ThreadEnds(w) ==
    /\ pc' = [pc EXCEPT ![w] = "idle"]
    /\ job' = [job EXCEPT ![w] = 0]
    /\ seen' = [seen EXCEPT ![w] = 0]
    /\ Kicked(1)

\* The early return of a thread whose draft was rejected meanwhile.
ThreadStops(w) ==
    /\ GateFree /\ pc[w] \in {"extract", "mark", "finish"}
    /\ Withdrawn(job[w])
    /\ ThreadEnds(w)
    /\ UNCHANGED <<disk, compiling, tx, up, disturbed>>

\* Mutant: the draft is offered for review before its proposal is written.
ExtractAndOffer(w) ==
    /\ GateFree /\ pc[w] = "extract"
    /\ StagedSourceExists(job[w])
    /\ ~Withdrawn(job[w])
    /\ Moved(job[w], "AwaitingReview")
    /\ seen' = [seen EXCEPT ![w] = revision[job[w]]]
    /\ pc' = [pc EXCEPT ![w] = "propose"]
    /\ UNCHANGED <<created, kind, sha, revision, proposal, registry, wiki,
                   job, compiling, tx, owedKicks, up, disturbed>>

\* The PDF is read without the mutex, its text recorded with it.
Extract(w) ==
    /\ GateFree /\ pc[w] = "extract"
    /\ StagedSourceExists(job[w])
    /\ ~Withdrawn(job[w])
    /\ Moved(job[w], "Drafting")
    /\ seen' = [seen EXCEPT ![w] = revision[job[w]]]
    /\ pc' = [pc EXCEPT ![w] = "propose"]
    /\ UNCHANGED <<created, kind, sha, revision, proposal, registry, wiki,
                   job, compiling, tx, owedKicks, up, disturbed>>

\* A generated page is marked before it is enriched.
MarkForEnrichment(w) ==
    /\ GateFree /\ pc[w] = "mark"
    /\ ~Withdrawn(job[w])
    /\ Moved(job[w], "Drafting")
    /\ pc' = [pc EXCEPT ![w] = "enrich"]
    /\ UNCHANGED <<created, kind, sha, revision, proposal, registry, wiki,
                   job, seen, compiling, tx, owedKicks, up, disturbed>>

\* run_generated_enrichment succeeds, without the mutex.
Enrich(w) ==
    /\ up /\ pc[w] = "enrich"
    /\ pc' = [pc EXCEPT ![w] = "finish"]
    /\ UNCHANGED <<disk, job, seen, compiling, tx, owedKicks, up, disturbed>>

\* build_proposal from the draft read at the mark; written without the mutex.
Propose(w) ==
    /\ up /\ pc[w] = "propose"
    /\ proposal' = [proposal EXCEPT ![job[w]] =
                      [rev |-> seen[w], by |-> "gate", page |-> sha[job[w]],
                       op |-> "create"]]
    /\ pc' = [pc EXCEPT ![w] = "finish"]
    /\ UNCHANGED <<created, status, kind, sha, revision, registry, wiki,
                   job, seen, compiling, tx, owedKicks, up, disturbed>>

Finish(w) ==
    /\ GateFree /\ pc[w] = "finish"
    /\ ~Withdrawn(job[w])
    /\ Moved(job[w], "AwaitingReview")
    /\ ThreadEnds(w)
    /\ UNCHANGED <<created, kind, sha, revision, proposal, registry, wiki,
                   compiling, tx, up, disturbed>>

\* Unreadable PDFs and a model that does not answer are ordinary; any other
\* step fails only when the disk does.
ThreadMayFail(w) ==
    \/ pc[w] \in {"extract", "enrich"} /\ UNCHANGED disturbed
    \/ pc[w] # "idle" /\ Disturb("io")

\* Mutant: a failure is recorded without looking at the draft.
ThreadFailsAnyway(w) ==
    /\ GateFree
    /\ ThreadMayFail(w)
    /\ Moved(job[w], "Failed")
    /\ ThreadEnds(w)
    /\ UNCHANGED <<created, kind, sha, revision, proposal, registry, wiki,
                   compiling, tx, up>>

ThreadFails(w) ==
    /\ GateFree
    /\ ThreadMayFail(w)
    /\ status' = IF Withdrawn(job[w]) THEN status
                 ELSE [status EXCEPT ![job[w]] = "Failed"]
    /\ ThreadEnds(w)
    /\ UNCHANGED <<created, kind, sha, revision, proposal, registry, wiki,
                   compiling, tx, up>>

\* The write that would record the failure fails too, and is ignored.
FailureIsLost(w) ==
    /\ GateFree /\ pc[w] # "idle"
    /\ Disturb("io")
    /\ ThreadEnds(w)
    /\ UNCHANGED <<disk, compiling, tx, up>>

ThreadStep(w) ==
    \/ ThreadStops(w)
    \/ Extract(w)
    \/ MarkForEnrichment(w)
    \/ Enrich(w)
    \/ Propose(w)
    \/ Finish(w)
    \/ ThreadFails(w)
    \/ FailureIsLost(w)

-----------------------------------------------------------------------------
(* The compilers of the WebView. *)

ClaimCompilation(x) ==
    /\ GateFree /\ compiling[x] = NoClaim
    /\ ~ClaimsClosed /\ Claimable # {}
    /\ LET d == NextClaim
       IN  /\ StagedSourceExists(d)
           /\ Moved(d, "Drafting")
           /\ compiling' = [compiling EXCEPT ![x] = [draft |-> d, rev |-> revision[d]]]
    /\ UNCHANGED <<created, kind, sha, revision, proposal, registry, wiki,
                   threads, tx, owedKicks, up, disturbed>>

\* The compiler reports for the claim it holds, and holds it no longer.
Reports(x) ==
    /\ GateFree /\ compiling[x] # NoClaim
    /\ compiling' = [compiling EXCEPT ![x] = NoClaim]

\* submit_ingest_compilation: the queue is not kicked.  The compiler chose
\* "create" or "update" by looking at the page when it finished writing.
SubmitCompilation(x, p, o) ==
    LET d == compiling[x].draft
        r == compiling[x].rev
    IN  /\ Reports(x)
        /\ ClaimIsCurrent(d, r)
        /\ StagedSourceExists(d)
        /\ proposal' = [proposal EXCEPT ![d] =
                          [rev |-> r, by |-> "native", page |-> p, op |-> o]]
        /\ Moved(d, "AwaitingReview")
        /\ UNCHANGED <<created, kind, sha, revision, registry, wiki,
                       threads, tx, owedKicks, up, disturbed>>

\* Mutant: a failed compilation does not kick the queue.
FailCompilationQuietly(x) ==
    LET d == compiling[x].draft
    IN  /\ Reports(x)
        /\ ClaimIsCurrent(d, compiling[x].rev)
        /\ Moved(d, "Failed")
        /\ UNCHANGED <<created, kind, sha, revision, proposal, registry, wiki,
                       threads, tx, owedKicks, up, disturbed>>

FailCompilation(x) ==
    LET d == compiling[x].draft
    IN  /\ Reports(x)
        /\ ClaimIsCurrent(d, compiling[x].rev)
        /\ Moved(d, "Failed")
        /\ Kicked(1)
        /\ UNCHANGED <<created, kind, sha, revision, proposal, registry, wiki,
                       threads, tx, up, disturbed>>

\* A stale result is refused, an aborted compiler reports nothing: either way
\* the draft is left as it is.
DropCompilation(x) ==
    /\ Reports(x)
    /\ UNCHANGED <<disk, threads, tx, owedKicks, up, disturbed>>

Compile(x) ==
    \/ ClaimCompilation(x)
    \/ \E p \in Pages, o \in {"create", "update"} : SubmitCompilation(x, p, o)
    \/ FailCompilation(x)
    \/ DropCompilation(x)

-----------------------------------------------------------------------------
(* Review decisions. *)

RequestRevision(d) ==
    /\ GateFree /\ CallerMayKick
    /\ CanRevise(d)
    /\ revision[d] < MaxRevision
    /\ Moved(d, "RevisionRequested")
    /\ revision' = [revision EXCEPT ![d] = @ + 1]
    /\ Kicked(1)
    /\ UNCHANGED <<created, kind, sha, proposal, registry, wiki,
                   threads, compiling, tx, up, disturbed>>

\* Mutant: a rejection does not kick the queue.
RejectQuietly(d) ==
    /\ GateFree /\ CallerMayKick
    /\ CanReject(d)
    /\ Moved(d, "Rejected")
    /\ UNCHANGED <<created, kind, sha, revision, proposal, registry, wiki,
                   threads, compiling, tx, owedKicks, up, disturbed>>

RejectDraft(d) ==
    /\ GateFree /\ CallerMayKick
    /\ CanReject(d)
    /\ Moved(d, "Rejected")
    /\ Kicked(1)
    /\ UNCHANGED <<created, kind, sha, revision, proposal, registry, wiki,
                   threads, compiling, tx, up, disturbed>>

\* Mutant: the approval publishes without marking the draft first.
ApproveUnmarked(d) ==
    /\ GateFree
    /\ CanApprove(d)
    /\ kind[d] = "source" => StagedSourceExists(d)
    /\ tx' = [stage |-> "staged", draft |-> d, change |-> proposal[d],
              oldPage |-> wiki[proposal[d].page],
              oldEntry |-> IF kind[d] = "source" THEN registry[sha[d]] ELSE NoClaim]
    /\ UNCHANGED <<disk, threads, compiling, owedKicks, up, disturbed>>

\* approve_draft takes the mutex, reads the proposal and marks the draft.  When
\* the staged file is gone it puts the mark back before it writes anything else.
ApproveDraft(d) ==
    /\ GateFree
    /\ CanApprove(d)
    /\ kind[d] = "source" => StagedSourceExists(d)
    /\ Moved(d, "Publishing")
    /\ tx' = [stage |-> "staged", draft |-> d, change |-> proposal[d],
              oldPage |-> wiki[proposal[d].page],
              oldEntry |-> IF kind[d] = "source" THEN registry[sha[d]] ELSE NoClaim]
    /\ UNCHANGED <<created, kind, sha, revision, proposal, registry, wiki,
                   threads, compiling, owedKicks, up, disturbed>>

\* commit_with_rollback writes the pages first, ...
PublishPage ==
    /\ up /\ tx.stage = "staged"
    /\ wiki' = [wiki EXCEPT ![tx.change.page] =
                  [draft |-> tx.draft, rev |-> tx.change.rev, by |-> tx.change.by]]
    /\ tx' = [tx EXCEPT !.stage = "page"]
    /\ UNCHANGED <<created, status, kind, sha, revision, proposal, registry,
                   threads, compiling, owedKicks, up, disturbed>>

\* ... then the registry, which a generated page leaves as it is, ...
PublishRegistry ==
    /\ up /\ tx.stage = "page"
    /\ registry' =
         IF kind[tx.draft] = "source"
         THEN [registry EXCEPT ![sha[tx.draft]] =
                 [draft |-> tx.draft, rev |-> revision[tx.draft]]]
         ELSE registry
    /\ tx' = [tx EXCEPT !.stage = "registry"]
    /\ UNCHANGED <<created, status, kind, sha, revision, proposal, wiki,
                   threads, compiling, owedKicks, up, disturbed>>

\* ... and draft.json last; the mutex is released and the queue kicked.
PublishDraft ==
    /\ up /\ tx.stage = "registry"
    /\ Moved(tx.draft, "Trusted")
    /\ tx' = NoTx
    /\ Kicked(1)
    /\ UNCHANGED <<created, kind, sha, revision, proposal, registry, wiki,
                   threads, compiling, up, disturbed>>

\* Mutant: only the page is rolled back.
RollBackPage ==
    /\ up /\ tx.stage # "none"
    /\ Disturb("io")
    /\ wiki' = [wiki EXCEPT ![tx.change.page] = tx.oldPage]
    /\ tx' = NoTx
    /\ UNCHANGED <<created, kind, sha, revision, proposal, registry,
                   threads, compiling, owedKicks, up>>

\* rollback_prepared: what the approval wrote is undone, the mutex released.
RollBack ==
    /\ up /\ tx.stage # "none"
    /\ Disturb("io")
    /\ wiki' = [wiki EXCEPT ![tx.change.page] = tx.oldPage]
    /\ registry' =
         IF kind[tx.draft] = "source"
         THEN [registry EXCEPT ![sha[tx.draft]] = tx.oldEntry]
         ELSE registry
    /\ tx' = NoTx
    /\ UNCHANGED <<created, kind, sha, revision, proposal,
                   threads, compiling, owedKicks, up>>

\* The draft goes back to review; the queue is not kicked.
PublishFails == RollBack /\ Moved(tx.draft, "AwaitingReview")

\* The write that would put it back fails too, and is ignored.
PublishFailureIsLost == RollBack /\ UNCHANGED status

PublishStep == PublishPage \/ PublishRegistry \/ PublishDraft

-----------------------------------------------------------------------------
(* The process. *)

\* Threads, compilers, kicks and an approval in progress are gone.
Crash ==
    /\ up
    /\ Disturb("crash")
    /\ up' = FALSE
    /\ pc' = [w \in Workers |-> "idle"]
    /\ job' = [w \in Workers |-> 0]
    /\ seen' = [w \in Workers |-> 0]
    /\ compiling' = [x \in Compilers |-> NoClaim]
    /\ tx' = NoTx
    /\ owedKicks' = 0
    /\ UNCHANGED disk

\* resume_queued_drafts takes "parsing" and "drafting" for the remains of a
\* dead thread, and only if the draft is a generated one.
Interrupted(d) == kind[d] = "generated" /\ status[d] \in {"Parsing", "Drafting"}

ResumeQueuedDrafts ==
    /\ status' = [d \in Drafts |-> IF Interrupted(d) THEN "Uploaded" ELSE status[d]]
    /\ Kicked(1)
    /\ UNCHANGED <<created, kind, sha, revision, proposal, registry, wiki>>

Restart ==
    /\ ~up
    /\ up' = TRUE
    /\ ResumeQueuedDrafts
    /\ UNCHANGED <<threads, compiling, tx, disturbed>>

\* handle_select_current_project resumes too, in a process that is alive.
SelectProject ==
    /\ GateFree
    /\ Disturb("select")
    /\ ResumeQueuedDrafts
    /\ UNCHANGED <<threads, compiling, tx, up>>

-----------------------------------------------------------------------------
Next ==
    \/ \E c \in Contents : CreateSource(c)
    \/ \E c \in Contents, p \in TopicPages : CreateGenerated(c, p)
    \/ KickQueue
    \/ KickIsLost
    \/ \E w \in Workers : ThreadStep(w)
    \/ \E x \in Compilers : Compile(x)
    \/ \E d \in Drafts : RequestRevision(d) \/ RejectDraft(d) \/ ApproveDraft(d)
    \/ PublishStep
    \/ PublishFails
    \/ PublishFailureIsLost
    \/ Crash
    \/ Restart
    \/ SelectProject

Spec == Init /\ [][Next]_vars

\* The operating system runs every thread that can run: kicks, workers and
\* the approval that holds the mutex go on, and a dead process is restarted.
\* Nothing is assumed of users, of failures or of crashes.
Scheduling ==
    /\ WF_vars(KickQueue)
    /\ \A w \in Workers : WF_vars(ThreadStep(w))
    /\ WF_vars(PublishStep)
    /\ WF_vars(Restart)

LiveSpec == Spec /\ Scheduling

\* An assumption on people: whatever waits for a decision gets one.
ReviewerDecides ==
    \A d \in Drafts : WF_vars(CanApprove(d) /\ (ApproveDraft(d) \/ RejectDraft(d)))

-----------------------------------------------------------------------------
(* Properties. *)

\* A rejected draft stays rejected, whatever thread was working on it, whatever
\* compiler had claimed it and whatever is resumed after a restart: each of them
\* takes the mutex again after the rejection and could write over it.
RejectedIsFinal ==
    [][\A d \in Drafts : status[d] = "Rejected" => status'[d] = "Rejected"]_vars

\* A published draft stays published: no late thread, compiler or decision
\* takes it back to review or to the queue, where it would be published twice.
TrustedIsFinal ==
    [][\A d \in Drafts : status[d] = "Trusted" => status'[d] = "Trusted"]_vars

Working(w) == pc[w] # "idle" /\ status[job[w]] # "Rejected"

\* The "single-worker guard" of kick_queue: at most one thread works on a draft
\* nobody has rejected, though every upload, decision and thread kicks the queue.
SingleWorker == \A v, w \in Workers : Working(v) /\ Working(w) => v = w

\* The queue never waits for a kick nobody owes: when a queued draft could
\* start, some caller still has to call kick_queue.
NoStalledQueue == up /\ Queued # {} /\ ~QueueBlocked => owedKicks > 0

\* What is offered to the reviewer of an imported source was made from the
\* revision the reviewer asked for last, not from an earlier one.
ReviewedProposalIsCurrent ==
    \A d \in Drafts :
        kind[d] = "source" /\ status[d] = "AwaitingReview"
            => proposal[d].rev = revision[d]

\* While a draft waits for its decision nobody changes what is being decided.
ReviewIsStable ==
    [][\A d \in Drafts :
         status[d] = "AwaitingReview" /\ status'[d] = "AwaitingReview"
             => proposal'[d] = proposal[d]]_vars

\* Whenever the mutex is free, registry, wiki and drafts tell the same story:
\* what is registered or visible belongs to a published draft, in the version that
\* was reviewed, and what is trusted is registered and visible (or was replaced by
\* a later draft), failed approvals notwithstanding.  An approval that a crash cut
\* short leaves its draft in publishing, and what it had written until then.
PublicationIsConsistent ==
    LET Published(d) == status[d] \in {"Publishing", "Trusted"}
    IN  tx.stage = "none" =>
        /\ \A c \in Contents : registry[c].draft # 0 =>
              LET d == registry[c].draft
              IN  Published(d) /\ sha[d] = c /\ registry[c].rev = revision[d]
        /\ \A p \in Pages : wiki[p].draft # 0 =>
              LET d == wiki[p].draft
              IN  /\ Published(d) /\ proposal[d].page = p
                  /\ wiki[p].rev = proposal[d].rev /\ wiki[p].by = proposal[d].by
        /\ \A d \in Drafts : status[d] = "Trusted" =>
              /\ kind[d] = "source" => registry[sha[d]].draft = d
              /\ wiki[proposal[d].page].draft # 0

\* At every moment, in the middle of an approval and after a crash in the middle
\* of one, a reader sees only pages and sources whose draft a reviewer approved.
VisibleIsApproved ==
    LET Approved(d) == d = 0 \/ status[d] \in {"Publishing", "Trusted"}
    IN  /\ \A p \in Pages : Approved(wiki[p].draft)
        /\ \A c \in Contents : Approved(registry[c].draft)

Phase(s) ==
    CASE s = "Absent" -> "unknown"
      [] s \in {"AwaitingReview", "Publishing"} -> "review"
      [] s = "Trusted" -> "trusted"
      [] s = "Rejected" -> "rejected"
      [] OTHER -> "queued"

\* The gate implements the review ledger: a draft is decided only after it was
\* offered, decisions are final, and no content is in two live drafts, with
\* crashes, failures and lost kicks.
Ledger == INSTANCE ReviewLedger WITH
              phase <- [d \in Drafts |-> Phase(status[d])],
              content <- sha

ImplementsLedger == Ledger!Spec

Queueing(d) == status[d] \in {"Uploaded", "RevisionRequested"}

\* Every queued draft is started, reviewed or failed, unless an imported source
\* waits for its decision: generated pages do not wait for each other's reviews,
\* and the thread that ends kicks the next one.
QueueMoves ==
    \A d \in Drafts :
        Queueing(d) ~>
            \/ ~Queueing(d)
            \/ \E e \in Drafts : kind[e] = "source" /\ status[e] = "AwaitingReview"

\* When every draft offered for review is decided, every queued draft is decided
\* or fails: no order of uploads, kicks and decisions leaves one behind.
QueueDrains ==
    ReviewerDecides =>
        \A d \in Drafts :
            Queueing(d) ~> status[d] \in {"Trusted", "Rejected", "Failed"}

-----------------------------------------------------------------------------
(* What documents and comments of the repository say, and the code does not. *)

\* README.md:82, an approval is published atomically and a failure rolls back: an
\* approval ends, published or rolled back.
PublishingResolves ==
    \A d \in Drafts : status[d] = "Publishing" ~> status[d] # "Publishing"

=============================================================================
