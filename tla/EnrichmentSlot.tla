--------------------------- MODULE EnrichmentSlot ---------------------------
(*****************************************************************************)
(* The semantic enrichment of LLM Wiki (llm_enrich.rs): jobs over the whole  *)
(* wiki, started by hand, and the enrichment of one page before its draft is *)
(* reviewed (run_generated_enrichment, ingest_gate.rs) share one overlay     *)
(* file per project.  A job loads the overlay once, adds a page at a time    *)
(* across LLM calls and writes the whole of it back; one slot per project    *)
(* keeps a second job from writing over it.                                  *)
(*                                                                           *)
(* An action is what a job does between two awaits or two of its locks.      *)
(* Left out: the relations themselves, progress counters, a new version of a *)
(* page, a job that panics.                                                  *)
(*****************************************************************************)
EXTENDS Naturals, FiniteSets

CONSTANTS Wiki,        \* the pages of the wiki
          Jobs,        \* bound: the jobs of one behaviour
          MaxWaits,    \* attempts at a busy slot before a draft fails (20)
          EnrichFaults \* bound: LLM calls and writes that fail, crashes, cancellations

ASSUME EnrichAssumption == /\ IsFiniteSet(Wiki) /\ IsFiniteSet(Jobs)
                           /\ MaxWaits \in Nat /\ EnrichFaults \in Nat

VARIABLES
    phase,    \* the slot: JOBS[project].phase
    cancel,   \* the project is in CANCEL_FLAGS
    overlay,  \* pages in the overlay file
    torn,     \* the overlay file was cut short and cannot be read
    jobs,     \* what each job is doing
    saved,    \* history: pages written to the overlay since it was last torn
    troubles  \* what is left of EnrichFaults

slotVars == <<phase, cancel, overlay, torn, jobs, saved, troubles>>

Busy == phase \in {"pages", "relations"}

\* kind: a job over the wiki, or the enrichment of one draft's page.
\* pages: those it is for; todo: those still to be enriched; loaded: the overlay in
\* memory; again: this is a draft's second attempt; next: what follows a save.
NoJob == [stage |-> "none", kind |-> "wiki", pages |-> {}, todo |-> {}, loaded |-> {},
          waits |-> 0, again |-> FALSE, next |-> "none"]

SlotInit ==
    /\ phase = "idle" /\ cancel = FALSE
    /\ overlay = {} /\ torn = FALSE /\ saved = {}
    /\ jobs = [j \in Jobs |-> NoJob]
    /\ troubles = EnrichFaults

In(j, stage) == jobs[j].stage = stage
Does(j, stage) == jobs' = [jobs EXCEPT ![j].stage = stage]
Trouble == troubles > 0 /\ troubles' = troubles - 1
file == <<overlay, torn, saved>>
-----------------------------------------------------------------------------
(* Getting the slot.                                                         *)

\* start_enrichment clears the flag before it knows whether it gets the slot.
StartEnrichment(j) ==
    /\ In(j, "none")
    /\ cancel' = FALSE
    /\ jobs' = [jobs EXCEPT ![j] = [NoJob EXCEPT !.stage = "claim", !.pages = Wiki]]
    /\ UNCHANGED <<phase, file, troubles>>

EnrichDraft(j, page) ==
    /\ In(j, "none")
    /\ jobs' = [jobs EXCEPT ![j] = [NoJob EXCEPT !.stage = "claim", !.kind = "draft",
                                                 !.pages = {page}]]
    /\ UNCHANGED <<phase, cancel, file, troubles>>

\* Mutant: a job that labels relations does not hold the slot.
TakenByPages == phase = "pages"

Taken == Busy

\* claim_job_slot.
ClaimSlot(j) ==
    /\ In(j, "claim") /\ ~Taken
    /\ phase' = "pages"
    /\ Does(j, IF jobs[j].kind = "draft" THEN "clear" ELSE "load")
    /\ UNCHANGED <<cancel, file, troubles>>

\* A draft waits for the slot, but not once its first attempt has failed.
SlotRefused(j) ==
    /\ In(j, "claim") /\ Taken
    /\ IF jobs[j].kind = "draft" /\ ~jobs[j].again /\ jobs[j].waits < MaxWaits
       THEN jobs' = [jobs EXCEPT ![j].waits = @ + 1]
       ELSE Does(j, "over")
    /\ UNCHANGED <<phase, cancel, file, troubles>>

\* enrich_generated_proposal clears the flag once it has the slot.
ClearCancel(j) ==
    /\ In(j, "clear")
    /\ cancel' = FALSE
    /\ Does(j, "load")
    /\ UNCHANGED <<phase, file, troubles>>

RequestCancel ==
    /\ ~cancel /\ Trouble
    /\ cancel' = TRUE
    /\ UNCHANGED <<phase, file, jobs>>
-----------------------------------------------------------------------------
(* run_enrichment_inner and enrich_generated_proposal_inner.                 *)

\* An overlay that cannot be read is taken for an empty one.
LoadOverlay(j) ==
    LET known == IF torn THEN {} ELSE overlay
        r == jobs[j]
    IN /\ In(j, "load")
       /\ \E force \in BOOLEAN:
             /\ r.kind = "draft" => ~force
             /\ jobs' = [jobs EXCEPT ![j] =
                   [r EXCEPT !.stage = "pages", !.loaded = known,
                             !.todo = r.pages \ (IF force THEN {} ELSE known)]]
       /\ UNCHANGED <<phase, cancel, file, troubles>>

\* A cancelled job over the wiki saves what it has, a draft's stops; the relations
\* are not always asked for, or there is nothing to relate.
NextPage(j) ==
    /\ In(j, "pages")
    /\ IF cancel
       THEN /\ jobs' = [jobs EXCEPT ![j].stage = IF jobs[j].kind = "draft" THEN "stopped" ELSE "save",
                                    ![j].next = "finish"]
            /\ UNCHANGED phase
       ELSE IF jobs[j].todo # {} THEN Does(j, "ask") /\ UNCHANGED phase
       ELSE Does(j, "relations") /\ phase' \in {phase, "relations"}
    /\ UNCHANGED <<cancel, file, troubles>>

PageEnriched(j, page) ==
    /\ In(j, "ask") /\ page \in jobs[j].todo
    /\ jobs' = [jobs EXCEPT ![j] =
          [jobs[j] EXCEPT !.stage = "save", !.loaded = @ \union {page},
                          !.todo = @ \ {page}, !.next = "pages"]]
    /\ UNCHANGED <<phase, cancel, file, troubles>>

PageFails(j, page) ==
    /\ In(j, "ask") /\ page \in jobs[j].todo /\ Trouble
    /\ jobs' = [jobs EXCEPT ![j] =
          IF @.kind = "draft" THEN [@ EXCEPT !.stage = "failed"]
          ELSE [jobs[j] EXCEPT !.stage = "save", !.todo = @ \ {page}, !.next = "pages"]]
    /\ UNCHANGED <<phase, cancel, file>>

\* label_relations, label_pending_relations; only the latter's failure is the job's.
RelationsLabelled(j) ==
    /\ In(j, "relations")
    /\ jobs' = [jobs EXCEPT ![j] = [@ EXCEPT !.stage = "save", !.next = "finish"]]
    /\ UNCHANGED <<phase, cancel, file, troubles>>

LabellingFails(j) ==
    /\ In(j, "relations") /\ jobs[j].kind = "draft" /\ Trouble
    /\ Does(j, "failed")
    /\ UNCHANGED <<phase, cancel, file>>

\* Only a draft's job looks at the flag between two calls and stops.
LabellingStops(j) ==
    /\ In(j, "relations") /\ jobs[j].kind = "draft" /\ cancel
    /\ Does(j, "stopped")
    /\ UNCHANGED <<phase, cancel, file, troubles>>

SaveOverlay(j) ==
    /\ In(j, "save")
    /\ overlay' = jobs[j].loaded /\ torn' = FALSE
    /\ saved' = saved \union jobs[j].loaded
    /\ Does(j, jobs[j].next)
    /\ UNCHANGED <<phase, cancel, troubles>>

\* fs::write truncates the file first.
SaveFails(j) ==
    /\ In(j, "save") /\ Trouble
    /\ torn' \in {torn, TRUE}
    /\ saved' = IF torn' THEN {} ELSE saved
    /\ Does(j, "failed")
    /\ UNCHANGED <<phase, cancel, overlay>>
-----------------------------------------------------------------------------
(* The end of a job.                                                         *)

\* A draft's enrichment that failed is tried once more, unless it was cancelled.
JobEnds(j) ==
    /\ \E stage \in {"finish", "stopped", "failed"}: In(j, stage)
    /\ phase' = IF ~In(j, "finish") THEN "failed" ELSE IF cancel THEN "cancelled" ELSE "done"
    /\ cancel' = FALSE
    /\ jobs' = [jobs EXCEPT ![j] =
          IF In(j, "failed") /\ @.kind = "draft" /\ ~@.again
          THEN [@ EXCEPT !.stage = "claim", !.again = TRUE]
          ELSE [NoJob EXCEPT !.stage = "over"]]
    /\ UNCHANGED <<file, troubles>>

ProcessDies ==
    /\ Trouble
    /\ torn' \in IF \E j \in Jobs: In(j, "save") THEN {torn, TRUE} ELSE {torn}
    /\ saved' = IF torn' THEN {} ELSE saved
    /\ phase' = "idle" /\ cancel' = FALSE
    /\ jobs' = [j \in Jobs |-> IF In(j, "none") THEN NoJob ELSE [NoJob EXCEPT !.stage = "over"]]
    /\ UNCHANGED overlay
-----------------------------------------------------------------------------
SlotNext ==
    \/ RequestCancel \/ ProcessDies
    \/ \E j \in Jobs:
          \/ StartEnrichment(j) \/ ClaimSlot(j) \/ SlotRefused(j) \/ ClearCancel(j)
          \/ LoadOverlay(j) \/ NextPage(j) \/ RelationsLabelled(j)
          \/ LabellingFails(j) \/ LabellingStops(j)
          \/ SaveOverlay(j) \/ SaveFails(j) \/ JobEnds(j)
          \/ \E page \in Wiki: EnrichDraft(j, page) \/ PageEnriched(j, page) \/ PageFails(j, page)

SlotSpec == SlotInit /\ [][SlotNext]_slotVars
-----------------------------------------------------------------------------
SlotTypeOK ==
    /\ phase \in {"idle", "pages", "relations", "done", "cancelled", "failed"}
    /\ cancel \in BOOLEAN /\ torn \in BOOLEAN
    /\ overlay \subseteq Wiki /\ saved \subseteq Wiki
    /\ jobs \in [Jobs -> [stage: {"none", "claim", "clear", "load", "pages", "ask", "relations",
                                  "save", "finish", "failed", "stopped", "over"},
                          kind: {"wiki", "draft"}, pages: SUBSET Wiki, todo: SUBSET Wiki, loaded: SUBSET Wiki,
                          waits: 0..MaxWaits, again: BOOLEAN,
                          next: {"none", "pages", "finish"}]]
    /\ troubles \in 0..EnrichFaults

(* An enrichment that was written to the overlay stays there, whatever jobs    *)
(* start, wait, are cancelled, retried or killed beside the one that wrote it: *)
(* no job writes back an overlay it loaded before.  Only a write that was cut  *)
(* short loses them, since the next job takes the unreadable file for an empty *)
(* one (229-236).                                                              *)
NoEnrichmentIsLost == ~torn => saved \subseteq overlay
=============================================================================
