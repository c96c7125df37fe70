----------------------------- MODULE WikiProofs -----------------------------
(***************************************************************************)
(* The enrichment and the file watcher of LLM Wiki, and the types of MCWiki *)
(* where they stand beside a publication: for every wiki, every number of   *)
(* jobs, files and watchers, and every budget of failures.                  *)
(***************************************************************************)
EXTENDS MCWiki, PublishTransactionProofs

-----------------------------------------------------------------------------
(* EnrichmentSlot: the slot and the overlay. *)

\* A job holds the slot from its claim to its end, and has an overlay in memory
\* from its load to its last save.
Holding == {"clear", "load", "pages", "ask", "relations", "save", "finish", "failed", "stopped"}
Loaded == {"pages", "ask", "relations", "save"}

\* One job holds the slot, and only while it is taken.
HolderInv ==
    /\ \A j \in Jobs : jobs[j].stage \in Holding => Busy
    /\ \A i, j \in Jobs : jobs[i].stage \in Holding /\ jobs[j].stage \in Holding => i = j

\* What was saved is in the file and in the overlay that will be written over it.
OverlayInv ==
    /\ saved \subseteq overlay
    /\ torn => saved = {}
    /\ \A j \in Jobs : jobs[j].stage \in Loaded => saved \subseteq jobs[j].loaded

SlotInv == SlotTypeOK /\ HolderInv /\ OverlayInv

JobRecord == [stage: {"none", "claim", "clear", "load", "pages", "ask", "relations",
                      "save", "finish", "failed", "stopped", "over"},
              kind: {"wiki", "draft"}, pages: SUBSET Wiki, todo: SUBSET Wiki, loaded: SUBSET Wiki,
              waits: 0..MaxWaits, again: BOOLEAN,
              next: {"none", "pages", "finish"}]

\* The type of the slot without that of the jobs.
SlotOK ==
    /\ phase \in {"idle", "pages", "relations", "done", "cancelled", "failed"}
    /\ cancel \in BOOLEAN /\ torn \in BOOLEAN
    /\ overlay \subseteq Wiki /\ saved \subseteq Wiki
    /\ troubles \in 0..EnrichFaults

\* The type of the slot is that of its parts, before and after a step.
LEMMA SlotTypes ==
    /\ SlotTypeOK <=> SlotOK /\ jobs \in [Jobs -> JobRecord]
    /\ SlotTypeOK' <=> SlotOK' /\ jobs' \in [Jobs -> JobRecord]
BY Zenon DEF SlotTypeOK, SlotOK, JobRecord

\* A job that has not begun, or is over, is a job.
LEMMA NoJobIsOne == NoJob \in JobRecord /\ [NoJob EXCEPT !.stage = "over"] \in JobRecord
<1>1. NoJob \in JobRecord
  BY EnrichAssumption DEF NoJob, JobRecord
<1> QED BY <1>1 DEF JobRecord

\* The initial state of the slot has the invariant.
LEMMA SlotInitInv == SlotInit => SlotInv
<1> SUFFICES ASSUME SlotInit PROVE SlotInv
  OBVIOUS
<1>1. cancel \in BOOLEAN /\ torn \in BOOLEAN
  BY Zenon DEF SlotInit
<1>2. phase = "idle" /\ overlay = {} /\ saved = {} /\ troubles \in 0..EnrichFaults
  BY EnrichAssumption DEF SlotInit
<1>3. SlotOK
  BY <1>1, <1>2, Zenon DEF SlotOK
<1>4. jobs \in [Jobs -> JobRecord]
  BY NoJobIsOne DEF SlotInit
<1>5. HolderInv /\ OverlayInv
  BY <1>2 DEF SlotInit, HolderInv, OverlayInv, NoJob, Holding, Loaded
<1> QED BY <1>3, <1>4, <1>5, SlotTypes DEF SlotInv

\* A job that moves alone keeps the invariant if it takes the slot only when nobody
\* has it, gives it up only when it has it, and has an overlay in memory only as it
\* was loaded or added to.
LEMMA JobMoves ==
    ASSUME SlotInv, NEW j \in Jobs, NEW r \in JobRecord,
           jobs' = [jobs EXCEPT ![j] = r],
           SlotOK', UNCHANGED <<overlay, torn, saved>>,
           r.stage \in Holding => Busy' /\ (jobs[j].stage \in Holding \/ ~Busy),
           Busy /\ ~Busy' => jobs[j].stage \in Holding,
           r.stage \in Loaded => saved \subseteq r.loaded
    PROVE  SlotInv'
<1>1. jobs \in [Jobs -> JobRecord]
  BY SlotTypes DEF SlotInv
<1>2. /\ jobs' \in [Jobs -> JobRecord]
      /\ \A i \in Jobs : jobs'[i] = IF i = j THEN r ELSE jobs[i]
  BY <1>1
<1>3. HolderInv'
  BY <1>2 DEF SlotInv, HolderInv
<1>4. OverlayInv'
  BY <1>2 DEF SlotInv, OverlayInv
<1> QED BY <1>2, <1>3, <1>4, SlotTypes DEF SlotInv

\* A step that leaves the slot to whom it belongs and the file as it is keeps the
\* type of the slot.
LEMMA SlotStays ==
    ASSUME SlotOK, UNCHANGED <<overlay, torn, saved>>,
           phase' \in {"idle", "pages", "relations", "done", "cancelled", "failed"},
           cancel' = cancel \/ cancel' = FALSE \/ cancel' = TRUE,
           troubles' = troubles \/ Trouble
    PROVE  SlotOK'
<1>1. cancel' \in BOOLEAN /\ torn' \in BOOLEAN
  BY Zenon DEF SlotOK
<1>2. troubles' \in 0..EnrichFaults
  BY EnrichAssumption DEF SlotOK, Trouble
<1>3. overlay' \subseteq Wiki /\ saved' \subseteq Wiki
  BY DEF SlotOK
<1> QED BY <1>1, <1>2, <1>3, Zenon DEF SlotOK

\* A job that starts, waits or gives up does not hold the slot.
LEMMA StartsInv ==
    ASSUME NEW j \in Jobs, SlotInv,
           \/ StartEnrichment(j) \/ SlotRefused(j)
           \/ \E page \in Wiki : EnrichDraft(j, page)
    PROVE  SlotInv'
<1> USE DEF StartEnrichment, SlotRefused, EnrichDraft, In, Does, file
<1>1. SlotOK /\ jobs[j] \in JobRecord /\ jobs \in [Jobs -> JobRecord]
  BY SlotTypes DEF SlotInv
<1>2. UNCHANGED <<phase, overlay, torn, saved, troubles>>
  OBVIOUS
<1>3. cancel' = cancel \/ cancel' = FALSE
  OBVIOUS
<1>4. SlotOK'
  BY <1>1, <1>2, <1>3, SlotStays DEF SlotOK
<1> DEFINE Waits == jobs[j].kind = "draft" /\ ~jobs[j].again /\ jobs[j].waits < MaxWaits
<1>5. \E r \in JobRecord : jobs' = [jobs EXCEPT ![j] = r] /\ r.stage \in {"claim", "over"}
  <2>1. CASE StartEnrichment(j)
    <3> DEFINE new == [NoJob EXCEPT !.stage = "claim", !.pages = Wiki]
    <3>1. new \in JobRecord /\ new.stage = "claim"
      BY NoJobIsOne DEF NoJob, JobRecord
    <3> QED BY <2>1, <3>1
  <2>2. ASSUME NEW page \in Wiki, EnrichDraft(j, page)
        PROVE  \E r \in JobRecord : jobs' = [jobs EXCEPT ![j] = r] /\ r.stage \in {"claim", "over"}
    <3> DEFINE new == [NoJob EXCEPT !.stage = "claim", !.kind = "draft", !.pages = {page}]
    <3>1. new \in JobRecord /\ new.stage = "claim"
      BY NoJobIsOne DEF NoJob, JobRecord
    <3> QED BY <2>2, <3>1
  <2>3. CASE SlotRefused(j) /\ Waits
    <3> DEFINE new == [jobs[j] EXCEPT !.waits = @ + 1]
    <3>1. new \in JobRecord /\ new.stage = "claim"
      BY <1>1, <2>3, EnrichAssumption DEF JobRecord
    <3> QED BY <2>3, <3>1
  <2>4. CASE SlotRefused(j) /\ ~Waits
    <3> DEFINE new == [jobs[j] EXCEPT !.stage = "over"]
    <3>1. new \in JobRecord /\ new.stage = "over"
      BY <1>1 DEF JobRecord
    <3> QED BY <2>4, <3>1
  <2> QED BY <2>1, <2>2, <2>3, <2>4
<1> QED BY <1>2, <1>4, <1>5, JobMoves DEF Busy, Holding, Loaded

\* The slot is claimed by a job when nobody has it, and given up by the one that has it.
LEMMA SlotMovesInv ==
    ASSUME NEW j \in Jobs, SlotInv, ClaimSlot(j) \/ JobEnds(j)
    PROVE  SlotInv'
<1> USE DEF ClaimSlot, JobEnds, In, Does, file
<1>1. SlotOK /\ jobs[j] \in JobRecord /\ jobs \in [Jobs -> JobRecord]
  BY SlotTypes DEF SlotInv
<1>2. UNCHANGED <<overlay, torn, saved, troubles>> /\ (cancel' = cancel \/ cancel' = FALSE)
  OBVIOUS
<1>3. phase' \in {"pages", "failed", "cancelled", "done"}
  OBVIOUS
<1>4. SlotOK'
  BY <1>1, <1>2, <1>3, SlotStays
<1>5. CASE ClaimSlot(j)
  <2>1. \E r \in JobRecord : jobs' = [jobs EXCEPT ![j] = r] /\ r.stage \in {"clear", "load"}
    <3> DEFINE new == [jobs[j] EXCEPT !.stage = IF jobs[j].kind = "draft" THEN "clear" ELSE "load"]
    <3>1. new \in JobRecord /\ new.stage \in {"clear", "load"}
      BY <1>1 DEF JobRecord
    <3> QED BY <1>5, <3>1
  <2>2. Busy' /\ ~Busy
    BY <1>5 DEF Busy, Taken
  <2> QED BY <1>2, <1>4, <2>1, <2>2, JobMoves DEF Holding, Loaded
<1>6. CASE JobEnds(j)
  <2> DEFINE again == In(j, "failed") /\ jobs[j].kind = "draft" /\ ~jobs[j].again
  <2>1. \E r \in JobRecord : jobs' = [jobs EXCEPT ![j] = r] /\ r.stage \in {"claim", "over"}
    <3>1. CASE again
      <4> DEFINE new == [jobs[j] EXCEPT !.stage = "claim", !.again = TRUE]
      <4>1. new \in JobRecord /\ new.stage = "claim"
        BY <1>1 DEF JobRecord
      <4> QED BY <1>6, <3>1, <4>1
    <3>2. CASE ~again
      <4> DEFINE new == [NoJob EXCEPT !.stage = "over"]
      <4>1. new \in JobRecord /\ new.stage = "over"
        BY NoJobIsOne DEF NoJob
      <4> QED BY <1>6, <3>2, <4>1
    <3> QED BY <3>1, <3>2
  <2>2. jobs[j].stage \in Holding
    BY <1>6 DEF Holding
  <2>3. ~Busy'
    BY <1>6 DEF Busy
  <2> QED BY <1>2, <1>4, <2>1, <2>2, <2>3, JobMoves DEF Holding, Loaded
<1> QED BY <1>5, <1>6

\* What the holder does with its own record, from its claim to its end.
LEMMA HolderMoves ==
    ASSUME NEW j \in Jobs, SlotInv,
           jobs[j].stage \in Holding, phase' = phase \/ phase' = "relations",
           NEW r \in JobRecord, jobs' = [jobs EXCEPT ![j] = r], r.stage \in Holding,
           UNCHANGED <<overlay, torn, saved>>,
           cancel' = cancel \/ cancel' = FALSE, troubles' = troubles \/ Trouble,
           r.stage \in Loaded => saved \subseteq r.loaded
    PROVE  SlotInv'
<1>1. SlotOK
  BY SlotTypes DEF SlotInv
<1>2. SlotOK'
  BY <1>1, SlotStays DEF SlotOK
<1>3. Busy /\ Busy'
  BY DEF SlotInv, HolderInv, Busy
<1> QED BY <1>2, <1>3, JobMoves

\* An overlay that is loaded has all that was saved, and stays so as pages are added.
LEMMA WorksInv ==
    ASSUME NEW j \in Jobs, SlotInv,
           \/ ClearCancel(j) \/ LoadOverlay(j) \/ NextPage(j) \/ RelationsLabelled(j)
           \/ LabellingFails(j) \/ LabellingStops(j)
           \/ \E page \in Wiki : PageEnriched(j, page) \/ PageFails(j, page)
    PROVE  SlotInv'
<1> USE DEF In, Does, file
<1>1. /\ jobs[j] \in JobRecord /\ jobs \in [Jobs -> JobRecord]
      /\ jobs[j].stage \in Loaded => saved \subseteq jobs[j].loaded
      /\ overlay \subseteq Wiki /\ saved \subseteq overlay /\ (torn => saved = {})
  BY SlotTypes DEF SlotInv, OverlayInv, SlotOK
<1>2. CASE ClearCancel(j)
  <2> DEFINE new == [jobs[j] EXCEPT !.stage = "load"]
  <2>1. new \in JobRecord /\ jobs' = [jobs EXCEPT ![j] = new] /\ new.stage = "load"
    BY <1>1, <1>2 DEF ClearCancel, JobRecord
  <2> QED BY <1>2, <2>1, HolderMoves DEF ClearCancel, Holding, Loaded
<1>3. CASE LoadOverlay(j)
  <2> DEFINE known == IF torn THEN {} ELSE overlay
  <2>1. PICK todo \in SUBSET Wiki :
           jobs' = [jobs EXCEPT ![j] = [jobs[j] EXCEPT !.stage = "pages", !.loaded = known,
                                                       !.todo = todo]]
    <3>1. jobs[j].pages \subseteq Wiki
      BY <1>1 DEF JobRecord
    <3>2. PICK force \in BOOLEAN :
             jobs' = [jobs EXCEPT ![j] =
                        [jobs[j] EXCEPT !.stage = "pages", !.loaded = known,
                           !.todo = jobs[j].pages \ (IF force THEN {} ELSE known)]]
      BY <1>3 DEF LoadOverlay
    <3>3. jobs[j].pages \ (IF force THEN {} ELSE known) \in SUBSET Wiki
      BY <3>1
    <3> QED BY <3>2, <3>3
  <2> DEFINE new == [jobs[j] EXCEPT !.stage = "pages", !.loaded = known, !.todo = todo]
  <2>2. known \in SUBSET Wiki /\ saved \subseteq known
    BY <1>1
  <2>3. new \in JobRecord /\ new.stage = "pages" /\ new.loaded = known
    <3> HIDE DEF known
    <3> QED BY <1>1, <2>2 DEF JobRecord
  <2>4. /\ UNCHANGED <<phase, cancel, overlay, torn, saved, troubles>>
        /\ jobs[j].stage = "load"
    BY <1>3 DEF LoadOverlay
  <2>5. jobs' = [jobs EXCEPT ![j] = new] /\ saved \subseteq new.loaded
    BY <2>1, <2>2, <2>3
  <2> HIDE DEF new
  <2> QED BY <2>3, <2>4, <2>5, HolderMoves DEF Holding
<1>4. CASE NextPage(j)
  <2>1. \E r \in JobRecord : /\ jobs' = [jobs EXCEPT ![j] = r]
                             /\ r.stage \in {"stopped", "save", "ask", "relations"}
                             /\ r.loaded = jobs[j].loaded
    <3>1. ASSUME NEW stage \in {"stopped", "save", "ask", "relations"},
                 NEW next \in {"finish", jobs[j].next},
                 jobs' = [jobs EXCEPT ![j] = [jobs[j] EXCEPT !.stage = stage, !.next = next]]
          PROVE  \E r \in JobRecord : /\ jobs' = [jobs EXCEPT ![j] = r]
                                      /\ r.stage \in {"stopped", "save", "ask", "relations"}
                                      /\ r.loaded = jobs[j].loaded
      <4> DEFINE new == [jobs[j] EXCEPT !.stage = stage, !.next = next]
      <4>1. new \in JobRecord /\ new.stage = stage /\ new.loaded = jobs[j].loaded
        BY <1>1 DEF JobRecord
      <4> QED BY <3>1, <4>1
    <3>2. CASE cancel
      BY <1>1, <1>4, <3>1, <3>2 DEF NextPage, JobRecord
    <3>3. CASE ~cancel
      <4>1. \E stage \in {"ask", "relations"} : jobs' = [jobs EXCEPT ![j].stage = stage]
        BY <1>4, <3>3 DEF NextPage
      <4>2. \E stage \in {"ask", "relations"} :
               jobs' = [jobs EXCEPT ![j] = [jobs[j] EXCEPT !.stage = stage, !.next = jobs[j].next]]
        BY <1>1, <4>1 DEF JobRecord
      <4> QED BY <3>1, <4>2
    <3> QED BY <3>2, <3>3
  <2>2. /\ phase' = phase \/ phase' = "relations"
        /\ UNCHANGED <<overlay, torn, saved, troubles, cancel>>
        /\ jobs[j].stage = "pages"
    BY <1>4 DEF NextPage
  <2> QED BY <1>1, <2>1, <2>2, HolderMoves DEF Holding, Loaded
<1>5. ASSUME NEW page \in Wiki, PageEnriched(j, page)
      PROVE  SlotInv'
  <2> DEFINE new == [jobs[j] EXCEPT !.stage = "save", !.loaded = jobs[j].loaded \union {page},
                                    !.todo = jobs[j].todo \ {page}, !.next = "pages"]
  <2>1. /\ jobs[j].loaded \union {page} \in SUBSET Wiki
        /\ jobs[j].todo \ {page} \in SUBSET Wiki
    BY <1>1 DEF JobRecord
  <2>2. new \in JobRecord /\ new.stage = "save" /\ new.loaded = jobs[j].loaded \union {page}
    BY <1>1, <2>1 DEF JobRecord
  <2>3. jobs' = [jobs EXCEPT ![j] = new] /\ jobs[j].stage = "ask"
    BY <1>5 DEF PageEnriched
  <2>4. UNCHANGED <<phase, cancel, overlay, torn, saved, troubles>>
    BY <1>5 DEF PageEnriched
  <2> HIDE DEF new
  <2>5. saved \subseteq new.loaded
    BY <1>1, <2>2, <2>3 DEF Loaded
  <2> QED BY <2>2, <2>3, <2>4, <2>5, HolderMoves DEF Holding
<1>6. ASSUME NEW page \in Wiki, PageFails(j, page)
      PROVE  SlotInv'
  <2> DEFINE failed == [jobs[j] EXCEPT !.stage = "failed"]
             new == [jobs[j] EXCEPT !.stage = "save", !.todo = jobs[j].todo \ {page}, !.next = "pages"]
  <2>1. jobs[j].todo \ {page} \in SUBSET Wiki
    BY <1>1 DEF JobRecord
  <2>2. /\ failed \in JobRecord /\ failed.stage = "failed"
        /\ new \in JobRecord /\ new.stage = "save" /\ new.loaded = jobs[j].loaded
    BY <1>1, <2>1 DEF JobRecord
  <2>3. jobs' = [jobs EXCEPT ![j] = failed] \/ jobs' = [jobs EXCEPT ![j] = new]
    BY <1>6 DEF PageFails
  <2>4. jobs[j].stage = "ask" /\ Trouble /\ UNCHANGED <<phase, cancel, overlay, torn, saved>>
    BY <1>6 DEF PageFails
  <2> HIDE DEF new, failed
  <2> QED BY <1>1, <2>2, <2>3, <2>4, HolderMoves DEF Holding, Loaded
<1>7. CASE RelationsLabelled(j) \/ LabellingFails(j) \/ LabellingStops(j)
  <2>1. \E r \in JobRecord : /\ jobs' = [jobs EXCEPT ![j] = r]
                             /\ r.stage \in {"stopped", "save", "failed"}
                             /\ r.loaded = jobs[j].loaded
    <3>1. ASSUME NEW stage \in {"stopped", "save", "failed"}
          PROVE  [jobs[j] EXCEPT !.stage = stage] \in JobRecord
      BY <1>1 DEF JobRecord
    <3>2. [jobs[j] EXCEPT !.stage = "save", !.next = "finish"] \in JobRecord
      BY <1>1 DEF JobRecord
    <3>3. CASE RelationsLabelled(j)
      BY <1>1, <3>2, <3>3 DEF RelationsLabelled, JobRecord
    <3>4. CASE LabellingFails(j) \/ LabellingStops(j)
      BY <1>1, <3>1, <3>4 DEF LabellingFails, LabellingStops, JobRecord
    <3> QED BY <1>7, <3>3, <3>4
  <2>2. /\ jobs[j].stage = "relations" /\ (troubles' = troubles \/ Trouble)
        /\ UNCHANGED <<phase, cancel, overlay, torn, saved>>
    BY <1>7 DEF RelationsLabelled, LabellingFails, LabellingStops
  <2> QED BY <1>1, <2>1, <2>2, HolderMoves DEF Holding, Loaded
<1> QED BY <1>2, <1>3, <1>4, <1>5, <1>6, <1>7

\* The holder writes over nothing that is not in its own overlay, and a write that
\* is cut short loses all that was saved.
LEMMA SavesInv ==
    ASSUME NEW j \in Jobs, SlotInv, SaveOverlay(j) \/ SaveFails(j)
    PROVE  SlotInv'
<1> USE DEF In, Does
<1>1. /\ jobs[j] \in JobRecord /\ jobs \in [Jobs -> JobRecord] /\ SlotOK
      /\ jobs[j].stage = "save"
  BY SlotTypes DEF SlotInv, SaveOverlay, SaveFails
<1>2. UNCHANGED <<phase, cancel>>
  BY DEF SaveOverlay, SaveFails
<1>3. PICK stage \in {"failed", jobs[j].next} : jobs' = [jobs EXCEPT ![j].stage = stage]
  BY DEF SaveOverlay, SaveFails
<1>4. /\ jobs' \in [Jobs -> JobRecord]
      /\ jobs'[j].stage \in {"none", "pages", "finish", "failed"}
      /\ jobs'[j].loaded = jobs[j].loaded
      /\ \A i \in Jobs : i # j => jobs'[i] = jobs[i]
  BY <1>1, <1>3 DEF JobRecord
<1>5. HolderInv'
  BY <1>1, <1>2, <1>4 DEF SlotInv, HolderInv, Holding, Busy
<1>6. \A i \in Jobs : i # j => jobs'[i].stage \notin Loaded
  BY <1>1, <1>4 DEF SlotInv, HolderInv, Holding, Loaded
<1>7. jobs[j].loaded \subseteq Wiki /\ saved \subseteq jobs[j].loaded
  BY <1>1 DEF JobRecord, SlotInv, OverlayInv, Loaded
<1>8. CASE SaveOverlay(j)
  <2>1. overlay' = jobs[j].loaded /\ saved' = jobs[j].loaded /\ troubles' = troubles
    BY <1>7, <1>8 DEF SaveOverlay
  <2>2. torn' = FALSE
    BY <1>8 DEF SaveOverlay
  <2>3. cancel' \in BOOLEAN /\ torn' \in BOOLEAN
    BY <1>1, <1>2, <2>2, Zenon DEF SlotOK
  <2>4. /\ phase' \in {"idle", "pages", "relations", "done", "cancelled", "failed"}
        /\ overlay' \subseteq Wiki /\ saved' \subseteq Wiki /\ troubles' \in 0..EnrichFaults
    BY <1>1, <1>2, <1>7, <2>1 DEF SlotOK
  <2>5. SlotOK'
    BY <2>3, <2>4, Zenon DEF SlotOK
  <2>6. OverlayInv'
    BY <1>4, <1>6, <2>1, <2>2 DEF OverlayInv
  <2> QED BY <1>4, <1>5, <2>5, <2>6, SlotTypes DEF SlotInv
<1>9. CASE SaveFails(j)
  <2>1. /\ overlay' = overlay /\ troubles' \in 0..EnrichFaults
        /\ saved' = (IF torn' THEN {} ELSE saved)
    BY <1>1, <1>9, EnrichAssumption DEF SaveFails, Trouble, SlotOK
  <2>2. torn' = torn \/ torn' = TRUE
    BY <1>9 DEF SaveFails
  <2>3. cancel' \in BOOLEAN /\ torn' \in BOOLEAN
    BY <1>1, <1>2, <2>2, Zenon DEF SlotOK
  <2>4. /\ phase' \in {"idle", "pages", "relations", "done", "cancelled", "failed"}
        /\ overlay' \subseteq Wiki /\ saved' \subseteq Wiki
    BY <1>1, <1>2, <2>1 DEF SlotOK
  <2>5. SlotOK'
    BY <2>1, <2>3, <2>4, Zenon DEF SlotOK
  <2>6. OverlayInv'
    BY <1>4, <1>6, <1>7, <2>1 DEF SlotInv, OverlayInv
  <2> QED BY <1>4, <1>5, <2>5, <2>6, SlotTypes DEF SlotInv
<1> QED BY <1>8, <1>9

\* A process that dies takes all jobs and the slot with it.
LEMMA DiesInv == SlotInv /\ ProcessDies => SlotInv'
<1> SUFFICES ASSUME SlotInv, ProcessDies PROVE SlotInv'
  OBVIOUS
<1>1. SlotOK /\ OverlayInv
  BY SlotTypes DEF SlotInv
<1>2. \A j \in Jobs : jobs'[j] \in {NoJob, [NoJob EXCEPT !.stage = "over"]}
  BY DEF ProcessDies
<1>3. jobs' \in [Jobs -> JobRecord]
  BY NoJobIsOne DEF ProcessDies
<1>4. /\ phase' = "idle" /\ overlay' = overlay /\ troubles' \in 0..EnrichFaults
      /\ saved' = (IF torn' THEN {} ELSE saved)
  BY <1>1, EnrichAssumption DEF ProcessDies, Trouble, SlotOK
<1>5. cancel' = FALSE /\ (torn' = torn \/ torn' = TRUE)
  BY DEF ProcessDies
<1>6. cancel' \in BOOLEAN /\ torn' \in BOOLEAN
  BY <1>1, <1>5, Zenon DEF SlotOK
<1>7. overlay' \subseteq Wiki /\ saved' \subseteq Wiki
  BY <1>1, <1>4 DEF SlotOK
<1>8. SlotOK'
  BY <1>4, <1>6, <1>7, Zenon DEF SlotOK
<1>9. HolderInv' /\ OverlayInv'
  BY <1>1, <1>2, <1>4 DEF HolderInv, OverlayInv, Holding, Loaded, NoJob
<1> QED BY <1>3, <1>8, <1>9, SlotTypes DEF SlotInv

\* Every step of the slot keeps the invariant.
LEMMA SlotNextInv == SlotInv /\ [SlotNext]_slotVars => SlotInv'
<1>1. SlotInv /\ RequestCancel => SlotInv'
  <2> SUFFICES ASSUME SlotInv, RequestCancel PROVE SlotInv'
    OBVIOUS
  <2>1. UNCHANGED <<phase, overlay, torn, saved, jobs>> /\ Trouble /\ cancel' = TRUE
    BY DEF RequestCancel, file
  <2>2. SlotOK'
    BY <2>1, SlotTypes, SlotStays DEF SlotInv, SlotOK
  <2> QED BY <2>1, <2>2, SlotTypes DEF SlotInv, HolderInv, OverlayInv, Busy
<1>2. SlotInv /\ UNCHANGED slotVars => SlotInv'
  BY DEF slotVars, SlotInv, SlotTypeOK, HolderInv, OverlayInv, Busy
<1> QED BY <1>1, <1>2, DiesInv, StartsInv, SlotMovesInv, WorksInv, SavesInv DEF SlotNext

\* What the theorems about the slot rest on.
LEMMA SlotSpecInv == SlotSpec => []SlotInv
BY SlotInitInv, SlotNextInv, PTL DEF SlotSpec

\* The slot and the jobs keep their types, however jobs are started, wait, fail, are
\* cancelled or killed.
THEOREM SlotTypeCorrect == SlotSpec => []SlotTypeOK
BY SlotSpecInv, PTL DEF SlotInv

\* No job writes back an overlay it loaded before another one saved, for every
\* number of jobs, waits and failures.
THEOREM EnrichmentsStay == SlotSpec => []NoEnrichmentIsLost
<1>1. SlotInv => NoEnrichmentIsLost
  BY DEF SlotInv, OverlayInv, NoEnrichmentIsLost
<1> QED BY <1>1, SlotSpecInv, PTL

-----------------------------------------------------------------------------
(* FileSync: the snapshot, the tasks and the threads. *)

TaskRecord == [status: {"none", "pending", "processing", "failed"}, rerun: BOOLEAN, retries: Nat]

\* What a thread does, when n contents have been written.
ThreadRecord(n) ==
    [stage: {"idle", "own", "sync", "reset", "walk", "snapshot", "scanned", "disk",
             "upsert", "check", "pick", "read", "update", "failed", "listen"},
     files: SUBSET Files, own: SUBSET Files, seen: [Files -> 0..n],
     task: Files \union {NoFile}, held: BOOLEAN, starts: BOOLEAN,
     said: SUBSET Files]

\* The type of everything but the tasks and the threads.
WorldOK ==
    /\ newest \in Nat
    /\ content \in [Files -> 0..newest]
    /\ snapshot \in [Files -> 0..newest]
    /\ told \in [Files -> 0..newest]
    /\ marked \subseteq Files /\ events \subseteq Files
    /\ strayed \subseteq Files /\ excused \subseteq Files
    /\ generation \in Nat /\ listening \in 0..generation
    /\ left \in SyncBudget

\* A thread has paths, a task or something to report only where its stage says so.
ShapeOf(t, r) ==
    /\ r.stage \notin {"own", "sync", "snapshot", "scanned", "disk", "upsert"} => r.files = {}
    /\ r.stage \in {"own", "sync"} /\ t = Publisher => r.files = {}
    /\ r.stage \notin {"pick", "read", "update", "failed"} => r.said = {}
    /\ r.stage \notin {"read", "update", "failed"} => r.task = NoFile
    /\ r.starts => /\ t = Command /\ r.stage \notin {"idle", "own", "sync"}
                  /\ listening # generation /\ generation # 0
    /\ r.stage \in {"reset", "listen"} => r.starts

ShapeInv == \A t \in Threads : ShapeOf(t, threads[t])

\* A path without a task has nothing left of an earlier one.
TaskInv == \A f \in Files : tasks[f].status = "none" => tasks[f] = NoTask

\* What the application has just written the frontend knows.
MarkInv == \A f \in marked : told[f] = content[f]

\* The files a thread synchronises are marked.
OwnInv == \A t \in Threads : threads[t].own \subseteq marked

\* The snapshot has a file as the frontend knows it, but where it has strayed, where
\* the application has just written, and where a thread is about to report.
AgreeInv ==
    \A f \in Files \ (strayed \union marked) :
        told[f] = snapshot[f] \/ \E t \in Threads : f \in threads[t].said

\* A watcher is being started: its tasks are reset, but it does not listen yet.
Starting == threads[Command].starts /\ threads[Command].stage # "reset"

\* Changes are followed up from the walk of a starting watcher on.
Guarded == Active \/ (Starting /\ threads[Command].stage # "walk")

\* A task that is processed has a thread, and one that holds it unless it runs again.
OwnerInv ==
    Active \/ Starting =>
        \A f \in Files : tasks[f].status = "processing" =>
            \E t \in Threads : threads[t].task = f /\ (threads[t].held \/ tasks[f].rerun)

\* An old watcher drops its batch as long as it has not read the snapshot.
Drops(t, r) == Stale(t) /\ r.stage \in {"own", "sync", "snapshot"}

\* What is compared differs, but for what a snapshot that has strayed hides.
Carries(t, r, f) ==
    \/ f \in r.said
    \/ /\ f \in r.files /\ ~Drops(t, r)
       /\ r.stage = "disk" => r.seen[f] # content[f] \/ f \in strayed

Open(f) == tasks[f].status \in {"pending", "failed"}

\* A change is followed up by a task, or by a thread that will not drop it.
Followed(f) ==
    \/ Open(f)
    \/ \E t \in Threads : \/ Carries(t, threads[t], f)
                          \/ threads[t].task = f /\ tasks[f].status = "processing"

FollowInv ==
    Guarded => \A f \in Files \ excused :
                   told[f] # content[f] => Followed(f) \/ (Active /\ f \in events)

SyncInv == /\ SyncTypeOK /\ ShapeInv /\ TaskInv /\ MarkInv /\ OwnInv /\ AgreeInv
           /\ OwnerInv /\ FollowInv

\* The type of the watcher is that of its parts, before and after a step.
LEMMA SyncTypes ==
    /\ SyncTypeOK <=> /\ WorldOK /\ tasks \in [Files -> TaskRecord]
                      /\ threads \in [Threads -> ThreadRecord(newest)]
    /\ SyncTypeOK' <=> /\ WorldOK' /\ tasks' \in [Files -> TaskRecord]
                       /\ threads' \in [Threads -> ThreadRecord(newest')]
BY Zenon DEF SyncTypeOK, WorldOK, TaskRecord, ThreadRecord

\* Nothing read is something read, whatever has been written.
LEMMA UnseenIsOne ==
    ASSUME NEW n \in Nat
    PROVE  Unseen \in [Files -> 0..n]
BY DEF Unseen, Absent

\* A thread at rest is a thread, whatever has been written.
LEMMA RestingIsOne ==
    ASSUME NEW n \in Nat
    PROVE  Resting \in ThreadRecord(n)
BY UnseenIsOne DEF Resting, ThreadRecord

\* A step of one thread that leaves the tasks alone keeps the invariant if the thread
\* keeps its task, enters only paths in the snapshot that are marked, and goes on
\* carrying every change it carried that is not followed up otherwise.
LEMMA ThreadMoves ==
    ASSUME SyncInv, NEW t \in Threads, NEW r \in ThreadRecord(newest),
           threads' = [threads EXCEPT ![t] = r], ShapeOf(t, r)',
           UNCHANGED <<content, newest, told, tasks, marked, generation, listening, events, strayed>>,
           excused \subseteq excused', excused' \subseteq Files,
           snapshot' \in [Files -> 0..newest], left' \in SyncBudget,
           \A f \in Files \ marked : snapshot'[f] = snapshot[f],
           r.starts => threads[t].starts /\ threads[t].stage \notin {"reset", "walk"},
           r.task = threads[t].task,
           r.task # NoFile => r.held = threads[t].held,
           r.own \subseteq threads[t].own, threads[t].said \subseteq r.said,
           Guarded => \A f \in Files \ excused' :
              Carries(t, threads[t], f) /\ told[f] # content[f] => Carries(t, r, f) \/ Followed(f)'
    PROVE  SyncInv'
<1>1. /\ threads \in [Threads -> ThreadRecord(newest)] /\ tasks \in [Files -> TaskRecord]
      /\ \A i \in Threads : threads'[i] = IF i = t THEN r ELSE threads[i]
  BY SyncTypes DEF SyncInv
<1>2. SyncTypeOK'
  <2>1. WorldOK'
    BY SyncTypes DEF SyncInv, WorldOK
  <2> QED BY <1>1, <2>1, SyncTypes
<1>3. ShapeInv'
  BY <1>1 DEF SyncInv, ShapeInv, ShapeOf
<1>4. TaskInv' /\ MarkInv'
  BY DEF SyncInv, TaskInv, MarkInv
<1>o. OwnInv' /\ AgreeInv'
  BY <1>1 DEF SyncInv, OwnInv, AgreeInv
<1>5. (Guarded' => Guarded) /\ (Active' \/ Starting' => Active \/ Starting)
  BY <1>1 DEF SyncInv, ShapeInv, ShapeOf, Guarded, Starting, Active
<1>6. OwnerInv'
  BY <1>1, <1>5, SyncAssumption DEF SyncInv, OwnerInv
<1>7. FollowInv'
  <2> SUFFICES ASSUME Guarded', NEW f \in Files \ excused', told[f] # content[f]
               PROVE  Followed(f)' \/ (Active' /\ f \in events')
    BY DEF FollowInv
  <2>1. Followed(f) \/ (Active /\ f \in events)
    BY <1>5 DEF SyncInv, FollowInv
  <2>2. ASSUME NEW i \in Threads, Carries(i, threads[i], f)
        PROVE  Followed(f)'
    <3>1. CASE i = t
      <4>1. Carries(t, r, f) \/ Followed(f)'
        BY <1>5, <2>2, <3>1
      <4> QED BY <1>1, <4>1 DEF Followed, Carries, Drops, Stale
    <3>2. CASE i # t
      BY <1>1, <2>2, <3>2 DEF Followed, Carries, Drops, Stale
    <3> QED BY <3>1, <3>2
  <2>3. \A i \in Threads : threads'[i].task = threads[i].task
    BY <1>1
  <2> QED BY <2>1, <2>2, <2>3 DEF Followed, Open, Active
<1> QED BY <1>2, <1>3, <1>4, <1>o, <1>6, <1>7 DEF SyncInv

\* What is left of a bound that is not used up.
LEMMA TakeOK ==
    ASSUME NEW what \in {"writes", "publications", "starts", "commands", "faults", "crashes"},
           left \in SyncBudget, Has(what), Take(what)
    PROVE  left' \in SyncBudget
BY DEF SyncBudget, Has, Take

\* What an action knows of its thread.
LEMMA ThreadFacts ==
    ASSUME SyncInv, NEW t \in Threads
    PROVE  /\ threads \in [Threads -> ThreadRecord(newest)]
           /\ threads[t] \in ThreadRecord(newest)
           /\ tasks \in [Files -> TaskRecord]
           /\ WorldOK /\ ShapeOf(t, threads[t])
BY SyncTypes DEF SyncInv, ShapeInv

\* Paths are read from the snapshot and from the disk, a task from the disk.
LEMMA ReadsInv ==
    ASSUME SyncInv, NEW t \in Threads, SyncReads(t) \/ ReadsTask(t)
    PROVE  SyncInv'
<1>1. threads[t] \in ThreadRecord(newest) /\ WorldOK /\ ShapeOf(t, threads[t])
  BY ThreadFacts
<1> DEFINE next == IF SyncReads(t) THEN "sync" ELSE "update"
<1>2. PICK r \in ThreadRecord(newest) :
         threads' = [threads EXCEPT ![t] = r] /\ r = [threads[t] EXCEPT !.stage = next, !.seen = content]
  <2> DEFINE new == [threads[t] EXCEPT !.stage = next, !.seen = content]
  <2>1. new \in ThreadRecord(newest)
    BY <1>1 DEF ThreadRecord, WorldOK
  <2> QED BY <2>1 DEF SyncReads, ReadsTask, Becomes
<1>3. /\ \/ threads[t].stage = "own" /\ r.stage = "sync"
         \/ threads[t].stage = "read" /\ r.stage = "update"
      /\ r.files = threads[t].files /\ r.said = threads[t].said /\ r.task = threads[t].task
      /\ r.held = threads[t].held /\ r.starts = threads[t].starts /\ r.own = threads[t].own
  BY <1>1, <1>2 DEF ThreadRecord, SyncReads, ReadsTask, At
<1>4. UNCHANGED <<content, newest, told, snapshot, tasks, marked, generation, listening, events, history, left>>
  BY DEF SyncReads, ReadsTask, world, mutexed, watch, history
<1>5. ShapeOf(t, r)'
  BY <1>1, <1>3, <1>4 DEF ShapeOf
<1>6. \A f \in Files : Carries(t, threads[t], f) => Carries(t, r, f)
  BY <1>3 DEF Carries, Drops
<1> QED BY <1>1, <1>2, <1>3, <1>4, <1>5, <1>6, ThreadMoves DEF WorldOK, history

\* What the application wrote is entered in the snapshot.
LEMMA SyncWritesInv ==
    ASSUME SyncInv, NEW t \in Threads, SyncWrites(t)
    PROVE  SyncInv'
<1>1. threads[t] \in ThreadRecord(newest) /\ WorldOK /\ ShapeOf(t, threads[t])
  BY ThreadFacts
<1> DEFINE next == IF t = Publisher THEN "walk" ELSE IF threads[t].files = {} THEN "idle" ELSE "snapshot"
<1>2. PICK r \in ThreadRecord(newest) :
         threads' = [threads EXCEPT ![t] = r] /\ r = [threads[t] EXCEPT !.own = {}, !.seen = Unseen, !.stage = next]
  <2> DEFINE new == [threads[t] EXCEPT !.own = {}, !.seen = Unseen, !.stage = next]
  <2>1. new \in ThreadRecord(newest)
    BY <1>1, UnseenIsOne DEF WorldOK, ThreadRecord
  <2> QED BY <2>1 DEF SyncWrites, Becomes
<1>3. /\ threads[t].stage = "sync"
      /\ r.stage = next
      /\ r.files = threads[t].files /\ r.said = threads[t].said /\ r.task = threads[t].task
      /\ r.held = threads[t].held /\ r.starts = threads[t].starts /\ r.own = {}
  BY <1>1, <1>2 DEF ThreadRecord, SyncWrites, At
<1>4. /\ UNCHANGED <<content, newest, told, tasks, marked, generation, listening, events, strayed, excused, left>>
      /\ snapshot' = [f \in Files |-> IF f \in threads[t].own THEN threads[t].seen[f] ELSE snapshot[f]]
  BY DEF SyncWrites, world, watch, history
<1>5. snapshot' \in [Files -> 0..newest]
  BY <1>1, <1>4 DEF WorldOK, ThreadRecord
<1>o. \A f \in Files \ marked : snapshot'[f] = snapshot[f]
  BY <1>4 DEF SyncInv, OwnInv
<1>6. ShapeOf(t, r)'
  BY <1>1, <1>3, <1>4 DEF ShapeOf, Publisher, Command
<1>7. \A f \in Files : Carries(t, threads[t], f) => Carries(t, r, f)
  BY <1>1, <1>3 DEF Carries, Drops, ShapeOf
<1> QED BY <1>1, <1>2, <1>3, <1>4, <1>5, <1>o, <1>6, <1>7, ThreadMoves DEF WorldOK

\* A thread at rest scans the project.
LEMMA ScansInv ==
    ASSUME SyncInv, RescanProject \/ \E w \in Watchers : PeriodicRescan(w)
    PROVE  SyncInv'
<1>1. PICK t \in Threads : /\ At(t, "idle") /\ Goes(t, "walk")
                           /\ UNCHANGED <<content, newest, told, snapshot, tasks, marked, generation,
                                          listening, events, strayed, excused>>
  BY SyncAssumption DEF RescanProject, PeriodicRescan, world, mutexed, watch, history, Threads, Watchers, Publisher, Command
<1>2. threads[t] \in ThreadRecord(newest) /\ WorldOK /\ ShapeOf(t, threads[t])
  BY ThreadFacts
<1>3. left' \in SyncBudget
  BY <1>2, TakeOK DEF RescanProject, PeriodicRescan, WorldOK
<1>4. PICK r \in ThreadRecord(newest) :
         threads' = [threads EXCEPT ![t] = r] /\ r = [threads[t] EXCEPT !.stage = "walk"]
  <2> DEFINE new == [threads[t] EXCEPT !.stage = "walk"]
  <2>1. new \in ThreadRecord(newest)
    BY <1>2 DEF ThreadRecord
  <2> QED BY <1>1, <2>1 DEF Goes, Becomes
<1>5. /\ threads[t].stage = "idle" /\ r.stage = "walk"
      /\ r.files = threads[t].files /\ r.said = threads[t].said /\ r.task = threads[t].task
      /\ r.held = threads[t].held /\ r.starts = threads[t].starts /\ r.own = threads[t].own
  BY <1>1, <1>2, <1>4 DEF ThreadRecord, At
<1>6. ShapeOf(t, r)'
  BY <1>1, <1>2, <1>5 DEF ShapeOf
<1>7. \A f \in Files : Carries(t, threads[t], f) => Carries(t, r, f)
  BY <1>5 DEF Carries, Drops
<1> QED BY <1>1, <1>2, <1>3, <1>4, <1>5, <1>6, <1>7, ThreadMoves DEF WorldOK, ShapeOf

\* A batch that is late is dropped; any other is compared with the snapshot.
LEMMA ReadsSnapshotInv ==
    ASSUME SyncInv, NEW t \in Threads, ReadsSnapshot(t)
    PROVE  SyncInv'
<1>1. threads[t] \in ThreadRecord(newest) /\ WorldOK /\ ShapeOf(t, threads[t])
  BY ThreadFacts
<1>2. threads[t].stage \in {"snapshot", "scanned"}
  BY DEF ReadsSnapshot, At
<1>3. UNCHANGED <<content, newest, told, snapshot, tasks, marked, generation, listening, events, strayed, excused, left>>
  BY DEF ReadsSnapshot, world, mutexed, watch, history
<1>4. CASE At(t, "snapshot") /\ Stale(t)
  <2>1. PICK r \in ThreadRecord(newest) : threads' = [threads EXCEPT ![t] = r] /\ r = Resting
    BY <1>1, <1>4, RestingIsOne DEF ReadsSnapshot, Rests, Becomes, WorldOK
  <2>2. /\ r.stage = "idle" /\ r.files = {} /\ r.said = {} /\ r.task = NoFile /\ ~r.starts /\ r.own = {}
    BY <2>1 DEF Resting
  <2>3. ShapeOf(t, r)'
    BY <2>2 DEF ShapeOf
  <2>4. \A f \in Files : ~Carries(t, threads[t], f)
    BY <1>1, <1>4 DEF Carries, Drops, At, ShapeOf
  <2> QED BY <1>1, <1>2, <1>3, <2>1, <2>2, <2>3, <2>4, ThreadMoves DEF WorldOK, ShapeOf
<1>5. CASE ~(At(t, "snapshot") /\ Stale(t))
  <2>1. PICK r \in ThreadRecord(newest) :
           threads' = [threads EXCEPT ![t] = r] /\ r = [threads[t] EXCEPT !.stage = "disk", !.seen = snapshot]
    <3> DEFINE new == [threads[t] EXCEPT !.stage = "disk", !.seen = snapshot]
    <3>1. new \in ThreadRecord(newest)
      BY <1>1 DEF ThreadRecord, WorldOK
    <3> QED BY <1>5, <3>1 DEF ReadsSnapshot, Becomes
  <2>2. /\ r.stage = "disk"
        /\ r.files = threads[t].files /\ r.said = threads[t].said /\ r.task = threads[t].task
        /\ r.held = threads[t].held /\ r.starts = threads[t].starts
        /\ r.own = threads[t].own /\ r.seen = snapshot
    BY <1>1, <2>1 DEF ThreadRecord
  <2>3. ShapeOf(t, r)'
    BY <1>1, <1>2, <1>3, <2>2 DEF ShapeOf
  <2>4. ASSUME NEW f \in Files \ excused', Carries(t, threads[t], f), told[f] # content[f]
        PROVE  Carries(t, r, f) \/ Followed(f)'
    <3>1. \A i \in Threads : threads'[i] = IF i = t THEN r ELSE threads[i]
      BY <2>1, ThreadFacts
    <3>2. CASE f \in strayed \/ snapshot[f] # content[f]
      BY <2>2, <2>4, <3>2 DEF Carries, Drops
    <3>3. CASE f \notin strayed /\ snapshot[f] = content[f]
      <4>1. f \notin marked
        BY <2>4 DEF SyncInv, MarkInv
      <4>2. PICK i \in Threads : f \in threads[i].said
        BY <2>4, <3>3, <4>1 DEF SyncInv, AgreeInv
      <4>3. f \in threads'[i].said
        BY <2>2, <3>1, <4>2
      <4> QED BY <4>3 DEF Followed, Carries
    <3> QED BY <3>2, <3>3
  <2> QED BY <1>1, <1>2, <1>3, <2>1, <2>2, <2>3, <2>4, ThreadMoves DEF WorldOK
<1> QED BY <1>4, <1>5

\* Paths that look as the snapshot says are passed by: their changes have a task, or
\* the snapshot has strayed and they are excused.
LEMMA ReadsFilesInv ==
    ASSUME SyncInv, NEW t \in Threads, ReadsFiles(t)
    PROVE  SyncInv'
<1>1. threads[t] \in ThreadRecord(newest) /\ WorldOK /\ ShapeOf(t, threads[t])
  BY ThreadFacts
<1> DEFINE changed == {f \in threads[t].files : content[f] # threads[t].seen[f]}
           next == IF changed = {} THEN "check" ELSE "upsert"
<1>2. PICK r \in ThreadRecord(newest) :
         /\ threads' = [threads EXCEPT ![t] = r]
         /\ r = [threads[t] EXCEPT !.files = changed, !.seen = Unseen, !.stage = next]
  <2>1. changed \in SUBSET Files /\ next \in {"check", "upsert"}
    BY <1>1 DEF ThreadRecord
  <2> DEFINE new == [threads[t] EXCEPT !.files = changed, !.seen = Unseen, !.stage = next]
  <2>2. new \in ThreadRecord(newest)
    <3> HIDE DEF changed, next
    <3> QED BY <1>1, <2>1, UnseenIsOne DEF WorldOK, ThreadRecord
  <2> QED BY <2>2 DEF ReadsFiles, Becomes
<1>3. /\ threads[t].stage = "disk" /\ r.stage = next /\ r.files = changed
      /\ r.said = threads[t].said /\ r.task = threads[t].task
      /\ r.held = threads[t].held /\ r.starts = threads[t].starts /\ r.own = threads[t].own
  BY <1>1, <1>2 DEF ThreadRecord, ReadsFiles, At
<1>4. /\ UNCHANGED <<content, newest, told, snapshot, tasks, marked, generation, listening, events, strayed, left>>
      /\ excused' = excused \union Overlooked(threads[t].files \ changed)
  BY DEF ReadsFiles, world, mutexed, watch
<1>5. excused' \subseteq Files /\ excused \subseteq excused'
  BY <1>1, <1>4 DEF WorldOK, ThreadRecord, Overlooked
<1>6. ShapeOf(t, r)'
  BY <1>1, <1>3, <1>4 DEF ShapeOf
<1>7. ASSUME Guarded, NEW f \in Files \ excused', Carries(t, threads[t], f), told[f] # content[f]
      PROVE  Carries(t, r, f) \/ Followed(f)'
  <2>1. CASE f \in threads[t].said \/ f \in changed
    BY <1>3, <1>7, <2>1 DEF Carries, Drops
  <2>2. CASE f \notin threads[t].said /\ f \notin changed
    <3>1. f \in threads[t].files \ changed /\ f \in strayed
      BY <1>3, <1>7, <2>2 DEF Carries
    <3>2. tasks[f].status # "none"
      BY <1>4, <1>7, <3>1 DEF Overlooked
    <3>3. tasks[f].status \in {"pending", "processing", "failed"}
      BY <3>2, ThreadFacts DEF TaskRecord
    <3>4. ASSUME tasks[f].status = "processing"
          PROVE  \E i \in Threads : threads'[i].task = f
      <4>1. PICK i \in Threads : threads[i].task = f
        BY <1>7, <3>4 DEF SyncInv, OwnerInv, Guarded
      <4> QED BY <1>2, <1>3, <4>1, ThreadFacts
    <3> QED BY <1>4, <3>3, <3>4 DEF Followed, Open
  <2> QED BY <2>1, <2>2
<1> QED BY <1>1, <1>2, <1>3, <1>4, <1>5, <1>6, <1>7, ThreadMoves DEF WorldOK

\* A batch with a file that cannot be read is given up, and so is the report of a
\* batch whose watcher is an old one by then.
LEMMA BatchEndsInv ==
    ASSUME SyncInv, NEW t \in Threads, \/ ReadFails(t) \/ WalkFails(t)
                                       \/ Enqueued(t) /\ Stale(t)
                                       \/ SyncReadFails(t) /\ t # Publisher
    PROVE  SyncInv'
<1>1. threads[t] \in ThreadRecord(newest) /\ WorldOK /\ ShapeOf(t, threads[t])
  BY ThreadFacts
<1>2. PICK r \in ThreadRecord(newest) : threads' = [threads EXCEPT ![t] = r] /\ r = Resting
  BY <1>1, RestingIsOne DEF ReadFails, WalkFails, Enqueued, SyncReadFails, Rests, Becomes, WorldOK
<1>3. r.stage = "idle" /\ r.files = {} /\ r.said = {} /\ r.task = NoFile /\ ~r.starts /\ r.own = {}
  BY <1>2 DEF Resting
<1>4. threads[t].stage \in {"own", "walk", "disk", "check"}
  BY DEF ReadFails, WalkFails, Enqueued, SyncReadFails, At
<1>5. /\ UNCHANGED <<content, newest, told, snapshot, tasks, marked, generation, listening, events, strayed>>
      /\ excused' \in {excused, excused \union threads[t].files}
      /\ threads[t].stage \in {"own", "disk"} => excused' = excused \union threads[t].files
  BY DEF ReadFails, WalkFails, Enqueued, SyncReadFails, At, world, mutexed, watch, history
<1>6. left' \in SyncBudget
  BY <1>1, TakeOK DEF ReadFails, WalkFails, Enqueued, SyncReadFails, WorldOK
<1>7. excused' \subseteq Files /\ excused \subseteq excused'
  BY <1>1, <1>5 DEF WorldOK, ThreadRecord
<1>8. ShapeOf(t, r)'
  BY <1>3 DEF ShapeOf
<1>9. \A f \in Files \ excused' : ~Carries(t, threads[t], f)
  BY <1>1, <1>4, <1>5 DEF Carries, ShapeOf
<1> QED BY <1>1, <1>2, <1>3, <1>4, <1>5, <1>6, <1>7, <1>8, <1>9, ThreadMoves DEF WorldOK, ShapeOf

\* A publication whose file cannot be read is rescanned all the same.
LEMMA SyncReadFailsInv ==
    ASSUME SyncInv, NEW t \in Threads, SyncReadFails(t)
    PROVE  SyncInv'
<1>1. threads[t] \in ThreadRecord(newest) /\ WorldOK /\ ShapeOf(t, threads[t])
  BY ThreadFacts
<1>2. CASE t # Publisher
  BY <1>2, BatchEndsInv
<1>3. CASE t = Publisher
  <2>1. PICK r \in ThreadRecord(newest) :
           threads' = [threads EXCEPT ![t] = r] /\ r = [threads[t] EXCEPT !.own = {}, !.stage = "walk"]
    <3> DEFINE new == [threads[t] EXCEPT !.own = {}, !.stage = "walk"]
    <3>1. new \in ThreadRecord(newest)
      BY <1>1 DEF ThreadRecord
    <3> QED BY <1>3, <3>1 DEF SyncReadFails, Becomes
  <2>2. /\ threads[t].stage = "own" /\ r.stage = "walk" /\ r.own = {}
        /\ r.files = threads[t].files /\ r.said = threads[t].said /\ r.task = threads[t].task
        /\ r.held = threads[t].held /\ r.starts = threads[t].starts
    BY <1>1, <2>1 DEF ThreadRecord, SyncReadFails, At
  <2>3. threads[t].files = {} /\ threads[t].said = {} /\ threads[t].task = NoFile /\ ~threads[t].starts
    BY <1>1, <1>3, <2>2 DEF ShapeOf
  <2>4. /\ UNCHANGED <<content, newest, told, snapshot, tasks, marked, generation, listening, events, strayed>>
        /\ excused' = excused \union threads[t].files /\ left' \in SyncBudget
    BY <1>1, TakeOK DEF SyncReadFails, world, mutexed, watch, WorldOK
  <2>5. ShapeOf(t, r)'
    BY <2>2, <2>3 DEF ShapeOf
  <2>6. \A f \in Files : ~Carries(t, threads[t], f)
    BY <2>3 DEF Carries
  <2> QED BY <1>1, <2>1, <2>2, <2>3, <2>4, <2>5, <2>6, ThreadMoves DEF WorldOK
<1> QED BY <1>2, <1>3

\* A batch is in the queue, or a task cannot be read: the thread goes on.
LEMMA GoesOnInv ==
    ASSUME SyncInv, NEW t \in Threads, ReadOfTaskFails(t) \/ (Enqueued(t) /\ ~Stale(t))
    PROVE  SyncInv'
<1>1. threads[t] \in ThreadRecord(newest) /\ WorldOK /\ ShapeOf(t, threads[t])
  BY ThreadFacts
<1>2. PICK stage \in {"failed", "pick"} : Goes(t, stage)
  BY DEF ReadOfTaskFails, Enqueued
<1>3. PICK r \in ThreadRecord(newest) :
         threads' = [threads EXCEPT ![t] = r] /\ r = [threads[t] EXCEPT !.stage = stage]
  <2> DEFINE new == [threads[t] EXCEPT !.stage = stage]
  <2>1. new \in ThreadRecord(newest)
    BY <1>1 DEF ThreadRecord
  <2> QED BY <1>2, <2>1 DEF Goes, Becomes
<1>4. /\ r.stage = stage /\ r.files = threads[t].files /\ r.said = threads[t].said
      /\ r.task = threads[t].task /\ r.held = threads[t].held /\ r.starts = threads[t].starts
      /\ r.own = threads[t].own
  BY <1>1, <1>3 DEF ThreadRecord
<1>5. \/ threads[t].stage = "read" /\ stage = "failed"
      \/ threads[t].stage = "check" /\ stage = "pick"
  <2>1. CASE ReadOfTaskFails(t)
    <3>1. threads'[t].stage = "failed"
      BY <1>1, <2>1, ThreadFacts DEF ReadOfTaskFails, Goes, Becomes, ThreadRecord
    <3> QED BY <1>3, <1>4, <2>1, <3>1, ThreadFacts DEF ReadOfTaskFails, At
  <2>2. CASE Enqueued(t) /\ ~Stale(t)
    <3>1. threads'[t].stage = "pick"
      BY <1>1, <2>2, ThreadFacts DEF Enqueued, Goes, Becomes, ThreadRecord
    <3> QED BY <1>3, <1>4, <2>2, <3>1, ThreadFacts DEF Enqueued, At
  <2> QED BY <2>1, <2>2
<1>6. UNCHANGED <<content, newest, told, snapshot, tasks, marked, generation, listening, events, strayed, excused>>
  BY DEF ReadOfTaskFails, Enqueued, world, mutexed, watch, history
<1>7. left' \in SyncBudget
  BY <1>1, TakeOK DEF ReadOfTaskFails, Enqueued, WorldOK
<1>8. ShapeOf(t, r)'
  BY <1>1, <1>4, <1>5, <1>6 DEF ShapeOf
<1>9. \A f \in Files : Carries(t, threads[t], f) => Carries(t, r, f)
  BY <1>4, <1>5 DEF Carries, Drops
<1> QED BY <1>1, <1>3, <1>4, <1>5, <1>6, <1>7, <1>8, <1>9, ThreadMoves DEF WorldOK

\* A change that is found by a walk is in the hands of its thread, also when it was
\* excused; one that is not found has a task, a thread that will report it, or it is
\* excused because the snapshot has strayed.
LEMMA WalkInv ==
    ASSUME SyncInv, NEW t \in Threads, Walk(t)
    PROVE  SyncInv'
<1>1. /\ threads \in [Threads -> ThreadRecord(newest)] /\ threads[t] \in ThreadRecord(newest)
      /\ tasks \in [Files -> TaskRecord] /\ WorldOK /\ ShapeOf(t, threads[t])
  BY ThreadFacts
<1> DEFINE known == {f \in Files : content[f] # Absent \/ snapshot[f] # Absent}
           found == IF threads[t].starts \/ t \in Watchers THEN Differing ELSE known
<1>2. Differing \subseteq found /\ found \in SUBSET Files
  BY <1>1 DEF Differing, WorldOK
<1>3. PICK r \in ThreadRecord(newest) :
         threads' = [threads EXCEPT ![t] = r] /\ r = [threads[t] EXCEPT !.stage = "scanned", !.files = found]
  <2> DEFINE new == [threads[t] EXCEPT !.stage = "scanned", !.files = found]
  <2>1. new \in ThreadRecord(newest)
    <3> HIDE DEF found
    <3> QED BY <1>1, <1>2 DEF ThreadRecord
  <2> QED BY <2>1 DEF Walk, Becomes
<1>4. /\ threads[t].stage = "walk" /\ r.stage = "scanned" /\ r.files = found
      /\ r.said = threads[t].said /\ r.task = threads[t].task
      /\ r.held = threads[t].held /\ r.starts = threads[t].starts /\ r.own = threads[t].own
  BY <1>1, <1>3 DEF ThreadRecord, Walk, At
<1> HIDE DEF found, known
<1>5. /\ UNCHANGED <<content, newest, told, snapshot, tasks, marked, generation, listening, events, strayed, left>>
      /\ excused' = (excused \ Differing) \union Overlooked(Files \ Differing)
  BY DEF Walk, world, mutexed, watch, history
<1>6. \A i \in Threads : threads'[i] = IF i = t THEN r ELSE threads[i]
  BY <1>1, <1>3
<1>7. SyncTypeOK'
  <2>1. WorldOK'
    BY <1>1, <1>5 DEF WorldOK, Overlooked
  <2> QED BY <1>1, <1>3, <1>5, <2>1, SyncTypes
<1>8. ShapeInv'
  BY <1>1, <1>4, <1>5, <1>6 DEF SyncInv, ShapeInv, ShapeOf
<1>9. TaskInv' /\ MarkInv'
  BY <1>5 DEF SyncInv, TaskInv, MarkInv
<1>o. OwnInv' /\ AgreeInv'
  BY <1>4, <1>5, <1>6 DEF SyncInv, OwnInv, AgreeInv
<1>10. Starting' => Starting
  BY <1>4, <1>6, SyncAssumption DEF Starting, Threads, Publisher, Command
<1>11. OwnerInv'
  BY <1>4, <1>5, <1>6, <1>10 DEF SyncInv, OwnerInv, Active
<1>12. FollowInv'
  <2> SUFFICES ASSUME Guarded', NEW f \in Files \ excused', told[f] # content[f]
               PROVE  Followed(f)' \/ (Active' /\ f \in events')
    BY <1>5 DEF FollowInv
  <2>1. CASE f \in Differing
    BY <1>2, <1>4, <1>6, <2>1 DEF Followed, Carries, Drops
  <2>2. CASE f \notin Differing
    <3>1. CASE f \notin strayed
      <4>1. f \notin marked /\ told[f] # snapshot[f]
        BY <1>5, <2>2 DEF SyncInv, MarkInv, Differing
      <4>2. PICK i \in Threads : f \in threads[i].said
        BY <3>1, <4>1 DEF SyncInv, AgreeInv
      <4> QED BY <1>4, <1>6, <4>2 DEF Followed, Carries
    <3>o. CASE f \in strayed /\ tasks[f].status = "none"
      BY <1>5, <2>2, <3>o DEF Overlooked
    <3>2. ASSUME tasks[f].status = "processing"
          PROVE  \E i \in Threads : threads[i].task = f
      BY <1>5, <1>10, <3>2 DEF SyncInv, OwnerInv, Guarded, Active
    <3>3. CASE tasks[f].status \in {"pending", "processing", "failed"}
      BY <1>4, <1>5, <1>6, <3>2, <3>3 DEF Followed, Open
    <3> QED BY <1>1, <3>1, <3>o, <3>3 DEF TaskRecord
  <2> QED BY <2>1, <2>2
<1> QED BY <1>7, <1>8, <1>9, <1>o, <1>11, <1>12 DEF SyncInv

\* The events of a watcher that is current go to its thread, but for those of paths
\* that are marked, whose content the frontend knows.
LEMMA TakeEventsInv ==
    ASSUME SyncInv, NEW w \in Watchers, TakeEvents(w)
    PROVE  SyncInv'
<1>1. w \in Threads /\ w # Command
  BY SyncAssumption DEF Watchers, Threads, Publisher, Command
<1>2. /\ threads \in [Threads -> ThreadRecord(newest)] /\ threads[w] \in ThreadRecord(newest)
      /\ tasks \in [Files -> TaskRecord] /\ WorldOK /\ ShapeOf(w, threads[w])
  BY <1>1, ThreadFacts
<1>3. /\ UNCHANGED <<content, newest, told, snapshot, tasks, marked, generation, listening, strayed, excused, left>>
      /\ events' = {} /\ w = listening /\ threads[w].stage = "idle"
  BY DEF TakeEvents, At, world, mutexed, watch, history
<1>4. WorldOK'
  BY <1>2, <1>3 DEF WorldOK
<1>5. TaskInv' /\ MarkInv'
  BY <1>3 DEF SyncInv, TaskInv, MarkInv
<1>a. Stale(w) => threads' = threads
  BY DEF TakeEvents
<1>6. CASE Stale(w)
  <2>1. threads' = threads /\ ~Active
    BY <1>3, <1>6, <1>a DEF Stale, Active
  <2>2. SyncTypeOK' /\ ShapeInv'
    BY <1>2, <1>3, <1>4, <2>1, SyncTypes DEF SyncInv, ShapeInv, ShapeOf
  <2>o. OwnInv' /\ AgreeInv'
    BY <1>3, <2>1 DEF SyncInv, OwnInv, AgreeInv
  <2>3. OwnerInv' /\ FollowInv'
    BY <1>3, <2>1 DEF SyncInv, OwnerInv, FollowInv, Guarded, Starting, Active,
                      Followed, Open, Carries, Drops, Stale
  <2> QED BY <1>5, <2>2, <2>o, <2>3 DEF SyncInv
<1>7. CASE ~Stale(w)
  <2> DEFINE files == events \ marked
             own == {f \in events \intersect marked : content[f] # Absent \/ snapshot[f] # Absent}
             next == IF own # {} THEN "own" ELSE IF files # {} THEN "snapshot" ELSE "idle"
  <2>1. /\ own \in SUBSET Files /\ files \in SUBSET Files /\ own \subseteq marked
        /\ next \in {"own", "snapshot", "idle"} /\ (next = "idle" => files = {})
    BY <1>2 DEF WorldOK
  <2>2. PICK r \in ThreadRecord(newest) :
           /\ threads' = [threads EXCEPT ![w] = r]
           /\ r = [Resting EXCEPT !.files = files, !.own = own, !.stage = next]
    <3> DEFINE new == [Resting EXCEPT !.files = files, !.own = own, !.stage = next]
    <3>1. new \in ThreadRecord(newest)
      <4> HIDE DEF own, files, next
      <4>1. Resting \in ThreadRecord(newest)
        BY <1>2, RestingIsOne DEF WorldOK
      <4> QED BY <2>1, <4>1 DEF ThreadRecord
    <3> QED BY <1>7, <3>1 DEF TakeEvents, Becomes
  <2>3. /\ r.stage \in {"own", "snapshot", "idle"} /\ r.files = events \ marked /\ r.said = {}
        /\ r.task = NoFile /\ ~r.starts /\ r.own \subseteq marked
        /\ r.stage = "idle" => r.files = {}
    <3> HIDE DEF own, next
    <3> QED BY <2>1, <2>2 DEF Resting
  <2>4. threads[w].task = NoFile /\ threads[w].said = {} /\ threads[w].files = {}
    BY <1>2, <1>3 DEF ShapeOf
  <2>5. \A i \in Threads : threads'[i] = IF i = w THEN r ELSE threads[i]
    BY <1>2, <2>2
  <2>6. SyncTypeOK'
    BY <1>2, <1>3, <1>4, <2>2, SyncTypes
  <2>7. ShapeInv'
    BY <1>1, <1>3, <2>3, <2>5, SyncAssumption
       DEF SyncInv, ShapeInv, ShapeOf, Watchers, Publisher
  <2>o. OwnInv' /\ AgreeInv'
    BY <1>3, <2>3, <2>4, <2>5 DEF SyncInv, OwnInv, AgreeInv
  <2>8. Starting' = Starting
    BY <1>1, <2>5, SyncAssumption DEF Starting, Threads, Publisher, Command
  <2>9. OwnerInv'
    BY <1>3, <2>3, <2>4, <2>5, <2>8, SyncAssumption DEF SyncInv, OwnerInv, Active
  <2>10. FollowInv'
    <3> SUFFICES ASSUME Guarded', NEW f \in Files \ excused, told[f] # content[f]
                 PROVE  Followed(f)'
      BY <1>3 DEF FollowInv
    <3>1. Followed(f) \/ f \in events
      BY <1>1, <1>3, <2>5, <2>8, SyncAssumption
         DEF SyncInv, FollowInv, Guarded, Active, Threads, Publisher, Command
    <3>2. CASE Followed(f)
      BY <1>1, <1>3, <2>4, <2>5, <3>2, SyncAssumption DEF Followed, Open, Carries, Drops, Stale
    <3>3. CASE f \in events
      <4>1. f \in r.files
        BY <2>3, <3>3 DEF SyncInv, MarkInv
      <4> QED BY <1>1, <1>3, <1>7, <2>3, <2>5, <4>1 DEF Followed, Carries, Drops, Stale
    <3> QED BY <3>1, <3>2, <3>3
  <2> QED BY <1>5, <2>6, <2>7, <2>o, <2>9, <2>10 DEF SyncInv
<1> QED BY <1>6, <1>7

\* Until the thread that starts a watcher has walked, nothing is promised.
LEMMA StartWatcherInv ==
    ASSUME SyncInv, StartWatcher
    PROVE  SyncInv'
<1>1. /\ Command \in Threads
      /\ threads \in [Threads -> ThreadRecord(newest)] /\ threads[Command] \in ThreadRecord(newest)
      /\ tasks \in [Files -> TaskRecord] /\ WorldOK /\ ShapeOf(Command, threads[Command])
  BY ThreadFacts, SyncAssumption DEF Threads, Publisher, Command
<1>2. /\ UNCHANGED <<content, newest, told, snapshot, tasks, marked, listening, events, strayed, excused>>
      /\ generation' = generation + 1
  BY DEF StartWatcher, world, mutexed, history
<1>3. PICK r \in ThreadRecord(newest) :
         /\ threads' = [threads EXCEPT ![Command] = r]
         /\ r = [Resting EXCEPT !.stage = "reset", !.starts = TRUE]
  <2> DEFINE new == [Resting EXCEPT !.stage = "reset", !.starts = TRUE]
  <2>1. new \in ThreadRecord(newest)
    BY <1>1, RestingIsOne DEF ThreadRecord, WorldOK
  <2> QED BY <2>1 DEF StartWatcher, Becomes
<1>4. r.stage = "reset" /\ r.files = {} /\ r.said = {} /\ r.task = NoFile /\ r.starts
  BY <1>3 DEF Resting
<1>5. \A i \in Threads : threads'[i] = IF i = Command THEN r ELSE threads[i]
  BY <1>1, <1>3
<1>6. SyncTypeOK'
  <2>1. left' \in SyncBudget
    BY <1>1, TakeOK DEF StartWatcher, WorldOK
  <2>2. WorldOK'
    BY <1>1, <1>2, <2>1 DEF WorldOK
  <2> QED BY <1>1, <1>2, <1>3, <2>2, SyncTypes
<1>7. ShapeInv'
  <2>1. listening' # generation' /\ generation' # 0
    BY <1>1, <1>2 DEF WorldOK
  <2> QED BY <1>4, <1>5, <2>1 DEF SyncInv, ShapeInv, ShapeOf
<1>8. TaskInv' /\ MarkInv'
  BY <1>2 DEF SyncInv, TaskInv, MarkInv
<1>o. OwnInv' /\ AgreeInv'
  <2>1. r.own = {} /\ threads[Command].said = {}
    BY <1>1, <1>3 DEF Resting, ShapeOf, StartWatcher, At
  <2> QED BY <1>1, <1>2, <1>4, <1>5, <2>1 DEF SyncInv, OwnInv, AgreeInv
<1>9. ~Active' /\ ~Starting'
  BY <1>1, <1>2, <1>4, <1>5 DEF Active, Starting, WorldOK
<1> QED BY <1>6, <1>7, <1>8, <1>o, <1>9 DEF SyncInv, OwnerInv, FollowInv, Guarded

\* A watcher that begins to listen has had its tasks reset and its changes followed.
LEMMA ListenInv ==
    ASSUME SyncInv, Listen
    PROVE  SyncInv'
<1>1. /\ Command \in Threads
      /\ threads \in [Threads -> ThreadRecord(newest)] /\ threads[Command] \in ThreadRecord(newest)
      /\ tasks \in [Files -> TaskRecord] /\ WorldOK /\ ShapeOf(Command, threads[Command])
  BY ThreadFacts, SyncAssumption DEF Threads, Publisher, Command
<1>2. /\ UNCHANGED <<content, newest, told, snapshot, tasks, marked, generation, strayed, excused, left>>
      /\ listening' = generation /\ events' = {} /\ threads[Command].stage = "listen"
  BY DEF Listen, At, world, mutexed, history
<1>3. PICK r \in ThreadRecord(newest) : threads' = [threads EXCEPT ![Command] = r] /\ r = Resting
  BY <1>1, RestingIsOne DEF Listen, Rests, Becomes, WorldOK
<1>4. r.stage = "idle" /\ r.files = {} /\ r.said = {} /\ r.task = NoFile /\ ~r.starts /\ r.own = {}
  BY <1>3 DEF Resting
<1>5. \A i \in Threads : threads'[i] = IF i = Command THEN r ELSE threads[i]
  BY <1>1, <1>3
<1>6. /\ threads[Command].starts /\ threads[Command].files = {} /\ threads[Command].said = {}
      /\ threads[Command].task = NoFile
  BY <1>1, <1>2 DEF ShapeOf
<1>7. SyncTypeOK'
  <2>1. WorldOK'
    BY <1>1, <1>2 DEF WorldOK
  <2> QED BY <1>1, <1>2, <1>3, <2>1, SyncTypes
<1>8. ShapeInv'
  BY <1>2, <1>4, <1>5 DEF SyncInv, ShapeInv, ShapeOf
<1>9. TaskInv' /\ MarkInv'
  BY <1>2 DEF SyncInv, TaskInv, MarkInv
<1>o. OwnInv' /\ AgreeInv'
  BY <1>2, <1>4, <1>5, <1>6 DEF SyncInv, OwnInv, AgreeInv
<1>10. Starting /\ Guarded /\ ~Active
  BY <1>1, <1>2, <1>6 DEF Starting, Guarded, Active, ShapeOf
<1>11. OwnerInv'
  BY <1>2, <1>4, <1>5, <1>6, <1>10, SyncAssumption DEF SyncInv, OwnerInv
<1>12. FollowInv'
  BY <1>2, <1>4, <1>5, <1>6, <1>10, SyncAssumption
     DEF SyncInv, FollowInv, Followed, Open, Carries, Drops, Stale
<1> QED BY <1>7, <1>8, <1>9, <1>o, <1>11, <1>12 DEF SyncInv

\* What a thread reports, the frontend reads as it is then.
LEMMA ReportInv ==
    ASSUME SyncInv, NEW t \in Threads, Report(t)
    PROVE  SyncInv'
<1>1. /\ threads \in [Threads -> ThreadRecord(newest)] /\ threads[t] \in ThreadRecord(newest)
      /\ tasks \in [Files -> TaskRecord] /\ WorldOK /\ ShapeOf(t, threads[t])
  BY ThreadFacts
<1>2. /\ UNCHANGED <<content, newest, snapshot, tasks, marked, generation, listening, events, excused, left>>
      /\ told' = [f \in Files |-> IF f \in threads[t].said THEN content[f] ELSE told[f]]
      /\ threads[t].stage = "pick"
      /\ strayed' = (strayed \ threads[t].said) \union (threads[t].said \intersect Differing)
  BY DEF Report, At, mutexed, watch, history
<1>3. PICK r \in ThreadRecord(newest) :
         /\ threads' = [threads EXCEPT ![t] = r]
         /\ r = IF threads[t].starts THEN [Resting EXCEPT !.stage = "listen", !.starts = TRUE] ELSE Resting
  <2> DEFINE new == IF threads[t].starts THEN [Resting EXCEPT !.stage = "listen", !.starts = TRUE] ELSE Resting
  <2>1. Resting \in ThreadRecord(newest) /\ [Resting EXCEPT !.stage = "listen", !.starts = TRUE] \in ThreadRecord(newest)
    BY <1>1, RestingIsOne DEF ThreadRecord, WorldOK
  <2> QED BY <2>1 DEF Report, Rests, Becomes
<1>4. /\ r.files = {} /\ r.said = {} /\ r.task = NoFile /\ r.own = {}
      /\ r.stage = IF threads[t].starts THEN "listen" ELSE "idle"
      /\ r.starts <=> threads[t].starts
  BY <1>3 DEF Resting
<1>5. \A i \in Threads : threads'[i] = IF i = t THEN r ELSE threads[i]
  BY <1>1, <1>3
<1>6. threads[t].files = {} /\ threads[t].task = NoFile
  BY <1>1, <1>2 DEF ShapeOf
<1>7. SyncTypeOK'
  <2>1. strayed' \subseteq Files
    BY <1>1, <1>2 DEF WorldOK, Differing
  <2>2. WorldOK'
    BY <1>1, <1>2, <2>1 DEF WorldOK
  <2> QED BY <1>1, <1>2, <1>3, <2>2, SyncTypes
<1>8. ShapeInv'
  BY <1>1, <1>2, <1>4, <1>5 DEF SyncInv, ShapeInv, ShapeOf
<1>9. TaskInv' /\ MarkInv'
  BY <1>1, <1>2 DEF SyncInv, TaskInv, MarkInv, WorldOK
<1>o. OwnInv' /\ AgreeInv'
  BY <1>1, <1>2, <1>4, <1>5 DEF SyncInv, OwnInv, AgreeInv, WorldOK, Differing
<1>10. (Starting' => Starting) /\ (Guarded' => Guarded)
  BY <1>2, <1>4, <1>5, SyncAssumption DEF Starting, Guarded, Active, Threads, Publisher, Command
<1>11. OwnerInv'
  BY <1>2, <1>4, <1>5, <1>6, <1>10, SyncAssumption DEF SyncInv, OwnerInv, Active
<1>12. FollowInv'
  <2> SUFFICES ASSUME Guarded', NEW f \in Files \ excused, told'[f] # content[f]
               PROVE  Followed(f)' \/ (Active' /\ f \in events')
    BY <1>2 DEF FollowInv
  <2>1. f \notin threads[t].said /\ told[f] # content[f]
    BY <1>2
  <2>2. Followed(f) \/ (Active /\ f \in events)
    BY <1>10, <2>1 DEF SyncInv, FollowInv
  <2> QED BY <1>2, <1>5, <1>6, <2>1, <2>2, SyncAssumption
          DEF Followed, Open, Carries, Drops, Stale, Active
<1> QED BY <1>7, <1>8, <1>9, <1>o, <1>11, <1>12 DEF SyncInv

\* More contents than there were do not make a thread ill-typed.
LEMMA MoreContents ==
    ASSUME NEW m \in Nat, NEW n \in Nat, m <= n
    PROVE  /\ \A F : F \in [Files -> 0..m] => F \in [Files -> 0..n]
           /\ \A T : T \in [Threads -> ThreadRecord(m)] => T \in [Threads -> ThreadRecord(n)]
<1>1. 0..m \subseteq 0..n
  OBVIOUS
<1>2. \A F : F \in [Files -> 0..m] => F \in [Files -> 0..n]
  BY <1>1
<1>3. ASSUME NEW r \in ThreadRecord(m) PROVE r \in ThreadRecord(n)
  <2>1. r.seen \in [Files -> 0..n]
    BY <1>2 DEF ThreadRecord
  <2> QED BY <2>1 DEF ThreadRecord
<1> QED BY <1>2, <1>3

\* What the application publishes the frontend is told at once.
LEMMA PublishInv ==
    ASSUME SyncInv, NEW f \in Files, Publish(f)
    PROVE  SyncInv'
<1>1. Publisher \in Threads /\ Publisher # Command /\ Publisher \notin Watchers
  BY SyncAssumption DEF Threads, Publisher, Command, Watchers
<1>2. /\ threads \in [Threads -> ThreadRecord(newest)] /\ threads[Publisher] \in ThreadRecord(newest)
      /\ tasks \in [Files -> TaskRecord] /\ WorldOK /\ ShapeOf(Publisher, threads[Publisher])
  BY <1>1, ThreadFacts
<1>3. /\ UNCHANGED <<snapshot, tasks, generation, listening, strayed, excused>>
      /\ newest' = newest + 1 /\ content' = [content EXCEPT ![f] = newest + 1]
      /\ told' = [told EXCEPT ![f] = newest + 1] /\ marked' = marked \union {f}
      /\ events' = IF listening # 0 THEN events \union {f} ELSE events
      /\ threads[Publisher].stage = "idle"
  BY DEF Publish, At, mutexed, watch, history
<1>4. /\ newest' \in Nat /\ newest <= newest' /\ newest + 1 \in 0..newest'
      /\ threads \in [Threads -> ThreadRecord(newest')]
      /\ content \in [Files -> 0..newest'] /\ told \in [Files -> 0..newest']
      /\ snapshot \in [Files -> 0..newest']
  <2>1. newest \in Nat /\ newest' \in Nat /\ newest <= newest'
    BY <1>2, <1>3 DEF WorldOK
  <2>2. newest + 1 \in 0..newest'
    BY <1>3, <2>1
  <2> QED BY <1>2, <2>1, <2>2, MoreContents DEF WorldOK
<1>5. PICK r \in ThreadRecord(newest') :
         /\ threads' = [threads EXCEPT ![Publisher] = r]
         /\ r = [Resting EXCEPT !.stage = "own", !.own = {f}]
  <2> DEFINE new == [Resting EXCEPT !.stage = "own", !.own = {f}]
  <2>1. \A n \in Nat : new \in ThreadRecord(n)
    BY RestingIsOne DEF ThreadRecord
  <2> QED BY <1>4, <2>1 DEF Publish, Becomes
<1>6. r.stage = "own" /\ r.files = {} /\ r.said = {} /\ r.task = NoFile /\ ~r.starts /\ r.own = {f}
  BY <1>5 DEF Resting
<1>7. \A i \in Threads : threads'[i] = IF i = Publisher THEN r ELSE threads[i]
  BY <1>2, <1>5
<1>8. threads[Publisher].files = {} /\ threads[Publisher].said = {} /\ threads[Publisher].task = NoFile
  BY <1>2, <1>3 DEF ShapeOf
<1>9. SyncTypeOK'
  <2>1. left' \in SyncBudget
    BY <1>2, TakeOK DEF Publish, WorldOK
  <2>2. /\ content' \in [Files -> 0..newest'] /\ told' \in [Files -> 0..newest']
        /\ snapshot' \in [Files -> 0..newest']
    BY <1>3, <1>4
  <2>3. WorldOK'
    BY <1>2, <1>3, <1>4, <2>1, <2>2 DEF WorldOK
  <2>4. threads' \in [Threads -> ThreadRecord(newest')]
    BY <1>4, <1>5
  <2> QED BY <1>2, <1>3, <2>3, <2>4, SyncTypes
<1>10. ShapeInv'
  BY <1>1, <1>3, <1>6, <1>7 DEF SyncInv, ShapeInv, ShapeOf
<1>11. TaskInv' /\ MarkInv'
  BY <1>2, <1>3 DEF SyncInv, TaskInv, MarkInv, WorldOK
<1>o. OwnInv' /\ AgreeInv'
  BY <1>2, <1>3, <1>6, <1>7, <1>8 DEF SyncInv, OwnInv, AgreeInv, WorldOK
<1>12. Starting' = Starting /\ Guarded' = Guarded
  BY <1>1, <1>3, <1>7, SyncAssumption DEF Starting, Guarded, Active, Threads, Publisher, Command
<1>13. OwnerInv'
  BY <1>3, <1>6, <1>7, <1>8, <1>12, SyncAssumption DEF SyncInv, OwnerInv, Active
<1>14. FollowInv'
  <2> SUFFICES ASSUME Guarded', NEW g \in Files \ excused, told'[g] # content'[g]
               PROVE  Followed(g)' \/ (Active' /\ g \in events')
    BY <1>3 DEF FollowInv
  <2>1. told[g] # content[g] /\ g # f
    BY <1>2, <1>3 DEF WorldOK
  <2>2. Followed(g) \/ (Active /\ g \in events)
    BY <1>12, <2>1 DEF SyncInv, FollowInv
  <2>3. content'[g] = content[g]
    BY <1>2, <1>3, <2>1 DEF WorldOK
  <2> QED BY <1>3, <1>7, <1>8, <2>2, <2>3, SyncAssumption
          DEF Followed, Open, Carries, Drops, Stale, Active
<1> QED BY <1>9, <1>10, <1>11, <1>o, <1>13, <1>14 DEF SyncInv

\* What the user writes makes an event, or is excused; under a mark it is taken for
\* the application's.
LEMMA UserWritesInv ==
    ASSUME SyncInv, NEW f \in Files, NEW c \in 0..(newest + 1), UserWrites(f, c)
    PROVE  SyncInv'
<1>1. /\ threads \in [Threads -> ThreadRecord(newest)] /\ tasks \in [Files -> TaskRecord] /\ WorldOK
  BY SyncTypes DEF SyncInv
<1>2. /\ UNCHANGED <<snapshot, tasks, marked, generation, listening, threads, strayed>>
      /\ newest' = (IF c > newest THEN c ELSE newest) /\ content' = [content EXCEPT ![f] = c]
      /\ told' = IF f \in marked THEN [told EXCEPT ![f] = c] ELSE told
      /\ events' = IF listening # 0 THEN events \union {f} ELSE events
      /\ excused' = IF Active THEN excused \ {f} ELSE excused \union {f}
  BY DEF UserWrites, mutexed, watch
<1>3. /\ newest' \in Nat /\ c \in 0..newest'
      /\ threads \in [Threads -> ThreadRecord(newest')]
      /\ content \in [Files -> 0..newest'] /\ told \in [Files -> 0..newest']
      /\ snapshot \in [Files -> 0..newest']
  <2>1. newest \in Nat /\ newest' \in Nat /\ newest <= newest'
    BY <1>1, <1>2 DEF WorldOK
  <2>2. c \in 0..newest'
    BY <1>1, <1>2, <2>1 DEF WorldOK
  <2> QED BY <1>1, <2>1, <2>2, MoreContents DEF WorldOK
<1>4. SyncTypeOK'
  <2>1. left' \in SyncBudget
    BY <1>1, TakeOK DEF UserWrites, WorldOK
  <2>2. /\ content' \in [Files -> 0..newest'] /\ told' \in [Files -> 0..newest']
        /\ snapshot' \in [Files -> 0..newest']
    BY <1>2, <1>3
  <2>3. WorldOK'
    BY <1>1, <1>2, <1>3, <2>1, <2>2 DEF WorldOK
  <2> QED BY <1>1, <1>2, <1>3, <2>3, SyncTypes
<1>5. ShapeInv' /\ TaskInv' /\ OwnerInv'
  BY <1>2 DEF SyncInv, ShapeInv, ShapeOf, TaskInv, OwnerInv, Active, Starting
<1>6. MarkInv'
  BY <1>1, <1>2 DEF SyncInv, MarkInv, WorldOK
<1>o. OwnInv' /\ AgreeInv'
  BY <1>1, <1>2 DEF SyncInv, OwnInv, AgreeInv, WorldOK
<1>7. FollowInv'
  <2> SUFFICES ASSUME Guarded', NEW g \in Files \ excused', told'[g] # content'[g]
               PROVE  Followed(g)' \/ (Active' /\ g \in events')
    BY DEF FollowInv
  <2>1. Guarded /\ Active' = Active
    BY <1>2 DEF Guarded, Active, Starting
  <2>2. CASE g = f
    BY <1>2, <2>1, <2>2 DEF Active
  <2>3. CASE g # f
    <3>1. told[g] # content[g] /\ g \notin excused
      BY <1>1, <1>2, <2>3 DEF WorldOK
    <3>2. Followed(g) \/ (Active /\ g \in events)
      BY <2>1, <3>1 DEF SyncInv, FollowInv
    <3>3. content'[g] = content[g]
      BY <1>1, <1>2, <2>3 DEF WorldOK
    <3> QED BY <1>2, <2>1, <3>2, <3>3 DEF Followed, Open, Carries, Drops, Stale
  <2> QED BY <2>2, <2>3
<1> QED BY <1>4, <1>5, <1>6, <1>o, <1>7 DEF SyncInv

\* A mark that expires, a watcher that is stopped and a process that dies.
LEMMA QuietInv ==
    ASSUME SyncInv, StopWatcher \/ Killed \/ \E f \in Files : MarkExpires(f)
    PROVE  SyncInv'
<1>1. /\ Command \in Threads
      /\ threads \in [Threads -> ThreadRecord(newest)]
      /\ tasks \in [Files -> TaskRecord] /\ WorldOK
      /\ Resting \in ThreadRecord(newest)
  BY SyncTypes, RestingIsOne, SyncAssumption DEF SyncInv, WorldOK, Threads, Publisher, Command
<1>2. ASSUME NEW f \in Files, MarkExpires(f) PROVE SyncInv'
  <2>1. /\ UNCHANGED <<content, newest, told, snapshot, tasks, generation, listening, events, threads, excused, left>>
        /\ f \in marked /\ marked' = marked \ {f} /\ \A t \in Threads : f \notin threads[t].own
        /\ strayed' = IF told[f] = snapshot[f] THEN strayed \ {f} ELSE strayed \union {f}
    BY <1>2 DEF MarkExpires, world, mutexed, watch, history
  <2>2. WorldOK'
    BY <1>1, <2>1 DEF WorldOK
  <2>3. SyncTypeOK' /\ ShapeInv' /\ TaskInv' /\ MarkInv'
    BY <1>1, <2>1, <2>2, SyncTypes DEF SyncInv, ShapeInv, ShapeOf, TaskInv, MarkInv
  <2>o. OwnInv' /\ AgreeInv'
    BY <2>1 DEF SyncInv, OwnInv, AgreeInv
  <2>4. OwnerInv'
    BY <2>1 DEF SyncInv, OwnerInv, Starting, Active
  <2>5. FollowInv'
    <3>1. told[f] = content[f]
      BY <2>1 DEF SyncInv, MarkInv
    <3> QED BY <2>1, <3>1 DEF SyncInv, FollowInv, Guarded, Starting, Active,
                              Followed, Open, Carries, Drops, Stale
  <2> QED BY <2>3, <2>o, <2>4, <2>5 DEF SyncInv
<1>3. CASE StopWatcher
  <2>1. /\ UNCHANGED <<content, newest, told, snapshot, tasks, marked, threads, strayed, excused>>
        /\ generation' = generation + 1 /\ listening' = 0 /\ events' = {}
        /\ threads[Command].stage = "idle" /\ left' \in SyncBudget
    BY <1>1, <1>3, TakeOK DEF StopWatcher, At, world, mutexed, history, WorldOK
  <2>2. WorldOK'
    BY <1>1, <2>1 DEF WorldOK
  <2>3. ~threads[Command].starts
    BY <1>1, <2>1 DEF SyncInv, ShapeInv, ShapeOf
  <2>4. SyncTypeOK' /\ ShapeInv' /\ TaskInv' /\ MarkInv'
    BY <1>1, <2>1, <2>2, <2>3, SyncTypes DEF SyncInv, ShapeInv, ShapeOf, TaskInv, MarkInv
  <2>o. OwnInv' /\ AgreeInv'
    BY <2>1 DEF SyncInv, OwnInv, AgreeInv
  <2>5. ~Active' /\ ~Starting'
    BY <2>1, <2>3 DEF Active, Starting
  <2> QED BY <2>4, <2>o, <2>5 DEF SyncInv, OwnerInv, FollowInv, Guarded
<1>4. CASE Killed
  <2> DEFINE reported == UNION {threads[t].said : t \in Threads}
  <2>1. /\ UNCHANGED <<content, newest, told, snapshot, tasks, generation>>
        /\ listening' = 0 /\ events' = {} /\ marked' = {}
        /\ excused' = excused \union reported
        /\ strayed' = strayed \union {f \in reported \union marked : told[f] # snapshot[f]}
        /\ threads' = [t \in Threads |-> Resting] /\ left' \in SyncBudget
    <3>1. left' \in SyncBudget
      BY <1>1, <1>4, TakeOK DEF Killed, WorldOK
    <3>2. /\ UNCHANGED <<content, newest, told, snapshot, tasks, generation>>
          /\ threads' = [t \in Threads |-> Resting]
          /\ listening' = 0 /\ events' = {} /\ marked' = {}
      BY <1>4 DEF Killed, world, mutexed
    <3>3. /\ excused' = excused \union reported
          /\ strayed' = strayed \union {f \in reported \union marked : told[f] # snapshot[f]}
      BY <1>4, Zenon DEF Killed
    <3> QED BY <3>1, <3>2, <3>3
  <2>2. reported \subseteq Files
    <3>1. \A t \in Threads : threads[t].said \subseteq Files
      BY <1>1 DEF ThreadRecord
    <3> QED BY <3>1
  <2>o. OwnInv' /\ AgreeInv'
    <3>1. OwnInv'
      BY <2>1 DEF OwnInv, Resting
    <3>2. ASSUME NEW f \in Files, f \notin strayed'
          PROVE  told[f] = snapshot[f]
      <4>1. f \notin strayed /\ (f \in reported \union marked => told[f] = snapshot[f])
        BY <2>1, <3>2
      <4>2. CASE f \notin reported \union marked
        <5>1. \A t \in Threads : f \notin threads[t].said
          BY <4>2
        <5> QED BY <4>1, <4>2, <5>1 DEF SyncInv, AgreeInv
      <4> QED BY <4>1, <4>2
    <3> QED BY <2>1, <3>1, <3>2 DEF AgreeInv
  <2> HIDE DEF reported
  <2>3. WorldOK'
    BY <1>1, <2>1, <2>2 DEF WorldOK
  <2>4. SyncTypeOK' /\ TaskInv' /\ MarkInv'
    BY <1>1, <2>1, <2>3, SyncTypes DEF SyncInv, TaskInv, MarkInv
  <2>5. ShapeInv' /\ ~Active' /\ ~Starting'
    BY <1>1, <2>1 DEF ShapeInv, ShapeOf, Resting, Active, Starting
  <2> QED BY <2>4, <2>o, <2>5 DEF SyncInv, OwnerInv, FollowInv, Guarded
<1> QED BY <1>2, <1>3, <1>4

\* What a thread sees when the tasks of paths are written.
TouchedFields(n, paths, all, shown) ==
    /\ shown \in [Threads -> ThreadRecord(n)]
    /\ \A t \in Threads :
          /\ shown[t].stage = all[t].stage /\ shown[t].files = all[t].files
          /\ shown[t].said = all[t].said /\ shown[t].task = all[t].task
          /\ shown[t].starts = all[t].starts
          /\ shown[t].own = all[t].own /\ shown[t].seen = all[t].seen
          /\ all[t].task \notin paths => shown[t].held = all[t].held

\* When tasks are written, a thread that had one of them may or may not see it, and
\* nothing else of the threads changes.
LEMMA TouchedFacts ==
    ASSUME NEW paths, NEW n \in Nat, NEW all \in [Threads -> ThreadRecord(n)],
           NEW shown \in Touched(paths, all)
    PROVE  TouchedFields(n, paths, all, shown)
<1>1. PICK S \in SUBSET {t \in Threads : all[t].task \in paths /\ all[t].held} :
         shown = [t \in Threads |-> IF t \in S THEN [all[t] EXCEPT !.held = FALSE] ELSE all[t]]
  BY DEF Touched
<1>2. ASSUME NEW t \in Threads
      PROVE  /\ shown[t] \in ThreadRecord(n)
             /\ shown[t].stage = all[t].stage /\ shown[t].files = all[t].files
             /\ shown[t].said = all[t].said /\ shown[t].task = all[t].task
             /\ shown[t].starts = all[t].starts
             /\ shown[t].own = all[t].own /\ shown[t].seen = all[t].seen
             /\ all[t].task \notin paths => shown[t].held = all[t].held
  <2>1. all[t] \in ThreadRecord(n)
    OBVIOUS
  <2>2. CASE t \in S
    <3>1. shown[t] = [all[t] EXCEPT !.held = FALSE] /\ all[t].task \in paths
      BY <1>1, <2>2
    <3> QED BY <2>1, <3>1 DEF ThreadRecord
  <2>3. CASE t \notin S
    BY <1>1, <2>1, <2>3
  <2> QED BY <2>2, <2>3
<1>3. shown \in [Threads -> ThreadRecord(n)]
  BY <1>1, <1>2
<1> QED BY <1>2, <1>3 DEF TouchedFields

\* A step that writes the tasks of paths keeps the invariant if it leaves those that
\* are processed with a thread, and follows up each of the paths that is not excused.
LEMMA TasksMove ==
    ASSUME SyncInv, NEW paths \in SUBSET Files,
           tasks' \in [Files -> TaskRecord], threads' \in [Threads -> ThreadRecord(newest)],
           UNCHANGED <<content, newest, told, marked, generation, listening, events, strayed>>,
           excused \subseteq excused', excused' \subseteq Files,
           snapshot' \in [Files -> 0..newest], left' \in SyncBudget,
           ShapeInv', TaskInv',
           \A i \in Threads : threads'[i].own = threads[i].own /\ threads[i].said \subseteq threads'[i].said,
           \A g \in Files : snapshot'[g] = snapshot[g] \/ \E i \in Threads : g \in threads'[i].said,
           Starting' => Starting, Guarded' => Guarded,
           \A g \in Files \ paths :
              /\ tasks'[g] = tasks[g]
              /\ \A i \in Threads : threads[i].task = g =>
                    threads'[i].task = g /\ threads'[i].held = threads[i].held,
           Active \/ Starting => \A g \in paths : tasks'[g].status = "processing" =>
              \E i \in Threads : threads'[i].task = g /\ (threads'[i].held \/ tasks'[g].rerun),
           \A g \in Files \ paths, i \in Threads :
              Carries(i, threads[i], g) => Carries(i, threads'[i], g),
           Guarded => \A g \in paths \ excused' : Followed(g) => Followed(g)'
    PROVE  SyncInv'
<1>1. SyncTypeOK'
  <2>1. WorldOK'
    BY SyncTypes DEF SyncInv, WorldOK
  <2> QED BY <2>1, SyncTypes
<1>2. MarkInv'
  BY DEF SyncInv, MarkInv
<1>o. OwnInv' /\ AgreeInv'
  <2>1. OwnInv'
    BY DEF SyncInv, OwnInv
  <2>2. AgreeInv'
    BY DEF SyncInv, AgreeInv
  <2> QED BY <2>1, <2>2
<1>3. OwnerInv'
  <2> SUFFICES ASSUME Active' \/ Starting', NEW g \in Files, tasks'[g].status = "processing"
               PROVE  \E i \in Threads : threads'[i].task = g /\ (threads'[i].held \/ tasks'[g].rerun)
    BY DEF OwnerInv
  <2>1. Active \/ Starting
    BY DEF Active
  <2>2. CASE g \notin paths
    <3>1. PICK i \in Threads : threads[i].task = g /\ (threads[i].held \/ tasks[g].rerun)
      BY <2>1, <2>2 DEF SyncInv, OwnerInv
    <3> QED BY <2>2, <3>1
  <2> QED BY <2>1, <2>2
<1>4. FollowInv'
  <2> SUFFICES ASSUME Guarded', NEW g \in Files \ excused', told[g] # content[g]
               PROVE  Followed(g)' \/ (Active' /\ g \in events')
    BY DEF FollowInv
  <2>1. Followed(g) \/ (Active /\ g \in events)
    BY DEF SyncInv, FollowInv
  <2>2. CASE Active /\ g \in events
    BY <2>2 DEF Active
  <2>3. CASE Followed(g) /\ g \in paths
    BY <2>3
  <2>4. CASE Followed(g) /\ g \notin paths
    <3>1. tasks'[g] = tasks[g]
      BY <2>4
    <3>2. CASE Open(g)
      BY <3>1, <3>2 DEF Followed, Open
    <3>3. ASSUME NEW i \in Threads, Carries(i, threads[i], g)
          PROVE  Followed(g)'
      BY <2>4, <3>3 DEF Followed, Carries, Drops, Stale
    <3>4. ASSUME NEW i \in Threads, threads[i].task = g, tasks[g].status = "processing"
          PROVE  Followed(g)'
      BY <2>4, <3>1, <3>4 DEF Followed
    <3> QED BY <2>4, <3>2, <3>3, <3>4 DEF Followed
  <2> QED BY <2>1, <2>2, <2>3, <2>4
<1> QED BY <1>1, <1>2, <1>o, <1>3, <1>4 DEF SyncInv

\* A thread whose task is no more holds none.
LEMMA LostFacts ==
    ASSUME NEW f \in Files, NEW n \in Nat, NEW all \in [Threads -> ThreadRecord(n)]
    PROVE  /\ Lost(f, all) \in [Threads -> ThreadRecord(n)]
           /\ \A t \in Threads :
                 /\ Lost(f, all)[t].stage = all[t].stage /\ Lost(f, all)[t].files = all[t].files
                 /\ Lost(f, all)[t].said = all[t].said /\ Lost(f, all)[t].starts = all[t].starts
                 /\ Lost(f, all)[t].held = all[t].held
                 /\ Lost(f, all)[t].own = all[t].own /\ Lost(f, all)[t].seen = all[t].seen
                 /\ Lost(f, all)[t].task = IF all[t].task = f THEN NoFile ELSE all[t].task
<1>1. ASSUME NEW t \in Threads
      PROVE  /\ Lost(f, all)[t] \in ThreadRecord(n)
             /\ Lost(f, all)[t].stage = all[t].stage /\ Lost(f, all)[t].files = all[t].files
             /\ Lost(f, all)[t].said = all[t].said /\ Lost(f, all)[t].starts = all[t].starts
             /\ Lost(f, all)[t].held = all[t].held
             /\ Lost(f, all)[t].own = all[t].own /\ Lost(f, all)[t].seen = all[t].seen
             /\ Lost(f, all)[t].task = IF all[t].task = f THEN NoFile ELSE all[t].task
  <2>1. all[t] \in ThreadRecord(n)
    OBVIOUS
  <2>2. CASE all[t].task = f
    <3>1. Lost(f, all)[t] = [all[t] EXCEPT !.task = NoFile]
      BY <2>2 DEF Lost
    <3> QED BY <2>1, <2>2, <3>1 DEF ThreadRecord
  <2>3. CASE all[t].task # f
    BY <2>1, <2>3 DEF Lost
  <2> QED BY <2>2, <2>3
<1>2. Lost(f, all) \in [Threads -> ThreadRecord(n)]
  BY <1>1 DEF Lost
<1> QED BY <1>1, <1>2

\* The same for a step that writes one task.
LEMMA TaskMoves ==
    ASSUME SyncInv, NEW f \in Files,
           tasks' \in [Files -> TaskRecord], threads' \in [Threads -> ThreadRecord(newest)],
           UNCHANGED <<content, newest, told, marked, generation, listening, events, strayed>>,
           excused \subseteq excused', excused' \subseteq Files,
           snapshot' \in [Files -> 0..newest], left' \in SyncBudget,
           ShapeInv', TaskInv',
           \A i \in Threads : threads'[i].own = threads[i].own /\ threads[i].said \subseteq threads'[i].said,
           \A g \in Files : snapshot'[g] = snapshot[g] \/ \E i \in Threads : g \in threads'[i].said,
           Starting' => Starting, Guarded' => Guarded,
           \A g \in Files \ {f} :
              /\ tasks'[g] = tasks[g]
              /\ \A i \in Threads : threads[i].task = g =>
                    threads'[i].task = g /\ threads'[i].held = threads[i].held,
           (Active \/ Starting) /\ tasks'[f].status = "processing" =>
              \E i \in Threads : threads'[i].task = f /\ (threads'[i].held \/ tasks'[f].rerun),
           \A g \in Files \ {f}, i \in Threads :
              Carries(i, threads[i], g) => Carries(i, threads'[i], g),
           Guarded /\ f \notin excused' /\ Followed(f) => Followed(f)'
    PROVE  SyncInv'
<1> DEFINE paths == {f}
<1>1. paths \in SUBSET Files
  OBVIOUS
<1>2. Active \/ Starting => \A g \in paths : tasks'[g].status = "processing" =>
         \E i \in Threads : threads'[i].task = g /\ (threads'[i].held \/ tasks'[g].rerun)
  OBVIOUS
<1>3. Guarded => \A g \in paths \ excused' : Followed(g) => Followed(g)'
  OBVIOUS
<1>4. \A g \in Files \ paths :
         /\ tasks'[g] = tasks[g]
         /\ \A i \in Threads : threads[i].task = g =>
               threads'[i].task = g /\ threads'[i].held = threads[i].held
  OBVIOUS
<1>5. \A g \in Files \ paths, i \in Threads : Carries(i, threads[i], g) => Carries(i, threads'[i], g)
  OBVIOUS
<1> HIDE DEF paths
<1> QED BY <1>1, <1>2, <1>3, <1>4, <1>5, TasksMove

\* A task that is retried is open again.
LEMMA RetryInv ==
    ASSUME SyncInv, NEW f \in Files, RetryTask(f)
    PROVE  SyncInv'
<1>1. /\ Command \in Threads
      /\ threads \in [Threads -> ThreadRecord(newest)] /\ threads[Command] \in ThreadRecord(newest)
      /\ tasks \in [Files -> TaskRecord] /\ WorldOK /\ ShapeOf(Command, threads[Command])
  BY ThreadFacts, SyncAssumption DEF Threads, Publisher, Command
<1>2. /\ UNCHANGED <<content, newest, told, snapshot, marked, generation, listening, events, strayed, excused>>
      /\ tasks' = [tasks EXCEPT ![f] = [NoTask EXCEPT !.status = "pending"]]
      /\ threads[Command].stage = "idle" /\ left' \in SyncBudget
  BY <1>1, TakeOK DEF RetryTask, At, world, watch, history, WorldOK
<1> DEFINE all == [threads EXCEPT ![Command].stage = "pick"]
<1>3. /\ all \in [Threads -> ThreadRecord(newest)]
      /\ \A i \in Threads : /\ all[i].files = threads[i].files /\ all[i].said = threads[i].said
                            /\ all[i].task = threads[i].task /\ all[i].held = threads[i].held
                            /\ all[i].starts = threads[i].starts
                            /\ all[i].own = threads[i].own /\ all[i].seen = threads[i].seen
                            /\ all[i].stage = IF i = Command THEN "pick" ELSE threads[i].stage
  BY <1>1 DEF ThreadRecord
<1>4. /\ threads' \in [Threads -> ThreadRecord(newest)]
      /\ \A i \in Threads : /\ threads'[i].files = threads[i].files /\ threads'[i].said = threads[i].said
                            /\ threads'[i].task = threads[i].task /\ threads'[i].starts = threads[i].starts
                            /\ threads'[i].own = threads[i].own /\ threads'[i].seen = threads[i].seen
                            /\ threads[i].task # f => threads'[i].held = threads[i].held
                            /\ threads'[i].stage = IF i = Command THEN "pick" ELSE threads[i].stage
  <2>1. threads' \in Touched({f}, all)
    BY DEF RetryTask
  <2> HIDE DEF all
  <2>2. TouchedFields(newest, {f}, all, threads')
    BY <1>1, <1>3, <2>1, TouchedFacts DEF WorldOK
  <2> QED BY <1>3, <2>2 DEF TouchedFields
<1>5. tasks' \in [Files -> TaskRecord] /\ tasks'[f].status = "pending" /\ \A g \in Files \ {f} : tasks'[g] = tasks[g]
  BY <1>1, <1>2 DEF TaskRecord, NoTask
<1> HIDE DEF all
<1>6. ~threads[Command].starts /\ threads[Command].files = {}
  BY <1>1, <1>2 DEF ShapeOf
<1>7. ShapeInv' /\ TaskInv'
  <2>1. TaskInv'
    BY <1>5 DEF SyncInv, TaskInv
  <2>2. ShapeInv'
    BY <1>1, <1>2, <1>4, <1>6 DEF SyncInv, ShapeInv, ShapeOf
  <2> QED BY <2>1, <2>2
<1>8. ~Starting' /\ (Guarded' => Guarded)
  BY <1>1, <1>2, <1>4, <1>6 DEF Starting, Guarded, Active
<1>9. \A g \in Files, i \in Threads : Carries(i, threads[i], g) => Carries(i, threads'[i], g)
  BY <1>4, <1>6 DEF Carries, Drops
<1>10. Followed(f)'
  BY <1>5 DEF Followed, Open
<1> QED BY <1>1, <1>2, <1>4, <1>5, <1>7, <1>8, <1>9, <1>10, TaskMoves DEF WorldOK

\* A task that is ignored is gone, and its change excused.
LEMMA IgnoreInv ==
    ASSUME SyncInv, NEW f \in Files, IgnoreTask(f)
    PROVE  SyncInv'
<1>1. /\ threads \in [Threads -> ThreadRecord(newest)]
      /\ tasks \in [Files -> TaskRecord] /\ WorldOK
  BY SyncTypes DEF SyncInv
<1>2. /\ UNCHANGED <<content, newest, told, snapshot, marked, generation, listening, events, strayed>>
      /\ tasks' = [tasks EXCEPT ![f] = NoTask] /\ excused' = excused \union {f}
      /\ threads' = Lost(f, threads) /\ left' \in SyncBudget
  BY <1>1, TakeOK DEF IgnoreTask, world, watch, WorldOK
<1>3. /\ threads' \in [Threads -> ThreadRecord(newest)]
      /\ \A i \in Threads : /\ threads'[i].files = threads[i].files /\ threads'[i].said = threads[i].said
                            /\ threads'[i].task = IF threads[i].task = f THEN NoFile ELSE threads[i].task
                            /\ threads'[i].starts = threads[i].starts /\ threads'[i].held = threads[i].held
                            /\ threads'[i].stage = threads[i].stage
                            /\ threads'[i].own = threads[i].own /\ threads'[i].seen = threads[i].seen
  BY <1>1, <1>2, LostFacts DEF WorldOK
<1>4. tasks' \in [Files -> TaskRecord] /\ tasks'[f] = NoTask /\ \A g \in Files \ {f} : tasks'[g] = tasks[g]
  BY <1>1, <1>2 DEF TaskRecord, NoTask
<1>5. TaskInv'
  BY <1>4 DEF SyncInv, TaskInv
<1>6. ShapeInv'
  BY <1>1, <1>2, <1>3 DEF SyncInv, ShapeInv, ShapeOf
<1>7. (Starting' => Starting) /\ (Guarded' => Guarded)
  BY <1>2, <1>3, SyncAssumption DEF Starting, Guarded, Active, Threads, Publisher, Command
<1>8. \A g \in Files, i \in Threads : Carries(i, threads[i], g) => Carries(i, threads'[i], g)
  BY <1>3 DEF Carries, Drops
<1>9. tasks'[f].status # "processing" /\ excused \subseteq excused' /\ excused' \subseteq Files
  BY <1>1, <1>2, <1>4 DEF NoTask, WorldOK
<1>10. \A g \in Files \ {f}, i \in Threads : threads[i].task = g =>
          threads'[i].task = g /\ threads'[i].held = threads[i].held
  BY <1>3
<1> QED BY <1>1, <1>2, <1>3, <1>4, <1>5, <1>6, <1>7, <1>8, <1>9, <1>10, TaskMoves DEF WorldOK

\* The tasks that were processed are open again, and the thread goes on to walk: from
\* here on they are answered for, their changes only after the walk.
LEMMA ResetInv ==
    ASSUME SyncInv, ResetProcessing
    PROVE  SyncInv'
<1>1. /\ Command \in Threads
      /\ threads \in [Threads -> ThreadRecord(newest)] /\ threads[Command] \in ThreadRecord(newest)
      /\ tasks \in [Files -> TaskRecord] /\ WorldOK /\ ShapeOf(Command, threads[Command])
  BY ThreadFacts, SyncAssumption DEF Threads, Publisher, Command
<1>2. /\ UNCHANGED <<content, newest, told, snapshot, marked, generation, listening, events, strayed, excused, left>>
      /\ tasks' = [f \in Files |-> Reset(f)]
      /\ threads[Command].stage = "reset"
  BY DEF ResetProcessing, At, world, watch, history
<1> DEFINE all == [threads EXCEPT ![Command].stage = "walk"]
           paths == {f \in Files : tasks[f].status = "processing"}
<1>3. /\ all \in [Threads -> ThreadRecord(newest)]
      /\ \A i \in Threads : /\ all[i].files = threads[i].files /\ all[i].said = threads[i].said
                            /\ all[i].task = threads[i].task /\ all[i].starts = threads[i].starts
                            /\ all[i].own = threads[i].own /\ all[i].seen = threads[i].seen
                            /\ all[i].stage = IF i = Command THEN "walk" ELSE threads[i].stage
  BY <1>1 DEF ThreadRecord
<1>4. /\ threads' \in [Threads -> ThreadRecord(newest)]
      /\ \A i \in Threads : /\ threads'[i].files = threads[i].files /\ threads'[i].said = threads[i].said
                            /\ threads'[i].task = threads[i].task /\ threads'[i].starts = threads[i].starts
                            /\ threads'[i].own = threads[i].own /\ threads'[i].seen = threads[i].seen
                            /\ threads'[i].stage = IF i = Command THEN "walk" ELSE threads[i].stage
  <2>1. threads' \in Touched(paths, all)
    BY DEF ResetProcessing
  <2> HIDE DEF all, paths
  <2>2. TouchedFields(newest, paths, all, threads')
    BY <1>1, <1>3, <2>1, TouchedFacts DEF WorldOK
  <2> QED BY <1>3, <2>2 DEF TouchedFields
<1> HIDE DEF all, paths
<1>5. \A f \in Files : /\ tasks'[f] \in TaskRecord /\ tasks'[f].status # "processing"
                       /\ tasks'[f].status = "none" => tasks'[f] = NoTask
  <2> SUFFICES ASSUME NEW f \in Files
               PROVE  /\ Reset(f) \in TaskRecord /\ Reset(f).status # "processing"
                      /\ Reset(f).status = "none" => Reset(f) = NoTask
    BY <1>2
  <2>1. tasks[f] \in TaskRecord /\ (tasks[f].status = "none" => tasks[f] = NoTask)
    BY <1>1 DEF SyncInv, TaskInv
  <2> QED BY <2>1 DEF Reset, TaskRecord
<1>6. threads[Command].starts /\ listening # generation
  BY <1>1, <1>2 DEF ShapeOf
<1>7. SyncTypeOK'
  <2>1. WorldOK'
    BY <1>1, <1>2 DEF WorldOK
  <2>2. tasks' \in [Files -> TaskRecord]
    BY <1>2, <1>5
  <2> QED BY <1>2, <1>4, <2>1, <2>2, SyncTypes
<1>8. TaskInv' /\ MarkInv'
  BY <1>2, <1>5 DEF SyncInv, TaskInv, MarkInv
<1>o. OwnInv' /\ AgreeInv'
  BY <1>2, <1>4 DEF SyncInv, OwnInv, AgreeInv
<1>9. ShapeInv'
  BY <1>1, <1>2, <1>4 DEF SyncInv, ShapeInv, ShapeOf
<1>10. ~Guarded' /\ OwnerInv'
  BY <1>1, <1>2, <1>4, <1>5, <1>6 DEF Guarded, Active, OwnerInv
<1> QED BY <1>7, <1>8, <1>o, <1>9, <1>10 DEF SyncInv, FollowInv

\* What a path's task becomes when a batch with it is entered in the queue.
LEMMA UpsertFacts ==
    ASSUME NEW k \in TaskRecord
    PROVE  /\ Upsert(k) \in TaskRecord
           /\ Upsert(k).status \in {"pending", "failed", "processing"}
           /\ Upsert(k).status = "processing" => k.status = "processing" /\ Upsert(k).rerun
BY DEF Upsert, TaskRecord, NoTask

\* The paths of a batch have an open task then, or one that will run again.
LEMMA UpsertInv ==
    ASSUME SyncInv, NEW t \in Threads, UpsertTasks(t)
    PROVE  SyncInv'
<1>1. /\ threads \in [Threads -> ThreadRecord(newest)] /\ threads[t] \in ThreadRecord(newest)
      /\ tasks \in [Files -> TaskRecord] /\ WorldOK /\ ShapeOf(t, threads[t])
  BY ThreadFacts
<1> DEFINE paths == threads[t].files
           all == [threads EXCEPT ![t].stage = "check", ![t].files = {}]
<1>2. /\ UNCHANGED <<content, newest, told, snapshot, marked, generation, listening, events, strayed, excused, left>>
      /\ tasks' = [f \in Files |-> IF f \in paths THEN Upsert(tasks[f]) ELSE tasks[f]]
      /\ threads[t].stage = "upsert" /\ paths \in SUBSET Files
  BY <1>1 DEF UpsertTasks, At, world, watch, history, ThreadRecord
<1>3. /\ all \in [Threads -> ThreadRecord(newest)]
      /\ \A i \in Threads : /\ all[i].said = threads[i].said /\ all[i].held = threads[i].held
                            /\ all[i].task = threads[i].task /\ all[i].starts = threads[i].starts
                            /\ all[i].stage = IF i = t THEN "check" ELSE threads[i].stage
                            /\ all[i].own = threads[i].own /\ all[i].seen = threads[i].seen
                            /\ all[i].files = IF i = t THEN {} ELSE threads[i].files
  BY <1>1 DEF ThreadRecord
<1>4. /\ threads' \in [Threads -> ThreadRecord(newest)]
      /\ \A i \in Threads : /\ threads'[i].said = threads[i].said
                            /\ threads[i].task \notin paths => threads'[i].held = threads[i].held
                            /\ threads'[i].task = threads[i].task /\ threads'[i].starts = threads[i].starts
                            /\ threads'[i].stage = IF i = t THEN "check" ELSE threads[i].stage
                            /\ threads'[i].own = threads[i].own /\ threads'[i].seen = threads[i].seen
                            /\ threads'[i].files = IF i = t THEN {} ELSE threads[i].files
  <2>1. threads' \in Touched(paths, all)
    BY DEF UpsertTasks
  <2> HIDE DEF all, paths
  <2>2. TouchedFields(newest, paths, all, threads')
    BY <1>1, <1>3, <2>1, TouchedFacts DEF WorldOK
  <2> QED BY <1>3, <2>2 DEF TouchedFields
<1> HIDE DEF all
<1>5. \A f \in paths : /\ tasks'[f] \in TaskRecord
                       /\ tasks'[f].status \in {"pending", "failed", "processing"}
                       /\ tasks'[f].status = "processing" => tasks[f].status = "processing" /\ tasks'[f].rerun
  BY <1>1, <1>2, UpsertFacts
<1>6. \A f \in Files \ paths : tasks'[f] = tasks[f]
  BY <1>2
<1>7. tasks' \in [Files -> TaskRecord]
  BY <1>1, <1>2, UpsertFacts
<1>8. TaskInv'
  BY <1>5, <1>6 DEF SyncInv, TaskInv
<1>9. ShapeInv'
  BY <1>1, <1>2, <1>4 DEF SyncInv, ShapeInv, ShapeOf
<1>10. (Starting' => Starting) /\ (Guarded' => Guarded)
  BY <1>2, <1>4, SyncAssumption DEF Starting, Guarded, Active, Threads, Publisher, Command
<1>11. Active \/ Starting => \A g \in paths : tasks'[g].status = "processing" =>
          \E i \in Threads : threads'[i].task = g /\ (threads'[i].held \/ tasks'[g].rerun)
  <2> SUFFICES ASSUME Active \/ Starting, NEW g \in paths, tasks'[g].status = "processing"
               PROVE  \E i \in Threads : threads'[i].task = g /\ tasks'[g].rerun
    OBVIOUS
  <2>1. g \in Files /\ tasks[g].status = "processing" /\ tasks'[g].rerun
    BY <1>2, <1>5
  <2>2. PICK i \in Threads : threads[i].task = g
    BY <2>1 DEF SyncInv, OwnerInv
  <2> QED BY <1>4, <2>1, <2>2
<1>12. Guarded => \A g \in paths : Followed(g)'
  <2> SUFFICES ASSUME Guarded, NEW g \in paths, ~Open(g)'
               PROVE  Followed(g)'
    BY DEF Followed
  <2>1. tasks'[g].status = "processing"
    BY <1>5 DEF Open
  <2>2. Active \/ Starting
    BY DEF Guarded
  <2> QED BY <1>11, <2>1, <2>2 DEF Followed
<1>13. \A g \in Files \ paths, i \in Threads : Carries(i, threads[i], g) => Carries(i, threads'[i], g)
  BY <1>2, <1>4 DEF Carries, Drops
<1>14. \A g \in Files \ paths, i \in Threads : threads[i].task = g =>
          threads'[i].task = g /\ threads'[i].held = threads[i].held
  BY <1>4
<1>15. /\ UNCHANGED <<content, newest, told, snapshot, marked, generation, listening, events, strayed>>
       /\ excused \subseteq excused' /\ excused' \subseteq Files /\ paths \in SUBSET Files
       /\ snapshot' \in [Files -> 0..newest] /\ left' \in SyncBudget
       /\ threads' \in [Threads -> ThreadRecord(newest)]
  BY <1>1, <1>2, <1>4 DEF WorldOK
<1>16. /\ \A i \in Threads : threads'[i].own = threads[i].own /\ threads[i].said \subseteq threads'[i].said
       /\ \A g \in Files : snapshot'[g] = snapshot[g] \/ \E i \in Threads : g \in threads'[i].said
  BY <1>2, <1>4
<1>17. Guarded => \A g \in paths \ excused' : Followed(g) => Followed(g)'
  BY <1>12
<1> HIDE DEF paths
<1> QED BY <1>6, <1>7, <1>8, <1>9, <1>10, <1>11, <1>13, <1>14, <1>15, <1>16, <1>17, TasksMove

\* A task that is picked has a thread that holds it.
LEMMA PickInv ==
    ASSUME SyncInv, NEW t \in Threads, NEW f \in Files, Pick(t, f)
    PROVE  SyncInv'
<1>1. /\ threads \in [Threads -> ThreadRecord(newest)] /\ threads[t] \in ThreadRecord(newest)
      /\ tasks \in [Files -> TaskRecord] /\ WorldOK /\ ShapeOf(t, threads[t])
  BY ThreadFacts
<1>2. /\ UNCHANGED <<content, newest, told, snapshot, marked, generation, listening, events, strayed, excused, left>>
      /\ tasks' = [tasks EXCEPT ![f].status = "processing"]
      /\ threads[t].stage = "pick" /\ threads[t].task = NoFile /\ threads[t].files = {}
  BY <1>1 DEF Pick, At, world, watch, history, ShapeOf
<1>3. PICK all \in Touched({f}, threads) :
         threads' = [all EXCEPT ![t].stage = "read", ![t].task = f, ![t].held = TRUE]
  BY DEF Pick
<1>4. TouchedFields(newest, {f}, threads, all)
  BY <1>1, <1>3, TouchedFacts DEF WorldOK
<1>5. /\ threads' \in [Threads -> ThreadRecord(newest)]
      /\ \A i \in Threads : /\ threads'[i].said = threads[i].said /\ threads'[i].files = threads[i].files
                            /\ threads'[i].starts = threads[i].starts
                            /\ threads'[i].own = threads[i].own /\ threads'[i].seen = threads[i].seen
                            /\ threads'[i].stage = IF i = t THEN "read" ELSE threads[i].stage
                            /\ threads'[i].task = IF i = t THEN f ELSE threads[i].task
                            /\ i # t /\ threads[i].task # f => threads'[i].held = threads[i].held
      /\ threads'[t].held
  <2>1. all \in [Threads -> ThreadRecord(newest)]
    BY <1>4 DEF TouchedFields
  <2>2. \A i \in Threads : all[i] \in ThreadRecord(newest)
    BY <2>1
  <2>3. \A i \in Threads \ {t} : threads'[i] = all[i]
    BY <1>3, <2>1
  <2>4. threads'[t] = [all[t] EXCEPT !.stage = "read", !.task = f, !.held = TRUE]
    BY <1>3, <2>1
  <2>5. /\ threads'[t] \in ThreadRecord(newest) /\ threads'[t].held
        /\ threads'[t].stage = "read" /\ threads'[t].task = f
        /\ threads'[t].files = all[t].files /\ threads'[t].said = all[t].said
        /\ threads'[t].starts = all[t].starts
        /\ threads'[t].own = all[t].own /\ threads'[t].seen = all[t].seen
    BY <2>2, <2>4 DEF ThreadRecord
  <2>6. threads' \in [Threads -> ThreadRecord(newest)]
    BY <1>3, <2>1, <2>3, <2>5
  <2> QED BY <1>4, <2>3, <2>5, <2>6 DEF TouchedFields
<1>6. /\ tasks' \in [Files -> TaskRecord] /\ tasks'[f].status = "processing"
      /\ \A g \in Files \ {f} : tasks'[g] = tasks[g]
  <2>1. tasks[f] \in TaskRecord
    BY <1>1
  <2>2. tasks'[f] = [tasks[f] EXCEPT !.status = "processing"]
    BY <1>1, <1>2
  <2>3. tasks'[f] \in TaskRecord /\ tasks'[f].status = "processing"
    BY <2>1, <2>2 DEF TaskRecord
  <2> QED BY <1>1, <1>2, <2>3
<1>7. TaskInv'
  BY <1>6 DEF SyncInv, TaskInv
<1>8. ShapeInv'
  BY <1>1, <1>2, <1>5 DEF SyncInv, ShapeInv, ShapeOf
<1>9. (Starting' => Starting) /\ (Guarded' => Guarded)
  BY <1>2, <1>5, SyncAssumption DEF Starting, Guarded, Active, Threads, Publisher, Command
<1>10. \E i \in Threads : threads'[i].task = f /\ (threads'[i].held \/ tasks'[f].rerun)
  BY <1>5
<1>11. Followed(f)'
  BY <1>5, <1>6 DEF Followed
<1>12. \A g \in Files, i \in Threads : Carries(i, threads[i], g) => Carries(i, threads'[i], g)
  BY <1>2, <1>5 DEF Carries, Drops
<1>13. \A g \in Files \ {f}, i \in Threads : threads[i].task = g =>
          threads'[i].task = g /\ threads'[i].held = threads[i].held
  BY <1>2, <1>5, SyncAssumption
<1> QED BY <1>1, <1>2, <1>5, <1>6, <1>7, <1>8, <1>9, <1>10, <1>11, <1>12, <1>13, TaskMoves DEF WorldOK

\* A thread that has run its task will report the path, which follows it up.
LEMMA UpdateInv ==
    ASSUME SyncInv, NEW t \in Threads, NEW f \in Files, Update(t, f)
    PROVE  SyncInv'
<1>1. /\ threads \in [Threads -> ThreadRecord(newest)] /\ threads[t] \in ThreadRecord(newest)
      /\ tasks \in [Files -> TaskRecord] /\ WorldOK /\ ShapeOf(t, threads[t])
  BY ThreadFacts
<1> DEFINE k == Finished(tasks[f], threads[t].stage = "failed")
           r == [threads[t] EXCEPT !.stage = "pick", !.task = NoFile, !.held = FALSE,
                                   !.seen = Unseen, !.said = threads[t].said \union {f}]
           all == [threads EXCEPT ![t] = r]
<1>2. /\ UNCHANGED <<content, newest, told, marked, generation, listening, events, strayed, excused, left>>
      /\ tasks' = [tasks EXCEPT ![f] = k]
      /\ threads[t].stage \in {"update", "failed"} /\ threads[t].task = f
      /\ snapshot' = IF threads[t].stage = "failed" THEN snapshot ELSE [snapshot EXCEPT ![f] = threads[t].seen[f]]
  BY DEF Update, world, watch, history
<1>3. threads' = Lost(f, all) \/ threads' \in Touched({f}, all)
  BY DEF Update
<1>4. threads[t].files = {}
  BY <1>1, <1>2 DEF ShapeOf
<1>5. /\ r \in ThreadRecord(newest) /\ r.files = {} /\ r.starts = threads[t].starts
      /\ r.stage = "pick" /\ r.task = NoFile /\ r.said = threads[t].said \union {f}
      /\ r.own = threads[t].own
  BY <1>1, <1>4, UnseenIsOne DEF WorldOK, ThreadRecord
<1> HIDE DEF r
<1>6. all \in [Threads -> ThreadRecord(newest)] /\ \A i \in Threads : all[i] = IF i = t THEN r ELSE threads[i]
  BY <1>1, <1>5
<1> HIDE DEF all
<1>7. /\ threads' \in [Threads -> ThreadRecord(newest)]
      /\ \A i \in Threads : /\ threads'[i].said = all[i].said /\ threads'[i].files = all[i].files
                            /\ threads'[i].starts = all[i].starts /\ threads'[i].stage = all[i].stage
                            /\ threads'[i].own = all[i].own /\ threads'[i].seen = all[i].seen
                            /\ threads'[i].task \in {all[i].task, NoFile}
                            /\ all[i].task # f => /\ threads'[i].held = all[i].held
                                                  /\ threads'[i].task = all[i].task
  <2>1. CASE threads' = Lost(f, all)
    BY <1>1, <1>6, <2>1, LostFacts DEF WorldOK
  <2>2. CASE threads' \in Touched({f}, all)
    <3>1. TouchedFields(newest, {f}, all, threads')
      BY <1>1, <1>6, <2>2, TouchedFacts DEF WorldOK
    <3> QED BY <3>1 DEF TouchedFields
  <2> QED BY <1>3, <2>1, <2>2
<1>8. /\ tasks' \in [Files -> TaskRecord] /\ tasks'[f].status # "processing"
      /\ tasks'[f].status = "none" => tasks'[f] = NoTask
      /\ \A g \in Files \ {f} : tasks'[g] = tasks[g]
  <2>1. k \in TaskRecord /\ k.status # "processing" /\ (k.status = "none" => k = NoTask)
    <3>1. tasks[f] \in TaskRecord /\ tasks[f].status = "processing"
      BY <1>1 DEF Update
    <3>n. PICK n \in Nat : n = tasks[f].retries + 1
      BY <3>1 DEF TaskRecord
    <3> DEFINE fails == [tasks[f] EXCEPT !.status = "failed", !.retries = n]
               again == [tasks[f] EXCEPT !.status = "pending", !.rerun = FALSE]
    <3>2. fails \in TaskRecord /\ fails.status = "failed"
      BY <3>1 DEF TaskRecord
    <3>3. again \in TaskRecord /\ again.status = "pending"
      BY <3>1 DEF TaskRecord
    <3>4. NoTask \in TaskRecord /\ NoTask.status = "none"
      BY DEF TaskRecord, NoTask
    <3>5. k \in {fails, again, NoTask}
      BY <3>n DEF Finished
    <3> HIDE DEF k, fails, again
    <3> QED BY <3>2, <3>3, <3>4, <3>5
  <2> HIDE DEF k
  <2> QED BY <1>1, <1>2, <2>1
<1>9. snapshot' \in [Files -> 0..newest]
  BY <1>1, <1>2 DEF WorldOK, ThreadRecord
<1>o. /\ \A i \in Threads : threads'[i].own = threads[i].own /\ threads[i].said \subseteq threads'[i].said
      /\ \A g \in Files : snapshot'[g] = snapshot[g] \/ \E i \in Threads : g \in threads'[i].said
  <2>1. \A g \in Files \ {f} : snapshot'[g] = snapshot[g]
    BY <1>1, <1>2 DEF WorldOK
  <2>2. f \in threads'[t].said
    BY <1>5, <1>6, <1>7
  <2> QED BY <1>5, <1>6, <1>7, <2>1, <2>2
<1>10. TaskInv'
  BY <1>8 DEF SyncInv, TaskInv
<1>11. ShapeInv'
  BY <1>1, <1>2, <1>5, <1>6, <1>7 DEF SyncInv, ShapeInv, ShapeOf
<1>12. (Starting' => Starting) /\ (Guarded' => Guarded)
  BY <1>2, <1>5, <1>6, <1>7, SyncAssumption DEF Starting, Guarded, Active, Threads, Publisher, Command
<1>13. Followed(f)'
  BY <1>5, <1>6, <1>7 DEF Followed, Carries
<1>14. \A g \in Files, i \in Threads : Carries(i, threads[i], g) => Carries(i, threads'[i], g)
  BY <1>2, <1>4, <1>5, <1>6, <1>7 DEF Carries, Drops
<1>15. \A g \in Files \ {f}, i \in Threads : threads[i].task = g =>
          threads'[i].task = g /\ threads'[i].held = threads[i].held
  BY <1>2, <1>6, <1>7
<1> QED BY <1>1, <1>2, <1>7, <1>8, <1>9, <1>o, <1>10, <1>11, <1>12, <1>13, <1>14, <1>15, TaskMoves DEF WorldOK

\* A thread whose task was changed meanwhile opens it again if it is to run again;
\* if not, another thread holds it, or it is not processed.
LEMMA UpdateIsLateInv ==
    ASSUME SyncInv, NEW t \in Threads, UpdateIsLate(t)
    PROVE  SyncInv'
<1>1. /\ threads \in [Threads -> ThreadRecord(newest)] /\ threads[t] \in ThreadRecord(newest)
      /\ tasks \in [Files -> TaskRecord] /\ WorldOK /\ ShapeOf(t, threads[t])
  BY ThreadFacts
<1>f. PICK f \in Files \union {NoFile} : f = threads[t].task
  BY <1>1 DEF ThreadRecord
<1>r. PICK r \in ThreadRecord(newest) :
         r = [threads[t] EXCEPT !.stage = "pick", !.task = NoFile, !.held = FALSE,
                                 !.seen = Unseen]
  <2> DEFINE new == [threads[t] EXCEPT !.stage = "pick", !.task = NoFile, !.held = FALSE,
                                       !.seen = Unseen]
  <2>1. new \in ThreadRecord(newest)
    BY <1>1, UnseenIsOne DEF WorldOK, ThreadRecord
  <2> QED BY <2>1
<1> DEFINE all == [threads EXCEPT ![t] = r]
           again == f # NoFile /\ tasks[f].status = "processing" /\ tasks[f].rerun
<1>2. /\ UNCHANGED <<content, newest, told, snapshot, marked, generation, listening, events, strayed, excused, left>>
      /\ threads[t].stage \in {"update", "failed"}
      /\ f # NoFile => ~(tasks[f].status = "processing" /\ threads[t].held)
  BY <1>f DEF UpdateIsLate, world, watch, history
<1>3. \/ again /\ tasks' = [tasks EXCEPT ![f] = [tasks[f] EXCEPT !.status = "pending", !.rerun = FALSE]]
               /\ threads' \in Touched({f}, all)
      \/ ~again /\ tasks' = tasks /\ threads' = all
  BY <1>f, <1>r DEF UpdateIsLate
<1>4. threads[t].files = {}
  BY <1>1, <1>2 DEF ShapeOf
<1>5. /\ r \in ThreadRecord(newest) /\ r.files = {} /\ r.starts = threads[t].starts
      /\ r.stage = "pick" /\ r.task = NoFile /\ r.said = threads[t].said /\ ~r.held
      /\ r.own = threads[t].own
  BY <1>1, <1>4, <1>r DEF ThreadRecord
<1>6. all \in [Threads -> ThreadRecord(newest)] /\ \A i \in Threads : all[i] = IF i = t THEN r ELSE threads[i]
  BY <1>1, <1>5
<1> HIDE DEF all
<1>8. CASE f = NoFile
  <2>1. tasks' = tasks /\ threads' = [threads EXCEPT ![t] = r]
    BY <1>3, <1>8 DEF all
  <2>2. ShapeOf(t, r)'
    BY <1>1, <1>2, <1>5 DEF ShapeOf
  <2>3. \A g \in Files : Carries(t, threads[t], g) => Carries(t, r, g)
    BY <1>2, <1>4, <1>5 DEF Carries, Drops
  <2> QED BY <1>1, <1>2, <1>5, <1>8, <2>1, <2>2, <2>3, <1>f, ThreadMoves DEF WorldOK
<1>9. CASE f \in Files
  <2>1. /\ threads' \in [Threads -> ThreadRecord(newest)]
        /\ \A i \in Threads : /\ threads'[i].said = all[i].said /\ threads'[i].files = all[i].files
                              /\ threads'[i].starts = all[i].starts /\ threads'[i].stage = all[i].stage
                              /\ threads'[i].own = all[i].own /\ threads'[i].seen = all[i].seen
                              /\ threads'[i].task = all[i].task
                              /\ all[i].task # f => threads'[i].held = all[i].held
                              /\ ~again => threads'[i] = all[i]
    <3>1. CASE ~again
      BY <1>3, <1>6, <3>1
    <3>2. CASE again
      <4>1. TouchedFields(newest, {f}, all, threads')
        BY <1>1, <1>3, <1>6, <3>2, TouchedFacts DEF WorldOK
      <4> QED BY <3>2, <4>1 DEF TouchedFields
    <3> QED BY <3>1, <3>2
  <2>2. /\ tasks' \in [Files -> TaskRecord]
        /\ again => tasks'[f].status = "pending"
        /\ ~again => tasks' = tasks
        /\ \A g \in Files \ {f} : tasks'[g] = tasks[g]
    <3>1. tasks[f] \in TaskRecord
      BY <1>1, <1>9
    <3>2. [tasks[f] EXCEPT !.status = "pending", !.rerun = FALSE] \in TaskRecord
      BY <3>1 DEF TaskRecord
    <3>3. [tasks[f] EXCEPT !.status = "pending", !.rerun = FALSE].status = "pending"
      BY <3>1 DEF TaskRecord
    <3> HIDE DEF again
    <3>4. CASE again
      <4> DEFINE k == [tasks[f] EXCEPT !.status = "pending", !.rerun = FALSE]
      <4>1. tasks' = [tasks EXCEPT ![f] = k]
        BY <1>3, <3>4
      <4> HIDE DEF k
      <4> QED BY <1>1, <1>9, <3>2, <3>3, <3>4, <4>1 DEF k
    <3> QED BY <1>1, <1>3, <3>4
  <2>o. /\ \A i \in Threads : threads'[i].own = threads[i].own /\ threads[i].said \subseteq threads'[i].said
        /\ \A g \in Files : snapshot'[g] = snapshot[g] \/ \E i \in Threads : g \in threads'[i].said
    BY <1>2, <1>5, <1>6, <2>1
  <2>3. TaskInv'
    BY <2>2 DEF SyncInv, TaskInv
  <2>4. ShapeInv'
    BY <1>1, <1>2, <1>5, <1>6, <2>1 DEF SyncInv, ShapeInv, ShapeOf
  <2>5. (Starting' => Starting) /\ (Guarded' => Guarded)
    BY <1>2, <1>5, <1>6, <2>1, SyncAssumption DEF Starting, Guarded, Active, Threads, Publisher, Command
  <2>6. ASSUME Active \/ Starting, tasks'[f].status = "processing"
        PROVE  \E i \in Threads : threads'[i].task = f /\ (threads'[i].held \/ tasks'[f].rerun)
    <3>1. ~again /\ tasks' = tasks /\ ~threads[t].held /\ ~tasks[f].rerun
      BY <1>2, <1>8, <1>9, <2>2, <2>6, SyncAssumption
    <3>2. PICK i \in Threads : threads[i].task = f /\ threads[i].held
      BY <1>9, <2>6, <3>1 DEF SyncInv, OwnerInv
    <3> QED BY <1>6, <2>1, <3>1, <3>2
  <2>7. ASSUME Guarded, Followed(f)
        PROVE  Followed(f)'
    <3>1. CASE tasks'[f].status = "processing"
      BY <2>6, <2>7, <3>1 DEF Followed, Guarded
    <3>2. CASE Open(f) \/ again
      BY <2>2, <3>2 DEF Followed, Open
    <3>3. ASSUME NEW i \in Threads, Carries(i, threads[i], f)
          PROVE  Followed(f)'
      BY <1>2, <1>4, <1>5, <1>6, <2>1, <3>3 DEF Followed, Carries, Drops, Stale
    <3> QED BY <2>2, <2>7, <3>1, <3>2, <3>3 DEF Followed
  <2>8. \A g \in Files, i \in Threads : Carries(i, threads[i], g) => Carries(i, threads'[i], g)
    BY <1>2, <1>4, <1>5, <1>6, <2>1 DEF Carries, Drops
  <2>9. \A g \in Files \ {f}, i \in Threads : threads[i].task = g =>
            threads'[i].task = g /\ threads'[i].held = threads[i].held
    BY <1>6, <1>f, <2>1
  <2> QED BY <1>1, <1>2, <1>9, <2>1, <2>2, <2>o, <2>3, <2>4, <2>5, <2>6, <2>7, <2>8, <2>9, TaskMoves DEF WorldOK
<1> QED BY <1>8, <1>9

\* At first nothing is watched and no thread does anything.
LEMMA SyncInitInv == SyncInit => SyncInv
<1> SUFFICES ASSUME SyncInit PROVE SyncInv
  OBVIOUS
<1>1. /\ newest = 1 /\ content \in [Files -> 0..newest] /\ snapshot \in [Files -> 0..newest]
      /\ told = snapshot /\ marked = {} /\ events = {} /\ strayed = {} /\ excused = {}
      /\ generation = 0 /\ listening = 0 /\ left \in SyncBudget
  BY SyncAssumption DEF SyncInit, Absent
<1>2. WorldOK
  BY <1>1 DEF WorldOK
<1>3. NoTask \in TaskRecord
  BY DEF NoTask, TaskRecord
<1>4. Resting \in ThreadRecord(newest)
  BY <1>1, RestingIsOne
<1>5. tasks \in [Files -> TaskRecord] /\ threads \in [Threads -> ThreadRecord(newest)]
  BY <1>3, <1>4 DEF SyncInit
<1>6. SyncTypeOK
  BY <1>2, <1>5, SyncTypes
<1>7. ShapeInv
  <2>1. \A t \in Threads : threads[t] = Resting
    BY DEF SyncInit
  <2> QED BY <2>1 DEF ShapeInv, ShapeOf, Resting
<1>8. TaskInv /\ MarkInv
  BY <1>1 DEF SyncInit, TaskInv, MarkInv
<1>o. OwnInv /\ AgreeInv
  BY <1>1 DEF SyncInit, OwnInv, AgreeInv, Resting
<1>9. ~Active /\ ~Starting
  BY <1>1, SyncAssumption DEF SyncInit, Active, Starting, Resting, Threads, Publisher, Command
<1> QED BY <1>6, <1>7, <1>8, <1>o, <1>9 DEF SyncInv, OwnerInv, FollowInv, Guarded

\* Every step keeps the invariant.
LEMMA SyncNextInv == SyncInv /\ [SyncNext]_syncVars => SyncInv'
<1> SUFFICES ASSUME SyncInv, [SyncNext]_syncVars PROVE SyncInv'
  OBVIOUS
<1>1. CASE UNCHANGED syncVars
  BY <1>1 DEF syncVars, SyncInv, SyncTypeOK, ShapeInv, ShapeOf, TaskInv, MarkInv, OwnInv, AgreeInv, OwnerInv,
              FollowInv, Guarded, Starting, Active, Followed, Open, Carries, Drops, Stale
<1>2. ASSUME NEW f \in Files,
             \/ \E c \in 0..(newest + 1) : UserWrites(f, c)
             \/ Publish(f) \/ MarkExpires(f) \/ RetryTask(f) \/ IgnoreTask(f)
      PROVE  SyncInv'
  BY <1>2, UserWritesInv, PublishInv, QuietInv, RetryInv, IgnoreInv
<1>3. CASE StartWatcher \/ StopWatcher \/ RescanProject \/ ResetProcessing \/ Listen \/ Killed
  BY <1>3, StartWatcherInv, QuietInv, ScansInv, ResetInv, ListenInv
<1>4. ASSUME NEW w \in Watchers, TakeEvents(w) \/ PeriodicRescan(w)
      PROVE  SyncInv'
  BY <1>4, TakeEventsInv, ScansInv
<1>5. ASSUME NEW t \in Threads, \/ SyncReads(t) \/ SyncReadFails(t) \/ SyncWrites(t)
                                \/ Walk(t) \/ WalkFails(t)
                                \/ ReadsSnapshot(t) \/ ReadsFiles(t) \/ ReadFails(t)
      PROVE  SyncInv'
  BY <1>5, ReadsInv, SyncReadFailsInv, SyncWritesInv, WalkInv, ReadsSnapshotInv, ReadsFilesInv, BatchEndsInv
<1>6. ASSUME NEW t \in Threads, UpsertTasks(t) \/ Enqueued(t)
      PROVE  SyncInv'
  <2>1. Enqueued(t) /\ Stale(t) => SyncInv'
    BY BatchEndsInv
  <2>2. Enqueued(t) /\ ~Stale(t) => SyncInv'
    BY GoesOnInv
  <2> QED BY <1>6, <2>1, <2>2, UpsertInv
<1>7. ASSUME NEW t \in Threads, \/ \E f \in Files : Pick(t, f) \/ Update(t, f)
                                \/ ReadsTask(t) \/ ReadOfTaskFails(t) \/ UpdateIsLate(t) \/ Report(t)
      PROVE  SyncInv'
  BY <1>7, PickInv, UpdateInv, ReadsInv, GoesOnInv, UpdateIsLateInv, ReportInv
<1> QED BY <1>1, <1>2, <1>3, <1>4, <1>5, <1>6, <1>7 DEF SyncNext

\* What the theorems about the watcher rest on.
LEMMA SyncSpecInv == SyncSpec => []SyncInv
BY SyncInitInv, SyncNextInv, PTL DEF SyncSpec

\* The snapshot, the tasks and the threads keep their types, and every content that was
\* read is one that was written, however watchers, commands and publications meet.
THEOREM SyncTypeCorrect == SyncSpec => []SyncTypeOK
<1>1. SyncInv => SyncTypeOK
  BY DEF SyncInv
<1> QED BY <1>1, SyncSpecInv, PTL

\* A change made while a watcher listens is followed up until the frontend has been told
\* of it, for every number of files and of watchers one after another, and for every
\* order in which the threads read, write and lose their tasks.
THEOREM ChangesAreFollowedUp == SyncSpec => []ChangeIsFollowedUp
<1>1. SyncInv => ChangeIsFollowedUp
  <2> SUFFICES ASSUME SyncInv, Active, NEW f \in Files \ excused, told[f] # content[f],
                      f \notin events, ~Open(f)
               PROVE  InHand(f)
    BY DEF ChangeIsFollowedUp, Open
  <2>1. Followed(f)
    BY DEF SyncInv, FollowInv, Guarded
  <2> QED BY <2>1 DEF Followed, Carries, Drops, InHand
<1> QED BY <1>1, SyncSpecInv, PTL

-----------------------------------------------------------------------------
(* MCWiki: the three parts side by side. *)

\* A behaviour of MCWiki is one of each part, which stutters while another is explored.
LEMMA WikiIsItsParts == MCSpec => Spec /\ SyncSpec /\ SlotSpec
<1>1. MCInit => Init /\ SyncInit /\ SlotInit
  BY DEF MCInit
<1>2. [MCNext]_wikiVars => [Next]_vars /\ [SyncNext]_syncVars /\ [SlotNext]_slotVars
  BY DEF MCNext, WatcherNext, wikiVars
<1> QED BY <1>1, <1>2, PTL DEF MCSpec, Spec, SyncSpec, SlotSpec

\* The publication, the watcher and the enrichment have their types, for every plan,
\* every set of files and jobs and every bound.
THEOREM WikiTypesCorrect == MCSpec => []WikiTypeOK
<1>1. TypeOK /\ SyncTypeOK /\ SlotTypeOK => WikiTypeOK
  BY DEF WikiTypeOK
<1> QED BY <1>1, WikiIsItsParts, TypeCorrect, SyncTypeCorrect, SlotTypeCorrect, PTL

=============================================================================
