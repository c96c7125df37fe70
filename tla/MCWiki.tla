------------------------------- MODULE MCWiki -------------------------------
(* Three parts of LLM Wiki that work on the files of one project: a           *)
(* publication, the file watcher and the enrichment, side by side: a behaviour *)
(* explores one of them, and the others stay in a fixed state.                 *)
EXTENDS MCPublishTransaction, FileSync, EnrichmentSlot, TLC

VARIABLES subject,
          watched     \* the files that anybody writes, of those the watcher watches

wikiVars == <<vars, syncVars, slotVars, subject, watched>>

\* The watched files are alike; nothing else is interchangeable.
WatchedFilesAreAlike == Permutations(Files)

Only(writes, publications, starts, commands, failures, crashes) ==
    [writes |-> writes, publications |-> publications, starts |-> starts,
     commands |-> commands, faults |-> failures, crashes |-> crashes]

\* One file: changes about a start and a command; with a publication; with an
\* unreadable file and a crash; with an unreadable file and a command.
OneFileBudgets == {Only(3, 0, 1, 1, 0, 0), Only(2, 1, 1, 0, 0, 0), Only(2, 0, 2, 0, 1, 1),
                   Only(1, 0, 2, 1, 1, 0)}

\* Batches of two: of the user and the application, with one that cannot be read; of
\* the user, with a command, or one that cannot be read and a crash; across two starts.
TwoFilesBudgets == {Only(1, 1, 1, 0, 1, 0), Only(2, 0, 1, 1, 0, 0), Only(2, 0, 1, 0, 1, 1),
                    Only(1, 0, 2, 0, 1, 1), Only(2, 0, 2, 0, 0, 0)}

MCSyncBudgets == OneFileBudgets \union TwoFilesBudgets

WatcherInit ==
    IF subject = "watcher"
    THEN /\ watched \in SUBSET Files \ {{}}
         /\ left \in IF Cardinality(watched) = 1 THEN OneFileBudgets ELSE TwoFilesBudgets
         /\ \A f \in Files \ watched: content[f] = Absent
    ELSE /\ watched = {} /\ content = snapshot
         /\ left = Only(2, 1, 1, 0, 0, 0)

MCInit ==
    /\ subject \in {"publication", "watcher", "enrichment"}
    /\ Init /\ SyncInit /\ SlotInit
    /\ subject # "publication" => /\ plan = IndexPlan
                                  /\ before = [p \in Paths |-> "absent"]
    /\ WatcherInit

WatcherNext == SyncNext /\ \A f \in Files \ watched: content'[f] = Absent

MCNext == /\ UNCHANGED <<subject, watched>>
          /\ \/ subject = "publication" /\ Next /\ UNCHANGED <<syncVars, slotVars>>
             \/ subject = "watcher" /\ WatcherNext /\ UNCHANGED <<vars, slotVars>>
             \/ subject = "enrichment" /\ SlotNext /\ UNCHANGED <<vars, syncVars>>

MCSpec == MCInit /\ [][MCNext]_wikiVars

\* The types of all three, whichever is explored.
WikiTypeOK == TypeOK /\ SyncTypeOK /\ SlotTypeOK
=============================================================================
