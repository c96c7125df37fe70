------------------------- MODULE AtomicPublication --------------------------
(***************************************************************************)
(* What an approval promises to whoever takes the project mutex after it:   *)
(* every file of the publication is new, or no file was touched; and when   *)
(* the disk fails twice or the process dies, no other file was touched.     *)
(***************************************************************************)
CONSTANT Paths

VARIABLES
    store,     \* what each file holds, as seen with the mutex
    targets,   \* the files the publication is to write
    outcome    \* "open", then "published", "refused" or "broken"

publication == <<store, targets, outcome>>

Init ==
    /\ store \in [Paths -> {"absent", "old"}]
    /\ targets \subseteq Paths
    /\ outcome = "open"

Publish ==
    /\ outcome = "open"
    /\ outcome' = "published"
    /\ store' = [p \in Paths |-> IF p \in targets THEN "new" ELSE store[p]]
    /\ UNCHANGED targets

Refuse ==
    /\ outcome = "open"
    /\ outcome' = "refused"
    /\ UNCHANGED <<store, targets>>

\* What is left then of the files it was to write is not promised.
Break ==
    /\ outcome = "open"
    /\ outcome' = "broken"
    /\ \A p \in Paths \ targets : store'[p] = store[p]
    /\ UNCHANGED targets

Next == Publish \/ Refuse \/ Break

Spec == Init /\ [][Next]_publication

=============================================================================
