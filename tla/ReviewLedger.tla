---------------------------- MODULE ReviewLedger ----------------------------
(***************************************************************************)
(* What the strict-ingest gate promises to a knowledge base, without        *)
(* threads, compilers, files or failures: a draft is queued, offered to a   *)
(* reviewer, sent back or decided; the decision is final; and no content    *)
(* is ever in two live drafts.  IngestGate implements this specification    *)
(* under the mapping it states.                                             *)
(***************************************************************************)
EXTENDS Naturals

CONSTANTS
    Drafts,     \* identities a draft can be given
    Contents,   \* what can be imported, told apart by its SHA-256
    None        \* the content of a draft that does not exist yet

VARIABLES
    phase,      \* where each draft stands
    content     \* what each draft carries

ledger == <<phase, content>>

Phases == {"unknown", "queued", "review", "trusted", "rejected"}

Live == {d \in Drafts : phase[d] \notin {"unknown", "rejected"}}

Init ==
    /\ phase = [d \in Drafts |-> "unknown"]
    /\ content = [d \in Drafts |-> None]

MoveTo(d, p) ==
    /\ phase' = [phase EXCEPT ![d] = p]
    /\ UNCHANGED content

\* A content enters once, unless every earlier draft of it was rejected.
Submit(d, c) ==
    /\ phase[d] = "unknown"
    /\ \A e \in Live : content[e] # c
    /\ phase' = [phase EXCEPT ![d] = "queued"]
    /\ content' = [content EXCEPT ![d] = c]

Offer(d) == phase[d] = "queued" /\ MoveTo(d, "review")

SendBack(d) == phase[d] = "review" /\ MoveTo(d, "queued")

\* Only what a reviewer was offered becomes knowledge.
Publish(d) == phase[d] = "review" /\ MoveTo(d, "trusted")

Reject(d) == phase[d] \in {"queued", "review"} /\ MoveTo(d, "rejected")

Next ==
    \E d \in Drafts :
        \/ \E c \in Contents : Submit(d, c)
        \/ Offer(d)
        \/ SendBack(d)
        \/ Publish(d)
        \/ Reject(d)

Spec == Init /\ [][Next]_ledger

=============================================================================
