------------------------------- MODULE MCChat -------------------------------
(* Instances of the runs of a chat session. *)
EXTENDS ChatRun

Bounds(r, a, p, f) == [runs |-> r, aborts |-> a, resumes |-> p, faults |-> f]

\* Three messages, or two and everything that may happen to them.
MCBudgets == {Bounds(3, 0, 0, 0), Bounds(2, 1, 1, 0), Bounds(2, 0, 1, 1),
              Bounds(2, 2, 0, 0), Bounds(2, 0, 2, 0)}
\* Three messages, and the user does nothing else.
MCThreeMessages == {Bounds(3, 0, 0, 0)}
===============================================================================
