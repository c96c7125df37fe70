---------------------------- MODULE MCIngestGate ----------------------------
(* Instances of IngestGate for TLC; the .cfg files give the constants.      *)
EXTENDS IngestGate, TLC

\* Contents, threads and compilers are interchangeable in the safety runs.
Symmetry ==
    Permutations(Contents) \cup Permutations(Workers) \cup Permutations(Compilers)

=============================================================================
