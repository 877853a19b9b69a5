----------------------------- MODULE MCSeqGate -----------------------------
(* Small instances of SeqGate for TLC. *)
EXTENDS SeqGate, TLC

\* The tasks are interchangeable. The edge nodes are not: OwnNode is one.
TaskSymmetry == Permutations(Tasks)
=============================================================================
