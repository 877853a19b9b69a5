------------------------- MODULE MCSparkplugClient -------------------------
(* Small instances of SparkplugClient for TLC. *)
EXTENDS SparkplugClient, TLC

\* The publishing tasks are interchangeable, and so are the edge nodes: a
\* publisher owns none.
TaskSymmetry == Permutations(Pubs) \cup Permutations(EdgeNodes)
=============================================================================
