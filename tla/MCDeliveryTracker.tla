------------------------- MODULE MCDeliveryTracker -------------------------
(* Small instances of DeliveryTracker for TLC. *)
EXTENDS DeliveryTracker, TLC

\* Publishes are interchangeable, and so are flushing tasks.
TaskSymmetry == Permutations(Pubs) \cup Permutations(Flushers)
=============================================================================
