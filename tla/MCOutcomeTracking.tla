-------------------------- MODULE MCOutcomeTracking --------------------------
(* Instances of OutcomeTracking for TLC. *)
EXTENDS OutcomeTracking, TLC

Interchangeable == Permutations(Trackers) \cup Permutations(Projectors)
=============================================================================
