----------------------- MODULE MCOutcomeNotifications -----------------------
(* Instances of OutcomeNotifications for TLC. *)
EXTENDS OutcomeNotifications, TLC

Interchangeable == Permutations(Replicas)
=============================================================================
