--------------------------- MODULE DeliveryState ---------------------------
(***************************************************************************)
(* The transition policy of a signal_deliveries row (delivery/service.py). *)
(* Pure operators: the row itself lives in SignalDelivery.                 *)
(***************************************************************************)
EXTENDS Naturals

NoState == "none"   \* no row yet, or no state requested by the caller

DeliveryStates ==
    {"RESERVED", "VALIDATING", "SENDING", "SENT", "PROOF_PENDING",
     "CONFIRMED", "BLOCKED", "FAILED_PRE_SEND", "AMBIGUOUS", "RECONCILED"}

Success == {"CONFIRMED", "RECONCILED"}

\* Mutant: a row is taken for unsent until the answer arrives.
NoBlindRetryOnceAnswered ==
    DeliveryStates \ {"RESERVED", "VALIDATING", "SENDING", "FAILED_PRE_SEND"}

\* Transmission may have started: the row is never reserved again.
NoBlindRetry == DeliveryStates \ {"RESERVED", "VALIDATING", "FAILED_PRE_SEND"}

\* What the bot's callers ask for, as the policy reads it.
Alias ==
    [sent |-> "SENT", skipped |-> "BLOCKED", blocked |-> "BLOCKED",
     failed |-> "FAILED_PRE_SEND", reconciled |-> "RECONCILED",
     unspecified |-> NoState]

\* A last_error: absent, an ordinary text, or one that carries
\* AMBIGUOUS_ERROR_MARKER.
Errors == {"none", "plain", "ambiguous"}

Canonical(requested, acked, error) ==
    CASE error = "ambiguous"      -> "AMBIGUOUS"
      [] error # "ambiguous" /\ acked ->
             IF requested = "RECONCILED" THEN "RECONCILED" ELSE "CONFIRMED"
      [] error # "ambiguous" /\ ~acked /\ requested # NoState -> requested
      [] OTHER -> IF error = "none" THEN "RESERVED" ELSE "FAILED_PRE_SEND"

Ranked == {"RESERVED", "VALIDATING", "SENDING", "SENT", "PROOF_PENDING"}

Rank == [s \in Ranked |-> CASE s = "RESERVED"   -> 0
                            [] s = "VALIDATING" -> 1
                            [] s = "SENDING"    -> 2
                            [] s = "SENT"       -> 3
                            [] OTHER            -> 4]

\* Mutant: the unknown outcome is not absorbing.
TransitionIgnoresAmbiguity(current, target, proofOk) ==
    CASE current \in Success -> target \in Success
      [] current \notin Success /\ target \in Success -> proofOk
      [] OTHER ->
           /\ current = "BLOCKED" => target = "BLOCKED"
           /\ current \in {"SENT", "PROOF_PENDING"} =>
                 target \in {"SENT", "PROOF_PENDING"}
           /\ current \in Ranked /\ target \in Ranked =>
                 Rank[target] >= Rank[current]

TransitionAllowed(current, target, proofOk) ==
    CASE current \in Success -> target \in Success
      [] current \notin Success /\ target \in Success -> proofOk
      [] OTHER ->
           /\ current # "AMBIGUOUS"
           /\ current = "BLOCKED" => target = "BLOCKED"
           /\ current \in {"SENT", "PROOF_PENDING"} =>
                 target \in {"SENT", "PROOF_PENDING"}
           /\ current \in Ranked /\ target \in Ranked =>
                 Rank[target] >= Rank[current]
=============================================================================
