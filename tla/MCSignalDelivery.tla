-------------------------- MODULE MCSignalDelivery --------------------------
(***************************************************************************)
(* Instances of SignalDelivery for TLC.                                    *)
(***************************************************************************)
EXTENDS SignalDelivery, TLC

CONSTANTS w1, w2   \* workers

\* All signals on one asset, or each on its own; regenerated or distinct theses.
OneAsset == [s \in Signals |-> "asset"]

OwnAsset == [s \in Signals |-> s]

OwnThesis == [s \in Signals |-> s]

\* Signals are interchangeable, and so are workers of the same kind.
SafetySymmetry ==
    Permutations(Signals)
        \cup {p @@ [w \in Dispatchers |-> w] : p \in Permutations(Workers \ Dispatchers)}
=============================================================================
