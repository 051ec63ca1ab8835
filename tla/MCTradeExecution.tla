-------------------------- MODULE MCTradeExecution --------------------------
(* Instances of TradeExecution for TLC. *)
EXTENDS TradeExecution, TLC

Interchangeable == Permutations(Calls) \cup Permutations(Processes) \cup Permutations(Keys)
=============================================================================
