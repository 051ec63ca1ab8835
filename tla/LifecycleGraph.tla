--------------------------- MODULE LifecycleGraph ---------------------------
(***************************************************************************)
(* The monotonic lifecycle graph of a signal and the ordering of outcome   *)
(* statuses (core/signal_lifecycle.py).  Pure operators; the durable rows  *)
(* that follow them live in OutcomeTracking.                               *)
(***************************************************************************)
EXTENDS Naturals

Terminal == {"TP3_HIT", "SL_HIT", "BREAKEVEN_STOP", "MISSED_ENTRY", "EXPIRED"}

LifecycleStates ==
    {"WATCHING_FOR_ENTRY", "ACTIVE_TRADE", "TP1_HIT", "TP2_HIT"} \cup Terminal

\* halfway_to_tp1 and breakeven_moved keep an active trade active: left out.
StateOf ==
    [entry_touched |-> "ACTIVE_TRADE", tp1_hit |-> "TP1_HIT", tp2_hit |-> "TP2_HIT",
     tp3_hit |-> "TP3_HIT", sl_hit |-> "SL_HIT", breakeven_stop |-> "BREAKEVEN_STOP",
     missed_entry |-> "MISSED_ENTRY", expired |-> "EXPIRED"]

Events == DOMAIN StateOf

TargetEvent == <<"tp1_hit", "tp2_hit", "tp3_hit">>

Onward ==
    [s \in LifecycleStates |->
        CASE s = "WATCHING_FOR_ENTRY" -> {"ACTIVE_TRADE", "MISSED_ENTRY", "EXPIRED"}
          [] s = "ACTIVE_TRADE" -> {"TP1_HIT", "TP2_HIT", "TP3_HIT", "SL_HIT", "EXPIRED"}
          [] s = "TP1_HIT" -> {"TP2_HIT", "TP3_HIT", "BREAKEVEN_STOP", "EXPIRED"}
          [] s = "TP2_HIT" -> {"TP3_HIT", "BREAKEVEN_STOP", "EXPIRED"}
          [] OTHER -> {}]

\* Mutant: a stop is a stop, whether or not a target was reached.
AllowedTargetsUnprotected ==
    [s \in LifecycleStates |->
        {s} \cup Onward[s] \cup (IF s \in {"TP1_HIT", "TP2_HIT"} THEN {"SL_HIT"} ELSE {})]

AllowedTargets == [s \in LifecycleStates |-> {s} \cup Onward[s]]

\* highest_tp_for_state
TargetOf ==
    [s \in LifecycleStates |->
        CASE s = "TP1_HIT" -> 1 [] s = "TP2_HIT" -> 2 [] s = "TP3_HIT" -> 3 [] OTHER -> 0]

-----------------------------------------------------------------------------
(* Outcome statuses. *)

Absent == "absent"     \* no outcomes row, or no status to speak of

\* Mutant: targets counted from zero.
TargetStatusFromZero == <<"tp0", "tp1", "tp2">>

TargetStatus == <<"tp1", "tp2", "tp3">>

Final == {"tp", "tp3", "sl", "partial_win_be", "time_stop", "missed_entry", "expired", "invalid"}

Statuses == {Absent, "pending", "tp1", "tp2"} \cup Final

OutcomeFor ==
    [s \in LifecycleStates |->
        CASE s = "TP1_HIT" -> "tp1" [] s = "TP2_HIT" -> "tp2" [] s = "TP3_HIT" -> "tp3"
          [] s = "SL_HIT" -> "sl" [] s = "BREAKEVEN_STOP" -> "partial_win_be"
          [] s = "MISSED_ENTRY" -> "missed_entry" [] s = "EXPIRED" -> "expired"
          [] OTHER -> Absent]

\* The target a status stands for: highest_tp_for_state(lifecycle_state_for_outcome).
StatusTarget ==
    [o \in Statuses |->
        CASE o = "tp1" -> 1 [] o = "tp2" -> 2 [] o \in {"tp", "tp3"} -> 3 [] OTHER -> 0]

\* outcome_transition_allowed
OutcomeMoveAllowed(current, target) ==
    \/ current = target
    \/ /\ current \notin Final
       /\ target \in Final \/ StatusTarget[target] >= StatusTarget[current]
=============================================================================
