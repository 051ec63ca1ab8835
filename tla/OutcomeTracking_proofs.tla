----------------------- MODULE OutcomeTracking_proofs -----------------------
(***************************************************************************)
(* Theorems of OutcomeTracking, for any trackers and projectors.  A       *)
(* signal resolved by hand makes the trackers skip targets and says of the *)
(* outcome what an administrator likes: what such a resolution spoils      *)
(* holds of a system without them (Orderly), everything else of any.       *)
(***************************************************************************)
EXTENDS OutcomeTracking, TLAPS

-----------------------------------------------------------------------------
(* The inductive invariant. *)

\* Nobody resolves signals by hand.
Orderly == ~AdminResolves

\* Every move of the lifecycle takes it forward, and an end is for good.
Grows(l, m) == /\ l.tp <= m.tp
               /\ l.state # "WATCHING_FOR_ENTRY" => m.state # "WATCHING_FOR_ENTRY"
               /\ l.state \in Terminal => m = l

LifecycleInv ==
    /\ lifecycle \in Lifecycles
    /\ ledger \subseteq Events
    /\ \A e \in Events : StateOf[e] = lifecycle.state => e \in ledger
    /\ \A e \in ledger : StateOf[e] \in Terminal => StateOf[e] = lifecycle.state
    /\ lifecycle.state = "WATCHING_FOR_ENTRY" => ledger = {}
    /\ lifecycle.state \notin {"BREAKEVEN_STOP", "EXPIRED"} =>
          lifecycle.tp = TargetOf[lifecycle.state]
    /\ lifecycle.state \in {"ACTIVE_TRADE", "TP1_HIT", "TP2_HIT"} => "entry_touched" \in ledger
    /\ \A i \in 1 .. 3 : TargetEvent[i] \in ledger => i <= lifecycle.tp
    /\ Orderly => LedgerCoherent

\* The next target is on record: it remains to persist or to note it.
Recorded(r) == \/ r.pc = "noting"
               \/ r.pc \in {"persisting", "inserting"} /\ r.goal > 0

\* What a tracker believes was true once, and it never overtakes the lifecycle.
Believable(r, l) ==
    /\ r.state \in Terminal => l.state = r.state
    /\ TargetOf[r.state] <= l.tp
    /\ Orderly /\ l.state \notin Terminal => r.tp <= l.tp
    /\ r.state # "WATCHING_FOR_ENTRY" => l.state # "WATCHING_FOR_ENTRY"
    /\ r.pc = "climbing" \/ Recorded(r) => r.state # "WATCHING_FOR_ENTRY"
    /\ r.pc \in {"loaded", "primed"} => r.goal = 0
    /\ r.pc \in {"climbing", "noting"} => r.tp < r.goal
    /\ r.pc \in {"persisting", "inserting"} =>
          /\ Supports(l, r.status) /\ r.status # Absent
          /\ r.goal > 0 => r.tp < r.goal
    /\ Recorded(r) /\ l.state \notin Terminal => r.tp + 1 <= l.tp

Faithful(o, l) == Orderly => BorneOut(l, o.status)

\* What a projection is about to write, the lifecycle bears out.
Justified(q, l) == q.pc = "holding" => Supports(l, q.status) /\ q.status # Absent

TrackersInv ==
    /\ tracker \in [Trackers -> TrackerStates]
    /\ \A t \in Trackers : Believable(tracker[t], lifecycle)

OutcomeInv == outcome \in Outcomes /\ Faithful(outcome, lifecycle)

ProjectorsInv ==
    /\ projector \in [Projectors -> ProjectorStates]
    /\ \A p \in Projectors : Justified(projector[p], lifecycle)

CacheInv == cache \in 0 .. 3 /\ ProgressNotAhead

IInv ==
    /\ LifecycleInv /\ CacheInv /\ TrackersInv /\ OutcomeInv /\ ProjectorsInv
    /\ archived \in BOOLEAN
    /\ repairing \in BOOLEAN

\* The partial-exit repair is after a trade that reached a target.
RepairInv == repairing => lifecycle.tp >= 1

-----------------------------------------------------------------------------
(* The tables of the lifecycle graph. *)

LEMMA StateTables ==
    /\ StateOf \in [Events -> LifecycleStates \ {"WATCHING_FOR_ENTRY"}]
    /\ \A e, f \in Events : StateOf[e] = StateOf[f] => e = f
    /\ TargetOf \in [LifecycleStates -> 0 .. 3]
    /\ OutcomeFor \in [LifecycleStates -> Statuses]
    /\ StatusTarget \in [Statuses -> 0 .. 3]
    /\ Final \subseteq Statuses
    /\ Terminal \subseteq LifecycleStates
  BY DEF StateOf, Events, LifecycleStates, Terminal, TargetOf, OutcomeFor, Statuses, Final,
         Absent, StatusTarget

LEMMA OutcomeTables ==
    ASSUME NEW s \in LifecycleStates
    PROVE  /\ OutcomeFor[s] \in Final <=> s \in Terminal
           /\ StatusTarget[OutcomeFor[s]] = TargetOf[s]
           /\ s = "EXPIRED" => OutcomeFor[s] = "expired"
  BY DEF LifecycleStates, Terminal, TargetOf, OutcomeFor, Statuses, Final, Absent, StatusTarget

LEMMA TargetTables ==
    ASSUME NEW i \in 1 .. 3
    PROVE  /\ TargetEvent[i] \in Events
           /\ TargetStatus[i] \in Statuses \ {Absent}
           /\ TargetOf[StateOf[TargetEvent[i]]] = i
           /\ TargetStatus[i] = OutcomeFor[StateOf[TargetEvent[i]]]
  BY DEF TargetEvent, TargetStatus, Events, StateOf, TargetOf, OutcomeFor, Statuses, Final,
         Absent, LifecycleStates, Terminal

\* A move never takes the targets back, and only the entry leads out of the wait.
LEMMA OnwardTables ==
    ASSUME NEW s \in LifecycleStates, NEW u \in Onward[s]
    PROVE  /\ s \notin Terminal
           /\ u \notin {"BREAKEVEN_STOP", "EXPIRED"} => TargetOf[s] <= TargetOf[u]
           /\ s = "WATCHING_FOR_ENTRY" /\ u \in {"ACTIVE_TRADE", "TP1_HIT", "TP2_HIT"} =>
                 u = "ACTIVE_TRADE"
           /\ s # "WATCHING_FOR_ENTRY" => u # "ACTIVE_TRADE"
<1>1. /\ TargetOf["WATCHING_FOR_ENTRY"] = 0 /\ TargetOf["ACTIVE_TRADE"] = 0
      /\ TargetOf["TP1_HIT"] = 1 /\ TargetOf["TP2_HIT"] = 2 /\ TargetOf["TP3_HIT"] = 3
      /\ TargetOf["SL_HIT"] = 0 /\ TargetOf["MISSED_ENTRY"] = 0
  BY DEF TargetOf, LifecycleStates, Terminal
<1>2. /\ Onward["WATCHING_FOR_ENTRY"] = {"ACTIVE_TRADE", "MISSED_ENTRY", "EXPIRED"}
      /\ Onward["ACTIVE_TRADE"] = {"TP1_HIT", "TP2_HIT", "TP3_HIT", "SL_HIT", "EXPIRED"}
      /\ Onward["TP1_HIT"] = {"TP2_HIT", "TP3_HIT", "BREAKEVEN_STOP", "EXPIRED"}
      /\ Onward["TP2_HIT"] = {"TP3_HIT", "BREAKEVEN_STOP", "EXPIRED"}
      /\ \A x \in Terminal : Onward[x] = {}
  BY DEF Onward, LifecycleStates, Terminal
<1>3. s \in {"WATCHING_FOR_ENTRY", "ACTIVE_TRADE", "TP1_HIT", "TP2_HIT"}
  BY <1>2 DEF LifecycleStates
<1> QED
  BY <1>1, <1>2, <1>3 DEF Terminal

-----------------------------------------------------------------------------
(* Everything believed stays true as the lifecycle grows. *)

LEMMA SupportsGrows ==
    ASSUME NEW l \in Lifecycles, NEW m \in Lifecycles, NEW status \in Statuses,
           Supports(l, status), Grows(l, m)
    PROVE  Supports(m, status)
  BY StateTables DEF Supports, Grows, Lifecycles

LEMMA BelievableGrows ==
    ASSUME NEW l \in Lifecycles, NEW m \in Lifecycles, NEW r \in TrackerStates,
           Believable(r, l), Grows(l, m)
    PROVE  Believable(r, m)
<1>1. r.status \in Statuses /\ r.tp \in 0 .. 3 /\ r.state \in LifecycleStates
  BY DEF TrackerStates
<1>2. Supports(l, r.status) => Supports(m, r.status)
  BY <1>1, SupportsGrows
<1>3. TargetOf[r.state] \in 0 .. 3
  BY <1>1, StateTables
<1> QED
  BY <1>1, <1>2, <1>3 DEF Believable, Grows, Lifecycles

LEMMA FaithfulGrows ==
    ASSUME NEW l \in Lifecycles, NEW m \in Lifecycles, NEW o \in Outcomes,
           Faithful(o, l), Grows(l, m)
    PROVE  Faithful(o, m)
<1>1. o.status \in Statuses /\ l.tp \in 0 .. 3 /\ m.tp \in 0 .. 3
  BY DEF Outcomes, Lifecycles
<1> QED
  BY <1>1, SupportsGrows DEF Faithful, BorneOut, Grows

LEMMA JustifiedGrows ==
    ASSUME NEW l \in Lifecycles, NEW m \in Lifecycles, NEW q \in ProjectorStates,
           Justified(q, l), Grows(l, m)
    PROVE  Justified(q, m)
  BY SupportsGrows DEF Justified, Grows, ProjectorStates

-----------------------------------------------------------------------------
(* Recording an event keeps the rows consistent, and the ledger coherent when the *)
(* targets come in order.                                                         *)

InOrder(e) == \A i \in 1 .. 3 : e = TargetEvent[i] /\ lifecycle.state \notin Terminal =>
                                   i <= lifecycle.tp + 1

LEMMA OneByOne ==
    ASSUME LifecycleInv, NEW e \in Events, Record(e)
    PROVE  /\ lifecycle.state \notin Terminal
           /\ lifecycle' \in Lifecycles
           /\ lifecycle'.state = StateOf[e]
           /\ lifecycle.tp <= lifecycle'.tp
           /\ TargetOf[StateOf[e]] <= lifecycle'.tp
<1>1. /\ e \notin ledger
      /\ StateOf[e] \in AllowedTargets[lifecycle.state]
      /\ lifecycle' = [state |-> StateOf[e],
                       tp |-> Larger(lifecycle.tp, TargetOf[StateOf[e]])]
      /\ StateOf[e] # lifecycle.state
      /\ lifecycle \in Lifecycles
  BY DEF Record, Accepts, LifecycleInv
<1>2. lifecycle.state \in LifecycleStates /\ lifecycle.tp \in 0 .. 3
  BY <1>1 DEF Lifecycles
<1>3. lifecycle.state \notin Terminal
  BY <1>1, <1>2 DEF AllowedTargets, Onward, Terminal, LifecycleStates
<1>4. StateOf[e] \in LifecycleStates /\ TargetOf[StateOf[e]] \in 0 .. 3
  BY StateTables
<1> QED
  BY <1>1, <1>2, <1>3, <1>4 DEF Lifecycles, Larger

\* Where the lifecycle comes from when an event is accepted, and where it goes.
LEMMA Sources ==
    ASSUME LifecycleInv, NEW e \in Events, Record(e), InOrder(e)
    PROVE  /\ ledger' = ledger \cup {e}
           /\ lifecycle'.state = StateOf[e]
           /\ \/ /\ e \in {"entry_touched", "missed_entry"}
                 /\ lifecycle.state = "WATCHING_FOR_ENTRY"
                 /\ lifecycle.tp = 0 /\ lifecycle'.tp = 0
              \/ \E i \in 1 .. 3 :
                    /\ e = TargetEvent[i]
                    /\ lifecycle.state \in {"ACTIVE_TRADE", "TP1_HIT", "TP2_HIT"}
                    /\ lifecycle.tp = i - 1 /\ lifecycle'.tp = i
              \/ /\ e = "sl_hit"
                 /\ lifecycle.state = "ACTIVE_TRADE"
                 /\ lifecycle.tp = 0 /\ lifecycle'.tp = 0
              \/ /\ e = "breakeven_stop"
                 /\ lifecycle.state \in {"TP1_HIT", "TP2_HIT"}
                 /\ lifecycle.tp \in 1 .. 2 /\ lifecycle'.tp = lifecycle.tp
              \/ /\ e = "expired"
                 /\ lifecycle.tp \in 0 .. 2 /\ lifecycle'.tp = lifecycle.tp
<1>1. /\ StateOf[e] \in AllowedTargets[lifecycle.state] \ {lifecycle.state}
      /\ ledger' = ledger \cup {e}
      /\ lifecycle' = [state |-> StateOf[e],
                       tp |-> Larger(lifecycle.tp, TargetOf[StateOf[e]])]
      /\ lifecycle.state \in LifecycleStates \ Terminal /\ lifecycle.tp \in 0 .. 3
  BY OneByOne DEF Record, Accepts, LifecycleInv, Lifecycles
<1>2. /\ lifecycle.tp = TargetOf[lifecycle.state]
      /\ \A i \in 1 .. 3 : e = TargetEvent[i] => i <= lifecycle.tp + 1
  BY <1>1 DEF LifecycleInv, InOrder, Terminal
<1>3. /\ lifecycle'.state = StateOf[e]
      /\ lifecycle'.tp = Larger(lifecycle.tp, TargetOf[StateOf[e]])
  BY <1>1
<1>4. StateOf[e] \in Onward[lifecycle.state]
  BY <1>1 DEF AllowedTargets
<1>5. CASE lifecycle.state = "WATCHING_FOR_ENTRY"
  <2>1. lifecycle.tp = 0 /\ e \in {"entry_touched", "missed_entry", "expired"}
    BY <1>1, <1>2, <1>4, <1>5 DEF Onward, StateOf, Events, TargetOf, LifecycleStates
  <2> QED
    BY <1>1, <1>3, <1>5, <2>1 DEF Larger, StateOf, TargetOf, LifecycleStates, Terminal
<1>6. CASE lifecycle.state = "ACTIVE_TRADE"
  <2>1. lifecycle.tp = 0 /\ e \in {"tp1_hit", "tp2_hit", "tp3_hit", "sl_hit", "expired"}
    BY <1>1, <1>2, <1>4, <1>6 DEF Onward, StateOf, Events, TargetOf, LifecycleStates
  <2>2. e \notin {"tp2_hit", "tp3_hit"}
    BY <1>2, <2>1 DEF TargetEvent
  <2> QED
    BY <1>1, <1>3, <1>6, <2>1, <2>2
       DEF Larger, StateOf, TargetOf, LifecycleStates, Terminal, TargetEvent
<1>7. CASE lifecycle.state = "TP1_HIT"
  <2>1. lifecycle.tp = 1 /\ e \in {"tp2_hit", "tp3_hit", "breakeven_stop", "expired"}
    BY <1>1, <1>2, <1>4, <1>7 DEF Onward, StateOf, Events, TargetOf, LifecycleStates
  <2>2. e # "tp3_hit"
    BY <1>2, <2>1 DEF TargetEvent
  <2> QED
    BY <1>1, <1>3, <1>7, <2>1, <2>2
       DEF Larger, StateOf, TargetOf, LifecycleStates, Terminal, TargetEvent
<1>8. CASE lifecycle.state = "TP2_HIT"
  <2>1. lifecycle.tp = 2 /\ e \in {"tp3_hit", "breakeven_stop", "expired"}
    BY <1>1, <1>2, <1>4, <1>8 DEF Onward, StateOf, Events, TargetOf, LifecycleStates
  <2> QED
    BY <1>1, <1>3, <1>8, <2>1
       DEF Larger, StateOf, TargetOf, LifecycleStates, Terminal, TargetEvent
<1> QED
  BY <1>1, <1>5, <1>6, <1>7, <1>8 DEF LifecycleStates, Terminal

\* In whatever order the targets come, the row follows from the events.
LEMMA RecordMoves ==
    ASSUME LifecycleInv, NEW e \in Events, Record(e)
    PROVE  /\ Grows(lifecycle, lifecycle')
           /\ ledger' \subseteq Events
           /\ \A f \in Events : StateOf[f] = lifecycle'.state => f \in ledger'
           /\ \A f \in ledger' : StateOf[f] \in Terminal => StateOf[f] = lifecycle'.state
           /\ lifecycle'.state # "WATCHING_FOR_ENTRY"
           /\ lifecycle'.state \notin {"BREAKEVEN_STOP", "EXPIRED"} =>
                 lifecycle'.tp = TargetOf[lifecycle'.state]
           /\ lifecycle'.state \in {"ACTIVE_TRADE", "TP1_HIT", "TP2_HIT"} =>
                 "entry_touched" \in ledger'
           /\ \A i \in 1 .. 3 : TargetEvent[i] \in ledger' => i <= lifecycle'.tp
<1>1. /\ lifecycle' \in Lifecycles /\ lifecycle \in Lifecycles
      /\ lifecycle.state \in LifecycleStates \ Terminal
      /\ lifecycle.tp \in 0 .. 3 /\ lifecycle'.tp \in 0 .. 3
      /\ ledger \subseteq Events
      /\ lifecycle.tp <= lifecycle'.tp
      /\ lifecycle'.state = StateOf[e]
      /\ TargetOf[StateOf[e]] <= lifecycle'.tp
  BY OneByOne DEF LifecycleInv, Lifecycles
<1>2. /\ ledger' = ledger \cup {e}
      /\ lifecycle'.tp = Larger(lifecycle.tp, TargetOf[StateOf[e]])
      /\ StateOf[e] \in AllowedTargets[lifecycle.state]
      /\ StateOf[e] # lifecycle.state
  BY DEF Record, Accepts, LifecycleInv
<1>3. StateOf[e] \in Onward[lifecycle.state]
  BY <1>1, <1>2 DEF AllowedTargets
<1>4. lifecycle'.state # "WATCHING_FOR_ENTRY"
  BY <1>1, StateTables
<1>5. Grows(lifecycle, lifecycle')
  BY <1>1, <1>4 DEF Grows
<1>6. \A f \in Events : StateOf[f] = lifecycle'.state => f \in ledger'
  BY <1>1, <1>2, StateTables
<1>7. \A f \in ledger' : StateOf[f] \in Terminal => StateOf[f] = lifecycle'.state
  BY <1>1, <1>2 DEF LifecycleInv
<1>8. lifecycle'.state \notin {"BREAKEVEN_STOP", "EXPIRED"} =>
         lifecycle'.tp = TargetOf[lifecycle'.state]
  <2>1. lifecycle.tp = TargetOf[lifecycle.state]
    BY <1>1 DEF LifecycleInv, Terminal
  <2>2. TargetOf[lifecycle.state] \in 0 .. 3 /\ TargetOf[StateOf[e]] \in 0 .. 3
    BY <1>1, StateTables
  <2>3. StateOf[e] \notin {"BREAKEVEN_STOP", "EXPIRED"} =>
           TargetOf[lifecycle.state] <= TargetOf[StateOf[e]]
    BY <1>1, <1>3, OnwardTables
  <2> QED
    BY <1>1, <1>2, <2>1, <2>2, <2>3 DEF Larger
<1>9. lifecycle'.state \in {"ACTIVE_TRADE", "TP1_HIT", "TP2_HIT"} => "entry_touched" \in ledger'
  <2>1. CASE lifecycle.state = "WATCHING_FOR_ENTRY"
    <3>1. "entry_touched" \in Events /\ StateOf["entry_touched"] = "ACTIVE_TRADE"
      BY DEF Events, StateOf
    <3> QED
      BY <1>1, <1>3, <1>6, <2>1, <3>1, OnwardTables
  <2>2. CASE lifecycle.state # "WATCHING_FOR_ENTRY"
    BY <1>1, <1>2, <2>2 DEF LifecycleInv, LifecycleStates
  <2> QED
    BY <2>1, <2>2
<1>10. \A i \in 1 .. 3 : TargetEvent[i] \in ledger' => i <= lifecycle'.tp
  BY <1>1, <1>2, TargetTables DEF LifecycleInv
<1> QED
  BY <1>1, <1>2, <1>4, <1>5, <1>6, <1>7, <1>8, <1>9, <1>10

LEMMA RecordCoherent ==
    ASSUME LifecycleInv, LedgerCoherent, NEW e \in Events, Record(e), InOrder(e)
    PROVE  LedgerCoherent'
<1>1. /\ lifecycle.state \in LifecycleStates \ Terminal
      /\ ledger \subseteq Events
  BY OneByOne DEF LifecycleInv, Lifecycles
<1>2. ledger' = ledger \cup {e} /\ lifecycle'.state = StateOf[e]
  BY Sources
<1>3. \A f \in ledger : StateOf[f] \notin Terminal
  BY <1>1 DEF LifecycleInv
<1>4. \A f, g \in ledger' : StateOf[f] \in Terminal /\ StateOf[g] \in Terminal => f = g
  BY <1>1, <1>2, <1>3
<1>5. /\ lifecycle.state = "WATCHING_FOR_ENTRY" => ledger = {}
      /\ lifecycle.state \in {"ACTIVE_TRADE", "TP1_HIT", "TP2_HIT"} => "entry_touched" \in ledger
      /\ \A i \in 1 .. 3 : TargetEvent[i] \in ledger <=> i <= lifecycle.tp
      /\ "sl_hit" \notin ledger /\ "breakeven_stop" \notin ledger /\ "missed_entry" \notin ledger
      /\ ledger \cap {"tp1_hit", "sl_hit"} # {} => "entry_touched" \in ledger
  BY <1>3 DEF LifecycleInv, LedgerCoherent, StateOf, Terminal
<1>6. CASE e \in {"entry_touched", "missed_entry"} /\ lifecycle.state = "WATCHING_FOR_ENTRY"
            /\ lifecycle.tp = 0 /\ lifecycle'.tp = 0
  <2>1. \A i \in 1 .. 3 : TargetEvent[i] \in ledger' <=> i <= lifecycle'.tp
    BY <1>2, <1>5, <1>6 DEF TargetEvent
  <2> QED
    BY <1>2, <1>4, <1>5, <1>6, <2>1 DEF LedgerCoherent
<1>7. ASSUME NEW i \in 1 .. 3, e = TargetEvent[i],
              lifecycle.state \in {"ACTIVE_TRADE", "TP1_HIT", "TP2_HIT"},
              lifecycle.tp = i - 1, lifecycle'.tp = i
       PROVE  LedgerCoherent'
  <2>1. \A j \in 1 .. 3 : TargetEvent[j] \in ledger' <=> j <= lifecycle'.tp
    <3>1. \A j \in 1 .. 3 : TargetEvent[j] = e <=> j = i
      BY <1>7 DEF TargetEvent
    <3> QED
      BY <1>2, <1>5, <1>7, <3>1
  <2>2. e \in {"tp1_hit", "tp2_hit", "tp3_hit"}
    BY <1>7 DEF TargetEvent
  <2> QED
    BY <1>2, <1>4, <1>5, <1>7, <2>1, <2>2 DEF LedgerCoherent
<1>8. CASE e = "sl_hit" /\ lifecycle.state = "ACTIVE_TRADE" /\ lifecycle.tp = 0 /\ lifecycle'.tp = 0
  <2>1. \A i \in 1 .. 3 : TargetEvent[i] \in ledger' <=> i <= lifecycle'.tp
    BY <1>2, <1>5, <1>8 DEF TargetEvent
  <2> QED
    BY <1>2, <1>4, <1>5, <1>8, <2>1 DEF LedgerCoherent
<1>9. CASE e = "breakeven_stop" /\ lifecycle.state \in {"TP1_HIT", "TP2_HIT"}
            /\ lifecycle.tp \in 1 .. 2 /\ lifecycle'.tp = lifecycle.tp
  <2>1. \A i \in 1 .. 3 : TargetEvent[i] \in ledger' <=> i <= lifecycle'.tp
    BY <1>2, <1>5, <1>9 DEF TargetEvent
  <2> QED
    BY <1>2, <1>4, <1>5, <1>9, <2>1 DEF LedgerCoherent
<1>10. CASE e = "expired" /\ lifecycle.tp \in 0 .. 2 /\ lifecycle'.tp = lifecycle.tp
  <2>1. \A i \in 1 .. 3 : TargetEvent[i] \in ledger' <=> i <= lifecycle'.tp
    BY <1>2, <1>5, <1>10 DEF TargetEvent
  <2> QED
    BY <1>2, <1>4, <1>5, <1>10, <2>1 DEF LedgerCoherent
<1> QED
  BY <1>6, <1>7, <1>8, <1>9, <1>10, Sources

LEMMA RecordKeeps ==
    ASSUME LifecycleInv, NEW e \in Events, Record(e), Orderly => InOrder(e)
    PROVE  LifecycleInv' /\ Grows(lifecycle, lifecycle')
<1>1. Orderly => LedgerCoherent'
  BY RecordCoherent DEF LifecycleInv
<1>2. lifecycle' \in Lifecycles
  BY OneByOne
<1> QED
  BY <1>1, <1>2, RecordMoves DEF LifecycleInv

-----------------------------------------------------------------------------
(* What a step leaves alone stays good; what it replaces must be good. *)

LEMMA Steady ==
    ASSUME LifecycleInv, KeepLifecycle
    PROVE  LifecycleInv' /\ Grows(lifecycle, lifecycle')
  BY DEF LifecycleInv, KeepLifecycle, Grows, LedgerCoherent, Lifecycles

LEMMA CacheKept ==
    ASSUME LifecycleInv, LifecycleInv', Grows(lifecycle, lifecycle'), CacheInv, UNCHANGED cache
    PROVE  CacheInv'
  BY DEF LifecycleInv, Lifecycles, Grows, CacheInv, ProgressNotAhead

LEMMA TrackersKept ==
    ASSUME LifecycleInv, LifecycleInv', Grows(lifecycle, lifecycle'), TrackersInv,
           UNCHANGED tracker
    PROVE  TrackersInv'
<1>1. lifecycle \in Lifecycles /\ lifecycle' \in Lifecycles
  BY DEF LifecycleInv
<1>2. ASSUME NEW t \in Trackers
      PROVE  Believable(tracker[t], lifecycle')
  BY <1>1, BelievableGrows DEF TrackersInv
<1> QED
  BY <1>2 DEF TrackersInv, Believable, Supports, Recorded

LEMMA TrackerReplaced ==
    ASSUME LifecycleInv, LifecycleInv', Grows(lifecycle, lifecycle'), TrackersInv,
           NEW t \in Trackers, NEW r \in TrackerStates, Believable(r, lifecycle'), Become(t, r)
    PROVE  TrackersInv'
<1>1. lifecycle \in Lifecycles /\ lifecycle' \in Lifecycles
  BY DEF LifecycleInv
<1>2. tracker' \in [Trackers -> TrackerStates]
  BY DEF TrackersInv, Become
<1>3. ASSUME NEW x \in Trackers
      PROVE  Believable(tracker'[x], lifecycle')
  <2>1. CASE x = t
    BY <2>1 DEF TrackersInv, Become
  <2>2. CASE x # t
    <3>1. tracker'[x] = tracker[x] /\ tracker[x] \in TrackerStates
      BY <2>2 DEF TrackersInv, Become
    <3> QED
      BY <1>1, <3>1, BelievableGrows DEF TrackersInv
  <2> QED
    BY <2>1, <2>2
<1> QED
  BY <1>2, <1>3 DEF TrackersInv, Believable, Supports, Recorded

LEMMA OutcomeKept ==
    ASSUME LifecycleInv, LifecycleInv', Grows(lifecycle, lifecycle'), OutcomeInv,
           UNCHANGED outcome
    PROVE  OutcomeInv'
<1>1. Faithful(outcome, lifecycle')
  BY FaithfulGrows DEF LifecycleInv, OutcomeInv
<1> QED
  BY <1>1 DEF OutcomeInv, Faithful, BorneOut, Supports

LEMMA ProjectorsKept ==
    ASSUME LifecycleInv, LifecycleInv', Grows(lifecycle, lifecycle'), ProjectorsInv,
           UNCHANGED projector
    PROVE  ProjectorsInv'
<1>1. ASSUME NEW p \in Projectors
      PROVE  Justified(projector[p], lifecycle')
  BY JustifiedGrows DEF LifecycleInv, ProjectorsInv
<1> QED
  BY <1>1 DEF ProjectorsInv, Justified, Supports

LEMMA IdleBelievable ==
    ASSUME NEW l \in Lifecycles
    PROVE  IdleTracker \in TrackerStates /\ Believable(IdleTracker, l)
<1>1. TargetOf["WATCHING_FOR_ENTRY"] = 0 /\ "WATCHING_FOR_ENTRY" \in LifecycleStates \ Terminal
  BY DEF TargetOf, LifecycleStates, Terminal
<1>2. IdleTracker \in TrackerStates
  BY <1>1 DEF IdleTracker, TrackerStates, TrackerPcs, Statuses
<1> QED
  BY <1>1, <1>2 DEF IdleTracker, Believable, Recorded, Lifecycles

LEMMA RestGood ==
    ASSUME LifecycleInv, LifecycleInv', Grows(lifecycle, lifecycle'), TrackersInv,
           NEW t \in Trackers, Rest(t)
    PROVE  TrackersInv'
<1>1. lifecycle' \in Lifecycles
  BY DEF LifecycleInv
<1> QED
  BY <1>1, IdleBelievable, TrackerReplaced DEF Rest

-----------------------------------------------------------------------------
(* The steps of a tracker. *)

LEMMA TrackerMoves ==
    ASSUME IInv, LifecycleInv', Grows(lifecycle, lifecycle'),
           NEW t \in Trackers, NEW r \in TrackerStates, Believable(r, lifecycle'), Become(t, r),
           KeepOutcome, KeepRepairs, UNCHANGED cache
    PROVE  IInv'
<1>1. LifecycleInv /\ CacheInv /\ TrackersInv /\ OutcomeInv /\ ProjectorsInv
  BY DEF IInv
<1>2. CacheInv' /\ OutcomeInv' /\ ProjectorsInv'
  BY <1>1, CacheKept, OutcomeKept, ProjectorsKept DEF KeepOutcome, KeepRepairs
<1>3. TrackersInv'
  BY <1>1, TrackerReplaced
<1> QED
  BY <1>2, <1>3 DEF IInv, KeepOutcome, KeepRepairs

LEMMA Believes ==
    ASSUME IInv, NEW t \in Trackers
    PROVE  /\ tracker[t] \in TrackerStates
           /\ Believable(tracker[t], lifecycle)
           /\ lifecycle \in Lifecycles
           /\ outcome \in Outcomes /\ Faithful(outcome, lifecycle)
  BY DEF IInv, TrackersInv, LifecycleInv, OutcomeInv

LEMMA Rests ==
    ASSUME IInv, LifecycleInv', Grows(lifecycle, lifecycle'), NEW t \in Trackers, Rest(t),
           KeepOutcome, KeepRepairs, UNCHANGED cache
    PROVE  IInv'
<1>1. lifecycle' \in Lifecycles
  BY DEF LifecycleInv
<1> QED
  BY <1>1, IdleBelievable, TrackerMoves DEF Rest

LEMMA LoadedGood ==
    ASSUME IInv, LifecycleInv', Grows(lifecycle, lifecycle'), UNCHANGED lifecycle,
           NEW t \in Trackers, NEW s \in LifecycleStates, NEW n \in 0 .. 3, NEW o \in Statuses,
           s \in Terminal => lifecycle.state = s,
           s # "WATCHING_FOR_ENTRY" => lifecycle.state = s,
           TargetOf[s] <= lifecycle.tp, Orderly => n <= lifecycle.tp,
           Load(t, s, n, o), KeepOutcome, KeepRepairs, UNCHANGED cache
    PROVE  IInv'
<1> DEFINE r == [IdleTracker EXCEPT !.pc = "loaded", !.state = s, !.tp = n, !.prior = o]
<1>1. r \in TrackerStates
  BY Believes, IdleBelievable DEF TrackerStates, TrackerPcs
<1>2. Believable(r, lifecycle')
  BY DEF IdleTracker, Believable, Recorded
<1>3. Become(t, r)
  BY DEF Load
<1> HIDE DEF r
<1> QED
  BY <1>1, <1>2, <1>3, TrackerMoves

LEMMA LoadGood ==
    ASSUME IInv, NEW t \in Trackers, FetchActive(t) \/ FetchUntracked(t) \/ FetchForUser(t)
    PROVE  IInv'
<1>1. LifecycleInv' /\ Grows(lifecycle, lifecycle')
  BY Steady DEF IInv, FetchActive, FetchUntracked, FetchForUser
<1>2. lifecycle' = lifecycle
  BY DEF FetchActive, FetchUntracked, FetchForUser, KeepLifecycle
<1>3. /\ lifecycle.state \in LifecycleStates /\ lifecycle.tp \in 0 .. 3
      /\ outcome.status \in Statuses
      /\ TargetOf[lifecycle.state] \in 0 .. 3 /\ StatusTarget[outcome.status] \in 0 .. 3
      /\ Orderly => StatusTarget[outcome.status] <= lifecycle.tp
      /\ TargetOf["WATCHING_FOR_ENTRY"] = 0 /\ "WATCHING_FOR_ENTRY" \in LifecycleStates \ Terminal
  <2>1. StatusTarget["partial_win_be"] = 0
    BY DEF StatusTarget, Statuses, Final
  <2> QED
    BY <2>1, Believes, StateTables DEF Lifecycles, Outcomes, Faithful, BorneOut, Supports, TargetOf,
                                       LifecycleStates, Terminal
<1>4. TargetOf[lifecycle.state] <= lifecycle.tp
  BY <1>3 DEF IInv, LifecycleInv, TargetOf
<1>5. DatabaseProgress \in 0 .. 3 /\ (Orderly => DatabaseProgress = lifecycle.tp)
  BY <1>3, <1>4 DEF DatabaseProgress, Larger
<1>6. Absent \in Statuses
  BY DEF Statuses
<1>7. CASE Load(t, lifecycle.state, DatabaseProgress, outcome.status)
  BY <1>1, <1>2, <1>3, <1>4, <1>5, <1>7, LoadedGood DEF FetchActive, FetchUntracked, FetchForUser
<1>8. CASE Load(t, "WATCHING_FOR_ENTRY", 0, Absent)
  BY <1>1, <1>2, <1>3, <1>6, <1>8, LoadedGood DEF FetchActive, FetchUntracked, FetchForUser
<1> QED
  BY <1>7, <1>8 DEF FetchActive, FetchUntracked, FetchForUser

LEMMA ReadProgressGood ==
    ASSUME IInv, NEW t \in Trackers, ReadProgress(t)
    PROVE  IInv'
<1>1. LifecycleInv' /\ Grows(lifecycle, lifecycle') /\ lifecycle' = lifecycle
  BY Steady DEF IInv, ReadProgress, KeepLifecycle
<1>2. PICK c \in {0, cache} :
         Become(t, [tracker[t] EXCEPT !.pc = "primed", !.tp = Larger(@, c)])
  BY DEF ReadProgress
<1>3. c \in 0 .. 3 /\ (lifecycle.state \notin Terminal => c <= lifecycle.tp)
  <2>1. lifecycle.tp \in 0 .. 3
    BY Believes DEF Lifecycles
  <2> QED
    BY <1>2, <2>1 DEF IInv, CacheInv, ProgressNotAhead
<1> DEFINE r == [tracker[t] EXCEPT !.pc = "primed", !.tp = Larger(@, c)]
<1>4. r \in TrackerStates
  BY <1>3, Believes DEF TrackerStates, TrackerPcs, Larger
<1>5. Believable(r, lifecycle')
  <2>1. tracker[t].goal = 0
    BY Believes DEF ReadProgress, Believable
  <2> QED
    BY <1>1, <1>3, <2>1, Believes DEF TrackerStates, Believable, Recorded, Larger, Lifecycles
<1>6. Become(t, r)
  BY <1>2
<1> HIDE DEF r
<1> QED
  BY <1>1, <1>4, <1>5, <1>6, TrackerMoves DEF ReadProgress

LEMMA ObserveGood ==
    ASSUME IInv, NEW t \in Trackers, Observe(t)
    PROVE  IInv'
<1>1. LifecycleInv' /\ Grows(lifecycle, lifecycle') /\ lifecycle' = lifecycle
  BY Steady DEF IInv, Observe, KeepLifecycle
<1>2. KeepOutcome /\ KeepRepairs /\ UNCHANGED cache
  BY DEF Observe
<1> DEFINE Seen(s) == [tracker[t] EXCEPT !.state = s, !.tp = Larger(@, TargetOf[s]),
                                         !.prior = Absent]
<1>3. PICK s \in {lifecycle.state, tracker[t].state} :
         \/ /\ Lags(tracker[t].prior, OutcomeFor[s])
            /\ Become(t, [Seen(s) EXCEPT !.pc = "persisting", !.status = OutcomeFor[s]])
         \/ Rest(t)
         \/ s \notin Terminal /\ Become(t, [Seen(s) EXCEPT !.pc = "judging"])
  BY DEF Observe
<1>4. /\ s \in LifecycleStates
      /\ s \in Terminal => lifecycle.state = s
      /\ s # "WATCHING_FOR_ENTRY" => lifecycle.state # "WATCHING_FOR_ENTRY"
      /\ TargetOf[s] \in 0 .. 3 /\ TargetOf[s] <= lifecycle.tp
      /\ OutcomeFor[s] \in Statuses
  <2>1. TargetOf[lifecycle.state] <= lifecycle.tp /\ lifecycle.state \in LifecycleStates
    BY StateTables DEF IInv, LifecycleInv, TargetOf, Lifecycles
  <2> QED
    BY <2>1, Believes, StateTables DEF Believable, TrackerStates
<1>5. Absent \in Statuses
  BY DEF Statuses
<1>6. tracker[t].pc = "primed"
  BY DEF Observe
<1>7. Seen(s) \in TrackerStates
  BY <1>4, <1>5, Believes DEF TrackerStates, Larger
<1>8. /\ Seen(s).state = s /\ Seen(s).pc = "primed"
      /\ Seen(s).goal = tracker[t].goal
      /\ Orderly /\ lifecycle.state \notin Terminal => Seen(s).tp <= lifecycle.tp
  BY <1>4, <1>6, Believes DEF Believable, TrackerStates, Larger, Lifecycles
<1> HIDE DEF Seen
<1>9. CASE Lags(tracker[t].prior, OutcomeFor[s]) /\
           Become(t, [Seen(s) EXCEPT !.pc = "persisting", !.status = OutcomeFor[s]])
  <2> DEFINE r == [Seen(s) EXCEPT !.pc = "persisting", !.status = OutcomeFor[s]]
  <2>1. r \in TrackerStates
    BY <1>4, <1>7 DEF TrackerStates, TrackerPcs
  <2>2. Supports(lifecycle, OutcomeFor[s]) /\ OutcomeFor[s] # Absent
    BY <1>4, <1>9, OutcomeTables DEF Supports, Lags
  <2>3. Believable(r, lifecycle')
    <3>1. Seen(s).goal = 0
      BY <1>6, <1>8, Believes DEF Believable
    <3> QED
      BY <1>1, <1>4, <1>7, <1>8, <2>2, <3>1 DEF Believable, Recorded, TrackerStates
  <2> HIDE DEF r
  <2> QED
    BY <1>1, <1>2, <1>9, <2>1, <2>3, TrackerMoves DEF r
<1>10. CASE Rest(t)
  BY <1>1, <1>2, <1>10, Rests
<1>11. CASE s \notin Terminal /\ Become(t, [Seen(s) EXCEPT !.pc = "judging"])
  <2> DEFINE r == [Seen(s) EXCEPT !.pc = "judging"]
  <2>1. r \in TrackerStates
    BY <1>7 DEF TrackerStates, TrackerPcs
  <2>2. Believable(r, lifecycle')
    BY <1>1, <1>4, <1>7, <1>8 DEF Believable, Recorded, TrackerStates
  <2> HIDE DEF r
  <2> QED
    BY <1>1, <1>2, <1>11, <2>1, <2>2, TrackerMoves DEF r
<1> QED
  BY <1>3, <1>9, <1>10, <1>11

\* A tracker that records an event and turns to what follows.
LEMMA RecordGood ==
    ASSUME IInv, NEW t \in Trackers, NEW e \in Events, Record(e), Orderly => InOrder(e),
           NEW r \in TrackerStates, Believable(r, lifecycle'), Become(t, r),
           KeepOutcome, KeepRepairs, UNCHANGED cache
    PROVE  IInv'
<1>1. LifecycleInv' /\ Grows(lifecycle, lifecycle')
  BY RecordKeeps DEF IInv
<1> QED
  BY <1>1, TrackerMoves

\* A tracker at rest once its event is refused.
LEMMA RefusedGood ==
    ASSUME IInv, NEW t \in Trackers, NEW e \in Events, Refuse(e), Rest(t),
           KeepOutcome, KeepRepairs, UNCHANGED cache
    PROVE  IInv'
<1>1. LifecycleInv' /\ Grows(lifecycle, lifecycle')
  BY Steady DEF IInv, Refuse, KeepLifecycle
<1> QED
  BY <1>1, Rests

LEMMA PersistingTyped ==
    ASSUME NEW q \in TrackerStates, NEW status \in Statuses, NEW n \in 0 .. 3
    PROVE  [q EXCEPT !.pc = "persisting", !.status = status, !.goal = n] \in TrackerStates
  BY DEF TrackerStates, TrackerPcs

LEMMA ClimbTyped ==
    ASSUME NEW q \in TrackerStates, NEW status \in Statuses, NEW n \in 0 .. 3,
           NEW pc \in {"persisting", "noting"}, "ACTIVE_TRADE" \in LifecycleStates
    PROVE  [q EXCEPT !.pc = pc, !.state = "ACTIVE_TRADE", !.status = status, !.goal = n]
              \in TrackerStates
  BY DEF TrackerStates, TrackerPcs

\* A tracker that records an end and persists the status it stands for.
LEMMA EndGood ==
    ASSUME IInv, NEW t \in Trackers, NEW e \in Events, Record(e), Orderly => InOrder(e),
           StateOf[e] \in Terminal,
           NEW status \in Statuses \ {Absent}, Supports(lifecycle', status),
           Persist(t, status),
           KeepOutcome, KeepRepairs, UNCHANGED cache
    PROVE  IInv'
<1> DEFINE r == [tracker[t] EXCEPT !.pc = "persisting", !.status = status, !.goal = 0]
<1>1. r \in TrackerStates
  <2>1. tracker[t] \in TrackerStates /\ 0 \in 0 .. 3
    BY Believes
  <2> QED
    BY <2>1, PersistingTyped
<1>2. /\ lifecycle' \in Lifecycles /\ lifecycle'.state = StateOf[e]
      /\ StateOf[e] # "WATCHING_FOR_ENTRY"
      /\ lifecycle.state \notin Terminal /\ lifecycle.tp <= lifecycle'.tp
  BY OneByOne, StateTables DEF IInv
<1>3. Believable(r, lifecycle')
  <2>1. TargetOf[tracker[t].state] \in 0 .. 3
    BY Believes, StateTables DEF TrackerStates
  <2> QED
    BY <1>2, <2>1, Believes DEF Believable, Recorded, TrackerStates, Lifecycles
<1>4. Become(t, r)
  BY DEF Persist
<1> HIDE DEF r
<1> QED
  BY <1>1, <1>3, <1>4, RecordGood

\* Events that are no target are always in order.
LEMMA NoTarget ==
    ASSUME NEW e \in Events \ {"tp1_hit", "tp2_hit", "tp3_hit"}
    PROVE  InOrder(e)
  BY DEF InOrder, TargetEvent

LEMMA EndSupported ==
    ASSUME IInv, NEW e \in Events, Record(e), StateOf[e] \in Terminal
    PROVE  /\ Supports(lifecycle', OutcomeFor[StateOf[e]])
           /\ OutcomeFor[StateOf[e]] \in Statuses \ {Absent}
<1>1. lifecycle' \in Lifecycles /\ lifecycle'.state = StateOf[e] /\ StateOf[e] \in LifecycleStates
      /\ TargetOf[StateOf[e]] <= lifecycle'.tp
  BY OneByOne, StateTables DEF IInv
<1>2. OutcomeFor[StateOf[e]] # Absent
  BY <1>1, OutcomeTables DEF Final, Absent
<1> QED
  BY <1>1, <1>2, OutcomeTables, StateTables DEF Supports

LEMMA MissEntryGood ==
    ASSUME IInv, NEW t \in Trackers, MissEntry(t)
    PROVE  IInv'
<1>1. /\ "missed_entry" \in Events /\ StateOf["missed_entry"] = "MISSED_ENTRY"
      /\ "MISSED_ENTRY" \in Terminal
      /\ OutcomeFor["MISSED_ENTRY"] = "missed_entry"
  BY DEF Events, StateOf, Terminal, OutcomeFor, LifecycleStates
<1>2. KeepOutcome /\ KeepRepairs /\ UNCHANGED cache
  BY DEF MissEntry
<1>3. CASE Record("missed_entry") /\ Persist(t, "missed_entry")
  <2>1. InOrder("missed_entry")
    BY <1>1, NoTarget
  <2> QED
    BY <1>1, <1>2, <1>3, <2>1, EndGood, EndSupported
<1>4. CASE Refuse("missed_entry") /\ Rest(t)
  BY <1>1, <1>2, <1>4, RefusedGood
<1> QED
  BY <1>3, <1>4 DEF MissEntry

LEMMA TouchEntryGood ==
    ASSUME IInv, NEW t \in Trackers, TouchEntry(t)
    PROVE  IInv'
<1>1. /\ "entry_touched" \in Events \ {"tp1_hit", "tp2_hit", "tp3_hit"}
      /\ StateOf["entry_touched"] = "ACTIVE_TRADE"
      /\ TargetOf["ACTIVE_TRADE"] = 0 /\ "ACTIVE_TRADE" \in LifecycleStates \ Terminal
      /\ "WATCHING_FOR_ENTRY" \in LifecycleStates
      /\ AllowedTargets["WATCHING_FOR_ENTRY"]
            = {"WATCHING_FOR_ENTRY", "ACTIVE_TRADE", "MISSED_ENTRY", "EXPIRED"}
  BY DEF Events, StateOf, Terminal, LifecycleStates, TargetOf, AllowedTargets, Onward
<1>2. InOrder("entry_touched")
  BY <1>1, NoTarget
<1>3. LifecycleInv' /\ Grows(lifecycle, lifecycle')
  BY <1>1, <1>2, RecordKeeps, Steady DEF IInv, TouchEntry, Refuse, KeepLifecycle
<1>4. lifecycle'.state # "WATCHING_FOR_ENTRY"
  <2>1. CASE Record("entry_touched")
    BY <1>1, <2>1 DEF Record
  <2>2. CASE Refuse("entry_touched")
    <3>1. lifecycle' = lifecycle /\ ~Accepts("entry_touched")
      BY <2>2 DEF Refuse
    <3>2. lifecycle.state = "WATCHING_FOR_ENTRY" => Accepts("entry_touched")
      BY <1>1 DEF IInv, LifecycleInv, Accepts
    <3> QED
      BY <3>1, <3>2
  <2> QED
    BY <2>1, <2>2 DEF TouchEntry
<1> DEFINE r == [tracker[t] EXCEPT !.state = "ACTIVE_TRADE"]
<1>5. r \in TrackerStates
  BY <1>1, Believes DEF TrackerStates
<1>6. tracker[t] \in TrackerStates /\ Believable(tracker[t], lifecycle')
  BY <1>3, Believes, BelievableGrows DEF LifecycleInv
<1>7. tracker[t].pc = "judging" /\ lifecycle' \in Lifecycles
  BY <1>3 DEF TouchEntry, Watching, LifecycleInv
<1>8. Believable(r, lifecycle')
  BY <1>1, <1>4, <1>6, <1>7 DEF Believable, Recorded, TrackerStates, Lifecycles
<1> HIDE DEF r
<1> QED
  BY <1>3, <1>5, <1>8, TrackerMoves DEF TouchEntry, r

\* A target that is refused has been recorded, unless the trade has ended.
LEMMA RefusedTarget ==
    ASSUME LifecycleInv, NEW i \in 1 .. 3, Refuse(TargetEvent[i]),
           lifecycle.state \notin Terminal, lifecycle.state # "WATCHING_FOR_ENTRY"
    PROVE  i <= lifecycle.tp
<1>1. CASE TargetEvent[i] \in ledger
  BY <1>1 DEF LifecycleInv
<1>2. CASE StateOf[TargetEvent[i]] \notin AllowedTargets[lifecycle.state]
  <2>1. lifecycle.state \in {"ACTIVE_TRADE", "TP1_HIT", "TP2_HIT"}
        /\ lifecycle.tp = TargetOf[lifecycle.state]
    BY DEF LifecycleInv, Lifecycles, LifecycleStates, Terminal
  <2>2. StateOf[TargetEvent[i]] = CASE i = 1 -> "TP1_HIT" [] i = 2 -> "TP2_HIT" [] i = 3 -> "TP3_HIT"
    BY DEF TargetEvent, StateOf
  <2>3. AllowedTargets["ACTIVE_TRADE"] = {"ACTIVE_TRADE", "TP1_HIT", "TP2_HIT", "TP3_HIT", "SL_HIT", "EXPIRED"}
    BY DEF AllowedTargets, Onward, LifecycleStates, Terminal
  <2>4. AllowedTargets["TP1_HIT"] = {"TP1_HIT", "TP2_HIT", "TP3_HIT", "BREAKEVEN_STOP", "EXPIRED"}
    BY DEF AllowedTargets, Onward, LifecycleStates, Terminal
  <2>5. AllowedTargets["TP2_HIT"] = {"TP2_HIT", "TP3_HIT", "BREAKEVEN_STOP", "EXPIRED"}
    BY DEF AllowedTargets, Onward, LifecycleStates, Terminal
  <2>6. TargetOf["TP2_HIT"] = 2
    BY DEF TargetOf, LifecycleStates, Terminal
  <2> QED
    BY <1>2, <2>1, <2>2, <2>3, <2>4, <2>5, <2>6
<1> QED
  BY <1>1, <1>2 DEF Refuse, Accepts

LEMMA EventSupported ==
    ASSUME LifecycleInv, NEW e \in Events, Record(e)
    PROVE  Supports(lifecycle', OutcomeFor[StateOf[e]])
<1>1. lifecycle' \in Lifecycles /\ lifecycle'.state = StateOf[e] /\ StateOf[e] \in LifecycleStates
      /\ TargetOf[StateOf[e]] <= lifecycle'.tp
  BY OneByOne, StateTables
<1> QED
  BY <1>1, OutcomeTables DEF Supports

LEMMA HitTargetGood ==
    ASSUME IInv, NEW t \in Trackers, NEW goal \in 1 .. 3, HitTarget(t, goal)
    PROVE  IInv'
<1> DEFINE next == tracker[t].tp + 1
<1> DEFINE event == TargetEvent[next]
<1>1. /\ tracker[t] \in TrackerStates /\ Believable(tracker[t], lifecycle)
      /\ lifecycle \in Lifecycles
  BY Believes
<1>2. next \in 1 .. 3 /\ next <= goal
  BY <1>1 DEF HitTarget, TrackerStates
<1>3. event \in Events /\ TargetOf[StateOf[event]] = next
      /\ TargetStatus[next] \in Statuses \ {Absent}
      /\ TargetStatus[next] = OutcomeFor[StateOf[event]]
  BY <1>2, TargetTables
<1>4. Orderly => InOrder(event)
  <2>1. \A i \in 1 .. 3 : event = TargetEvent[i] => i = next
    BY <1>2 DEF TargetEvent
  <2> HIDE DEF event
  <2> QED
    BY <1>1, <2>1 DEF InOrder, Believable, TrackerStates, Lifecycles
<1>5. /\ tracker[t].state # "WATCHING_FOR_ENTRY"
      /\ KeepOutcome /\ KeepRepairs /\ UNCHANGED cache
  BY <1>1 DEF HitTarget, Judging, Believable
<1>6. LifecycleInv
  BY DEF IInv
<1>7. /\ "ACTIVE_TRADE" \in LifecycleStates \ Terminal /\ TargetOf["ACTIVE_TRADE"] = 0
      /\ Absent \in Statuses
  BY DEF LifecycleStates, Terminal, TargetOf, Statuses, Absent
<1>8. CASE Record(event) /\ Climb(t, "persisting", TargetStatus[next], goal)
  <2> DEFINE r == [tracker[t] EXCEPT !.pc = "persisting", !.state = "ACTIVE_TRADE",
                                     !.status = TargetStatus[next], !.goal = goal]
  <2>1. r \in TrackerStates
    <3>1. goal \in 0 .. 3
      PROOF OBVIOUS
    <3> QED
      BY <1>1, <1>3, <1>7, <3>1, ClimbTyped
  <2>2. LifecycleInv' /\ Grows(lifecycle, lifecycle') /\ lifecycle' \in Lifecycles
    BY <1>3, <1>4, <1>6, <1>8, RecordKeeps, OneByOne
  <2>3. Believable(tracker[t], lifecycle')
    BY <1>1, <2>2, BelievableGrows
  <2>4. next <= lifecycle'.tp /\ Supports(lifecycle', TargetStatus[next])
    BY <1>3, <1>6, <1>8, OneByOne, EventSupported
  <2>5. Believable(r, lifecycle')
    BY <1>1, <1>2, <1>3, <1>5, <1>7, <2>2, <2>3, <2>4
       DEF Believable, Recorded, TrackerStates, Lifecycles
  <2>6. Become(t, r)
    BY <1>8 DEF Climb
  <2> HIDE DEF r, next, event
  <2> QED
    BY <1>5, <2>1, <2>2, <2>5, <2>6, TrackerMoves
<1>9. CASE Refuse(event) /\ Climb(t, "noting", Absent, goal)
  <2> DEFINE r == [tracker[t] EXCEPT !.pc = "noting", !.state = "ACTIVE_TRADE",
                                     !.status = Absent, !.goal = goal]
  <2>1. r \in TrackerStates
    <3>1. goal \in 0 .. 3
      PROOF OBVIOUS
    <3> QED
      BY <1>1, <1>7, <3>1, ClimbTyped
  <2>2. LifecycleInv' /\ Grows(lifecycle, lifecycle') /\ lifecycle' = lifecycle
    BY <1>6, <1>9, Steady DEF Refuse, KeepLifecycle
  <2>3. lifecycle.state \notin Terminal => next <= lifecycle.tp
    BY <1>1, <1>2, <1>5, <1>6, <1>9, RefusedTarget DEF Believable
  <2>4. Believable(r, lifecycle')
    BY <1>1, <1>2, <1>5, <1>7, <2>2, <2>3 DEF Believable, Recorded, TrackerStates, Lifecycles
  <2>5. Become(t, r)
    BY <1>9 DEF Climb
  <2> HIDE DEF r, next, event
  <2> QED
    BY <1>5, <2>1, <2>2, <2>4, <2>5, TrackerMoves
<1> QED
  BY <1>8, <1>9 DEF HitTarget

LEMMA NoteProgressGood ==
    ASSUME IInv, NEW t \in Trackers, NoteProgress(t)
    PROVE  IInv'
<1> DEFINE next == tracker[t].tp + 1
<1>1. /\ tracker[t] \in TrackerStates /\ Believable(tracker[t], lifecycle)
      /\ lifecycle \in Lifecycles /\ tracker[t].pc = "noting"
  BY Believes DEF NoteProgress
<1>2. LifecycleInv' /\ Grows(lifecycle, lifecycle') /\ lifecycle' = lifecycle
  BY Steady DEF IInv, NoteProgress, KeepLifecycle
<1>3. next \in 1 .. 3 /\ next <= tracker[t].goal
      /\ (lifecycle.state \notin Terminal => next <= lifecycle.tp)
  BY <1>1 DEF Believable, Recorded, TrackerStates
<1>4. CacheInv'
  BY <1>2, <1>3 DEF IInv, CacheInv, ProgressNotAhead, NoteProgress
<1>5. LifecycleInv /\ TrackersInv /\ OutcomeInv /\ ProjectorsInv
  BY DEF IInv
<1>6. TrackersInv'
  <2>1. CASE Rest(t)
    BY <1>2, <1>5, <2>1, RestGood
  <2>2. CASE next # tracker[t].goal /\
             Become(t, [tracker[t] EXCEPT !.pc = "climbing", !.tp = next])
    <3> DEFINE r == [tracker[t] EXCEPT !.pc = "climbing", !.tp = next]
    <3>1. r \in TrackerStates
      <4>1. next \in 0 .. 3
        BY <1>3
      <4> QED
        BY <1>1, <4>1 DEF TrackerStates, TrackerPcs
    <3>2. Believable(r, lifecycle')
      BY <1>1, <1>2, <1>3, <2>2 DEF Believable, Recorded, TrackerStates, Lifecycles
    <3> HIDE DEF r, next
    <3> QED
      BY <1>2, <1>5, <2>2, <3>1, <3>2, TrackerReplaced DEF r
  <2> QED
    BY <2>1, <2>2 DEF NoteProgress
<1>7. OutcomeInv' /\ ProjectorsInv'
  BY <1>2, <1>5, OutcomeKept, ProjectorsKept DEF NoteProgress, KeepOutcome, KeepRepairs
<1> QED
  BY <1>2, <1>4, <1>6, <1>7 DEF IInv, NoteProgress, KeepOutcome, KeepRepairs

LEMMA HitStopGood ==
    ASSUME IInv, NEW t \in Trackers, HitStop(t)
    PROVE  IInv'
<1>1. PICK e \in {"sl_hit", "breakeven_stop"} :
         /\ \/ Record(e) /\ Persist(t, OutcomeFor[StateOf[e]])
            \/ Refuse(e) /\ Rest(t)
         /\ KeepOutcome /\ KeepRepairs /\ UNCHANGED cache
  BY DEF HitStop
<1>2. e \in Events \ {"tp1_hit", "tp2_hit", "tp3_hit"} /\ StateOf[e] \in Terminal
  BY DEF Events, StateOf, Terminal
<1>3. InOrder(e)
  BY <1>2, NoTarget
<1>4. CASE Record(e) /\ Persist(t, OutcomeFor[StateOf[e]])
  BY <1>1, <1>2, <1>3, <1>4, EndGood, EndSupported
<1>5. CASE Refuse(e) /\ Rest(t)
  BY <1>1, <1>2, <1>5, RefusedGood
<1> QED
  BY <1>1, <1>4, <1>5

LEMMA TimeStopGood ==
    ASSUME IInv, NEW t \in Trackers, TimeStop(t)
    PROVE  IInv'
<1>1. "expired" \in Events \ {"tp1_hit", "tp2_hit", "tp3_hit"} /\ StateOf["expired"] = "EXPIRED"
      /\ "EXPIRED" \in Terminal
  BY DEF Events, StateOf, Terminal
<1>2. InOrder("expired")
  BY <1>1, NoTarget
<1>3. CASE Record("expired") /\ Persist(t, "time_stop")
  <2>1. lifecycle' \in Lifecycles /\ lifecycle'.state = "EXPIRED"
    BY <1>1, <1>2, <1>3, OneByOne DEF IInv
  <2>2. "time_stop" \in Statuses \ {Absent} /\ StatusTarget["time_stop"] = 0
    BY DEF Statuses, Final, Absent, StatusTarget
  <2>3. Supports(lifecycle', "time_stop")
    BY <1>1, <2>1, <2>2 DEF Supports, Lifecycles
  <2> QED
    BY <1>1, <1>2, <1>3, <2>2, <2>3, EndGood DEF TimeStop
<1>4. CASE Refuse("expired") /\ Rest(t)
  BY <1>1, <1>4, RefusedGood DEF TimeStop
<1> QED
  BY <1>3, <1>4 DEF TimeStop

LEMMA UpsertedTyped ==
    ASSUME NEW o \in Outcomes, NEW status \in Statuses, NEW closes \in BOOLEAN
    PROVE  /\ Upserted(o, status, closes) \in Outcomes
           /\ Upserted(o, status, closes).status \in {o.status, status}
<1>1. CASE o.sealed \/ o.status \in Final
  BY <1>1 DEF Upserted
<1>2. CASE ~(o.sealed \/ o.status \in Final)
  <2> DEFINE w == [o EXCEPT !.status = status, !.sealed = status \in Final,
                            !.closed = @ \/ closes \/ status \in Final]
  <2>1. Upserted(o, status, closes) = w
    BY <1>2 DEF Upserted
  <2>2. (status \in Final) \in BOOLEAN /\ (o.closed \/ closes \/ status \in Final) \in BOOLEAN
    PROOF OBVIOUS
  <2>3. w \in Outcomes /\ w.status = status
    BY <2>2 DEF Outcomes
  <2> HIDE DEF w
  <2> QED
    BY <2>1, <2>3
<1> QED
  BY <1>1, <1>2

LEMMA UpsertedFaithful ==
    ASSUME NEW l \in Lifecycles, NEW o \in Outcomes, Faithful(o, l),
           NEW status \in Statuses, Supports(l, status), NEW closes \in BOOLEAN
    PROVE  /\ Upserted(o, status, closes) \in Outcomes
           /\ Faithful(Upserted(o, status, closes), l)
  BY UpsertedTyped DEF Faithful, BorneOut

LEMMA WriteGood ==
    ASSUME IInv, NEW status \in Statuses, Supports(lifecycle, status), KeepLifecycle, Write(status)
    PROVE  OutcomeInv' /\ archived' \in BOOLEAN
<1>1. outcome \in Outcomes /\ Faithful(outcome, lifecycle) /\ lifecycle \in Lifecycles
  BY DEF IInv, OutcomeInv, LifecycleInv
<1>2. outcome' \in Outcomes /\ Faithful(outcome', lifecycle)
  BY <1>1, UpsertedFaithful DEF Write
<1>3. lifecycle' = lifecycle
  BY DEF KeepLifecycle
<1> QED
  BY <1>2, <1>3 DEF OutcomeInv, Faithful, BorneOut, Supports, Write, IInv

LEMMA AfterPersistGood ==
    ASSUME IInv, NEW t \in Trackers, tracker[t].pc \in {"persisting", "inserting"},
           KeepLifecycle, AfterPersist(t)
    PROVE  TrackersInv'
<1>1. /\ tracker[t] \in TrackerStates /\ Believable(tracker[t], lifecycle)
      /\ LifecycleInv /\ TrackersInv
  BY Believes DEF IInv
<1>2. LifecycleInv' /\ Grows(lifecycle, lifecycle') /\ lifecycle' = lifecycle
  BY <1>1, Steady DEF KeepLifecycle
<1>3. CASE Rest(t)
  BY <1>1, <1>2, <1>3, RestGood
<1>4. CASE tracker[t].goal > 0 /\ Return(t, "noting")
  <2> DEFINE r == [tracker[t] EXCEPT !.pc = "noting", !.status = Absent]
  <2>1. r \in TrackerStates
    BY <1>1 DEF TrackerStates, TrackerPcs, Statuses, Absent
  <2>2. Believable(r, lifecycle')
    BY <1>1, <1>2, <1>4 DEF Believable, Recorded, TrackerStates
  <2> HIDE DEF r
  <2> QED
    BY <1>1, <1>2, <1>4, <2>1, <2>2, TrackerReplaced DEF Return, r
<1>5. CASE Return(t, "judging")
  <2> DEFINE r == [tracker[t] EXCEPT !.pc = "judging", !.status = Absent]
  <2>1. r \in TrackerStates
    BY <1>1 DEF TrackerStates, TrackerPcs, Statuses, Absent
  <2>2. Believable(r, lifecycle')
    BY <1>1, <1>2 DEF Believable, Recorded, TrackerStates
  <2> HIDE DEF r
  <2> QED
    BY <1>1, <1>2, <1>5, <2>1, <2>2, TrackerReplaced DEF Return, r
<1>6. \/ tracker[t].goal > 0 /\ Return(t, "noting")
      \/ Rest(t)
      \/ Return(t, "judging")
  BY <1>1 DEF AfterPersist, TrackerStates
<1> QED
  BY <1>3, <1>4, <1>5, <1>6

LEMMA PersistGood ==
    ASSUME IInv, NEW t \in Trackers, PersistGuarded(t) \/ Insert(t) \/ PersistFails(t)
    PROVE  IInv'
<1>1. /\ tracker[t].pc \in {"persisting", "inserting"}
      /\ KeepLifecycle /\ KeepRepairs /\ UNCHANGED cache
  BY DEF PersistGuarded, Insert, PersistFails
<1>2. /\ tracker[t] \in TrackerStates /\ Believable(tracker[t], lifecycle)
      /\ LifecycleInv /\ TrackersInv /\ OutcomeInv /\ ProjectorsInv /\ CacheInv
  BY Believes DEF IInv
<1>3. LifecycleInv' /\ Grows(lifecycle, lifecycle') /\ lifecycle' = lifecycle
  BY <1>1, <1>2, Steady DEF KeepLifecycle
<1>4. CacheInv' /\ ProjectorsInv'
  BY <1>1, <1>2, <1>3, CacheKept, ProjectorsKept DEF KeepRepairs
<1>5. CASE KeepOutcome /\ AfterPersist(t)
  <2>1. TrackersInv'
    BY <1>1, <1>5, AfterPersistGood
  <2>2. OutcomeInv'
    BY <1>2, <1>3, <1>5, OutcomeKept DEF KeepOutcome
  <2> QED
    BY <1>1, <1>3, <1>4, <1>5, <2>1, <2>2 DEF IInv, KeepOutcome, KeepRepairs
<1>6. CASE Write(tracker[t].status) /\ AfterPersist(t)
  <2>1. TrackersInv'
    BY <1>1, <1>6, AfterPersistGood
  <2>2. tracker[t].status \in Statuses /\ Supports(lifecycle, tracker[t].status)
    BY <1>1, <1>2 DEF Believable, TrackerStates
  <2>3. OutcomeInv' /\ archived' \in BOOLEAN
    BY <1>1, <1>6, <2>2, WriteGood
  <2> QED
    BY <1>1, <1>3, <1>4, <2>1, <2>3 DEF IInv, KeepRepairs
<1>7. CASE tracker[t].pc = "persisting" /\ Goto(t, "inserting") /\ KeepOutcome
  <2> DEFINE r == [tracker[t] EXCEPT !.pc = "inserting"]
  <2>1. r \in TrackerStates
    BY <1>2 DEF TrackerStates, TrackerPcs
  <2>2. Believable(r, lifecycle')
    BY <1>2, <1>3, <1>7 DEF Believable, Recorded, TrackerStates
  <2> HIDE DEF r
  <2> QED
    BY <1>1, <1>3, <1>7, <2>1, <2>2, TrackerMoves DEF Goto, r
<1> QED
  BY <1>5, <1>6, <1>7 DEF PersistGuarded, Insert, PersistFails

LEMMA LeaveGood ==
    ASSUME IInv, NEW t \in Trackers, Leave(t)
    PROVE  IInv'
<1>1. LifecycleInv' /\ Grows(lifecycle, lifecycle')
  BY Steady DEF IInv, Leave
<1> QED
  BY <1>1, Rests DEF Leave

LEMMA TrackerStepGood ==
    ASSUME IInv, NEW t \in Trackers, TrackerStep(t)
    PROVE  IInv'
  BY LoadGood, ReadProgressGood, ObserveGood, MissEntryGood, TouchEntryGood, HitTargetGood,
     NoteProgressGood, HitStopGood, TimeStopGood, PersistGood, LeaveGood DEF TrackerStep

-----------------------------------------------------------------------------
(* The steps of a projector. *)

LEMMA ProjectorMoves ==
    ASSUME IInv, NEW p \in Projectors, NEW q \in ProjectorStates, Justified(q, lifecycle),
           projector' = [projector EXCEPT ![p] = q],
           OutcomeInv', archived' \in BOOLEAN,
           UNCHANGED <<tracker, repairing, cache>>, KeepLifecycle
    PROVE  IInv'
<1>1. LifecycleInv' /\ Grows(lifecycle, lifecycle') /\ lifecycle' = lifecycle
  BY Steady DEF IInv, KeepLifecycle
<1>2. CacheInv' /\ TrackersInv'
  BY <1>1, CacheKept, TrackersKept DEF IInv
<1>3. ProjectorsInv'
  <2>1. projector' \in [Projectors -> ProjectorStates]
    BY DEF IInv, ProjectorsInv
  <2>2. \A x \in Projectors : Justified(projector'[x], lifecycle)
    BY DEF IInv, ProjectorsInv
  <2> QED
    BY <1>1, <2>1, <2>2 DEF ProjectorsInv, Justified, Supports
<1> QED
  BY <1>1, <1>2, <1>3 DEF IInv

LEMMA IdleJustified ==
    IdleProjector \in ProjectorStates /\ \A l : Justified(IdleProjector, l)
<1>1. NoOutcome \in Outcomes /\ Absent \in Statuses
  BY DEF NoOutcome, Outcomes, Statuses
<1> QED
  BY <1>1 DEF IdleProjector, ProjectorStates, Justified

LEMMA ProjectionReadGood ==
    ASSUME IInv, NEW p \in Projectors, ProjectionRead(p)
    PROVE  IInv'
<1>1. /\ LifecycleInv /\ lifecycle \in Lifecycles
      /\ outcome \in Outcomes /\ Faithful(outcome, lifecycle)
  BY DEF IInv, LifecycleInv, OutcomeInv
<1>2. lifecycle.state \in LifecycleStates /\ TargetOf[lifecycle.state] <= lifecycle.tp
  BY <1>1 DEF LifecycleInv, Lifecycles, TargetOf
<1> DEFINE status == IF Expected = Absent THEN "pending" ELSE Expected
<1> DEFINE q == [pc |-> "holding", saw |-> outcome, status |-> status]
<1>3. status \in Statuses /\ status # Absent
  BY <1>2, StateTables DEF Expected, Statuses, Absent
<1>4. Supports(lifecycle, status)
  <2>1. CASE Expected = Absent
    <3>1. status = "pending" /\ StatusTarget["pending"] = 0 /\ "pending" \notin Final
      BY <2>1 DEF StatusTarget, Statuses, Final
    <3> QED
      BY <1>1, <3>1 DEF Supports, Lifecycles
  <2>2. CASE Expected # Absent
    BY <1>2, <2>2, OutcomeTables DEF Supports, Expected
  <2> QED
    BY <2>1, <2>2
<1>6. q \in ProjectorStates /\ Justified(q, lifecycle)
  BY <1>1, <1>3, <1>4 DEF ProjectorStates, Justified
<1>7. projector' = [projector EXCEPT ![p] = q]
  BY DEF ProjectionRead
<1>8. OutcomeInv' /\ archived' \in BOOLEAN
  BY <1>1 DEF ProjectionRead, KeepLifecycle, KeepOutcome, OutcomeInv, Faithful, BorneOut, Supports,
                  IInv
<1> HIDE DEF q, status
<1> QED
  BY <1>6, <1>7, <1>8, ProjectorMoves DEF ProjectionRead

LEMMA OverwrittenFaithful ==
    ASSUME NEW l \in Lifecycles, NEW o \in Outcomes, NEW saw \in Outcomes,
           NEW status \in Statuses, Supports(l, status)
    PROVE  /\ Overwritten(o, saw, status) \in Outcomes
           /\ Faithful(Overwritten(o, saw, status), l)
<1> DEFINE w == Overwritten(o, saw, status)
<1>1. w \in Outcomes /\ w.status = status
  BY DEF Overwritten, Outcomes
<1> HIDE DEF w
<1>2. w \in Outcomes /\ Faithful(w, l)
  BY <1>1 DEF Faithful, BorneOut
<1> QED
  BY <1>2 DEF w

\* A projection's write keeps faith with the lifecycle.
LEMMA ProjectionFaithful ==
    ASSUME IInv, NEW p \in Projectors, ProjectionWrite(p)
    PROVE  OutcomeInv'
<1>1. /\ lifecycle \in Lifecycles /\ lifecycle' = lifecycle
      /\ outcome \in Outcomes /\ Faithful(outcome, lifecycle)
      /\ projector[p] \in ProjectorStates /\ Justified(projector[p], lifecycle)
  BY DEF IInv, LifecycleInv, OutcomeInv, ProjectorsInv, ProjectionWrite, KeepLifecycle
<1> DEFINE saw == projector[p].saw
<1> DEFINE status == projector[p].status
<1>2. saw \in Outcomes /\ status \in Statuses /\ Supports(lifecycle, status)
  BY <1>1 DEF ProjectorStates, Justified, ProjectionWrite
<1>3. \/ outcome' = outcome
      \/ outcome' = Upserted(outcome, status, FALSE)
      \/ outcome' = Overwritten(outcome, saw, status)
  BY DEF ProjectionWrite
<1> HIDE DEF saw, status
<1>4. outcome' \in Outcomes /\ Faithful(outcome', lifecycle)
  BY <1>1, <1>2, <1>3, UpsertedFaithful, OverwrittenFaithful
<1> QED
  BY <1>1, <1>4 DEF OutcomeInv, Faithful, BorneOut, Supports

LEMMA ProjectorStepGood ==
    ASSUME IInv, NEW p \in Projectors, ProjectorStep(p)
    PROVE  IInv'
<1>1. CASE ProjectionRead(p)
  BY <1>1, ProjectionReadGood
<1>2. CASE ProjectionWrite(p)
  BY <1>2, ProjectionFaithful, IdleJustified, ProjectorMoves DEF ProjectionWrite, IInv
<1>3. CASE ProjectionFails(p)
  <2>1. OutcomeInv' /\ archived' \in BOOLEAN
    BY <1>3 DEF ProjectionFails, KeepLifecycle, KeepOutcome, IInv, OutcomeInv, Faithful,
                    BorneOut, Supports
  <2> QED
    BY <1>3, <2>1, IdleJustified, ProjectorMoves DEF ProjectionFails
<1> QED
  BY <1>1, <1>2, <1>3 DEF ProjectorStep

-----------------------------------------------------------------------------
(* The theorems. *)

LEMMA StartGood ==
    ASSUME Init
    PROVE  IInv
<1>1. /\ lifecycle.state = "WATCHING_FOR_ENTRY" /\ lifecycle.tp = 0 /\ ledger = {}
      /\ outcome = NoOutcome /\ cache = 0
  BY DEF Init
<1>2. /\ "WATCHING_FOR_ENTRY" \in LifecycleStates \ Terminal
      /\ TargetOf["WATCHING_FOR_ENTRY"] = 0
      /\ \A e \in Events : StateOf[e] # "WATCHING_FOR_ENTRY"
  BY StateTables DEF LifecycleStates, Terminal, TargetOf
<1>3. lifecycle \in Lifecycles
  BY <1>2 DEF Init, Lifecycles
<1>4. LedgerCoherent
  BY <1>1 DEF LedgerCoherent
<1>5. LifecycleInv
  BY <1>1, <1>2, <1>3, <1>4 DEF LifecycleInv
<1>6. CacheInv
  BY <1>1 DEF CacheInv, ProgressNotAhead
<1>7. TrackersInv
  BY <1>3, IdleBelievable DEF TrackersInv, Init
<1>8. OutcomeInv
  <2>1. NoOutcome \in Outcomes /\ Absent \notin Final /\ StatusTarget[Absent] = 0
    BY DEF NoOutcome, Outcomes, Statuses, Absent, Final, StatusTarget
  <2> QED
    BY <1>1, <2>1 DEF OutcomeInv, Faithful, BorneOut, Supports, NoOutcome
<1>9. ProjectorsInv
  BY IdleJustified DEF ProjectorsInv, Init
<1> QED
  BY <1>5, <1>6, <1>7, <1>8, <1>9 DEF IInv, Init

\* Writers beside the lifecycle, and steps that touch neither rows nor trackers.
LEMMA BesideGood ==
    ASSUME IInv, KeepLifecycle, outcome' \in Outcomes, Faithful(outcome', lifecycle),
           archived' \in BOOLEAN, repairing' \in BOOLEAN,
           UNCHANGED <<tracker, projector, cache>>
    PROVE  IInv'
<1>1. LifecycleInv' /\ Grows(lifecycle, lifecycle') /\ lifecycle' = lifecycle
  BY Steady DEF IInv, KeepLifecycle
<1>2. CacheInv' /\ TrackersInv' /\ ProjectorsInv'
  BY <1>1, CacheKept, TrackersKept, ProjectorsKept DEF IInv
<1>3. OutcomeInv'
  BY <1>1 DEF OutcomeInv, Faithful, BorneOut, Supports
<1> QED
  BY <1>1, <1>2, <1>3 DEF IInv

LEMMA PartialRepairGood ==
    ASSUME IInv, RepairInv, PartialRepairWrite
    PROVE  IInv'
<1>1. /\ outcome \in Outcomes /\ Faithful(outcome, lifecycle) /\ lifecycle.tp >= 1
  BY DEF IInv, OutcomeInv, RepairInv, PartialRepairWrite
<1>2. outcome' \in Outcomes /\ (outcome' = outcome \/ outcome'.status = "partial_win_be")
  <2>1. "partial_win_be" \in Statuses
    BY DEF Statuses, Final
  <2> QED
    BY <1>1, <2>1 DEF PartialRepairWrite, Outcomes
<1>3. Faithful(outcome', lifecycle)
  BY <1>1, <1>2 DEF Faithful, BorneOut
<1> QED
  BY <1>2, <1>3, BesideGood DEF PartialRepairWrite, IInv

LEMMA AdminResolveGood ==
    ASSUME IInv, NEW status \in Statuses, AdminResolve(status)
    PROVE  IInv'
<1>1. outcome' \in Outcomes
  BY UpsertedTyped DEF AdminResolve, IInv, OutcomeInv
<1>2. Faithful(outcome', lifecycle)
  BY DEF AdminResolve, Faithful, Orderly
<1> QED
  BY <1>1, <1>2, BesideGood DEF AdminResolve, IInv

LEMMA StepGood ==
    ASSUME IInv, RepairInv, [Next]_vars
    PROVE  IInv'
<1>1. CASE \E t \in Trackers : TrackerStep(t)
  BY <1>1, TrackerStepGood
<1>2. CASE \E p \in Projectors : ProjectorStep(p)
  BY <1>2, ProjectorStepGood
<1>3. CASE PartialRepairWrite
  BY <1>3, PartialRepairGood
<1>4. CASE \E status \in {"tp", "sl", "invalid", "tp1", "tp2", "tp3"} : AdminResolve(status)
  <2>1. {"tp", "sl", "invalid", "tp1", "tp2", "tp3"} \subseteq Statuses
    BY DEF Statuses, Final
  <2> QED
    BY <1>4, <2>1, AdminResolveGood
<1>5. CASE PartialRepairRead \/ Archive \/ UNCHANGED vars
  <2>1. /\ KeepLifecycle /\ UNCHANGED <<outcome, tracker, projector, cache>>
        /\ archived' \in BOOLEAN /\ repairing' \in BOOLEAN
    <3>1. CASE PartialRepairRead
      BY <3>1 DEF PartialRepairRead, KeepOutcome, IInv
    <3>2. CASE Archive
      BY <3>2 DEF Archive, IInv
    <3>3. CASE UNCHANGED vars
      BY <3>3 DEF vars, KeepLifecycle, IInv
    <3> QED
      BY <1>5, <3>1, <3>2, <3>3
  <2>2. outcome' \in Outcomes /\ Faithful(outcome', lifecycle)
    BY <2>1 DEF IInv, OutcomeInv
  <2> QED
    BY <2>1, <2>2, BesideGood
<1> QED
  BY <1>1, <1>2, <1>3, <1>4, <1>5 DEF Next

\* Targets are never taken back.
LEMMA RepairStays ==
    ASSUME IInv, RepairInv, [Next]_vars
    PROVE  RepairInv'
<1>1. lifecycle.tp \in 0 .. 3
  BY DEF IInv, LifecycleInv, Lifecycles
<1>2. CASE \E t \in Trackers : TrackerStep(t)
  <2>1. PICK t \in Trackers : TrackerStep(t)
    BY <1>2
  <2>2. lifecycle' = lifecycle \/ \E e \in Events : Record(e)
    <3>1. {"missed_entry", "entry_touched", "breakeven_stop", "sl_hit", "expired"} \subseteq Events
          /\ \A i \in 1 .. 3 : TargetEvent[i] \in Events
      BY TargetTables DEF Events, StateOf
    <3>2. \A goal \in 1 .. 3 : HitTarget(t, goal) => tracker[t].tp + 1 \in 1 .. 3
      BY Believes DEF HitTarget, TrackerStates
    <3> QED
      BY <2>1, <3>1, <3>2 DEF TrackerStep, FetchActive, FetchUntracked, FetchForUser, ReadProgress,
         Observe, MissEntry, TouchEntry, HitTarget, NoteProgress, HitStop, TimeStop, PersistGuarded,
         Insert, PersistFails, Leave, KeepLifecycle, Refuse
  <2>3. lifecycle.tp <= lifecycle'.tp /\ lifecycle'.tp \in 0 .. 3
    BY <1>1, <2>2, OneByOne DEF IInv, Lifecycles
  <2>4. repairing' = repairing
    BY <2>1 DEF TrackerStep, FetchActive, FetchUntracked, FetchForUser, ReadProgress,
         Observe, MissEntry, TouchEntry, HitTarget, NoteProgress, HitStop, TimeStop, PersistGuarded,
         Insert, PersistFails, Leave, KeepRepairs
  <2> QED
    BY <1>1, <2>3, <2>4 DEF RepairInv
<1>3. CASE \E p \in Projectors : ProjectorStep(p)
  BY <1>3 DEF ProjectorStep, ProjectionRead, ProjectionWrite, ProjectionFails, KeepLifecycle, RepairInv
<1>4. CASE PartialRepairRead \/ PartialRepairWrite
  BY <1>1, <1>4 DEF PartialRepairRead, PartialRepairWrite, KeepLifecycle, KeepOutcome, RepairInv
<1>6. CASE Archive \/ UNCHANGED vars
  BY <1>6 DEF Archive, KeepLifecycle, RepairInv, vars
<1>5. CASE \E status \in {"tp", "sl", "invalid", "tp1", "tp2", "tp3"} : AdminResolve(status)
  BY <1>5 DEF AdminResolve, KeepLifecycle, RepairInv
<1> QED
  BY <1>2, <1>3, <1>4, <1>5, <1>6 DEF Next

LEMMA AlwaysGood ==
    Spec => []IInv
<1>1. Init => IInv /\ RepairInv
  BY StartGood DEF Init, RepairInv
<1>2. IInv /\ RepairInv /\ [Next]_vars => IInv' /\ RepairInv'
  BY StepGood, RepairStays
<1> QED
  BY <1>1, <1>2, PTL DEF Spec

\* Every variable keeps its type, for any trackers and projectors, and a tracker
\* on its way up stays below its goal (the loop over targets, _check_signal).
THEOREM TypeCorrect ==
    Spec => []TypeOK
<1>1. IInv => TypeOK
  BY DEF IInv, LifecycleInv, CacheInv, TrackersInv, OutcomeInv, ProjectorsInv, Believable, TypeOK
<1> QED
  BY <1>1, AlwaysGood, PTL

\* However many trackers record events, from stale fetches, backfills and lagging
\* progress caches, the recorded events tell one possible story, also while the
\* partial-exit repair is at work (record_lifecycle_event).
THEOREM LedgerIsCoherent ==
    ASSUME Orderly
    PROVE  Spec => []LedgerCoherent
<1>1. IInv => LedgerCoherent
  BY DEF IInv, LifecycleInv
<1> QED
  BY <1>1, AlwaysGood, PTL

\* Redis never remembers a target of an open trade that is not on record, so no
\* full loss is taken for a protected exit: also when outcomes resolved by hand
\* make trackers skip targets (_set_tp_progress).
THEOREM ProgressStaysBehind ==
    Spec => []ProgressNotAhead
<1>1. IInv => ProgressNotAhead
  BY DEF IInv, CacheInv
<1> QED
  BY <1>1, AlwaysGood, PTL

\* The outcome never says more than the lifecycle bears out, whichever trackers
\* and projectors wrote it and however old the rows they held: with the partial-exit
\* repair at work a protected exit may be claimed early, and nothing else
\* (_persist_outcome, ensure_outcome_projections, repair_partial_exit_outcomes).
THEOREM OutcomeIsBorneOut ==
    ASSUME Orderly
    PROVE  Spec => []OutcomeFollowsLifecycle
<1>1. IInv => OutcomeFollowsLifecycle
  BY DEF IInv, OutcomeInv, Faithful, OutcomeFollowsLifecycle
<1> QED
  BY <1>1, AlwaysGood, PTL

-----------------------------------------------------------------------------
(* Finality, with every writer at work. *)

Rows(status) == [status : {status}, sealed : BOOLEAN, closed : BOOLEAN, corrected : BOOLEAN]

SealedInv == /\ outcome \in Rows(outcome.status)
             /\ outcome.status \in Final => outcome.sealed

\* A good write keeps final rows sealed, and a final status but for corrections.
GoodWrite(o, w) ==
    /\ w \in Rows(w.status)
    /\ w.status \in Final => w.sealed
    /\ o.status \in Final /\ w.status # o.status => w.corrected

LEMMA UpsertSeals ==
    ASSUME SealedInv, NEW status, NEW closes \in BOOLEAN
    PROVE  GoodWrite(outcome, Upserted(outcome, status, closes))
<1>1. CASE outcome.sealed \/ outcome.status \in Final
  BY <1>1 DEF Upserted, GoodWrite, SealedInv
<1>2. CASE ~(outcome.sealed \/ outcome.status \in Final)
  <2> DEFINE w == [outcome EXCEPT !.status = status, !.sealed = status \in Final,
                                  !.closed = @ \/ closes \/ status \in Final]
  <2>1. Upserted(outcome, status, closes) = w
    BY <1>2 DEF Upserted
  <2>2. (status \in Final) \in BOOLEAN /\ (outcome.closed \/ closes \/ status \in Final) \in BOOLEAN
    PROOF OBVIOUS
  <2>3. w \in Rows(status) /\ w.status = status /\ w.sealed = (status \in Final)
    BY <2>2 DEF Rows, SealedInv
  <2> HIDE DEF w
  <2> QED
    BY <1>2, <2>1, <2>3 DEF GoodWrite
<1> QED
  BY <1>1, <1>2

LEMMA RepairSeals ==
    ASSUME SealedInv, PartialRepairWrite
    PROVE  GoodWrite(outcome, outcome')
<1>1. CASE outcome.sealed
  BY <1>1 DEF PartialRepairWrite, TriggerRefuses, GoodWrite, SealedInv
<1>2. CASE ~outcome.sealed
  <2> DEFINE w == [outcome EXCEPT !.status = "partial_win_be", !.sealed = TRUE]
  <2>1. outcome' = w
    BY <1>2 DEF PartialRepairWrite, TriggerRefuses
  <2>2. w \in Rows("partial_win_be") /\ w.status = "partial_win_be" /\ w.sealed = TRUE
    BY DEF Rows, SealedInv
  <2> HIDE DEF w
  <2> QED
    BY <1>2, <2>1, <2>2 DEF GoodWrite, SealedInv
<1> QED
  BY <1>1, <1>2

LEMMA ProjectionSeals ==
    ASSUME SealedInv, NEW p \in Projectors, ProjectionWrite(p)
    PROVE  GoodWrite(outcome, outcome')
<1> DEFINE saw == projector[p].saw
<1> DEFINE status == projector[p].status
<1>1. \/ outcome' = outcome
      \/ outcome' = Upserted(outcome, status, FALSE)
      \/ (~outcome.sealed \/ saw.status \in Final) /\ outcome' = Overwritten(outcome, saw, status)
  BY DEF ProjectionWrite, TriggerRefuses
<1> HIDE DEF saw, status
<1>2. CASE outcome' = outcome
  BY <1>2 DEF GoodWrite, SealedInv
<1>3. CASE outcome' = Upserted(outcome, status, FALSE)
  BY <1>3, UpsertSeals
<1>4. CASE (~outcome.sealed \/ saw.status \in Final) /\ outcome' = Overwritten(outcome, saw, status)
  BY <1>4 DEF Overwritten, GoodWrite, Rows, SealedInv
<1> QED
  BY <1>1, <1>2, <1>3, <1>4

\* Only an upsert, the repair and a projection change the row, one at a time.
LEMMA Writes ==
    ASSUME Next
    PROVE  \/ UNCHANGED outcome
           \/ \E status : \E closes \in BOOLEAN : outcome' = Upserted(outcome, status, closes)
           \/ PartialRepairWrite
           \/ \E p \in Projectors : ProjectionWrite(p)
<1>1. ASSUME NEW t \in Trackers, TrackerStep(t)
      PROVE  UNCHANGED outcome \/ \E status : \E closes \in BOOLEAN : outcome' = Upserted(outcome, status, closes)
  BY <1>1 DEF TrackerStep, FetchActive, FetchUntracked, FetchForUser, ReadProgress, Observe,
     MissEntry, TouchEntry, HitTarget, NoteProgress, HitStop, TimeStop, PersistGuarded, Insert,
     PersistFails, Leave, KeepOutcome, Write
<1>2. ASSUME NEW p \in Projectors, ProjectorStep(p)
      PROVE  UNCHANGED outcome \/ ProjectionWrite(p)
  BY <1>2 DEF ProjectorStep, ProjectionRead, ProjectionFails, KeepOutcome
<1>3. ASSUME NEW status, AdminResolve(status)
      PROVE  outcome' = Upserted(outcome, status, FALSE)
  BY <1>3 DEF AdminResolve
<1>4. PartialRepairRead \/ Archive => UNCHANGED outcome
  BY DEF PartialRepairRead, Archive, KeepOutcome
<1> QED
  BY <1>1, <1>2, <1>3, <1>4 DEF Next

LEMMA EveryWriteGood ==
    ASSUME SealedInv, Next
    PROVE  GoodWrite(outcome, outcome')
<1>1. CASE UNCHANGED outcome
  BY <1>1 DEF GoodWrite, SealedInv
<1>2. CASE \E status : \E closes \in BOOLEAN : outcome' = Upserted(outcome, status, closes)
  BY <1>2, UpsertSeals
<1>3. CASE PartialRepairWrite
  BY <1>3, RepairSeals
<1>4. CASE \E p \in Projectors : ProjectionWrite(p)
  BY <1>4, ProjectionSeals
<1> QED
  BY <1>1, <1>2, <1>3, <1>4, Writes

LEMMA SealedInit == ASSUME Init PROVE SealedInv
  BY DEF Init, SealedInv, NoOutcome, Rows, Final, Absent

LEMMA SealedStep ==
    ASSUME SealedInv, [Next]_vars
    PROVE  SealedInv'
<1>1. CASE Next
  BY <1>1, EveryWriteGood DEF GoodWrite, SealedInv
<1>2. CASE UNCHANGED vars
  BY <1>2 DEF SealedInv, vars
<1> QED
  BY <1>1, <1>2

\* A finalized result changes only as an attributed correction, also with
\* administrators, the partial-exit repair and any number of projectors at work
\* (upsert_outcome, enforce_terminal_outcome_finality).
THEOREM FinalityHolds ==
    Spec => TerminalNeedsCorrection
<1>1. SealedInv /\ [Next]_vars =>
         [outcome.status \in Final /\ outcome'.status # outcome.status => outcome'.corrected]_vars
  BY EveryWriteGood DEF GoodWrite
<1> QED
  BY <1>1, SealedInit, SealedStep, PTL DEF Spec, TerminalNeedsCorrection

-----------------------------------------------------------------------------
(* Corrections, with every writer at work. *)

\* A corrected row is sealed, and who is about to correct one loaded it sealed,
\* final and not yet corrected.
CorrectionInv ==
    /\ SealedInv
    /\ outcome.corrected => outcome.sealed
    /\ \A p \in Projectors :
          projector[p].pc = "holding" =>
             /\ ~projector[p].saw.corrected
             /\ projector[p].saw.status \in Final => outcome.sealed

\* Whether a correction changes the row.
Corrects(p) == /\ projector[p].pc = "holding" /\ projector'[p].pc = "idle"
               /\ projector[p].saw.status \in Final /\ ~projector[p].saw.corrected

Standing == outcome.corrected /\ outcome' # outcome =>
               outcome'.corrected /\ \E p \in Projectors : Corrects(p)

\* A write of a row keeps its marks, and a corrected row changes only under who
\* is about to correct it.
LEMMA CorrectedWrite ==
    ASSUME TypeOK, CorrectionInv, Next
    PROVE  /\ outcome.sealed => outcome'.sealed
           /\ outcome'.corrected => outcome'.sealed
           /\ outcome.corrected => outcome'.corrected
           /\ Standing
<1>0. SealedInv /\ (outcome.corrected => outcome.sealed)
  BY DEF CorrectionInv
<1>1. CASE UNCHANGED outcome
  BY <1>0, <1>1 DEF Standing
<1>2. CASE \E status : \E closes \in BOOLEAN : outcome' = Upserted(outcome, status, closes)
  <2>1. PICK status, closes : outcome' = Upserted(outcome, status, closes)
    BY <1>2
  <2>2. CASE outcome.sealed \/ outcome.status \in Final
    BY <1>0, <2>1, <2>2 DEF Upserted, Standing
  <2>3. CASE ~(outcome.sealed \/ outcome.status \in Final)
    <3>1. outcome'.corrected = outcome.corrected
      BY <1>0, <2>1, <2>3 DEF Upserted, SealedInv, Rows
    <3> QED
      BY <1>0, <2>3, <3>1 DEF Standing
  <2> QED
    BY <2>2, <2>3
<1>3. CASE PartialRepairWrite
  <2>1. CASE outcome.sealed
    BY <1>0, <1>3, <2>1 DEF PartialRepairWrite, TriggerRefuses, Standing
  <2>2. CASE ~outcome.sealed
    <3>1. outcome'.sealed = TRUE /\ outcome'.corrected = outcome.corrected
      BY <1>0, <1>3, <2>2 DEF PartialRepairWrite, TriggerRefuses, SealedInv, Rows
    <3> QED
      BY <1>0, <2>2, <3>1 DEF Standing
  <2> QED
    BY <2>1, <2>2
<1>4. ASSUME NEW p \in Projectors, ProjectionWrite(p)
      PROVE  /\ outcome.sealed => outcome'.sealed
             /\ outcome'.corrected => outcome'.sealed
             /\ outcome.corrected => outcome'.corrected
             /\ Standing
  <2> DEFINE saw == projector[p].saw
             status == projector[p].status
  <2>1. /\ projector[p].pc = "holding" /\ ~saw.corrected
        /\ saw.status \in Final => outcome.sealed
    BY <1>4 DEF ProjectionWrite, CorrectionInv
  <2>2. \/ outcome' = outcome
        \/ saw.status = Absent /\ outcome' = Upserted(outcome, status, FALSE)
        \/ (~outcome.sealed \/ saw.status \in Final) /\ outcome' = Overwritten(outcome, saw, status)
    BY <1>4 DEF ProjectionWrite, TriggerRefuses
  <2>3. CASE outcome' = outcome
    BY <1>0, <2>3 DEF Standing
  <2>4. CASE outcome' = Upserted(outcome, status, FALSE)
    BY <1>2, <2>4
  <2>5. CASE (~outcome.sealed \/ saw.status \in Final) /\ outcome' = Overwritten(outcome, saw, status)
    <3>1. /\ outcome'.sealed = (outcome.sealed \/ status \in Final)
          /\ outcome'.corrected = (outcome.corrected \/ saw.status \in Final)
      BY <2>5 DEF Overwritten
    <3>2. outcome.corrected => saw.status \in Final
      BY <1>0, <2>5
    <3>3. outcome.corrected => Corrects(p)
      <4>1. projector'[p].pc = "idle"
        BY <1>4 DEF ProjectionWrite, IdleProjector, TypeOK
      <4> QED
        BY <2>1, <3>2, <4>1 DEF Corrects
    <3> QED
      BY <1>0, <2>1, <3>1, <3>3 DEF Standing
  <2> QED
    BY <2>2, <2>3, <2>4, <2>5
<1> QED
  BY <1>1, <1>2, <1>3, <1>4, Writes

\* A projector comes to hold a row by loading it.
LEMMA Loads ==
    ASSUME TypeOK, Next, NEW p \in Projectors, projector'[p].pc = "holding",
           projector'[p] # projector[p]
    PROVE  ProjectionRead(p)
<1>1. ASSUME NEW q \in Projectors, ProjectorStep(q)
      PROVE  ProjectionRead(p)
  <2>1. CASE ProjectionRead(q)
    BY <2>1 DEF ProjectionRead, TypeOK
  <2>2. CASE ProjectionWrite(q) \/ ProjectionFails(q)
    <3>1. projector' = [projector EXCEPT ![q] = IdleProjector]
      BY <2>2 DEF ProjectionWrite, ProjectionFails
    <3> QED
      BY <3>1 DEF IdleProjector, TypeOK
  <2> QED
    BY <1>1, <2>1, <2>2 DEF ProjectorStep
<1>2. (\E t \in Trackers : TrackerStep(t)) \/ PartialRepairRead \/ PartialRepairWrite \/ Archive
      \/ (\E status \in {"tp", "sl", "invalid", "tp1", "tp2", "tp3"} : AdminResolve(status))
         => projector' = projector
  BY DEF TrackerStep, FetchActive, FetchUntracked, FetchForUser, ReadProgress, Observe, MissEntry,
     TouchEntry, HitTarget, NoteProgress, HitStop, TimeStop, PersistGuarded, Insert, PersistFails,
     Leave, KeepRepairs, PartialRepairRead, PartialRepairWrite, Archive, AdminResolve
<1> QED
  BY <1>1, <1>2 DEF Next

\* A row becomes a corrected one under a projection.
LEMMA Corrected ==
    ASSUME TypeOK, Next, ~outcome.corrected, outcome'.corrected
    PROVE  \E p \in Projectors : projector[p].pc = "holding" /\ projector'[p].pc = "idle"
<1>1. CASE UNCHANGED outcome
  BY <1>1
<1>2. CASE \E status : \E closes \in BOOLEAN : outcome' = Upserted(outcome, status, closes)
  BY <1>2 DEF Upserted, TypeOK, Outcomes
<1>3. CASE PartialRepairWrite
  BY <1>3 DEF PartialRepairWrite, TypeOK, Outcomes
<1>4. CASE \E p \in Projectors : ProjectionWrite(p)
  BY <1>4 DEF ProjectionWrite, IdleProjector, TypeOK
<1> QED
  BY <1>1, <1>2, <1>3, <1>4, Writes

LEMMA CorrectionInit == ASSUME Init PROVE CorrectionInv
  BY SealedInit DEF Init, CorrectionInv, NoOutcome, IdleProjector

LEMMA CorrectionStep ==
    ASSUME TypeOK, CorrectionInv, [Next]_vars
    PROVE  CorrectionInv' /\ [Standing]_vars
<1>1. CASE UNCHANGED vars
  BY <1>1, SealedStep DEF CorrectionInv, vars
<1>2. CASE Next
  <2>1. /\ outcome.sealed => outcome'.sealed
        /\ outcome'.corrected => outcome'.sealed
        /\ Standing
    BY <1>2, CorrectedWrite
  <2>2. ASSUME NEW p \in Projectors, projector'[p].pc = "holding"
        PROVE  /\ ~projector'[p].saw.corrected
               /\ projector'[p].saw.status \in Final => outcome'.sealed
    <3>1. CASE projector'[p] = projector[p]
      BY <2>1, <2>2, <3>1 DEF CorrectionInv
    <3>2. CASE projector'[p] # projector[p]
      <4>1. ProjectionRead(p)
        BY <1>2, <2>2, <3>2, Loads
      <4>2. projector'[p].saw = outcome /\ outcome' = outcome /\ ~outcome.corrected
        BY <4>1 DEF ProjectionRead, KeepOutcome, TypeOK
      <4> QED
        BY <4>2 DEF CorrectionInv, SealedInv
    <3> QED
      BY <3>1, <3>2
  <2> QED
    BY <2>1, <2>2, SealedStep DEF CorrectionInv
<1> QED
  BY <1>1, <1>2

LEMMA AlwaysStanding == Spec => [][Standing]_vars
<1>1. TypeOK /\ CorrectionInv /\ [Next]_vars => CorrectionInv' /\ [Standing]_vars
  BY CorrectionStep
<1> QED
  BY <1>1, CorrectionInit, TypeCorrect, PTL DEF Spec

\* With every writer and any number of reconciliations at work, a corrected result
\* changes only by a correction that was in the making before: see CorrectionStands
\* (outcome_reconciliation.py:305, 325).
THEOREM CorrectionsStand == Spec => CorrectionStands
<1>1. [Standing]_vars =>
         [outcome.corrected /\ outcome' # outcome =>
             /\ outcome'.corrected
             /\ \E p \in Projectors :
                   /\ projector[p].pc = "holding" /\ projector'[p].pc = "idle"
                   /\ projector[p].saw.status \in Final /\ ~projector[p].saw.corrected]_vars
  BY DEF Standing, Corrects
<1> QED
  BY <1>1, AlwaysStanding, PTL DEF CorrectionStands

\* One reconciliation has the row at a time.
OneReconciles ==
    \A p, q \in Projectors :
        projector[p].pc = "holding" /\ projector[q].pc = "holding" => p = q

\* As long as one reconciliation has the row at a time, a corrected result is never
\* changed again, with trackers, the partial-exit repair and administrators at work
\* beside it (outcome_reconciliation.py:305).
THEOREM CorrectionsAreFinal == Spec /\ []OneReconciles => CorrectionIsFinal
<1> DEFINE Free == outcome.corrected => \A p \in Projectors : projector[p].pc # "holding"
<1>1. Init => Free
  BY DEF Init, NoOutcome
<1>2. TypeOK /\ OneReconciles /\ Free /\ [Next]_vars /\ [Standing]_vars => Free'
  <2> SUFFICES ASSUME TypeOK, OneReconciles, Free, [Next]_vars, [Standing]_vars, outcome'.corrected,
                      NEW p \in Projectors, projector'[p].pc = "holding"
               PROVE  FALSE
    OBVIOUS
  <2>1. CASE UNCHANGED vars
    BY <2>1 DEF vars
  <2>2. CASE Next
    <3>1. CASE projector'[p] # projector[p]
      <4>1. ProjectionRead(p)
        BY <2>2, <3>1, Loads
      <4> QED
        BY <4>1 DEF ProjectionRead, KeepOutcome
    <3>2. CASE projector'[p] = projector[p]
      <4>1. ~outcome.corrected
        BY <3>2
      <4>2. PICK q \in Projectors : projector[q].pc = "holding" /\ projector'[q].pc = "idle"
        BY <2>2, <4>1, Corrected
      <4> QED
        BY <3>2, <4>2 DEF OneReconciles
    <3> QED
      BY <3>1, <3>2
  <2> QED
    BY <2>1, <2>2
<1>3. Free /\ [Standing]_vars => [outcome.corrected => outcome' = outcome]_vars
  BY DEF Standing, Corrects
<1> HIDE DEF Free
<1> QED
  BY <1>1, <1>2, <1>3, TypeCorrect, AlwaysStanding, PTL DEF Spec, CorrectionIsFinal
=============================================================================
