--------------------------- MODULE OutcomeTracking ---------------------------
(***************************************************************************)
(* From market price to outcome, for one delivered signal.  Trackers (the  *)
(* background scanner and the interactive re-checks behind the Telegram    *)
(* buttons run the same code) record lifecycle events under the row lock   *)
(* of the lifecycle and then persist the outcome that follows; projectors  *)
(* and the partial-exit repair mend outcomes behind their back; Redis      *)
(* remembers how far the targets got.  Signals never interact.             *)
(*                                                                         *)
(* Prices are nondeterministic: any quote may reach any level.  READ       *)
(* COMMITTED is assumed, and rows a session has loaded stay as loaded.     *)
(***************************************************************************)
EXTENDS LifecycleGraph

CONSTANTS
    Trackers,
    Projectors,      \* processes running ensure_outcome_projections
    PartialRepairs,  \* does repair_partial_exit_outcomes run?
    AdminResolves    \* does an administrator resolve signals by hand?

ASSUME TrackingAssumption == PartialRepairs \in BOOLEAN /\ AdminResolves \in BOOLEAN

VARIABLES
    lifecycle,  \* the signal_lifecycles row: state and highest_tp_hit
    ledger,     \* the signal_tracking_events recorded, one of each type at most
    outcome,    \* the outcomes row; sealed: terminal_version > 0
    archived,   \* is the signal archived?
    cache,      \* target progress remembered in Redis
    tracker,    \* tracker -> where it is and what it believes
    projector,  \* projector -> the outcomes row it loaded, the status it will write
    repairing   \* has the partial-exit repair loaded the row as a candidate?

vars == <<lifecycle, ledger, outcome, archived, cache, tracker, projector, repairing>>

NoOutcome == [status |-> Absent, sealed |-> FALSE, closed |-> FALSE, corrected |-> FALSE]

IdleTracker == [pc |-> "idle", state |-> "WATCHING_FOR_ENTRY", tp |-> 0, prior |-> Absent,
                goal |-> 0, status |-> Absent]

IdleProjector == [pc |-> "idle", saw |-> NoOutcome, status |-> Absent]

Larger(a, b) == IF a >= b THEN a ELSE b

-----------------------------------------------------------------------------
(* record_lifecycle_event: one transaction under the lifecycle's row lock. *)

Accepts(e) == /\ e \notin ledger
              /\ StateOf[e] \in AllowedTargets[lifecycle.state]

Record(e) ==
    /\ Accepts(e)
    /\ ledger' = ledger \cup {e}
    /\ lifecycle' = [state |-> StateOf[e], tp |-> Larger(lifecycle.tp, TargetOf[StateOf[e]])]

\* Nothing new: the graph refuses the event, or it is on record already.
\* (The repair of a lifecycle that lags behind its own events finds none here.)
Refuse(e) ==
    /\ ~Accepts(e)
    /\ UNCHANGED <<lifecycle, ledger>>

KeepLifecycle == UNCHANGED <<lifecycle, ledger>>

-----------------------------------------------------------------------------
(* upsert_outcome without a correction, on the row as it is. *)

\* Mutant: the row's own finality is not looked at.
UpsertedOverFinal(o, status, closes) ==
    [o EXCEPT !.status = status, !.sealed = status \in Final,
              !.closed = @ \/ closes \/ status \in Final]

Upserted(o, status, closes) ==
    IF o.sealed \/ o.status \in Final THEN o
    ELSE [o EXCEPT !.status = status, !.sealed = status \in Final,
                   !.closed = @ \/ closes \/ status \in Final]

KeepOutcome == UNCHANGED <<outcome, archived>>

KeepRepairs == UNCHANGED <<projector, repairing>>

-----------------------------------------------------------------------------
(* A tracker checks the signal. *)

Become(t, r) == tracker' = [tracker EXCEPT ![t] = r]

Goto(t, pc) == Become(t, [tracker[t] EXCEPT !.pc = pc])

Rest(t) == Become(t, IdleTracker)

Load(t, state, tp, prior) ==
    Become(t, [IdleTracker EXCEPT !.pc = "loaded", !.state = state, !.tp = tp, !.prior = prior])

\* _database_tp_progress
DatabaseProgress == Larger(Larger(lifecycle.tp, TargetOf[lifecycle.state]),
                           StatusTarget[outcome.status])

FetchActive(t) ==
    /\ tracker[t].pc = "idle"
    /\ ~archived
    /\ outcome.status \in {Absent, "pending", "tp1", "tp2"}
    /\ Load(t, lifecycle.state, DatabaseProgress, outcome.status)
    /\ KeepLifecycle /\ KeepOutcome /\ KeepRepairs /\ UNCHANGED cache

\* The backfill of delivered signals without an outcome knows no lifecycle.
FetchUntracked(t) ==
    /\ tracker[t].pc = "idle"
    /\ outcome.status = Absent
    /\ Load(t, "WATCHING_FOR_ENTRY", 0, Absent)
    /\ KeepLifecycle /\ KeepOutcome /\ KeepRepairs /\ UNCHANGED cache

\* reconcile_signal_now takes a signal whatever its outcome.
FetchForUser(t) ==
    /\ tracker[t].pc = "idle"
    /\ ~archived
    /\ Load(t, lifecycle.state, DatabaseProgress, outcome.status)
    /\ KeepLifecycle /\ KeepOutcome /\ KeepRepairs /\ UNCHANGED cache

\* _get_tp_progress; Redis may be away.
ReadProgress(t) ==
    /\ tracker[t].pc = "loaded"
    /\ \E c \in {0, cache} :
          Become(t, [tracker[t] EXCEPT !.pc = "primed", !.tp = Larger(@, c)])
    /\ KeepLifecycle /\ KeepOutcome /\ KeepRepairs /\ UNCHANGED cache

Lags(prior, projected) == /\ projected \notin {Absent, prior}
                          /\ OutcomeMoveAllowed(prior, projected)

\* update_lifecycle_observation answers with the durable state, or, when the row
\* lock does not come in time, with the state fetched before; an outcome that
\* lags behind it is repaired first.  The outcome fetched has served its turn.
Observe(t) ==
    /\ tracker[t].pc = "primed"
    /\ \E s \in {lifecycle.state, tracker[t].state} :
          LET seen == [tracker[t] EXCEPT !.state = s, !.tp = Larger(@, TargetOf[s]),
                                         !.prior = Absent]
              lags == Lags(tracker[t].prior, OutcomeFor[s])
          IN \/ /\ lags
                /\ Become(t, [seen EXCEPT !.pc = "persisting", !.status = OutcomeFor[s]])
             \/ ~lags /\ s \in Terminal /\ Rest(t)
             \/ ~lags /\ s \notin Terminal /\ Become(t, [seen EXCEPT !.pc = "judging"])
    /\ KeepLifecycle /\ KeepOutcome /\ KeepRepairs /\ UNCHANGED cache

Persist(t, status) ==
    Become(t, [tracker[t] EXCEPT !.pc = "persisting", !.status = status, !.goal = 0])

Judging(t) == tracker[t].pc = "judging" /\ tracker[t].state # "WATCHING_FOR_ENTRY"

Watching(t) == tracker[t].pc = "judging" /\ tracker[t].state = "WATCHING_FOR_ENTRY"

MissEntry(t) ==
    /\ Watching(t)
    /\ \/ Record("missed_entry") /\ Persist(t, "missed_entry")
       \/ Refuse("missed_entry") /\ Rest(t)
    /\ KeepOutcome /\ KeepRepairs /\ UNCHANGED cache

\* The trade is taken for active whether or not the event was accepted.
TouchEntry(t) ==
    /\ Watching(t)
    /\ Record("entry_touched") \/ Refuse("entry_touched")
    /\ Become(t, [tracker[t] EXCEPT !.state = "ACTIVE_TRADE"])
    /\ KeepOutcome /\ KeepRepairs /\ UNCHANGED cache

\* On the way up only targets count: the state judged has served its turn.
Climb(t, pc, status, goal) ==
    Become(t, [tracker[t] EXCEPT !.pc = pc, !.state = "ACTIVE_TRADE", !.status = status,
                                 !.goal = goal])

\* The price is beyond target goal: the targets up to it are recorded one by one.
HitTarget(t, goal) ==
    LET next == tracker[t].tp + 1 IN
    /\ \/ Judging(t)
       \/ tracker[t].pc = "climbing" /\ goal = tracker[t].goal
    /\ next <= goal
    /\ \/ Record(TargetEvent[next]) /\ Climb(t, "persisting", TargetStatus[next], goal)
       \/ Refuse(TargetEvent[next]) /\ Climb(t, "noting", Absent, goal)
    /\ KeepOutcome /\ KeepRepairs /\ UNCHANGED cache

\* Mutant: the goal is noted in place of the target just recorded.
NoteGoal(t) ==
    LET next == tracker[t].tp + 1 IN
    /\ tracker[t].pc = "noting"
    /\ cache' \in {tracker[t].goal, cache}
    /\ IF next = tracker[t].goal
       THEN Rest(t)
       ELSE Become(t, [tracker[t] EXCEPT !.pc = "climbing", !.tp = next])
    /\ KeepLifecycle /\ KeepOutcome /\ KeepRepairs

\* _set_tp_progress, which writes whatever it is told; Redis may be away.
NoteProgress(t) ==
    LET next == tracker[t].tp + 1 IN
    /\ tracker[t].pc = "noting"
    /\ cache' \in {next, cache}
    /\ IF next = tracker[t].goal
       THEN Rest(t)
       ELSE Become(t, [tracker[t] EXCEPT !.pc = "climbing", !.tp = next])
    /\ KeepLifecycle /\ KeepOutcome /\ KeepRepairs

\* Mutant: the outcome is persisted whether or not the event was accepted.
HitStopUnasked(t) ==
    LET event == IF tracker[t].tp >= 1 THEN "breakeven_stop" ELSE "sl_hit" IN
    /\ Judging(t)
    /\ Record(event) \/ Refuse(event)
    /\ Persist(t, OutcomeFor[StateOf[event]])
    /\ KeepOutcome /\ KeepRepairs /\ UNCHANGED cache

\* The stop after a target protects the remainder.
HitStop(t) ==
    LET event == IF tracker[t].tp >= 1 THEN "breakeven_stop" ELSE "sl_hit" IN
    /\ Judging(t)
    /\ \/ Record(event) /\ Persist(t, OutcomeFor[StateOf[event]])
       \/ Refuse(event) /\ Rest(t)
    /\ KeepOutcome /\ KeepRepairs /\ UNCHANGED cache

TimeStop(t) ==
    /\ Judging(t)
    /\ \/ Record("expired") /\ Persist(t, "time_stop")
       \/ Refuse("expired") /\ Rest(t)
    /\ KeepOutcome /\ KeepRepairs /\ UNCHANGED cache

(* _persist_outcome *)

Return(t, pc) == Become(t, [tracker[t] EXCEPT !.pc = pc, !.status = Absent])

AfterPersist(t) ==
    CASE tracker[t].goal > 0 -> Return(t, "noting")
      [] tracker[t].goal = 0 /\ tracker[t].status \in Final -> Rest(t)
      [] OTHER -> Return(t, "judging")

Write(status) ==
    /\ outcome' = Upserted(outcome, status, TRUE)
    /\ archived' = (archived \/ status \in Final)

\* With a row there is a lock, so guard and write are one step; without one the
\* guard passes and another writer may come first.
PersistGuarded(t) ==
    /\ tracker[t].pc = "persisting"
    /\ \/ /\ outcome.status = Absent
          /\ Goto(t, "inserting")
          /\ KeepOutcome
       \/ /\ outcome.status # Absent
          /\ IF OutcomeMoveAllowed(outcome.status, tracker[t].status)
             THEN Write(tracker[t].status)
             ELSE KeepOutcome
          /\ AfterPersist(t)
    /\ KeepLifecycle /\ KeepRepairs /\ UNCHANGED cache

Insert(t) ==
    /\ tracker[t].pc = "inserting"
    /\ Write(tracker[t].status)
    /\ AfterPersist(t)
    /\ KeepLifecycle /\ KeepRepairs /\ UNCHANGED cache

\* Every exception is logged and swallowed: the caller goes on.
PersistFails(t) ==
    /\ tracker[t].pc \in {"persisting", "inserting"}
    /\ AfterPersist(t)
    /\ KeepLifecycle /\ KeepOutcome /\ KeepRepairs /\ UNCHANGED cache

\* No level was reached, no price came, an exception, or a restart.
Leave(t) ==
    /\ tracker[t].pc # "idle"
    /\ Rest(t)
    /\ KeepLifecycle /\ KeepOutcome /\ KeepRepairs /\ UNCHANGED cache

-----------------------------------------------------------------------------
(* ensure_outcome_projections *)

Expected == OutcomeFor[lifecycle.state]

Disagrees == \/ outcome.status = Absent
             \/ /\ Expected # Absent
                /\ \/ outcome.status # Expected
                   \/ lifecycle.state \in Terminal /\ ~outcome.closed

ProjectionRead(p) ==
    /\ projector[p].pc = "idle"
    /\ Disagrees /\ ~outcome.corrected
    /\ projector' = [projector EXCEPT ![p] =
          [pc |-> "holding", saw |-> outcome,
           status |-> IF Expected = Absent THEN "pending" ELSE Expected]]
    /\ UNCHANGED <<tracker, repairing, cache>>
    /\ KeepLifecycle /\ KeepOutcome

\* The session writes the columns it changed over the row as it is now; a final
\* row is changed only as an attributed correction.
Overwritten(o, saw, status) ==
    [status |-> status,
     sealed |-> o.sealed \/ status \in Final,
     closed |-> o.closed \/ status \in Final,
     corrected |-> o.corrected \/ saw.status \in Final]

\* Mutant: the migration was not applied.
TriggerMissing(o, correcting) == FALSE

\* The trigger enforce_terminal_outcome_finality.
TriggerRefuses(o, correcting) == o.sealed /\ ~correcting

\* Mutant: the batch is never committed.
ProjectionWriteUncommitted(p) ==
    /\ projector[p].pc = "holding"
    /\ projector' = [projector EXCEPT ![p] = IdleProjector]
    /\ UNCHANGED <<tracker, repairing, cache>>
    /\ KeepLifecycle /\ KeepOutcome

ProjectionWrite(p) ==
    LET saw == projector[p].saw
        status == projector[p].status
    IN
    /\ projector[p].pc = "holding"
    /\ outcome' = CASE saw.status = Absent -> Upserted(outcome, status, FALSE)
                    [] saw.status # Absent /\ TriggerRefuses(outcome, saw.status \in Final) ->
                          outcome
                    [] OTHER -> Overwritten(outcome, saw, status)
    /\ projector' = [projector EXCEPT ![p] = IdleProjector]
    /\ UNCHANGED <<archived, tracker, repairing, cache>>
    /\ KeepLifecycle

ProjectionFails(p) ==
    /\ projector[p].pc = "holding"
    /\ projector' = [projector EXCEPT ![p] = IdleProjector]
    /\ UNCHANGED <<tracker, repairing, cache>>
    /\ KeepLifecycle /\ KeepOutcome

-----------------------------------------------------------------------------
(* Writers beside the lifecycle. *)

\* repair_partial_exit_outcomes: closed rows with the canonical outcome
\* partial_win, which tp1 and tp2 have.  A row that says partial_win_be already
\* keeps its status.
PartialRepairRead ==
    /\ PartialRepairs /\ ~repairing
    /\ outcome.status \in {"tp1", "tp2"} /\ outcome.closed /\ ~outcome.corrected
    /\ lifecycle.tp > 0
    /\ repairing' = TRUE
    /\ UNCHANGED <<tracker, projector, cache>>
    /\ KeepLifecycle /\ KeepOutcome

PartialRepairWrite ==
    /\ repairing
    /\ outcome' = IF TriggerRefuses(outcome, FALSE) THEN outcome
                  ELSE [outcome EXCEPT !.status = "partial_win_be", !.sealed = TRUE]
    /\ repairing' = FALSE
    /\ UNCHANGED <<archived, tracker, projector, cache>>
    /\ KeepLifecycle

\* The administrator's WIN, LOSS, CANCEL, TP1, TP2, TP3.
AdminResolve(status) ==
    /\ AdminResolves
    /\ outcome' = Upserted(outcome, status, FALSE)
    /\ UNCHANGED <<archived, tracker, projector, repairing, cache>>
    /\ KeepLifecycle

\* The owner invalidates the signal, whatever state the trade is in.
Archive ==
    /\ ~archived
    /\ archived' = TRUE
    /\ UNCHANGED <<outcome, tracker, projector, repairing, cache>>
    /\ KeepLifecycle

-----------------------------------------------------------------------------
Init ==
    /\ lifecycle = [state |-> "WATCHING_FOR_ENTRY", tp |-> 0]
    /\ ledger = {}
    /\ outcome = NoOutcome
    /\ archived = FALSE
    /\ cache = 0
    /\ tracker = [t \in Trackers |-> IdleTracker]
    /\ projector = [p \in Projectors |-> IdleProjector]
    /\ repairing = FALSE

TrackerStep(t) ==
    \/ FetchActive(t) \/ FetchUntracked(t) \/ FetchForUser(t)
    \/ ReadProgress(t) \/ Observe(t)
    \/ MissEntry(t) \/ TouchEntry(t)
    \/ \E goal \in 1 .. 3 : HitTarget(t, goal)
    \/ NoteProgress(t) \/ HitStop(t) \/ TimeStop(t)
    \/ PersistGuarded(t) \/ Insert(t) \/ PersistFails(t)
    \/ Leave(t)

ProjectorStep(p) == ProjectionRead(p) \/ ProjectionWrite(p) \/ ProjectionFails(p)

Next ==
    \/ \E t \in Trackers : TrackerStep(t)
    \/ \E p \in Projectors : ProjectorStep(p)
    \/ PartialRepairRead \/ PartialRepairWrite
    \/ \E status \in {"tp", "sl", "invalid", "tp1", "tp2", "tp3"} : AdminResolve(status)
    \/ Archive

Spec == Init /\ [][Next]_vars

\* The reconciliation loop comes round every five minutes, and PostgreSQL does
\* not stay away for ever.
ProjectorFairness ==
    \A p \in Projectors : SF_vars(ProjectionRead(p)) /\ SF_vars(ProjectionWrite(p))

FairSpec == Spec /\ ProjectorFairness

-----------------------------------------------------------------------------
(* Properties. *)

TrackerPcs == {"idle", "loaded", "primed", "judging", "climbing", "noting", "persisting",
               "inserting"}

Outcomes == [status : Statuses, sealed : BOOLEAN, closed : BOOLEAN, corrected : BOOLEAN]

Lifecycles == [state : LifecycleStates, tp : 0 .. 3]

ProjectorStates == [pc : {"idle", "holding"}, saw : Outcomes, status : Statuses]

TrackerStates == [pc : TrackerPcs, state : LifecycleStates, tp : 0 .. 3, prior : Statuses,
                  goal : 0 .. 3, status : Statuses]

\* Every variable has its type; a climbing tracker is below its goal.
TypeOK ==
    /\ lifecycle \in Lifecycles
    /\ ledger \subseteq Events
    /\ outcome \in Outcomes
    /\ archived \in BOOLEAN
    /\ cache \in 0 .. 3
    /\ tracker \in [Trackers -> TrackerStates]
    /\ projector \in [Projectors -> ProjectorStates]
    /\ repairing \in BOOLEAN
    /\ \A t \in Trackers :
          tracker[t].pc \in {"noting", "climbing"} => tracker[t].tp < tracker[t].goal

\* The recorded events tell one possible story, whoever recorded them: targets in
\* order and none twice, the entry before any of them, a full stop only before
\* the first target and a protected one only after it, and one end at most.
\* (record_lifecycle_event, core/signal_lifecycle.py:83-93)
LedgerCoherent ==
    /\ \A i \in 1 .. 3 : TargetEvent[i] \in ledger <=> i <= lifecycle.tp
    /\ "sl_hit" \in ledger => lifecycle.tp = 0
    /\ "breakeven_stop" \in ledger => lifecycle.tp \in 1 .. 2
    /\ "missed_entry" \in ledger => ledger = {"missed_entry"}
    /\ ledger \cap {"tp1_hit", "sl_hit"} # {} => "entry_touched" \in ledger
    /\ \A e, f \in ledger : StateOf[e] \in Terminal /\ StateOf[f] \in Terminal => e = f

\* What Redis remembers never runs ahead of the recorded targets while the trade
\* is open: it decides whether a stop is a loss or a protected exit, and which
\* target is recorded next. (_get_tp_progress, _set_tp_progress)
ProgressNotAhead == lifecycle.state \notin Terminal => cache <= lifecycle.tp

\* l bears out a status: it ended that way, or reached that target.
Supports(l, status) ==
    /\ StatusTarget[status] <= l.tp
    /\ status \in Final => /\ l.state \in Terminal
                           /\ \/ status = OutcomeFor[l.state]
                              \/ status = "time_stop" /\ l.state = "EXPIRED"

\* The partial-exit repair takes a target that was reached for a protected exit.
BorneOut(l, status) == \/ Supports(l, status)
                       \/ status = "partial_win_be" /\ l.tp >= 1

\* The outcome never says more than the lifecycle: a final result belongs to the
\* final state reached, and a target to a recorded target; only a protected exit
\* may be claimed early, by the repair, of a trade that did reach a target.
\* ("Lifecycle is authoritative", realtime_outcome_tracker.py:1351)
OutcomeFollowsLifecycle == BorneOut(lifecycle, outcome.status)

\* A finalized result changes only as an attributed correction, though writers
\* hold rows they loaded long ago. (upsert_outcome, pg_features.py:1901)
TerminalNeedsCorrection ==
    [][outcome.status \in Final /\ outcome'.status # outcome.status => outcome'.corrected]_vars

\* A corrected result is never changed again, by whatever writer, while one
\* reconciliation runs at a time. (outcome_reconciliation.py:305)
CorrectionIsFinal ==
    [][outcome.corrected => outcome' = outcome]_vars

\* With several reconciliations a corrected result is changed by a correction only
\* that was in the making before: neither trackers nor the repair, an administrator
\* or a later reconciliation touch it. (outcome_reconciliation.py:305, 325)
CorrectionStands ==
    [][outcome.corrected /\ outcome' # outcome =>
          /\ outcome'.corrected
          /\ \E p \in Projectors :
                /\ projector[p].pc = "holding" /\ projector'[p].pc = "idle"
                /\ projector[p].saw.status \in Final /\ ~projector[p].saw.corrected]_vars

\* Once the lifecycle has ended, the outcome comes to agree with it, whatever
\* failed or was interrupted on the way. ("Create missing projections and repair
\* lifecycle/outcome disagreements", outcome_reconciliation.py:249)
OutcomeCatchesUp ==
    \A s \in Terminal :
        lifecycle.state = s ~> outcome.status = OutcomeFor[s]
=============================================================================
