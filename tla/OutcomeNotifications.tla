------------------------ MODULE OutcomeNotifications ------------------------
(***************************************************************************)
(* Telling a recipient of a signal how it went.  The tracker commits an    *)
(* outcome and then queues one row per recipient and status; the front     *)
(* door's job, one replica at a time under a lease, claims a row, sends    *)
(* and marks it; a repair queues what a crash left out.  The lifecycle     *)
(* dispatcher tells of missed entries on its own and cross-marks the row.  *)
(*                                                                         *)
(* One signal and one recipient are modelled.  Other signals do not        *)
(* matter; other recipients do in two ways: their rows keep the outcome    *)
(* listed, and their failures hold it back.  Both are free choices here.   *)
(***************************************************************************)
EXTENDS LifecycleGraph, JobLease

CONSTANTS
    Stages,       \* the outcome statuses of the instance
    Moods         \* what the recipient may set: "on", "quiet", "off"

ASSUME NotifyAssumption ==
    /\ Stages \subseteq Statuses \ {Absent, "pending"}
    /\ "on" \in Moods /\ Moods \subseteq {"on", "quiet", "off"}

VARIABLES
    outcome,    \* status of the outcomes row
    corrected,  \* was a final outcome corrected?
    unqueued,   \* statuses committed by a tracker that is about to queue them
    row,        \* status -> delivery_state; "stalled" is "sending" for 300 s
    told,       \* the statuses Telegram accepted a message of
    mood,       \* alert preference of the recipient at this hour
    sender,     \* replica -> its cycle of the front-door job
    event,      \* the lifecycle's own notification of a missed entry
    dispatcher  \* how far the lifecycle dispatcher is with it

queueVars == <<outcome, corrected, unqueued>>
eventVars == <<event, dispatcher>>
vars == <<backend, key, advisory, lease, outcome, corrected, unqueued, row, told, mood, sender,
          event, dispatcher>>

IdleSender == [pc |-> "idle", status |-> Absent, held |-> FALSE]

-----------------------------------------------------------------------------
(* core/outcome_ordering.py: the order of what recipients are told. *)

StageRank ==
    [s \in Statuses |->
        CASE s = "tp1" -> 10 [] s = "tp2" -> 20 [] s = "partial_win_be" -> 25
          [] s \in {"tp3", "sl", "expired"} -> 30 [] OTHER -> 0]

EndsStory(s) == s \in {"tp3", "sl", "partial_win_be", "expired"}

Delivered == {s \in Stages : row[s] = "delivered"}

\* evaluate_outcome_delivery
MayTell(s) ==
    \A d \in Delivered :
        /\ ~EndsStory(d)
        /\ StageRank[s] >= StageRank[d]
        /\ StageRank[s] = StageRank[d] => StageRank[s] = 0

Open == {"pending", "failed", "sending", "stalled"}

Obsoletes(s, x) == EndsStory(s) \/ StageRank[x] < StageRank[s]

\* mark_outcome_notification_delivered
Marked(s) ==
    [x \in Stages |-> IF x = s THEN "delivered"
                      ELSE IF row[x] \in Open /\ Obsoletes(s, x) THEN "superseded"
                      ELSE row[x]]

Waiting == {s \in Stages : row[s] \in {"pending", "failed"}}

\* mark_outcome_notified: every row that waits is marked, one after the other.
AllMarked ==
    [x \in Stages |-> IF x \in Waiting THEN "delivered"
                      ELSE IF row[x] \in Open /\ \E s \in Waiting : Obsoletes(s, x)
                      THEN "superseded"
                      ELSE row[x]]

SetRow(s, state) == row' = [row EXCEPT ![s] = state]

-----------------------------------------------------------------------------
(* The outcome moves, and its rows are queued. *)

\* Mutant: a row that is there is reset.
QueueAfresh(s) == SetRow(s, "pending")

\* queue_outcome_notifications_for_outcome: at most one row of a status.
QueueFor(s) == SetRow(s, IF row[s] = "absent" THEN "pending" ELSE row[s])

\* An outcome follows from the lifecycle: see OutcomeTracking.
Follows(s) ==
    /\ s # outcome
    /\ OutcomeMoveAllowed(outcome, s)
    /\ s \in {"sl", "missed_entry"} => outcome = Absent
    /\ s = "partial_win_be" => outcome \in {"tp1", "tp2"}
    /\ (s = "missed_entry") <=> (event # "none")

\* _persist_outcome commits the outcome before it queues anything.
CommitOutcome(s) ==
    /\ s \in Stages
    /\ Follows(s)
    /\ outcome' = s
    /\ unqueued' = unqueued \cup {s}
    /\ UNCHANGED <<corrected, row, told, mood, sender, eventVars, leaseVars>>

QueueRows(s) ==
    /\ s \in unqueued
    /\ QueueFor(s)
    /\ unqueued' = unqueued \ {s}
    /\ UNCHANGED <<outcome, corrected, told, mood, sender, eventVars, leaseVars>>

\* The process dies here, or the exception is swallowed.
QueueingFails(s) ==
    /\ s \in unqueued
    /\ unqueued' = unqueued \ {s}
    /\ UNCHANGED <<outcome, corrected, row, told, mood, sender, eventVars, leaseVars>>

\* Mutant: a final outcome is not looked at again.
RepairProgress ==
    /\ outcome \notin Final \cup {Absent}
    /\ QueueFor(outcome)
    /\ row' # row
    /\ UNCHANGED <<queueVars, told, mood, sender, eventVars, leaseVars>>

\* repair_outcome_notification_outbox knows the current status only.
RepairQueue ==
    /\ outcome # Absent
    /\ QueueFor(outcome)
    /\ row' # row
    /\ UNCHANGED <<queueVars, told, mood, sender, eventVars, leaseVars>>

\* An audited correction; upsert_outcome queues it itself, unless told not to.
Correct(s) ==
    /\ s \in Stages \ {outcome, "missed_entry"}
    /\ outcome \in Final /\ s \in Final /\ ~corrected
    /\ outcome' = s
    /\ corrected' = TRUE
    /\ QueueFor(s) \/ UNCHANGED row
    /\ UNCHANGED <<unqueued, told, mood, sender, eventVars, leaseVars>>

-----------------------------------------------------------------------------
(* The front door's job. *)

SetSender(p, r) == sender' = [sender EXCEPT ![p] = r]

KeepOthers == UNCHANGED <<queueVars, mood, eventVars>>

TakeLease(p) ==
    /\ sender[p].pc = "idle"
    /\ AcquireRedis(p) \/ AcquirePostgres(p)
    /\ SetSender(p, [IdleSender EXCEPT !.pc = "leased"])
    /\ KeepOthers /\ UNCHANGED <<row, told>>

\* list_unnotified_outcomes: an outcome is listed for its waiting rows, the
\* recipient's or another's.  Whom to tell is settled here; who has quiet hours,
\* be it all day, or fails, holds the outcome back.
Fetch(p) ==
    /\ sender[p].pc = "leased"
    /\ outcome # Absent
    /\ \E othersHold \in BOOLEAN :
          SetSender(p, [pc |-> IF mood = "on" THEN "ready" ELSE "done", status |-> outcome,
                        held |-> othersHold \/ mood = "quiet"])
    /\ KeepOthers /\ UNCHANGED <<row, told, leaseVars>>

\* Nothing waits, or its rows lie beyond the limit of the list: rows of others,
\* put off by quiet hours, may stay ahead of them for ever.
NothingListed(p) ==
    /\ sender[p].pc = "leased"
    /\ SetSender(p, IdleSender)
    /\ Release(p)
    /\ KeepOthers /\ UNCHANGED <<row, told>>

\* Mutant: a claim that went stale is not taken over.
ClaimableFresh(s) == row[s] \in {"pending", "failed"}

Claimable(s) == row[s] \in {"pending", "failed", "stalled"}

\* claim_outcome_notification_for_delivery.  A refused claim rewrites the row
\* whatever its state; a row another sender holds, or that is done, is skipped.
Claim(p) ==
    LET s == sender[p].status
    IN /\ sender[p].pc = "ready"
       /\ \/ /\ row[s] # "absent" /\ ~MayTell(s)
             /\ SetRow(s, "superseded")
             /\ SetSender(p, [sender[p] EXCEPT !.pc = "done"])
          \/ /\ Claimable(s) /\ MayTell(s)
             /\ SetRow(s, "sending")
             /\ SetSender(p, [sender[p] EXCEPT !.pc = "sending"])
          \/ /\ ~Claimable(s) /\ (row[s] = "absent" \/ MayTell(s))
             /\ SetSender(p, [sender[p] EXCEPT !.pc = "done"])
             /\ UNCHANGED row
       /\ KeepOthers /\ UNCHANGED <<told, leaseVars>>

ClaimFails(p) ==
    /\ sender[p].pc = "ready"
    /\ SetSender(p, [sender[p] EXCEPT !.pc = "done", !.held = TRUE])
    /\ KeepOthers /\ UNCHANGED <<row, told, leaseVars>>

SendAccepted(p) ==
    /\ sender[p].pc = "sending"
    /\ told' = told \cup {sender[p].status}
    /\ SetSender(p, [sender[p] EXCEPT !.pc = "sent"])
    /\ KeepOthers /\ UNCHANGED <<row, leaseVars>>

\* The answer is an error; the message may have gone out all the same.
SendFails(p) ==
    /\ sender[p].pc = "sending"
    /\ told' = told \cup {sender[p].status} \/ UNCHANGED told
    /\ SetSender(p, [sender[p] EXCEPT !.pc = "failed"])
    /\ KeepOthers /\ UNCHANGED <<row, leaseVars>>

\* The row is written by its id, whatever became of it since the claim.
MarkDelivered(p) ==
    /\ sender[p].pc = "sent"
    /\ row' = Marked(sender[p].status)
    /\ SetSender(p, [sender[p] EXCEPT !.pc = "done"])
    /\ KeepOthers /\ UNCHANGED <<told, leaseVars>>

MarkDeliveredFails(p) ==
    /\ sender[p].pc = "sent"
    /\ SetSender(p, [sender[p] EXCEPT !.pc = "failed"])
    /\ KeepOthers /\ UNCHANGED <<row, told, leaseVars>>

\* mark_outcome_notification_failed, whose own failure is passed over.
MarkFailed(p) ==
    /\ sender[p].pc = "failed"
    /\ SetRow(sender[p].status, "failed") \/ UNCHANGED row
    /\ SetSender(p, [sender[p] EXCEPT !.pc = "done", !.held = TRUE])
    /\ KeepOthers /\ UNCHANGED <<told, leaseVars>>

\* Mutant: the lease is not given back.
FinishHolding(p) ==
    /\ sender[p].pc = "done"
    /\ row' = IF sender[p].held THEN row ELSE AllMarked
    /\ SetSender(p, IdleSender)
    /\ UNCHANGED leaseVars
    /\ KeepOthers /\ UNCHANGED told

\* When nobody is held back the outcome counts as notified.
Finish(p) ==
    /\ sender[p].pc = "done"
    /\ row' = IF sender[p].held THEN row ELSE AllMarked
    /\ SetSender(p, IdleSender)
    /\ Release(p)
    /\ KeepOthers /\ UNCHANGED told

FinishFails(p) ==
    /\ sender[p].pc = "done" /\ ~sender[p].held
    /\ SetSender(p, IdleSender)
    /\ Release(p)
    /\ KeepOthers /\ UNCHANGED <<row, told>>

SenderDies(p) ==
    /\ sender[p].pc # "idle"
    /\ SetSender(p, IdleSender)
    /\ HolderDies(p)
    /\ KeepOthers /\ UNCHANGED <<row, told>>

-----------------------------------------------------------------------------
(* The lifecycle's own notification of a missed entry. *)

\* record_lifecycle_event commits it before the outcome.
RecordMissedEntry ==
    /\ "missed_entry" \in Stages
    /\ outcome = Absent /\ event = "none"
    /\ event' = "pending"
    /\ UNCHANGED <<queueVars, row, told, mood, sender, dispatcher, leaseVars>>

\* Mutant: a claim that went stale is not taken over.
ClaimEventOnce ==
    /\ dispatcher = "idle"
    /\ event \in {"pending", "failed"} /\ mood = "on"
    /\ event' = "sending" /\ dispatcher' = "sending"
    /\ UNCHANGED <<queueVars, row, told, mood, sender, leaseVars>>

\* claim_event_notification takes over what a dead dispatcher held.
ClaimEvent ==
    /\ dispatcher = "idle"
    /\ event \in {"pending", "failed", "stalled"} /\ mood = "on"
    /\ event' = "sending" /\ dispatcher' = "sending"
    /\ UNCHANGED <<queueVars, row, told, mood, sender, leaseVars>>

SuppressEvent ==
    /\ dispatcher = "idle"
    /\ event \in {"pending", "failed", "stalled"} /\ mood = "off"
    /\ event' = "suppressed"
    /\ UNCHANGED <<queueVars, row, told, mood, sender, dispatcher, leaseVars>>

SendEvent ==
    /\ dispatcher = "sending"
    /\ told' = told \cup {"missed_entry"}
    /\ dispatcher' = "sent"
    /\ UNCHANGED <<queueVars, row, mood, sender, event, leaseVars>>

SendEventFails ==
    /\ dispatcher = "sending"
    /\ told' = told \cup {"missed_entry"} \/ UNCHANGED told
    /\ dispatcher' = "failed"
    /\ UNCHANGED <<queueVars, row, mood, sender, event, leaseVars>>

\* A success is cross-marked in the outcome's row, if there is one by now.
FinishEvent ==
    /\ dispatcher \in {"sent", "failed"}
    /\ event' = dispatcher
    /\ row' = IF dispatcher = "sent" /\ row["missed_entry"] # "absent"
              THEN [row EXCEPT !["missed_entry"] = "delivered"]
              ELSE row
    /\ dispatcher' = "idle"
    /\ UNCHANGED <<queueVars, told, mood, sender, leaseVars>>

DispatcherDies ==
    /\ dispatcher # "idle"
    /\ dispatcher' = "idle"
    /\ UNCHANGED <<queueVars, row, told, mood, sender, event, leaseVars>>

-----------------------------------------------------------------------------
(* Time, and the recipient. *)

LeaseRunsOut ==
    /\ KeyExpires
    /\ UNCHANGED <<queueVars, row, told, mood, sender, eventVars>>

Attended(s) == \E p \in Replicas : sender[p].status = s /\ sender[p].pc \in {"sending", "sent", "failed"}

\* 300 s without a word: a cycle that keeps its lease is not that slow.
ClaimGoesStale(s) ==
    /\ row[s] = "sending"
    /\ ~Attended(s)
    /\ SetRow(s, "stalled")
    /\ UNCHANGED <<queueVars, told, mood, sender, eventVars, leaseVars>>

EventGoesStale ==
    /\ event = "sending" /\ dispatcher = "idle"
    /\ event' = "stalled"
    /\ UNCHANGED <<queueVars, row, told, mood, sender, dispatcher, leaseVars>>

ChangeMood(m) ==
    /\ m \in Moods \ {mood}
    /\ mood' = m
    /\ UNCHANGED <<queueVars, row, told, sender, eventVars, leaseVars>>

-----------------------------------------------------------------------------
Init ==
    /\ LeaseInit
    /\ outcome = Absent /\ corrected = FALSE /\ unqueued = {}
    /\ row = [s \in Stages |-> "absent"]
    /\ told = {}
    /\ mood = "on"
    /\ sender = [p \in Replicas |-> IdleSender]
    /\ event = "none" /\ dispatcher = "idle"

TrackerStep == \/ \E s \in Stages : \/ CommitOutcome(s) \/ QueueRows(s)
                                    \/ QueueingFails(s) \/ Correct(s)
               \/ RepairQueue

SenderStep(p) ==
    \/ TakeLease(p) \/ Fetch(p) \/ NothingListed(p)
    \/ Claim(p) \/ ClaimFails(p)
    \/ SendAccepted(p) \/ SendFails(p)
    \/ MarkDelivered(p) \/ MarkDeliveredFails(p) \/ MarkFailed(p)
    \/ Finish(p) \/ FinishFails(p) \/ SenderDies(p)

EventStep == \/ RecordMissedEntry \/ ClaimEvent \/ SuppressEvent \/ SendEvent
             \/ SendEventFails \/ FinishEvent \/ DispatcherDies \/ EventGoesStale

Surroundings == \/ LeaseRunsOut
                \/ \E s \in Stages : ClaimGoesStale(s)
                \/ \E m \in Moods : ChangeMood(m)

Next == TrackerStep \/ (\E p \in Replicas : SenderStep(p)) \/ EventStep \/ Surroundings

Spec == Init /\ [][Next]_vars

\* The repair, the dispatcher and whoever holds an outcome run for ever: what they
\* keep being able to do is one day done, and one attempt of many succeeds.  The
\* job may never come to list an outcome, and a recipient may be quiet for ever.
NotifyFairness ==
    /\ WF_vars(RepairQueue)
    /\ \A p \in Replicas : SF_vars(Claim(p)) /\ SF_vars(SendAccepted(p)) /\ SF_vars(MarkDelivered(p))
    /\ WF_vars(\E s \in Stages : ClaimGoesStale(s))
    /\ SF_vars(ClaimEvent \/ SuppressEvent) /\ SF_vars(SendEvent)
    /\ WF_vars(FinishEvent) /\ SF_vars(dispatcher = "sent" /\ FinishEvent)
    /\ WF_vars(EventGoesStale)

FairSpec == Spec /\ NotifyFairness

-----------------------------------------------------------------------------
(* Properties. *)

RowStates == {"absent", "pending", "failed", "sending", "stalled", "delivered", "superseded"}

EventStates == {"none", "pending", "failed", "sending", "stalled", "sent", "suppressed"}

SenderStates == [pc : {"idle", "leased", "ready", "sending", "sent", "failed", "done"},
                 status : Stages \cup {Absent}, held : BOOLEAN]

\* Every variable has its type; a replica is at work exactly while it has a lease,
\* and knows which outcome it tells of once it has fetched one.
TypeOK ==
    /\ LeaseTypeOK
    /\ outcome \in Stages \cup {Absent}
    /\ corrected \in BOOLEAN
    /\ unqueued \subseteq Stages
    /\ row \in [Stages -> RowStates]
    /\ told \subseteq Stages
    /\ mood \in Moods
    /\ sender \in [Replicas -> SenderStates]
    /\ event \in EventStates
    /\ dispatcher \in {"idle", "sending", "sent", "failed"}
    /\ \A p \in Replicas :
          /\ (sender[p].pc = "idle") <=> (lease[p] = "none")
          /\ (sender[p].status = Absent) <=> (sender[p].pc \in {"idle", "leased"})

\* A recipient who was told how a trade ended, or of a later target, is not told of
\* an earlier stage afterwards. ("preventing TP1/TP2 alerts from appearing after
\* TP3/SL", pg_features.py:2491)
NotifiedInOrder ==
    [][\A p \in Replicas :
          /\ sender[p].pc = "sending" /\ sender'[p].pc \in {"sent", "failed"}
          /\ sender[p].status \notin Final
          => \A t \in told : ~EndsStory(t) /\ StageRank[t] <= StageRank[sender[p].status]]_vars

Settled == {"delivered", "superseded"}

\* A notification that is delivered or superseded does not wait again, though rows
\* are written by their id long after they were read, as long as one replica is at
\* work at a time.  The exception is the row of a missed entry: the lifecycle
\* dispatcher marks it for a message of its own, over whoever is sending it, and
\* the failure mark of that sender reopens it: the recipient is told again.
\* (claim and marks, pg_features.py:2475-2617; signal_lifecycle.py:665-694)
SettledForGood ==
    [][\A s \in Stages :
          row[s] \in Settled /\ row'[s] \notin Settled =>
             /\ s = "missed_entry" /\ s \in told
             /\ \E p \in Replicas : sender[p].pc = "failed" /\ sender[p].status = s]_vars

FetchedAwake == \E p \in Replicas : Fetch(p) /\ mood = "on"

\* If the job keeps listing the outcome while the recipient is awake, the row of the
\* status it has is settled in the end, although sends, marks and senders fail on the way:
\* a claim whose sender died is taken over.  That the job does list it is not
\* promised: a claimed row alone does not, and the list is limited. ("notification
\* queues drain ... through quiet-hour and retry paths",
\* V1.3.6.8_TEST_AND_VALIDATION_REPORT.md:92)
ListedIsSettled ==
    []<><<FetchedAwake>>_vars =>
        (outcome # Absent ~> outcome # Absent /\ row[outcome] \in Settled)

\* A recipient gets a row of a final outcome, though the process that committed it
\* may die before it queues. (repair_outcome_notification_outbox)
FinalQueued == outcome \in Final ~> outcome \in Final /\ row[outcome] # "absent"

\* A missed entry is told in the end to a recipient who is not quiet all day,
\* though dispatchers die with their claims: a stale claim is taken over.
\* (dispatch_pending_event_notifications)
MissedEntryTold ==
    []<>(mood # "quiet") => (event = "pending" ~> event \in {"sent", "suppressed"})

\* The row of the final result says "delivered" only when its message went out.
\* ("Every non-quiet recipient either received this outcome in this run, was
\* already durably delivered by an earlier run, or was not eligible", bot.py:8173)
FinalResultTold == outcome \in Final /\ row[outcome] = "delivered" => outcome \in told
=============================================================================
