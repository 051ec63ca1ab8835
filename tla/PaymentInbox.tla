---------------------------- MODULE PaymentInbox ----------------------------
(***************************************************************************)
(* A charge of the payment provider becomes access.  The webhook stores    *)
(* the event before it acknowledges it; background tasks of the web        *)
(* process and the recovery loop of the worker process stored events, with *)
(* no claim that would keep them apart, and the account page processes a   *)
(* charge without the inbox.  What keeps the effect single is the unique   *)
(* reference of payment_events, or a marker in Redis for extra signals.    *)
(* The reference is looked for twice; a renewal recorded between the two   *)
(* looks is given again.                                                   *)
(*                                                                         *)
(* The charges are of one user and one tier, and the model looks at one    *)
(* lifetime of the Redis marker (24 h), in which no subscription ends.     *)
(***************************************************************************)
EXTENDS Naturals

CONSTANTS
    Events,       \* charge.success events, each with a reference of its own
    Workers,      \* background tasks, confirmations, and
    Recovery,     \* the worker's recovery loop
    Nobody, NoEvent,
    MaxAttempts   \* PAYSTACK_WEBHOOK_MAX_ATTEMPTS

ASSUME PaymentAssumption ==
    /\ Recovery \in Workers /\ Nobody \notin Workers /\ NoEvent \notin Events
    /\ MaxAttempts \in Nat \ {0}

VARIABLES
    kind,       \* event -> what was paid for
    status,     \* event -> status of its inbox row
    attempts,   \* event -> attempt_count
    payments,   \* events with a committed row in payment_events
    started,    \* events whose reference a subscription carries
    applied,    \* event -> how often access or credit was given for it
    marker,     \* events with a payment_credit marker in Redis
    until,      \* periods of access the user's active subscription has
    lock,       \* whose transaction holds the active subscription's row
    worker      \* worker -> what it is doing

inboxVars == <<status, attempts>>
effectVars == <<payments, started, applied, marker, until, lock>>
vars == <<kind, inboxVars, effectVars, worker>>

\* stored: from the inbox; seen: what it has read (attempts, then access); redo:
\* it read "processing".
Begun(pc, e, stored) == [pc |-> pc, event |-> e, stored |-> stored, seen |-> 0, redo |-> FALSE]

Looked(e) == [pc |-> "looked", event |-> e, stored |-> TRUE, seen |-> attempts[e],
              redo |-> status[e] = "processing"]

Idle == Begun("idle", NoEvent, FALSE)

Doing(w, pc) == worker[w].pc = pc

Go(w, pc) == worker' = [worker EXCEPT ![w].pc = pc]

Stop(w) == worker' = [worker EXCEPT ![w] = Idle]

Unlock(w) == lock' = IF lock = w THEN Nobody ELSE lock

-----------------------------------------------------------------------------
(* The inbox: payments/paystack_events.py *)

\* Mutant: a repeated webhook starts the event afresh.
IngestAgain(e) ==
    /\ status' = [status EXCEPT ![e] = "pending"]
    /\ UNCHANGED <<kind, attempts, effectVars, worker>>

\* ingest_paystack_event.  A repeated webhook finds the row and changes nothing;
\* it may start a task, see Look.
Ingest(e) ==
    /\ status[e] = "absent"
    /\ status' = [status EXCEPT ![e] = "pending"]
    /\ UNCHANGED <<kind, attempts, effectVars, worker>>

\* Mutant: an event somebody died with is not looked at.
LookWaiting(w, e) ==
    /\ Doing(w, "idle")
    /\ status[e] \in {"pending", "failed"} /\ attempts[e] < MaxAttempts
    /\ worker' = [worker EXCEPT ![w] = Looked(e)]
    /\ UNCHANGED <<kind, inboxVars, effectVars>>

\* process_stored_paystack_event, of a task or from the list of the recovery: the
\* row is read without a lock.
Look(w, e) ==
    /\ Doing(w, "idle")
    /\ status[e] \in {"pending", "failed", "processing"} /\ attempts[e] < MaxAttempts
    /\ worker' = [worker EXCEPT ![w] = Looked(e)]
    /\ UNCHANGED <<kind, inboxVars, effectVars>>

\* ... and claimed whatever became of it in between: the session locks the row but
\* keeps the values it read, so that the attempt is counted from those, and a status
\* that was "processing" already is not written.
Claim(w) ==
    LET e == worker[w].event
    IN /\ Doing(w, "looked")
       /\ status' = IF worker[w].redo THEN status ELSE [status EXCEPT ![e] = "processing"]
       /\ attempts' = [attempts EXCEPT ![e] = worker[w].seen + 1]
       /\ worker' = [worker EXCEPT ![w] = Begun("process", e, TRUE)]
       /\ UNCHANGED <<kind, effectVars>>

\* The account page verifies the charge with the provider and processes it.
Confirm(w, e) ==
    /\ Doing(w, "idle") /\ w # Recovery
    /\ worker' = [worker EXCEPT ![w] = Begun("process", e, FALSE)]
    /\ UNCHANGED <<kind, inboxVars, effectVars>>

\* Mutant: what could not be decided counts as done.
CompleteAnyway(w) ==
    /\ worker[w].pc \in {"processed", "failed"}
    /\ status' = IF worker[w].stored THEN [status EXCEPT ![worker[w].event] = "succeeded"] ELSE status
    /\ Stop(w)
    /\ UNCHANGED <<kind, attempts, effectVars>>

\* The last to complete has the last word.
Complete(w) ==
    /\ worker[w].pc \in {"processed", "failed"}
    /\ status' = IF ~worker[w].stored THEN status
                 ELSE [status EXCEPT ![worker[w].event] =
                          IF Doing(w, "processed") THEN "succeeded" ELSE "failed"]
    /\ Stop(w)
    /\ UNCHANGED <<kind, attempts, effectVars>>

\* The process dies, or the inbox cannot be written; an open transaction is
\* rolled back.
WorkerDies(w) ==
    /\ ~Doing(w, "idle")
    /\ Stop(w) /\ Unlock(w)
    /\ UNCHANGED <<kind, inboxVars, payments, started, applied, marker, until>>

-----------------------------------------------------------------------------
(* process_event: payments/paystack.py *)

\* Identity, amount, policy or catalogue, or another worker that records the same
\* extra: nothing was written.
Reject(w) ==
    /\ Doing(w, "process")
    /\ Go(w, "failed")
    /\ UNCHANGED <<kind, inboxVars, effectVars>>

\* A first look for the reference.
AlreadyPaid(w) ==
    /\ Doing(w, "process")
    /\ kind[worker[w].event] = "subscription" /\ worker[w].event \in payments
    /\ Go(w, "processed")
    /\ UNCHANGED <<kind, inboxVars, effectVars>>

NotYetPaid(w) ==
    /\ Doing(w, "process")
    /\ kind[worker[w].event] = "subscription" /\ worker[w].event \notin payments
    /\ Go(w, "paying")
    /\ UNCHANGED <<kind, inboxVars, effectVars>>

\* Somebody's insert of the reference waits for its commit, and others for it.
Inserting(e) ==
    e \notin payments /\ \E v \in Workers : worker[v].pc \in {"paid", "granting"} /\ worker[v].event = e

\* Mutant: the reference is not unique.
RecordPaymentAnyhow(w) ==
    /\ Doing(w, "paying")
    /\ Go(w, "paid")
    /\ UNCHANGED <<kind, inboxVars, effectVars>>

\* record_payment_event looks again; it returns the row it finds, or inserts one.
RecordPayment(w) ==
    /\ Doing(w, "paying")
    /\ ~Inserting(worker[w].event)
    /\ Go(w, "paid")
    /\ UNCHANGED <<kind, inboxVars, effectVars>>

\* A reference that is there when it is inserted is an IntegrityError, and that is
\* a success.
DuplicatePayment(w) ==
    /\ Doing(w, "paying")
    /\ worker[w].event \in payments
    /\ Go(w, "processed")
    /\ UNCHANGED <<kind, inboxVars, effectVars>>

\* activate_subscription finds the subscription the reference has started.
AlreadyStarted(w) ==
    /\ Doing(w, "paid")
    /\ worker[w].event \in started
    /\ Go(w, "processed")
    /\ UNCHANGED <<kind, inboxVars, effectVars>>

\* Mutant: the active subscription is read without FOR UPDATE.
ReadAccessUnlocked(w) ==
    /\ Doing(w, "paid")
    /\ worker[w].event \notin started
    /\ worker' = [worker EXCEPT ![w] = [@ EXCEPT !.pc = "granting", !.seen = until]]
    /\ UNCHANGED <<kind, inboxVars, effectVars>>

\* Its read of the active subscription, which locks the row if there is one.
ReadAccess(w) ==
    /\ Doing(w, "paid")
    /\ worker[w].event \notin started
    /\ lock = Nobody
    /\ lock' = IF until > 0 THEN w ELSE Nobody
    /\ worker' = [worker EXCEPT ![w] = [@ EXCEPT !.pc = "granting", !.seen = until]]
    /\ UNCHANGED <<kind, inboxVars, payments, started, applied, marker, until>>

\* The subscription read is extended; without one a new one starts beside what
\* others started since, and the longest counts.
Extend(w) == until' = IF worker[w].seen < until THEN until ELSE worker[w].seen + 1

\* Payment event, subscription and receipt are one commit.
Grant(w) ==
    LET e == worker[w].event
    IN /\ payments' = payments \cup {e}
       /\ started' = IF worker[w].seen = 0 THEN started \cup {e} ELSE started
       /\ applied' = [applied EXCEPT ![e] = @ + 1]
       /\ Extend(w)

CommitGrant(w) ==
    /\ Doing(w, "granting")
    /\ Grant(w)
    /\ Go(w, "processed") /\ Unlock(w)
    /\ UNCHANGED <<kind, inboxVars, marker>>

\* Any other exception, as when a lock is waited for too long; a commit may have
\* happened.
GrantFails(w) ==
    /\ worker[w].pc \in {"paying", "paid", "granting"}
    /\ \/ Doing(w, "granting") /\ Grant(w)
       \/ UNCHANGED <<payments, started, applied, until>>
    /\ Go(w, "failed") /\ Unlock(w)
    /\ UNCHANGED <<kind, inboxVars, marker>>

\* Extra signals: the payment first, in a transaction of its own.
RecordExtra(w) ==
    /\ Doing(w, "process")
    /\ kind[worker[w].event] = "extra"
    /\ payments' = payments \cup {worker[w].event}
    /\ Go(w, "credit")
    /\ UNCHANGED <<kind, inboxVars, started, applied, marker, until, lock>>

\* add_extra_signals_once_sync: marker and credit in one script.
CreditExtra(w) ==
    LET e == worker[w].event
    IN /\ Doing(w, "credit")
       /\ applied' = IF e \in marker THEN applied ELSE [applied EXCEPT ![e] = @ + 1]
       /\ marker' = marker \cup {e}
       /\ Go(w, "credited")
       /\ UNCHANGED <<kind, inboxVars, payments, started, until, lock>>

\* Redis is away, or its answer is lost.
CreditFails(w) ==
    /\ Doing(w, "credit")
    /\ \/ UNCHANGED <<applied, marker>>
       \/ /\ worker[w].event \notin marker
          /\ applied' = [applied EXCEPT ![worker[w].event] = @ + 1]
          /\ marker' = marker \cup {worker[w].event}
    /\ Go(w, "failed")
    /\ UNCHANGED <<kind, inboxVars, payments, started, until, lock>>

\* credit_applied is noted in the payment event; nobody reads it.
FinishExtra(w) ==
    /\ Doing(w, "credited")
    /\ Go(w, "processed") \/ Go(w, "failed")
    /\ UNCHANGED <<kind, inboxVars, effectVars>>

-----------------------------------------------------------------------------
Init ==
    /\ kind \in [Events -> {"subscription", "extra"}]
    /\ status = [e \in Events |-> "absent"]
    /\ attempts = [e \in Events |-> 0]
    /\ payments = {} /\ started = {} /\ marker = {}
    /\ applied = [e \in Events |-> 0]
    /\ until \in {0, 1}
    /\ lock = Nobody
    /\ worker = [w \in Workers |-> Idle]

Process(w) == \/ Reject(w) \/ AlreadyPaid(w) \/ NotYetPaid(w) \/ RecordPayment(w) \/ DuplicatePayment(w)
              \/ AlreadyStarted(w) \/ ReadAccess(w) \/ CommitGrant(w) \/ GrantFails(w)
              \/ RecordExtra(w) \/ CreditExtra(w) \/ CreditFails(w) \/ FinishExtra(w)

Advance(w) == Claim(w) \/ Process(w) \/ Complete(w)

Start(w) == \E e \in Events : Look(w, e) \/ Confirm(w, e)

Next == \/ \E e \in Events : Ingest(e)
        \/ \E w \in Workers : Start(w) \/ Advance(w) \/ WorkerDies(w)

Spec == Init /\ [][Next]_vars

\* The recovery loop looks every minute, is restarted when it dies, and does not
\* die every time between reading a row and claiming it; a transaction ends.
FairSpec ==
    /\ Spec
    /\ WF_vars(\E e \in Events : Look(Recovery, e))
    /\ SF_vars(Claim(Recovery))
    /\ \A w \in Workers : WF_vars(Process(w) \/ Complete(w))

-----------------------------------------------------------------------------
(* Properties. *)

WorkerStates == [pc : {"idle", "looked", "process", "paying", "paid", "granting", "credit", "credited",
                       "processed", "failed"},
                 event : Events \cup {NoEvent}, stored : BOOLEAN, seen : Nat, redo : BOOLEAN]

Tried == {e \in Events : status[e] \notin {"absent", "pending"}}

\* Every variable has its type; a row nobody claimed has no attempts; whoever is
\* at work has an event, and the lock is held in a transaction only.
TypeOK ==
    /\ kind \in [Events -> {"subscription", "extra"}]
    /\ status \in [Events -> {"absent", "pending", "processing", "succeeded", "failed"}]
    /\ attempts \in [Events -> Nat]
    /\ payments \subseteq Events /\ started \subseteq payments /\ marker \subseteq Events
    /\ applied \in [Events -> Nat]
    /\ until \in Nat
    /\ lock \in Workers \cup {Nobody}
    /\ worker \in [Workers -> WorkerStates]
    /\ \A e \in Events \ Tried : attempts[e] = 0
    /\ \A w \in Workers : worker[w].redo => worker[w].event \in Tried
    /\ \A w \in Workers : (worker[w].pc = "idle") <=> (worker[w].event = NoEvent)
    /\ lock # Nobody => worker[lock].pc = "granting"

\* A charge gives access or credit at most once, though the webhook comes again,
\* several workers process its event at a time, and commits lose their answer.
\* ("a webhook retry or crash between provider acknowledgement and DB bookkeeping
\* cannot double-credit the user", redis_state.py:638-641; paystack.py:322-325)
AppliedOnce == \A e \in Events : applied[e] <= 1

\* What two looks for a reference may let through is a renewal: extra signals and
\* the purchase that starts a subscription are given once, though the webhook comes
\* again, workers overlap, and commits and the credit script lose their answers.
\* (add_extra_signals_once_sync; activate_subscription, repository.py:163-170)
OnlyRenewalsRepeat ==
    \A e \in Events : kind[e] = "extra" \/ e \in started => applied[e] <= 1

\* An inbox row says "succeeded" only of a charge that was applied, so that the
\* recovery drops nothing. (paystack_events.py:124-153)
SucceededIsApplied == \A e \in Events : status[e] = "succeeded" => applied[e] > 0

\* What a purchase read of an active subscription is still so when it commits, so
\* that no period of another purchase is overwritten. ("Same-tier renewal extends
\* normally", repository.py:205)
RenewalExtends ==
    \A w \in Workers : worker[w].pc = "granting" /\ worker[w].seen > 0 => until = worker[w].seen

\* A stored charge is applied in the end, or has used up its attempts, whoever
\* died with it. ("recoverable after a process crash because pending/failed
\* records are retried by the worker", paystack_events.py:4-5)
ChargeApplied ==
    \A e \in Events : status[e] # "absent" ~> applied[e] > 0 \/ attempts[e] >= MaxAttempts
=============================================================================
