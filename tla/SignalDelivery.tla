--------------------------- MODULE SignalDelivery ---------------------------
(***************************************************************************)
(* Delivery of trading signals to one Telegram user.  The durable          *)
(* signal_deliveries row of each signal is at once reservation and outbox; *)
(* concurrent workers (dispatch loop, resend loop) reserve it, validate,   *)
(* send and record the result; an acknowledged message is also stashed in  *)
(* Redis, from where a reconciler replays it when the database write was   *)
(* lost.  Rows of different users never interact, so one user is modelled. *)
(*                                                                         *)
(* Horizon: one UTC day.  It is shorter than the 168 h unresolved window,  *)
(* the 7 d receipt TTL and the 24 h thesis window, and longer than the 4 h *)
(* same-asset cooldown and the 300 s retry window, which elapse by actions *)
(* of their own.  The 180 min market cooldown is implied by the 4 h one.   *)
(***************************************************************************)
EXTENDS DeliveryState, FiniteSets

CONSTANTS
    Signals,
    Workers,
    Dispatchers,       \* workers running the dispatch loop, which repairs by hand
    AssetOf,           \* the asset of each signal
    ThesisOf,          \* its fingerprint, the regenerated-signal identity
    DailyLimit,        \* the tier's daily cap
    MaxSends,          \* bound: messages Telegram accepts per signal
    StallsPastWindow   \* may a worker outlive DELIVERY_INFLIGHT_RETRY_SECONDS?

ASSUME DeliveryAssumption ==
    /\ Dispatchers \subseteq Workers
    /\ DailyLimit \in Nat /\ MaxSends \in Nat
    /\ StallsPastWindow \in BOOLEAN

VARIABLES
    row,        \* signal -> its signal_deliveries row
    clock,      \* logical time of the last delivered_at written
    life,       \* signal -> live, retired (expired or archived), or resolved
    worker,     \* worker -> where it is, on which signal, and what it learnt
    accepted,   \* signal -> messages Telegram accepted
    receipt,    \* signal -> message in the Redis receipt, 0 if none pending
    recon       \* the receipt reconciler

vars == <<row, clock, life, worker, accepted, receipt, recon>>

NoSignal == "no signal"

\* waited: DELIVERY_INFLIGHT_RETRY_SECONDS passed since last_attempt_at;
\* quiet: the same-asset cooldown passed since delivered_at.
NoRow == [state |-> NoState, sentOk |-> FALSE, msg |-> 0, error |-> FALSE,
          at |-> 0, waited |-> FALSE, quiet |-> FALSE]

IdleWorker == [pc |-> "idle", sig |-> NoSignal, msg |-> 0, verdict |-> "none"]

IdleRecon == [pc |-> "idle", sig |-> NoSignal, msg |-> 0]

Exists(r) == r.state # NoState

-----------------------------------------------------------------------------
(* The reservation gate. *)

SentToday == Cardinality({s \in Signals : row[s].sentOk})

\* Rows that count as exposure to the asset of s, as both gate queries see them.
Exposures(s) ==
    {t \in Signals \ {s} :
        /\ AssetOf[t] = AssetOf[s]
        /\ row[t].sentOk \/ row[t].state \in {"RESERVED", "SENDING", "SENT", "CONFIRMED"}}

\* Only the exposure with the latest delivered_at is examined.
AssetGateBlocks(s) ==
    \E t \in Exposures(s) :
        /\ \A u \in Exposures(s) : row[u].at <= row[t].at
        /\ ~row[t].sentOk \/ ~row[t].quiet \/ life[t] # "resolved"

ThesisDelivered(s) ==
    \E t \in Signals : /\ AssetOf[t] = AssetOf[s]
                       /\ ThesisOf[t] = ThesisOf[s]
                       /\ row[t].sentOk

\* Mutant: an in-flight reservation may be taken over at any time.
RetryableAtOnce(r) == /\ ~r.sentOk
                      /\ r.state \notin NoBlindRetry

Retryable(r) == /\ ~r.sentOk
                /\ r.state \notin NoBlindRetry
                /\ r.error \/ r.waited

Reserved(r) ==
    IF Exists(r)
    THEN [r EXCEPT !.state = "RESERVED", !.error = FALSE, !.waited = FALSE]
    ELSE [NoRow EXCEPT !.state = "RESERVED", !.at = clock + 1]

-----------------------------------------------------------------------------
(* The two writers of a row. *)

\* mark_signal_delivery_state, when the policy allows the move.
Advanced(r, target, error) ==
    [r EXCEPT !.state = target, !.waited = FALSE, !.error = @ \/ error]

\* Mutant: no test for an existing proof, so a second acknowledgement wins.
RecordedOverProof(r, m, requested, error) ==
    LET target == Canonical(requested, m # 0, error) IN
    IF ~TransitionAllowed(r.state, target, m # 0) THEN r
    ELSE IF m # 0
         THEN [r EXCEPT !.state = target, !.sentOk = TRUE, !.msg = m, !.error = FALSE,
                        !.at = clock + 1, !.waited = FALSE, !.quiet = FALSE]
         ELSE [r EXCEPT !.state = target, !.waited = FALSE, !.error = error # "none"]

\* mark_signal_delivery_result with message m (0: no acknowledgement).
Recorded(r, m, requested, error) ==
    LET target == Canonical(requested, m # 0, error) IN
    IF r.sentOk \/ ~TransitionAllowed(r.state, target, m # 0) THEN r
    ELSE IF m # 0
         THEN [r EXCEPT !.state = target, !.sentOk = TRUE, !.msg = m, !.error = FALSE,
                        !.at = clock + 1, !.waited = FALSE, !.quiet = FALSE]
         ELSE [r EXCEPT !.state = target, !.waited = FALSE, !.error = error # "none"]

PutRow(s, r) == /\ row' = [row EXCEPT ![s] = r]
                /\ clock' = IF r.at = row[s].at THEN clock ELSE clock + 1

KeepRows == UNCHANGED <<row, clock>>

Goto(w, p) == worker' = [worker EXCEPT ![w].pc = p]

Conclude(w, v) == worker' = [worker EXCEPT ![w].pc = "marking", ![w].verdict = v]

Rest(w) == worker' = [worker EXCEPT ![w] = IdleWorker]

-----------------------------------------------------------------------------
(* A worker delivers one signal. *)

\* The cap is read before the advisory lock is taken.
CheckDailyCap(w, s) ==
    /\ worker[w].pc = "idle"
    /\ SentToday < DailyLimit
    /\ worker' = [worker EXCEPT ![w] = [IdleWorker EXCEPT !.pc = "admitted", !.sig = s]]
    /\ KeepRows
    /\ UNCHANGED <<life, accepted, receipt, recon>>

\* Under the user-asset lock: the gates, then the row itself.
Grantable(s) == /\ ~AssetGateBlocks(s)
                /\ ~ThesisDelivered(s)
                /\ Exists(row[s]) => Retryable(row[s])

ReserveGranted(w) ==
    LET s == worker[w].sig IN
    /\ worker[w].pc = "admitted"
    /\ Grantable(s)
    /\ PutRow(s, Reserved(row[s]))
    /\ Goto(w, "reserved")
    /\ UNCHANGED <<life, accepted, receipt, recon>>

\* The resend loop reserves what it cannot format, to block it, in one transaction.
BlockUnformattable(w) ==
    LET s == worker[w].sig IN
    /\ w \notin Dispatchers
    /\ worker[w].pc = "admitted"
    /\ Grantable(s)
    /\ PutRow(s, Recorded(Reserved(row[s]), 0, Alias.blocked, "plain"))
    /\ Rest(w)
    /\ UNCHANGED <<life, accepted, receipt, recon>>

\* Refused by a gate, or the transaction failed: every failure blocks.
ReserveRefused(w) ==
    /\ worker[w].pc = "admitted"
    /\ Rest(w)
    /\ KeepRows
    /\ UNCHANGED <<life, accepted, receipt, recon>>

\* _persist_delivery_phase: the write is done and known, or it is not known to
\* be done (refused by the policy, lost, or committed after the timeout).
PersistKnown(w, target, error) ==
    LET s == worker[w].sig IN
    /\ TransitionAllowed(row[s].state, target, FALSE)
    /\ PutRow(s, Advanced(row[s], target, error))

PersistUnknown(w, target, error) ==
    KeepRows \/ PersistKnown(w, target, error)

BeginValidation(w) ==
    /\ worker[w].pc = "reserved"
    /\ \/ PersistKnown(w, "VALIDATING", FALSE) /\ Goto(w, "validating")
       \/ PersistUnknown(w, "VALIDATING", FALSE) /\ Conclude(w, "skipped")
    /\ UNCHANGED <<life, accepted, receipt, recon>>

\* Fresh, formatted, and no delivery of a live signal of the asset in cooldown.
PassChecks(w) ==
    LET s == worker[w].sig IN
    /\ worker[w].pc = "validating"
    /\ ~\E t \in Signals \ {s} : /\ AssetOf[t] = AssetOf[s]
                                 /\ row[t].sentOk /\ ~row[t].quiet /\ life[t] = "live"
    /\ Goto(w, "clear")
    /\ KeepRows
    /\ UNCHANGED <<life, accepted, receipt, recon>>

\* Stale, unverifiable in time, empty, or locked by another delivery.
FailChecks(w) ==
    /\ worker[w].pc = "validating"
    /\ PersistUnknown(w, "BLOCKED", TRUE)
    /\ Conclude(w, "skipped")
    /\ UNCHANGED <<life, accepted, receipt, recon>>

BeginSending(w) ==
    /\ worker[w].pc = "clear"
    /\ \/ PersistKnown(w, "SENDING", FALSE) /\ Goto(w, "sending")
       \/ PersistUnknown(w, "SENDING", FALSE) /\ Conclude(w, "skipped")
    /\ UNCHANGED <<life, accepted, receipt, recon>>

(* The Bot API call. *)

TelegramAccepts(s) == /\ accepted[s] < MaxSends
                      /\ accepted' = [accepted EXCEPT ![s] = @ + 1]

SendAcknowledged(w) ==
    LET s == worker[w].sig IN
    /\ worker[w].pc = "sending"
    /\ TelegramAccepts(s)
    /\ worker' = [worker EXCEPT ![w].pc = "accepted", ![w].msg = accepted[s] + 1]
    /\ KeepRows
    /\ UNCHANGED <<life, receipt, recon>>

\* A timeout or network error: the message may or may not be out.
SendTimesOut(w) ==
    /\ worker[w].pc = "sending"
    /\ TelegramAccepts(worker[w].sig) \/ UNCHANGED accepted
    /\ Conclude(w, "ambiguous")
    /\ KeepRows
    /\ UNCHANGED <<life, receipt, recon>>

\* Refused for good after the guarded retries, or by a permanent error.
SendRefused(w) ==
    /\ worker[w].pc = "sending"
    /\ \E v \in {"failed", "unreachable"} : Conclude(w, v)
    /\ KeepRows
    /\ UNCHANGED <<life, accepted, receipt, recon>>

\* Redis may be away; the result is recorded all the same.
\* Mutant: the next message of the chat is stashed instead of the accepted one.
StashNextMessage(w) ==
    /\ worker[w].pc = "accepted"
    /\ receipt' = [receipt EXCEPT ![worker[w].sig] = worker[w].msg + 1]
    /\ Conclude(w, "sent")
    /\ KeepRows
    /\ UNCHANGED <<life, accepted, recon>>

StashReceipt(w) ==
    LET s == worker[w].sig IN
    /\ worker[w].pc = "accepted"
    /\ \/ receipt' = [receipt EXCEPT ![s] = worker[w].msg]
       \/ UNCHANGED receipt
    /\ Conclude(w, "sent")
    /\ KeepRows
    /\ UNCHANGED <<life, accepted, recon>>

(* _mark_delivery_with_telegram_proof *)

\* Mutant: the raw name of a skipped delivery reaches the row unaliased.
RawStateUnaliased(v) == CASE v = "sent"    -> Alias.sent
                          [] v = "skipped" -> "SKIPPED"
                          [] OTHER         -> Alias.failed

RawState(v) == CASE v = "sent"    -> Alias.sent
                 [] v = "skipped" -> Alias.skipped
                 [] OTHER         -> Alias.failed

\* Mutant: a timeout is reported like any other failure.
ErrorOfUnmarked(v) == IF v = "sent" THEN "none" ELSE "plain"

ErrorOf(v) == CASE v = "sent"      -> "none"
                [] v = "ambiguous" -> "ambiguous"
                [] OTHER           -> "plain"

\* What the caller does when the mark did not report a proven delivery.
AfterUnproven(w) ==
    LET v == worker[w].verdict IN
    CASE w \in Dispatchers /\ v \in {"sent", "skipped"} -> Goto(w, "repairing")
      [] w \notin Dispatchers /\ v = "unreachable"      -> Goto(w, "suppressing")
      [] OTHER                                          -> Rest(w)

RecordResult(w) ==
    LET s == worker[w].sig
        v == worker[w].verdict
        Write == PutRow(s, Recorded(row[s], worker[w].msg, RawState(v), ErrorOf(v)))
    IN
    /\ worker[w].pc = "marking"
    /\ \/ Write /\ (IF v = "sent" THEN Goto(w, "acking") ELSE AfterUnproven(w))
       \/ (Write \/ KeepRows) /\ AfterUnproven(w)     \* timed out, or failed
    /\ UNCHANGED <<life, accepted, receipt, recon>>

\* Deletes by operation key, whichever message the receipt holds.
AcknowledgeReceipt(w) ==
    /\ worker[w].pc = "acking"
    /\ \/ receipt' = [receipt EXCEPT ![worker[w].sig] = 0]
       \/ UNCHANGED receipt
    /\ Rest(w)
    /\ KeepRows
    /\ UNCHANGED <<life, accepted, recon>>

\* The dispatch loop's own failure write, with no state and no acknowledgement.
RepairByHand(w) ==
    LET s == worker[w].sig IN
    /\ worker[w].pc = "repairing"
    /\ \/ PutRow(s, Recorded(row[s], 0, Alias.unspecified, "plain"))
       \/ KeepRows
    /\ Rest(w)
    /\ UNCHANGED <<life, accepted, receipt, recon>>

\* The resend loop marks a permanently unreachable user's row a second time.
SuppressUnreachable(w) ==
    LET s == worker[w].sig IN
    /\ worker[w].pc = "suppressing"
    /\ \/ PutRow(s, Recorded(row[s], 0, Alias.blocked, "plain"))
       \/ KeepRows
    /\ Rest(w)
    /\ UNCHANGED <<life, accepted, receipt, recon>>

\* The process dies; all it knew is lost.
Crash(w) ==
    /\ worker[w].pc # "idle"
    /\ Rest(w)
    /\ KeepRows
    /\ UNCHANGED <<life, accepted, receipt, recon>>

-----------------------------------------------------------------------------
(* The receipt reconciler. *)

ReconcileRead(s) ==
    /\ recon.pc = "idle"
    /\ receipt[s] # 0
    /\ recon' = [pc |-> "persisting", sig |-> s, msg |-> receipt[s]]
    /\ KeepRows
    /\ UNCHANGED <<life, worker, accepted, receipt>>

\* Mutant: the session is left without its commit.
ReconcileRolledBack == KeepRows

ReconcileWrite ==
    PutRow(recon.sig, Recorded(row[recon.sig], recon.msg, Alias.reconciled, "none"))

ReconcileCommit ==
    /\ recon.pc = "persisting"
    /\ ReconcileWrite
    /\ recon' = [recon EXCEPT !.pc = "acking"]
    /\ UNCHANGED <<life, worker, accepted, receipt>>

\* Mutant: a write that timed out is acknowledged as if it were done.
ReconcileFailsAcking ==
    /\ recon.pc = "persisting"
    /\ KeepRows \/ ReconcileWrite
    /\ recon' = [recon EXCEPT !.pc = "acking"]
    /\ UNCHANGED <<life, worker, accepted, receipt>>

\* The write failed, timed out after its commit, or the process died.
ReconcileFails ==
    /\ recon.pc = "persisting"
    /\ KeepRows \/ ReconcileWrite
    /\ recon' = IdleRecon
    /\ UNCHANGED <<life, worker, accepted, receipt>>

\* Mutant: the receipt is forgotten in the pending set.
ReconcileAckKeepsReceipt ==
    /\ recon.pc = "acking"
    /\ recon' = IdleRecon
    /\ KeepRows
    /\ UNCHANGED <<life, worker, accepted, receipt>>

ReconcileAck ==
    /\ recon.pc = "acking"
    /\ receipt' = [receipt EXCEPT ![recon.sig] = 0]
    /\ recon' = IdleRecon
    /\ KeepRows
    /\ UNCHANGED <<life, worker, accepted>>

ReconcileAckFails ==
    /\ recon.pc = "acking"
    /\ recon' = IdleRecon
    /\ KeepRows
    /\ UNCHANGED <<life, worker, accepted, receipt>>

-----------------------------------------------------------------------------
(* Time and the market. *)

\* Workers that hold a reservation of s, as far as they know.
Holders(s) == {w \in Workers : worker[w].sig = s
                               /\ worker[w].pc \notin {"idle", "admitted"}}

RetryWindowElapses(s) ==
    /\ Exists(row[s]) /\ ~row[s].waited
    /\ StallsPastWindow \/ Holders(s) = {}
    /\ row' = [row EXCEPT ![s].waited = TRUE]
    /\ UNCHANGED <<clock, life, worker, accepted, receipt, recon>>

\* Cooldowns end in the order their delivered_at began.
CooldownEnds(s) ==
    /\ Exists(row[s]) /\ ~row[s].quiet
    /\ StallsPastWindow \/ Holders(s) = {}
    /\ \A t \in Signals : Exists(row[t]) /\ row[t].at < row[s].at => row[t].quiet
    /\ row' = [row EXCEPT ![s].quiet = TRUE]
    /\ UNCHANGED <<clock, life, worker, accepted, receipt, recon>>

\* A terminal outcome, which archives its signal in the same transaction.
OutcomeResolves(s) ==
    /\ life[s] # "resolved"
    /\ life' = [life EXCEPT ![s] = "resolved"]
    /\ UNCHANGED <<row, clock, worker, accepted, receipt, recon>>

\* Expired by age, superseded or archived without an outcome.
SignalRetires(s) ==
    /\ life[s] = "live"
    /\ life' = [life EXCEPT ![s] = "retired"]
    /\ UNCHANGED <<row, clock, worker, accepted, receipt, recon>>

-----------------------------------------------------------------------------
Init ==
    /\ row = [s \in Signals |-> NoRow]
    /\ clock = 0
    /\ life = [s \in Signals |-> "live"]
    /\ worker = [w \in Workers |-> IdleWorker]
    /\ accepted = [s \in Signals |-> 0]
    /\ receipt = [s \in Signals |-> 0]
    /\ recon = IdleRecon

WorkerStep(w) ==
    \/ \E s \in Signals : CheckDailyCap(w, s)
    \/ ReserveGranted(w) \/ BlockUnformattable(w) \/ ReserveRefused(w)
    \/ BeginValidation(w) \/ PassChecks(w) \/ FailChecks(w)
    \/ BeginSending(w)
    \/ SendAcknowledged(w) \/ SendTimesOut(w) \/ SendRefused(w)
    \/ StashReceipt(w) \/ RecordResult(w) \/ AcknowledgeReceipt(w)
    \/ RepairByHand(w) \/ SuppressUnreachable(w)
    \/ Crash(w)

ReconcilerStep ==
    \/ \E s \in Signals : ReconcileRead(s)
    \/ ReconcileCommit \/ ReconcileFails \/ ReconcileAck \/ ReconcileAckFails

EnvironmentStep ==
    \E s \in Signals : \/ RetryWindowElapses(s) \/ CooldownEnds(s)
                       \/ OutcomeResolves(s) \/ SignalRetires(s)

Next == (\E w \in Workers : WorkerStep(w)) \/ ReconcilerStep \/ EnvironmentStep

Spec == Init /\ [][Next]_vars

\* The reconciler loop runs for ever, and neither PostgreSQL nor Redis stays
\* away for ever: an attempt that keeps being possible is one day completed.
ReconcilerFairness ==
    /\ \A s \in Signals : SF_vars(ReconcileRead(s))
    /\ SF_vars(ReconcileCommit)
    /\ SF_vars(ReconcileAck)

FairSpec == Spec /\ ReconcilerFairness

-----------------------------------------------------------------------------
(* Properties. *)

WorkerPcs == {"idle", "admitted", "reserved", "validating", "clear", "sending", "accepted",
              "marking", "repairing", "suppressing", "acking"}

Verdicts == {"none", "sent", "skipped", "failed", "unreachable", "ambiguous"}

Lives == {"live", "retired", "resolved"}

Rows == [state : DeliveryStates \cup {NoState}, sentOk : BOOLEAN, msg : Nat,
         error : BOOLEAN, at : Nat, waited : BOOLEAN, quiet : BOOLEAN]

WorkerStates == [pc : WorkerPcs, sig : Signals \cup {NoSignal}, msg : Nat,
                 verdict : Verdicts]

ReconStates == [pc : {"idle", "persisting", "acking"}, sig : Signals \cup {NoSignal},
                msg : Nat]

\* Every variable has its type; a busy worker or reconciler has a signal.
TypeOK ==
    /\ row \in [Signals -> Rows]
    /\ clock \in Nat
    /\ life \in [Signals -> Lives]
    /\ worker \in [Workers -> WorkerStates]
    /\ accepted \in [Signals -> Nat]
    /\ receipt \in [Signals -> Nat]
    /\ recon \in ReconStates
    /\ \A w \in Workers : worker[w].pc # "idle" => worker[w].sig \in Signals
    /\ recon.pc # "idle" => recon.sig \in Signals

\* A row counts as delivered exactly when its state says so, and then it names
\* a message Telegram really accepted for that signal; so does every receipt.
\* (mark_signal_delivery_result, ReceiptStore.stash_sync)
ProofIsGenuine ==
    \A s \in Signals :
        /\ row[s].sentOk <=> row[s].state \in Success
        /\ row[s].sentOk => row[s].msg \in 1 .. accepted[s]
        /\ receipt[s] \in 0 .. accepted[s]

\* A recorded proof is final: no late failure, second acknowledgement, phase
\* write or reconciliation ever replaces it. (pg_features.py:2151-2167)
ProofIsPermanent ==
    [][\A s \in Signals :
          row[s].sentOk => /\ row'[s].sentOk
                           /\ row'[s].msg = row[s].msg
                           /\ row'[s].state = row[s].state]_vars

\* An ambiguous or blocked row is left only with a Telegram proof in hand, so
\* nothing ever sends it again. (transition_allowed, NO_BLIND_RETRY_STATES)
OnlyProofResolves ==
    [][\A s \in Signals :
          row[s].state \in {"AMBIGUOUS", "BLOCKED"} /\ row'[s].state # row[s].state
             => row'[s].sentOk /\ row'[s].msg > 0]_vars

\* No reservation is granted while a proven delivery of the same asset is in
\* its cooldown, or once its thesis was delivered, though the gate looks only at
\* the latest exposure. (record_signal_delivery)
CooldownHonoured ==
    [][\A w \in Workers :
          worker[w].pc = "admitted" /\ worker'[w].pc = "reserved" =>
             LET s == worker[w].sig IN
             \A t \in Signals :
                AssetOf[t] = AssetOf[s] /\ row[t].sentOk =>
                   /\ t # s
                   /\ row[t].quiet
                   /\ ThesisOf[t] # ThesisOf[s]]_vars

NotRetryableOnceSent(s) == accepted[s] > 0 => row[s].state \in NoBlindRetry

\* Once Telegram may show a message, its row can not be reserved again: the
\* durable state forbids the retry whatever was lost. (the comment on
\* NO_BLIND_RETRY_STATES, and "the existing durable SENDING row prevents
\* another send" of PHASE4_PASS3)
SentRowNotRetryable == \A s \in Signals : NotRetryableOnceSent(s)

OnTheWire(w, s) == worker[w].pc = "sending" /\ worker[w].sig = s

AloneOnTheWire(s) == \A w, x \in Workers : OnTheWire(w, s) /\ OnTheWire(x, s) => w = x

\* Two workers are never on the wire for the same signal.
OneSenderPerSignal == \A s \in Signals : AloneOnTheWire(s)

\* The subsystem keeps its contract: one message per signal at most, and a
\* proof, once recorded, names it for good.
Contract == INSTANCE DeliveryContract WITH
                Operations <- Signals,
                sent <- accepted,
                proof <- [s \in Signals |-> row[s].msg]

ImplementsContract == Contract!ContractSpec

\* An acknowledgement is forgotten only once its signal is proven in the
\* database, whichever of the worker and the reconciler forgets it, and although
\* either deletes a receipt without looking at the message it holds.
\* (delivery/worker.py, ReceiptStore.acknowledge)
ReceiptKept ==
    [][\A s \in Signals : receipt[s] # 0 /\ receipt'[s] = 0 => row[s].sentOk]_vars

\* An acknowledged message whose receipt was stashed is one day proven in the
\* database, even if the worker that sent it died. (delivery/worker.py)
ReceiptReconciled == \A s \in Signals : receipt[s] # 0 ~> row[s].sentOk

\* Every receipt is one day removed from the pending set.
ReceiptDrained == \A s \in Signals : receipt[s] # 0 ~> receipt[s] = 0

\* The daily cap bounds what a user receives in a day. (pg_features.py:1267)
DailyCapHolds == SentToday <= DailyLimit

\* Two deliveries of one asset are never both inside the four-hour cooldown.
\* (pg_features.py:1311, services/asset_repeat_policy.py)
AssetSpacing ==
    \A s, t \in Signals :
        s # t /\ AssetOf[s] = AssetOf[t] /\ row[s].sentOk /\ row[t].sentOk
            => row[s].quiet \/ row[t].quiet
=============================================================================
