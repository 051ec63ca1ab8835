--------------------------- MODULE OutboundQueue ---------------------------
(***************************************************************************)
(* The two queues a worker process drains towards the outside: the         *)
(* webhook_deliveries of one endpoint, posted concurrently, and the        *)
(* email_outbox, sent one by one.  A claim commits before anything is      *)
(* sent, and the result is stored in a transaction of its own.  Workers    *)
(* are replicas that run one loop per queue.                               *)
(***************************************************************************)
EXTENDS Naturals

CONSTANTS
    Webhooks,     \* queued events of the endpoint
    Emails,       \* queued mails
    Workers,
    MaxAttempts   \* WEBHOOK_MAX_ATTEMPTS, EMAIL_MAX_ATTEMPTS

ASSUME QueueAssumption ==
    /\ Webhooks \cap Emails = {}
    /\ MaxAttempts \in Nat \ {0}

Messages == Webhooks \cup Emails

VARIABLES
    row,     \* message -> its row
    active,  \* is the endpoint active?
    task,    \* worker -> message -> its delivery, in memory
    batch,   \* worker -> the messages whose end its loops wait for
    sends    \* message -> times the other side took it, up to MaxAttempts + 1

vars == <<row, active, task, batch, sends>>

\* inflight: delivering or sending; done: delivered or sent.  tries saturates at
\* MaxAttempts; due: next_attempt_at has come; stale: updated_at is 5 minutes old.
NoRow == [status |-> "none", tries |-> 0, due |-> TRUE, stale |-> FALSE]

\* n: the attempt_count of the claim, as the task remembers it.
NoTask == [at |-> "none", n |-> 0]

Finished == {"done", "failed"}

-----------------------------------------------------------------------------
(* The queue. *)

\* Within the caller's transaction, once per idempotency key.
Queue(m) ==
    /\ row[m].status = "none"
    /\ m \in Webhooks => active
    /\ row' = [row EXCEPT ![m].status = "pending"]
    /\ UNCHANGED <<active, task, batch, sends>>

Revoke ==
    /\ active
    /\ active' = FALSE
    /\ UNCHANGED <<row, task, batch, sends>>

\* Mutant: a delivery whose worker died is not taken over.
ClaimableUnlessInflight(m) ==
    /\ row[m].due
    /\ row[m].status \in {"pending", "retry"}
    /\ m \in Webhooks => active

Claimable(m) ==
    /\ row[m].due
    /\ \/ row[m].status \in {"pending", "retry"}
       \/ m \in Webhooks /\ row[m].status = "inflight" /\ row[m].stale
    /\ m \in Webhooks => active

\* Mutant: the attempt is counted, and the row left in the queue.
ClaimedInPlace(r) ==
    [r EXCEPT !.tries = IF @ < MaxAttempts THEN @ + 1 ELSE @, !.stale = FALSE]

Claimed(r) ==
    [r EXCEPT !.status = "inflight",
              !.tries = IF @ < MaxAttempts THEN @ + 1 ELSE @,
              !.stale = FALSE]

\* A loop waits for its batch before it claims the next: some of the rows it may
\* have, as its limit and the locks of others (SKIP LOCKED) leave them.  What a
\* worker still has in hand of a batch that ended early is over in five minutes.
Batch(w, channel, S) ==
    /\ batch[w] \cap channel = {}
    /\ S # {} /\ S \subseteq channel
    /\ \A m \in S : Claimable(m) /\ task[w][m] = NoTask

ClaimRows(S) ==
    /\ row' = [m \in Messages |-> IF m \in S THEN Claimed(row[m]) ELSE row[m]]
    /\ UNCHANGED <<active, sends>>

Claim(w, channel) ==
    \E S \in SUBSET channel :
       /\ Batch(w, channel, S)
       /\ ClaimRows(S)
       /\ task' = [task EXCEPT ![w] = [m \in Messages |->
                      IF m \in S THEN [at |-> "claimed", n |-> Claimed(row[m]).tries] ELSE @[m]]]
       /\ batch' = [batch EXCEPT ![w] = @ \cup S]

\* The commit succeeds and its answer is lost, or the worker dies there: the rows
\* are claimed and nobody delivers them.
ClaimLost(w, channel) ==
    \E S \in SUBSET channel :
       /\ Batch(w, channel, S)
       /\ ClaimRows(S)
       /\ UNCHANGED <<task, batch>>

-----------------------------------------------------------------------------
(* The delivery of one message. *)

\* Mails are sent one after the other.
HasTurn(w, m) ==
    /\ task[w][m].at = "claimed"
    /\ m \in Emails => \A e \in Emails : task[w][e].at \in {"none", "claimed"}

Taken(m) == sends' = [sends EXCEPT ![m] = IF @ <= MaxAttempts THEN @ + 1 ELSE @]

\* A 2xx answer, or the mail server took the mail.
Accepted(w, m) ==
    /\ HasTurn(w, m)
    /\ Taken(m)
    /\ task' = [task EXCEPT ![w][m].at = "accepted"]
    /\ UNCHANGED <<row, active, batch>>

\* Another answer of the endpoint, stored inside the try.
Rejected(w, m) ==
    /\ HasTurn(w, m) /\ m \in Webhooks
    /\ task' = [task EXCEPT ![w][m].at = "rejected"]
    /\ UNCHANGED <<row, active, batch, sends>>

\* An exception: not sent, refused, or the answer of the other side was lost.
Excepted(w, m) ==
    /\ HasTurn(w, m)
    /\ Taken(m) \/ UNCHANGED sends
    /\ task' = [task EXCEPT ![w][m].at = "excepted"]
    /\ UNCHANGED <<row, active, batch>>

\* Mutant: every answer of the endpoint counts as a delivery.
AnsweredIsDelivered(at) == at \in {"accepted", "rejected"}

Delivered(at) == at = "accepted"

\* Mutant: one attempt more than allowed.
StoredLate(r, delivered, n) ==
    [r EXCEPT !.status = IF delivered THEN "done"
                         ELSE IF n > MaxAttempts THEN "failed" ELSE "retry",
              !.due = delivered, !.stale = FALSE]

\* Mutant: the answer is stored under a name that no claim looks for.
StoredVerbatim(r, delivered, n) ==
    [r EXCEPT !.status = IF delivered THEN "done"
                         ELSE IF n >= MaxAttempts THEN "failed" ELSE "rejected",
              !.due = delivered, !.stale = FALSE]

\* By primary key: neither the status nor the claim is looked at.
Stored(r, delivered, n) ==
    [r EXCEPT !.status = IF delivered THEN "done"
                         ELSE IF n >= MaxAttempts THEN "failed" ELSE "retry",
              !.due = delivered, !.stale = FALSE]

WriteResult(w, m) ==
    row' = [row EXCEPT ![m] = Stored(@, Delivered(task[w][m].at), task[w][m].n)]

StoreResult(w, m) ==
    /\ task[w][m].at \in {"accepted", "rejected", "excepted"}
    /\ WriteResult(w, m)
    /\ task' = [task EXCEPT ![w][m] = NoTask]
    /\ batch' = [batch EXCEPT ![w] = @ \ {m}]
    /\ UNCHANGED <<active, sends>>

\* The store of a webhook's answer raises, before its commit or after it: the
\* handler of the exception stores a failure over it.
StoreRaises(w, m) ==
    /\ m \in Webhooks
    /\ task[w][m].at \in {"accepted", "rejected"}
    /\ WriteResult(w, m) \/ UNCHANGED row
    /\ task' = [task EXCEPT ![w][m].at = "excepted"]
    /\ UNCHANGED <<active, batch, sends>>

\* The store of a failure raises: gather ends with it, and the loop goes on
\* while the other deliveries of the batch are still under way.
GatherRaises(w, m) ==
    /\ m \in Webhooks
    /\ task[w][m].at = "excepted"
    /\ WriteResult(w, m) \/ UNCHANGED row
    /\ task' = [task EXCEPT ![w][m] = NoTask]
    /\ batch' = [batch EXCEPT ![w] = IF m \in @ THEN @ \ Webhooks ELSE @]
    /\ UNCHANGED <<active, sends>>

\* The store of a mail's result raises: the loop drops the rest of its batch.
MailLoopRaises(w, m) ==
    /\ m \in Emails
    /\ task[w][m].at \in {"accepted", "excepted"}
    /\ WriteResult(w, m) \/ UNCHANGED row
    /\ task' = [task EXCEPT ![w] =
                   [x \in Messages |-> IF x \in Emails THEN NoTask ELSE @[x]]]
    /\ batch' = [batch EXCEPT ![w] = @ \ Emails]
    /\ UNCHANGED <<active, sends>>

Crash(w) ==
    /\ \E m \in Messages : task[w][m] # NoTask
    /\ task' = [task EXCEPT ![w] = [m \in Messages |-> NoTask]]
    /\ batch' = [batch EXCEPT ![w] = {}]
    /\ UNCHANGED <<row, active, sends>>

-----------------------------------------------------------------------------
(* Time. *)

RetryDue(m) ==
    /\ row[m].status = "retry" /\ ~row[m].due
    /\ row' = [row EXCEPT ![m].due = TRUE]
    /\ UNCHANGED <<active, task, batch, sends>>

\* Only the claim of webhooks looks at updated_at; whether somebody is still at
\* the delivery it cannot know.
ClaimExpires(m) ==
    /\ m \in Webhooks /\ row[m].status = "inflight" /\ ~row[m].stale
    /\ row' = [row EXCEPT ![m].stale = TRUE]
    /\ UNCHANGED <<active, task, batch, sends>>

-----------------------------------------------------------------------------
Init ==
    /\ row = [m \in Messages |-> NoRow]
    /\ active = TRUE
    /\ task = [w \in Workers |-> [m \in Messages |-> NoTask]]
    /\ batch = [w \in Workers |-> {}]
    /\ sends = [m \in Messages |-> 0]

Answer(w, m) == Accepted(w, m) \/ Rejected(w, m) \/ Excepted(w, m)

DeliveryStep(w, m) ==
    \/ Answer(w, m) \/ StoreResult(w, m)
    \/ StoreRaises(w, m) \/ GatherRaises(w, m) \/ MailLoopRaises(w, m)

WorkerStep(w) == \/ \E channel \in {Webhooks, Emails} :
                       Claim(w, channel) \/ ClaimLost(w, channel)
                 \/ Crash(w)
                 \/ \E m \in Messages : DeliveryStep(w, m)

RowStep == \E m \in Messages : Queue(m) \/ RetryDue(m) \/ ClaimExpires(m)

Next == (\E w \in Workers : WorkerStep(w)) \/ RowStep \/ Revoke

Spec == Init /\ [][Next]_vars

\* The loops run for ever and time passes.  No worker dies, and no answer of the
\* database is lost, at the same point every time: strong fairness for those steps.
Fairness(channel) ==
    /\ SF_vars(\E w \in Workers : Claim(w, channel))
    /\ \A m \in channel :
          /\ WF_vars(RetryDue(m)) /\ WF_vars(ClaimExpires(m))
          /\ SF_vars(\E w \in Workers : Answer(w, m))
          /\ SF_vars(\E w \in Workers : StoreResult(w, m))

\* Nothing is asked of the loop of the mails: its outage does not hold up webhooks.
WebhookSpec == Spec /\ Fairness(Webhooks)
MailSpec == Spec /\ Fairness(Emails)

-----------------------------------------------------------------------------
(* Properties. *)

Rows == [status : {"none", "pending", "inflight", "retry", "done", "failed"},
         tries : 0 .. MaxAttempts, due : BOOLEAN, stale : BOOLEAN]

Tasks == [at : {"none", "claimed", "accepted", "rejected", "excepted"},
          n : 0 .. MaxAttempts]

TypeOK ==
    /\ row \in [Messages -> Rows]
    /\ active \in BOOLEAN
    /\ task \in [Workers -> [Messages -> Tasks]]
    /\ batch \in [Workers -> SUBSET Messages]
    /\ sends \in [Messages -> 0 .. MaxAttempts + 1]

\* What is recorded as delivered was taken by the other side, though results are
\* stored late, twice, and over those of another worker. (_store_result)
DeliveredWasTaken == \A m \in Messages : row[m].status = "done" => sends[m] > 0

\* A mail that is recorded as sent, or given up, stays so and is never sent
\* again, whatever both loops do. (deliver_email_outbox_batch)
MailFinishedForGood ==
    [][\A e \in Emails :
          row[e].status \in Finished => row'[e] = row[e] /\ sends'[e] = sends[e]]_vars

\* A mail leaves at most EMAIL_MAX_ATTEMPTS times, though an attempt may fail
\* after the mail has left. (email_delivery.py:178)
MailsBounded == \A e \in Emails : sends[e] <= MaxAttempts

\* Nothing is given up before it was claimed as often as is allowed, though a
\* failure may be stored late, twice, or over a newer claim. (_store_result,
\* webhooks.py:153; email_delivery.py:187)
GivenUpLast == \A m \in Messages : row[m].status = "failed" => row[m].tries = MaxAttempts

\* A queued event is one day delivered or given up, for good, unless the endpoint
\* is revoked first: neither crashes nor stale results keep it coming back.
\* (the five-minute takeover of _claim_batch)
WebhookSettles ==
    \A h \in Webhooks :
        row[h].status # "none" ~> (~active \/ [](row[h].status \in Finished))

\* A queued mail is one day sent or given up. (ACCOUNT_EMAIL_MFA_V150.md:18,
\* "stores a terminal or retryable result")
MailSettles == \A e \in Emails : row[e].status # "none" ~> row[e].status \in Finished
=============================================================================
