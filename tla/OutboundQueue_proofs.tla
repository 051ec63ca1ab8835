------------------------ MODULE OutboundQueue_proofs ------------------------
(***************************************************************************)
(* Theorems of OutboundQueue, for any webhooks, mails, workers and number  *)
(* of attempts.  All the invariants speak of one message at a time, so a   *)
(* step of the queues is first reduced to what it does to one message.     *)
(***************************************************************************)
EXTENDS OutboundQueue, TLAPS

-----------------------------------------------------------------------------
(* The inductive invariant. *)

DeliveredInv(m) ==
    /\ row[m].status = "done" => sends[m] > 0
    /\ \A w \in Workers : task[w][m].at = "accepted" => sends[m] > 0

\* A claim is remembered with a count the row had, and counts never fall.
GivenUpInv(m) ==
    /\ row[m].status = "failed" => row[m].tries = MaxAttempts
    /\ \A w \in Workers : task[w][m].n <= row[m].tries

\* Whoever has a mail in hand is alone with it and knows its attempts.
HeldAlone(e) ==
    /\ \A w \in Workers : task[w][e].at # "none" =>
                             row[e].status = "inflight" /\ task[w][e].n = row[e].tries
    /\ \A v, w \in Workers : task[v][e].at # "none" /\ task[w][e].at # "none" => v = w

\* A mail leaves at most once per attempt, and one in the queue has an attempt left.
Counted(e) ==
    /\ sends[e] <= row[e].tries
    /\ row[e].status \in {"none", "pending", "retry"} => row[e].tries < MaxAttempts
    /\ \A w \in Workers : task[w][e].at = "claimed" => sends[e] < row[e].tries

MailInv(e) == HeldAlone(e) /\ Counted(e)

IInv == /\ TypeOK
        /\ \A m \in Messages : DeliveredInv(m) /\ GivenUpInv(m)
        /\ \A e \in Emails : MailInv(e)

-----------------------------------------------------------------------------
(* What a step does to one message. *)

Untouched(m) ==
    /\ row'[m].status = row[m].status /\ row'[m].tries = row[m].tries
    /\ row[m].status \in Finished => row'[m] = row[m]
    /\ sends'[m] = sends[m]
    /\ \A w \in Workers : task'[w][m] \in {task[w][m], NoTask}

Queued(m) ==
    /\ row[m].status = "none" /\ row'[m].status = "pending" /\ row'[m].tries = row[m].tries
    /\ sends'[m] = sends[m]
    /\ \A w \in Workers : task'[w][m] = task[w][m]

Elsewhere(w, m) == \A v \in Workers \ {w} : task'[v][m] = task[v][m]

Taking(w, m) ==
    /\ Claimable(m) /\ row'[m] = Claimed(row[m])
    /\ sends'[m] = sends[m]
    /\ Elsewhere(w, m)
    /\ task[w][m] = NoTask
    /\ task'[w][m] \in {NoTask, [at |-> "claimed", n |-> Claimed(row[m]).tries]}

Answering(w, m) ==
    /\ row'[m] = row[m]
    /\ Elsewhere(w, m)
    /\ task[w][m].at = "claimed" /\ task'[w][m].n = task[w][m].n
    /\ task'[w][m].at \in {"accepted", "rejected", "excepted"}
    /\ \/ sends'[m] = IF sends[m] <= MaxAttempts THEN sends[m] + 1 ELSE sends[m]
       \/ sends'[m] = sends[m] /\ task'[w][m].at # "accepted"

Storing(w, m) ==
    /\ task[w][m].at \in {"accepted", "rejected", "excepted"}
    /\ row'[m] = Stored(row[m], Delivered(task[w][m].at), task[w][m].n)
    /\ sends'[m] = sends[m]
    /\ Elsewhere(w, m)
    /\ \/ task'[w][m] = NoTask
       \/ /\ m \in Webhooks /\ task'[w][m].at = "excepted"
          /\ task'[w][m].n = task[w][m].n

Retelling(w, m) ==
    /\ m \in Webhooks
    /\ row'[m] = row[m] /\ sends'[m] = sends[m]
    /\ Elsewhere(w, m)
    /\ task'[w][m].at = "excepted" /\ task'[w][m].n = task[w][m].n

MessageStep(m) ==
    \/ Untouched(m) \/ Queued(m)
    \/ \E w \in Workers : \/ Taking(w, m) \/ Answering(w, m)
                          \/ Storing(w, m) \/ Retelling(w, m)

-----------------------------------------------------------------------------
(* Types. *)

LEMMA Typed ==
    ASSUME TypeOK, NEW m \in Messages, NEW w \in Workers
    PROVE  /\ row[m].status \in {"none", "pending", "inflight", "retry", "done", "failed"}
           /\ row[m].tries \in 0 .. MaxAttempts
           /\ task[w][m].at \in {"none", "claimed", "accepted", "rejected", "excepted"}
           /\ task[w][m].n \in 0 .. MaxAttempts
           /\ sends[m] \in 0 .. MaxAttempts + 1
  BY DEF TypeOK, Rows, Tasks

LEMMA RowTyped ==
    ASSUME NEW s \in {"none", "pending", "inflight", "retry", "done", "failed"},
           NEW n \in 0 .. MaxAttempts, NEW d \in BOOLEAN, NEW e \in BOOLEAN
    PROVE  [status |-> s, tries |-> n, due |-> d, stale |-> e] \in Rows
  BY Zenon DEF Rows

LEMMA ClaimedTyped ==
    ASSUME NEW r \in Rows
    PROVE  /\ Claimed(r) \in Rows /\ Claimed(r).status = "inflight"
           /\ Claimed(r).tries = IF r.tries < MaxAttempts THEN r.tries + 1 ELSE r.tries
  <1> DEFINE n == IF r.tries < MaxAttempts THEN r.tries + 1 ELSE r.tries
  <1>1. /\ n \in 0 .. MaxAttempts /\ r.due \in BOOLEAN /\ FALSE \in BOOLEAN
        /\ "inflight" \in {"none", "pending", "inflight", "retry", "done", "failed"}
    BY QueueAssumption DEF Rows
  <1>2. ASSUME NEW k \in 0 .. MaxAttempts, NEW e \in BOOLEAN
        PROVE  LET c == [r EXCEPT !.status = "inflight", !.tries = k, !.stale = e]
               IN  c \in Rows /\ c.status = "inflight" /\ c.tries = k
    BY DEF Rows
  <1> HIDE DEF n
  <1>3. LET c == [r EXCEPT !.status = "inflight", !.tries = n, !.stale = FALSE]
        IN  c \in Rows /\ c.status = "inflight" /\ c.tries = n
    BY <1>1, <1>2, Zenon
  <1>4. Claimed(r) = [r EXCEPT !.status = "inflight", !.tries = n, !.stale = FALSE]
    BY Zenon DEF Claimed, n
  <1>5. Claimed(r) \in Rows /\ Claimed(r).status = "inflight" /\ Claimed(r).tries = n
    BY <1>3, <1>4, Zenon
  <1> QED BY <1>5, Zenon DEF n

LEMMA StoredTyped ==
    ASSUME NEW r \in Rows, NEW d \in BOOLEAN, NEW n \in 0 .. MaxAttempts
    PROVE  /\ Stored(r, d, n) \in Rows
           /\ Stored(r, d, n).tries = r.tries
           /\ d => Stored(r, d, n).status = "done"
           /\ ~d => Stored(r, d, n).status = IF n >= MaxAttempts THEN "failed" ELSE "retry"
  <1>1. CASE d = TRUE BY <1>1 DEF Stored, Rows
  <1>2. CASE d = FALSE BY <1>2 DEF Stored, Rows
  <1> QED BY <1>1, <1>2

LEMMA StoredMeans ==
    ASSUME NEW r \in Rows, NEW d \in BOOLEAN, NEW n \in 0 .. MaxAttempts
    PROVE  /\ Stored(r, d, n).tries = r.tries
           /\ Stored(r, d, n).status \in {"done", "failed", "retry"}
           /\ Stored(r, d, n).status = "retry" => n < MaxAttempts
           /\ Stored(r, d, n).status = "failed" => n = MaxAttempts
  <1>1. CASE d = TRUE BY <1>1 DEF Stored, Rows
  <1>2. CASE d = FALSE BY <1>2, QueueAssumption DEF Stored, Rows
  <1> QED BY <1>1, <1>2

LEMMA TaskTyped ==
    ASSUME NEW a \in {"none", "claimed", "accepted", "rejected", "excepted"},
           NEW n \in 0 .. MaxAttempts
    PROVE  [at |-> a, n |-> n] \in Tasks
  BY DEF Tasks

LEMMA NoTaskTyped == NoTask \in Tasks /\ NoTask.at = "none"
  BY QueueAssumption DEF NoTask, Tasks

LEMMA WrittenTyped ==
    ASSUME TypeOK, NEW w \in Workers, NEW m \in Messages, WriteResult(w, m) \/ UNCHANGED row
    PROVE  /\ row' \in [Messages -> Rows]
           /\ \A x \in Messages : x # m => row'[x] = row[x]
           /\ \/ row'[m] = Stored(row[m], Delivered(task[w][m].at), task[w][m].n)
              \/ row'[m] = row[m]
           /\ WriteResult(w, m) => row'[m] = Stored(row[m], Delivered(task[w][m].at), task[w][m].n)
  <1>1. CASE WriteResult(w, m)
    <2>1. Delivered(task[w][m].at) \in BOOLEAN BY DEF Delivered
    <2>2. Stored(row[m], Delivered(task[w][m].at), task[w][m].n) \in Rows
      BY <2>1, StoredTyped, Typed DEF TypeOK
    <2> QED BY <1>1, <2>2 DEF WriteResult, TypeOK
  <1>2. CASE UNCHANGED row /\ ~WriteResult(w, m) BY <1>2 DEF TypeOK
  <1> QED BY <1>1, <1>2

-----------------------------------------------------------------------------
(* Every step keeps the types and is one of the above for each message. *)

LEMMA QueueStep ==
    ASSUME TypeOK, NEW m \in Messages, Queue(m)
    PROVE  TypeOK' /\ \A x \in Messages : MessageStep(x)
  <1>1. [row[m] EXCEPT !.status = "pending"] \in Rows BY DEF TypeOK, Rows
  <1>2. TypeOK' BY <1>1 DEF Queue, TypeOK
  <1>3. row'[m].status = "pending" /\ row'[m].tries = row[m].tries
    BY DEF Queue, TypeOK, Rows
  <1>4. Queued(m) BY <1>3 DEF Queue, Queued
  <1>5. \A x \in Messages \ {m} : Untouched(x) BY DEF Queue, Untouched, TypeOK
  <1> QED BY <1>2, <1>4, <1>5 DEF MessageStep

LEMMA RetryDueStep ==
    ASSUME TypeOK, NEW m \in Messages, RetryDue(m) \/ ClaimExpires(m)
    PROVE  TypeOK' /\ \A x \in Messages : MessageStep(x)
  <1>1. CASE RetryDue(m)
    <2>1. [row[m] EXCEPT !.due = TRUE] \in Rows BY DEF TypeOK, Rows
    <2>2. TypeOK' BY <1>1, <2>1 DEF RetryDue, TypeOK
    <2>3. \A x \in Messages : Untouched(x)
      BY <1>1 DEF RetryDue, Untouched, TypeOK, Rows, Finished
    <2> QED BY <2>2, <2>3 DEF MessageStep
  <1>2. CASE ClaimExpires(m)
    <2>1. [row[m] EXCEPT !.stale = TRUE] \in Rows BY DEF TypeOK, Rows
    <2>2. TypeOK' BY <1>2, <2>1 DEF ClaimExpires, TypeOK
    <2>3. \A x \in Messages : Untouched(x)
      BY <1>2 DEF ClaimExpires, Untouched, TypeOK, Rows, Finished
    <2> QED BY <2>2, <2>3 DEF MessageStep
  <1> QED BY <1>1, <1>2

LEMMA RevokeStep ==
    ASSUME TypeOK, Revoke
    PROVE  TypeOK' /\ \A x \in Messages : MessageStep(x)
  <1>1. TypeOK' BY DEF Revoke, TypeOK
  <1>2. \A x \in Messages : Untouched(x) BY DEF Revoke, Untouched
  <1> QED BY <1>1, <1>2 DEF MessageStep

LEMMA ClaimStep ==
    ASSUME TypeOK, NEW w \in Workers, NEW channel \in {Webhooks, Emails},
           Claim(w, channel) \/ ClaimLost(w, channel)
    PROVE  TypeOK' /\ \A x \in Messages : MessageStep(x)
  <1> DEFINE T(x) == [at |-> "claimed", n |-> Claimed(row[x]).tries]
  <1>1. channel \subseteq Messages BY DEF Messages
  <1>2. PICK S \in SUBSET channel :
           /\ Batch(w, channel, S) /\ ClaimRows(S)
           /\ \/ UNCHANGED <<task, batch>>
              \/ /\ task' = [task EXCEPT ![w] =
                               [m \in Messages |-> IF m \in S THEN T(m) ELSE @[m]]]
                 /\ batch' = [batch EXCEPT ![w] = @ \cup S]
    BY DEF Claim, ClaimLost
  <1>3. /\ S \subseteq Messages
        /\ row' = [m \in Messages |-> IF m \in S THEN Claimed(row[m]) ELSE row[m]]
        /\ UNCHANGED <<active, sends>>
    BY <1>1, <1>2 DEF ClaimRows
  <1>4. row' \in [Messages -> Rows] BY <1>3, ClaimedTyped DEF TypeOK
  <1>5. \A x \in Messages : T(x) \in Tasks
    <2> TAKE x \in Messages
    <2>1. row[x] \in Rows BY DEF TypeOK
    <2>2. Claimed(row[x]).tries \in 0 .. MaxAttempts BY <2>1, ClaimedTyped DEF Rows
    <2> QED BY <2>2, TaskTyped
  <1>6. /\ task' \in [Workers -> [Messages -> Tasks]] /\ batch' \in [Workers -> SUBSET Messages]
        /\ \A v \in Workers \ {w} : task'[v] = task[v]
        /\ \A x \in Messages : \/ task'[w][x] = task[w][x]
                               \/ x \in S /\ task'[w][x] = T(x)
    <2>1. CASE UNCHANGED <<task, batch>> BY <2>1 DEF TypeOK
    <2>2. CASE /\ task' = [task EXCEPT ![w] =
                              [m \in Messages |-> IF m \in S THEN T(m) ELSE @[m]]]
               /\ batch' = [batch EXCEPT ![w] = @ \cup S]
      <3> DEFINE N == [m \in Messages |-> IF m \in S THEN T(m) ELSE task[w][m]]
      <3>1. task' = [task EXCEPT ![w] = N] BY <2>2
      <3>2. N \in [Messages -> Tasks] BY <1>5 DEF TypeOK
      <3>3. task' \in [Workers -> [Messages -> Tasks]] /\ task'[w] = N
        BY <3>1, <3>2 DEF TypeOK
      <3>4. \A v \in Workers \ {w} : task'[v] = task[v] BY <3>1 DEF TypeOK
      <3>5. batch' \in [Workers -> SUBSET Messages] BY <1>3, <2>2 DEF TypeOK
      <3>6. \A x \in Messages : task'[w][x] = IF x \in S THEN T(x) ELSE task[w][x] BY <3>3
      <3> QED BY <3>3, <3>4, <3>5, <3>6
    <2> QED BY <1>2, <2>1, <2>2
  <1>7. TypeOK' BY <1>3, <1>4, <1>6 DEF TypeOK
  <1>8. ASSUME NEW x \in Messages PROVE MessageStep(x)
    <2>1. CASE x \in S
      <3>1. Claimable(x) /\ task[w][x] = NoTask BY <1>2, <2>1 DEF Batch
      <3>2. Taking(w, x) BY <1>3, <1>6, <2>1, <3>1 DEF Taking, Elsewhere
      <3> QED BY <3>2 DEF MessageStep
    <2>2. CASE x \notin S
      <3>1. row'[x] = row[x] /\ sends'[x] = sends[x] BY <1>3, <2>2
      <3>2. \A v \in Workers : task'[v][x] = task[v][x] BY <1>6, <2>2
      <3> QED BY <3>1, <3>2 DEF MessageStep, Untouched
    <2> QED BY <2>1, <2>2
  <1> QED BY <1>7, <1>8

LEMMA AnswerStep ==
    ASSUME TypeOK, NEW w \in Workers, NEW m \in Messages, Answer(w, m)
    PROVE  TypeOK' /\ \A x \in Messages : MessageStep(x)
  <1>1. PICK a \in {"accepted", "rejected", "excepted"} :
           task' = [task EXCEPT ![w][m].at = a] /\ (a = "accepted" => Taken(m))
    BY DEF Answer, Accepted, Rejected, Excepted
  <1>2. Taken(m) \/ UNCHANGED sends BY DEF Answer, Accepted, Rejected, Excepted
  <1>3. HasTurn(w, m) /\ UNCHANGED <<row, active, batch>>
    BY DEF Answer, Accepted, Rejected, Excepted
  <1>4. [task[w][m] EXCEPT !.at = a] \in Tasks BY DEF TypeOK, Tasks
  <1>5. task' \in [Workers -> [Messages -> Tasks]]
    <2>1. [task[w] EXCEPT ![m].at = a] \in [Messages -> Tasks] BY <1>4 DEF TypeOK
    <2> QED BY <1>1, <2>1 DEF TypeOK
  <1>6. /\ \A v \in Workers, x \in Messages : v # w \/ x # m => task'[v][x] = task[v][x]
        /\ task'[w][m] = [task[w][m] EXCEPT !.at = a]
    BY <1>1 DEF TypeOK
  <1>7. task'[w][m].at = a /\ task'[w][m].n = task[w][m].n BY <1>6 DEF TypeOK, Tasks
  <1>8. /\ sends' \in [Messages -> 0 .. MaxAttempts + 1]
        /\ \A x \in Messages : x # m => sends'[x] = sends[x]
        /\ Taken(m) => sends'[m] = IF sends[m] <= MaxAttempts THEN sends[m] + 1 ELSE sends[m]
    BY <1>2, QueueAssumption DEF Taken, TypeOK
  <1>9. TypeOK' BY <1>3, <1>5, <1>8 DEF TypeOK
  <1>10. Answering(w, m)
    <2>1. task[w][m].at = "claimed" BY <1>3 DEF HasTurn
    <2>2. \/ sends'[m] = IF sends[m] <= MaxAttempts THEN sends[m] + 1 ELSE sends[m]
          \/ sends'[m] = sends[m] /\ a # "accepted"
      BY <1>1, <1>2, <1>8
    <2>3. Elsewhere(w, m) /\ row'[m] = row[m] BY <1>3, <1>6 DEF Elsewhere
    <2> QED BY <1>7, <2>1, <2>2, <2>3 DEF Answering
  <1>11. \A x \in Messages \ {m} : Untouched(x) BY <1>3, <1>6, <1>8 DEF Untouched
  <1> QED BY <1>9, <1>10, <1>11 DEF MessageStep

\* A store, or the failure of one, that ends the deliveries of D.
LEMMA StoreEnds ==
    ASSUME TypeOK, NEW w \in Workers, NEW m \in Messages, NEW D \in SUBSET Messages, m \in D,
           task[w][m].at \in {"accepted", "rejected", "excepted"},
           WriteResult(w, m) \/ UNCHANGED row,
           task' = [task EXCEPT ![w] = [x \in Messages |-> IF x \in D THEN NoTask ELSE @[x]]],
           batch' \in [Workers -> SUBSET Messages], UNCHANGED <<active, sends>>
    PROVE  TypeOK' /\ \A x \in Messages : MessageStep(x)
  <1>1. [x \in Messages |-> IF x \in D THEN NoTask ELSE task[w][x]] \in [Messages -> Tasks]
    BY NoTaskTyped DEF TypeOK
  <1>2. TypeOK' BY <1>1, WrittenTyped DEF TypeOK
  <1>3. /\ \A v \in Workers \ {w} : task'[v] = task[v]
        /\ \A x \in Messages : task'[w][x] = IF x \in D THEN NoTask ELSE task[w][x]
    BY DEF TypeOK
  <1>4. \A x \in Messages : x # m => Untouched(x) BY <1>3, WrittenTyped DEF Untouched
  <1>5. Storing(w, m) \/ Untouched(m)
    <2>1. CASE row'[m] = row[m] BY <1>3, <2>1 DEF Untouched
    <2>2. CASE row'[m] = Stored(row[m], Delivered(task[w][m].at), task[w][m].n)
      BY <1>3, <2>2 DEF Storing, Elsewhere
    <2> QED BY <2>1, <2>2, WrittenTyped
  <1> QED BY <1>2, <1>4, <1>5 DEF MessageStep

LEMMA StoreStep ==
    ASSUME TypeOK, NEW w \in Workers, NEW m \in Messages,
           StoreResult(w, m) \/ GatherRaises(w, m) \/ MailLoopRaises(w, m)
    PROVE  TypeOK' /\ \A x \in Messages : MessageStep(x)
  <1>0. Webhooks \subseteq Messages /\ Emails \subseteq Messages BY DEF Messages
  <1>1. /\ task[w][m].at \in {"accepted", "rejected", "excepted"}
        /\ WriteResult(w, m) \/ UNCHANGED row
        /\ UNCHANGED <<active, sends>>
    BY DEF StoreResult, GatherRaises, MailLoopRaises
  <1>2. batch' \in [Workers -> SUBSET Messages]
    BY <1>0 DEF StoreResult, GatherRaises, MailLoopRaises, TypeOK
  <1>3. CASE StoreResult(w, m) \/ GatherRaises(w, m)
    <2>1. task' = [task EXCEPT ![w][m] = NoTask] BY <1>3 DEF StoreResult, GatherRaises
    <2>2. [task[w] EXCEPT ![m] = NoTask]
             = [x \in Messages |-> IF x \in {m} THEN NoTask ELSE task[w][x]]
      BY DEF TypeOK
    <2>3. task' = [task EXCEPT ![w] = [x \in Messages |-> IF x \in {m} THEN NoTask ELSE @[x]]]
      BY <2>1, <2>2
    <2>4. m \in {m} /\ {m} \in SUBSET Messages OBVIOUS
    <2> QED BY <1>1, <1>2, <2>3, <2>4, StoreEnds
  <1>4. CASE MailLoopRaises(w, m)
    <2>1. m \in Emails /\ Emails \in SUBSET Messages BY <1>0, <1>4 DEF MailLoopRaises
    <2>2. task' = [task EXCEPT ![w] =
                      [x \in Messages |-> IF x \in Emails THEN NoTask ELSE @[x]]]
      BY <1>4 DEF MailLoopRaises
    <2> QED BY <1>1, <1>2, <2>1, <2>2, StoreEnds
  <1> QED BY <1>3, <1>4

LEMMA StoreRaisesStep ==
    ASSUME TypeOK, NEW w \in Workers, NEW m \in Messages, StoreRaises(w, m)
    PROVE  TypeOK' /\ \A x \in Messages : MessageStep(x)
  <1>1. [task[w][m] EXCEPT !.at = "excepted"] \in Tasks BY DEF TypeOK, Tasks
  <1>2. [task[w] EXCEPT ![m].at = "excepted"] \in [Messages -> Tasks] BY <1>1 DEF TypeOK
  <1>3. task' \in [Workers -> [Messages -> Tasks]] BY <1>2 DEF StoreRaises, TypeOK
  <1>4. TypeOK' BY <1>3, WrittenTyped DEF StoreRaises, TypeOK
  <1>5. /\ \A v \in Workers, x \in Messages : v # w \/ x # m => task'[v][x] = task[v][x]
        /\ task'[w][m] = [task[w][m] EXCEPT !.at = "excepted"]
    BY DEF StoreRaises, TypeOK
  <1>6. task'[w][m].at = "excepted" /\ task'[w][m].n = task[w][m].n
    BY <1>5 DEF TypeOK, Tasks
  <1>7. \A x \in Messages : x # m => Untouched(x)
    BY <1>5, WrittenTyped DEF StoreRaises, Untouched
  <1>8. Storing(w, m) \/ Retelling(w, m)
    <2>1. CASE row'[m] = row[m] BY <1>5, <1>6, <2>1 DEF StoreRaises, Retelling, Elsewhere
    <2>2. CASE row'[m] = Stored(row[m], Delivered(task[w][m].at), task[w][m].n)
      BY <1>5, <1>6, <2>2 DEF StoreRaises, Storing, Elsewhere
    <2> QED BY <2>1, <2>2, WrittenTyped DEF StoreRaises
  <1> QED BY <1>4, <1>7, <1>8 DEF MessageStep

LEMMA CrashStep ==
    ASSUME TypeOK, NEW w \in Workers, Crash(w)
    PROVE  TypeOK' /\ \A x \in Messages : MessageStep(x)
  <1>1. [m \in Messages |-> NoTask] \in [Messages -> Tasks] BY NoTaskTyped
  <1>2. TypeOK' BY <1>1 DEF Crash, TypeOK
  <1>3. \A x \in Messages : Untouched(x) BY DEF Crash, Untouched, TypeOK
  <1> QED BY <1>2, <1>3 DEF MessageStep

LEMMA StepOfEach ==
    ASSUME TypeOK, [Next]_vars
    PROVE  TypeOK' /\ \A x \in Messages : MessageStep(x)
  <1>1. ASSUME NEW w \in Workers, WorkerStep(w)
        PROVE  TypeOK' /\ \A x \in Messages : MessageStep(x)
    <2>1. CASE \E channel \in {Webhooks, Emails} : Claim(w, channel) \/ ClaimLost(w, channel)
      BY <2>1, ClaimStep
    <2>2. CASE Crash(w) BY <2>2, CrashStep
    <2>3. ASSUME NEW m \in Messages, DeliveryStep(w, m)
          PROVE  TypeOK' /\ \A x \in Messages : MessageStep(x)
      BY <2>3, AnswerStep, StoreStep, StoreRaisesStep DEF DeliveryStep
    <2> QED BY <1>1, <2>1, <2>2, <2>3 DEF WorkerStep
  <1>2. CASE RowStep BY <1>2, QueueStep, RetryDueStep DEF RowStep
  <1>3. CASE Revoke BY <1>3, RevokeStep
  <1>4. CASE UNCHANGED vars BY <1>4 DEF vars, TypeOK, MessageStep, Untouched
  <1> QED BY <1>1, <1>2, <1>3, <1>4 DEF Next

-----------------------------------------------------------------------------
(* What keeps the invariant of one message. *)

LEMMA DeliveredKept ==
    ASSUME TypeOK, TypeOK', NEW m \in Messages, DeliveredInv(m), MessageStep(m)
    PROVE  DeliveredInv(m)'
  <1>0. /\ sends[m] \in Nat /\ sends'[m] \in Nat /\ row[m] \in Rows
        /\ \A w \in Workers : task[w][m] \in Tasks
    BY QueueAssumption DEF TypeOK
  <1>1. CASE Untouched(m) BY <1>1, NoTaskTyped DEF Untouched, DeliveredInv
  <1>2. CASE Queued(m) BY <1>2 DEF Queued, DeliveredInv
  <1>3. ASSUME NEW w \in Workers, Taking(w, m) PROVE DeliveredInv(m)'
    <2>1. row'[m].status = "inflight" BY <1>0, <1>3, ClaimedTyped DEF Taking
    <2> QED BY <1>3, <2>1, NoTaskTyped DEF Taking, Elsewhere, DeliveredInv
  <1>4. ASSUME NEW w \in Workers, Answering(w, m) PROVE DeliveredInv(m)'
    <2>1. sends'[m] >= sends[m] /\ (task'[w][m].at = "accepted" => sends'[m] > 0)
      BY <1>0, <1>4, QueueAssumption DEF Answering
    <2> QED BY <1>0, <1>4, <2>1 DEF Answering, Elsewhere, DeliveredInv
  <1>5. ASSUME NEW w \in Workers, Storing(w, m) PROVE DeliveredInv(m)'
    <2>1. Delivered(task[w][m].at) \in BOOLEAN /\ task[w][m].n \in 0 .. MaxAttempts
      BY <1>0 DEF Delivered, Tasks
    <2>2. row'[m].status = "done" => task[w][m].at = "accepted"
      BY <1>0, <1>5, <2>1, StoredTyped DEF Storing, Delivered
    <2>3. task'[w][m].at # "accepted" BY <1>5, NoTaskTyped DEF Storing
    <2> QED BY <1>5, <2>2, <2>3 DEF Storing, Elsewhere, DeliveredInv
  <1>6. ASSUME NEW w \in Workers, Retelling(w, m) PROVE DeliveredInv(m)'
    BY <1>6 DEF Retelling, Elsewhere, DeliveredInv
  <1> QED BY <1>1, <1>2, <1>3, <1>4, <1>5, <1>6 DEF MessageStep

LEMMA GivenUpKept ==
    ASSUME TypeOK, TypeOK', NEW m \in Messages, GivenUpInv(m), MessageStep(m)
    PROVE  GivenUpInv(m)'
  <1> USE QueueAssumption DEF GivenUpInv
  <1>0. /\ row[m] \in Rows /\ row[m].tries \in 0 .. MaxAttempts
        /\ \A w \in Workers : task[w][m] \in Tasks /\ task[w][m].n \in 0 .. MaxAttempts
        /\ NoTask.n = 0
    BY DEF TypeOK, Rows, Tasks, NoTask
  <1>1. CASE Untouched(m)
    <2>1. \A w \in Workers : task'[w][m].n <= row[m].tries BY <1>0, <1>1 DEF Untouched
    <2> QED BY <1>1, <2>1 DEF Untouched
  <1>2. CASE Queued(m) BY <1>2 DEF Queued
  <1>3. ASSUME NEW w \in Workers, Taking(w, m) PROVE GivenUpInv(m)'
    <2>1. /\ row'[m].status = "inflight" /\ row'[m].tries = Claimed(row[m]).tries
          /\ row[m].tries <= row'[m].tries /\ row'[m].tries \in Nat
      BY <1>0, <1>3, ClaimedTyped DEF Taking
    <2>2. task'[w][m].n <= row'[m].tries BY <1>0, <1>3, <2>1 DEF Taking
    <2>3. \A v \in Workers \ {w} : task'[v][m].n <= row'[m].tries
      BY <1>0, <1>3, <2>1 DEF Taking, Elsewhere
    <2> QED BY <2>1, <2>2, <2>3
  <1>4. ASSUME NEW w \in Workers, Answering(w, m) PROVE GivenUpInv(m)'
    BY <1>4 DEF Answering, Elsewhere
  <1>5. ASSUME NEW w \in Workers, Storing(w, m) PROVE GivenUpInv(m)'
    <2>1. Delivered(task[w][m].at) \in BOOLEAN BY DEF Delivered
    <2>2. PICK d \in BOOLEAN : row'[m] = Stored(row[m], d, task[w][m].n)
      BY <1>5, <2>1, Zenon DEF Storing
    <2>3. row'[m].tries = row[m].tries /\ (row'[m].status = "failed" => task[w][m].n = MaxAttempts)
      BY <1>0, <2>2, StoredMeans
    <2>4. task'[w][m].n <= row[m].tries
      <3>1. CASE task'[w][m] = NoTask BY <1>0, <3>1
      <3>2. CASE m \in Webhooks /\ task'[w][m].n = task[w][m].n BY <3>2
      <3> QED BY <1>5, <3>1, <3>2 DEF Storing
    <2>5. \A v \in Workers \ {w} : task'[v][m].n <= row[m].tries
      BY <1>5 DEF Storing, Elsewhere
    <2>6. row'[m].status = "failed" => row[m].tries = MaxAttempts BY <1>0, <2>3
    <2> QED BY <2>3, <2>4, <2>5, <2>6
  <1>6. ASSUME NEW w \in Workers, Retelling(w, m) PROVE GivenUpInv(m)'
    BY <1>6 DEF Retelling, Elsewhere
  <1> QED BY <1>1, <1>2, <1>3, <1>4, <1>5, <1>6 DEF MessageStep

LEMMA MailKept ==
    ASSUME TypeOK, TypeOK', NEW e \in Emails, MailInv(e), MessageStep(e)
    PROVE  MailInv(e)'
  <1> USE QueueAssumption DEF MailInv, HeldAlone, Counted
  <1>0. /\ e \in Messages /\ e \notin Webhooks
        /\ sends[e] \in Nat /\ sends'[e] \in Nat /\ row[e] \in Rows /\ row'[e] \in Rows
        /\ row[e].tries \in 0 .. MaxAttempts
        /\ \A w \in Workers : task[w][e] \in Tasks
    BY DEF TypeOK, Messages, Rows
  <1>1. CASE Untouched(e)
    <2>1. \A w \in Workers : task'[w][e].at # "none" => task'[w][e] = task[w][e]
      BY <1>1, NoTaskTyped DEF Untouched
    <2> QED BY <1>0, <1>1, <2>1, NoTaskTyped DEF Untouched
  <1>2. CASE Queued(e) BY <1>0, <1>2 DEF Queued
  <1>3. ASSUME NEW w \in Workers, Taking(w, e) PROVE MailInv(e)'
    <2>1. row[e].status \in {"pending", "retry"} BY <1>0, <1>3 DEF Taking, Claimable
    <2>2. row'[e].status = "inflight" /\ row'[e].tries = row[e].tries + 1
      BY <1>0, <1>3, <2>1, ClaimedTyped DEF Taking
    <2>3. \A v \in Workers : task[v][e].at = "none" BY <2>1
    <2>4. \A v \in Workers \ {w} : task'[v][e].at = "none"
      BY <1>3, <2>3 DEF Taking, Elsewhere
    <2>5. task'[w][e].at = "none" \/ task'[w][e].n = row'[e].tries
      BY <1>3, NoTaskTyped DEF Taking
    <2>6. sends'[e] < row'[e].tries BY <1>0, <1>3, <2>2 DEF Taking
    <2> QED BY <1>0, <2>2, <2>4, <2>5, <2>6
  <1>4. ASSUME NEW w \in Workers, Answering(w, e) PROVE MailInv(e)'
    <2>1. row[e].status = "inflight" /\ sends[e] < row[e].tries /\ task[w][e].n = row[e].tries
      BY <1>4 DEF Answering
    <2>2. \A v \in Workers \ {w} : task'[v][e].at = "none"
      BY <1>0, <1>4 DEF Answering, Elsewhere, Tasks
    <2>3. sends'[e] <= row[e].tries BY <1>0, <1>4, <2>1 DEF Answering
    <2> QED BY <1>0, <1>4, <2>1, <2>2, <2>3 DEF Answering
  <1>5. ASSUME NEW w \in Workers, Storing(w, e) PROVE MailInv(e)'
    <2>1. Delivered(task[w][e].at) \in BOOLEAN /\ task[w][e].n \in 0 .. MaxAttempts
      BY <1>0 DEF Delivered, Tasks
    <2>2. task[w][e].n = row[e].tries BY <1>5 DEF Storing
    <2>3. PICK d \in BOOLEAN : row'[e] = Stored(row[e], d, task[w][e].n)
      BY <1>5, <2>1, Zenon DEF Storing
    <2>4. row[e] \in Rows /\ task[w][e].n \in 0 .. MaxAttempts BY <1>0, <2>1
    <2>5. /\ Stored(row[e], d, task[w][e].n).tries = row[e].tries
          /\ Stored(row[e], d, task[w][e].n).status \in {"done", "failed", "retry"}
          /\ Stored(row[e], d, task[w][e].n).status = "retry" => task[w][e].n < MaxAttempts
      BY <2>4, StoredMeans, Zenon
    <2>6. /\ row'[e].tries = row[e].tries
          /\ row'[e].status \in {"done", "failed", "retry"}
          /\ row'[e].status = "retry" => row[e].tries < MaxAttempts
      BY <2>2, <2>3, <2>5, Zenon
    <2>7. \A v \in Workers : task'[v][e].at = "none"
      BY <1>0, <1>5, NoTaskTyped DEF Storing, Elsewhere, Tasks
    <2>8. sends'[e] = sends[e] BY <1>5 DEF Storing
    <2> QED BY <1>0, <2>6, <2>7, <2>8
  <1>6. ASSUME NEW w \in Workers, Retelling(w, e) PROVE MailInv(e)'
    BY <1>0, <1>6 DEF Retelling
  <1> QED BY <1>1, <1>2, <1>3, <1>4, <1>5, <1>6 DEF MessageStep

-----------------------------------------------------------------------------
(* The theorems. *)

LEMMA Initially == Init => IInv
  <1> SUFFICES ASSUME Init PROVE IInv OBVIOUS
  <1>1. NoRow \in Rows /\ NoRow.status = "none" /\ NoRow.tries = 0
    BY QueueAssumption DEF NoRow, Rows
  <1>2. TypeOK BY <1>1, NoTaskTyped, QueueAssumption DEF Init, TypeOK
  <1>3. \A m \in Messages : DeliveredInv(m) /\ GivenUpInv(m)
    BY <1>1, NoTaskTyped, QueueAssumption DEF Init, DeliveredInv, GivenUpInv, NoTask
  <1>4. \A e \in Emails : MailInv(e)
    BY <1>1, NoTaskTyped, QueueAssumption DEF Init, MailInv, HeldAlone, Counted, Messages
  <1> QED BY <1>2, <1>3, <1>4 DEF IInv

LEMMA Inductive == IInv /\ [Next]_vars => IInv'
  <1> SUFFICES ASSUME IInv, [Next]_vars PROVE IInv' OBVIOUS
  <1>1. TypeOK' /\ \A m \in Messages : MessageStep(m) BY StepOfEach DEF IInv
  <1>2. (\A m \in Messages : DeliveredInv(m) /\ GivenUpInv(m))'
    BY <1>1, DeliveredKept, GivenUpKept DEF IInv
  <1>3. (\A e \in Emails : MailInv(e))' BY <1>1, MailKept DEF IInv, Messages
  <1> QED BY <1>1, <1>2, <1>3 DEF IInv

LEMMA Always == Spec => []IInv
  BY Initially, Inductive, PTL DEF Spec

\* The queues stay within their types. (claims, results and takeovers of both loops)
THEOREM TypeCorrect == Spec => []TypeOK
  <1>1. IInv => TypeOK BY DEF IInv
  <1> QED BY <1>1, Always, PTL

\* What is recorded as delivered was taken by the other side, whatever crashes, late
\* results and failed stores there are. (_store_result, deliver_email_outbox_batch)
THEOREM DeliveredIsTrue == Spec => []DeliveredWasTaken
  <1>1. IInv => DeliveredWasTaken BY DEF IInv, DeliveredInv, DeliveredWasTaken
  <1> QED BY <1>1, Always, PTL

\* A mail leaves at most EMAIL_MAX_ATTEMPTS times. (deliver_email_outbox_batch)
THEOREM AttemptsBoundMails == Spec => []MailsBounded
  <1>1. IInv => MailsBounded
    <2> SUFFICES ASSUME IInv, NEW e \in Emails PROVE sends[e] <= MaxAttempts
      BY DEF MailsBounded
    <2>1. sends[e] \in Nat /\ row[e].tries \in 0 .. MaxAttempts
      BY QueueAssumption DEF IInv, TypeOK, Rows, Messages
    <2>2. sends[e] <= row[e].tries BY DEF IInv, MailInv, Counted
    <2> QED BY <2>1, <2>2, QueueAssumption
  <1> QED BY <1>1, Always, PTL

\* Nothing is given up before it was claimed MaxAttempts times, by any number of
\* workers whose late results are stored over newer claims. (_store_result)
THEOREM NothingGivenUpEarly == Spec => []GivenUpLast
  <1>1. IInv => GivenUpLast BY DEF IInv, GivenUpInv, GivenUpLast
  <1> QED BY <1>1, Always, PTL

\* A mail that was sent or given up is never touched again, by any worker.
\* (deliver_email_outbox_batch claims only pending and retry rows)
THEOREM FinishedForGood == Spec => MailFinishedForGood
  <1>1. IInv /\ [Next]_vars =>
           [\A e \in Emails :
               row[e].status \in Finished => row'[e] = row[e] /\ sends'[e] = sends[e]]_vars
    <2> SUFFICES ASSUME IInv, [Next]_vars, NEW e \in Emails, row[e].status \in Finished
                 PROVE  row'[e] = row[e] /\ sends'[e] = sends[e]
      OBVIOUS
    <2>1. e \in Messages /\ e \notin Webhooks BY QueueAssumption DEF Messages
    <2>2. MessageStep(e) BY <2>1, StepOfEach DEF IInv
    <2>3. \A w \in Workers : task[w][e].at = "none"
      BY DEF IInv, MailInv, HeldAlone, Finished
    <2>4. CASE Untouched(e) BY <2>4 DEF Untouched
    <2>5. ~Queued(e) BY DEF Queued, Finished
    <2>6. \A w \in Workers : ~Taking(w, e) BY <2>1 DEF Taking, Claimable, Finished
    <2>7. \A w \in Workers : ~Answering(w, e) /\ ~Storing(w, e) /\ ~Retelling(w, e)
      BY <2>1, <2>3 DEF Answering, Storing, Retelling
    <2> QED BY <2>2, <2>4, <2>5, <2>6, <2>7 DEF MessageStep
  <1> QED BY <1>1, Always, PTL DEF Spec, MailFinishedForGood
=============================================================================
