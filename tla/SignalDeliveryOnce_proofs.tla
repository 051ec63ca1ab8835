--------------------- MODULE SignalDeliveryOnce_proofs ---------------------
(***************************************************************************)
(* At most one worker on the wire and one message per signal, for any      *)
(* workers and dispatch loops: what it takes to break either is that the   *)
(* signal's own retry window passes while a worker still holds its row, or *)
(* that a dispatch loop repairs the row of a message it has sent.  Nothing *)
(* is assumed of the other signals.                                        *)
(***************************************************************************)
EXTENDS SignalDelivery_proofs

\* No worker outlives the retry window with a reservation of s.
InTime(s) == Holders(s) # {} => ~row[s].waited

\* No dispatch loop writes a failure over the result of a message it has sent.
Unrepaired(s) ==
    \A w \in Workers :
       worker[w].sig = s /\ worker[w].pc = "repairing" => worker[w].verdict # "sent"

\* A worker whose reservation has not been answered by a result yet.
LivePcs == {"reserved", "validating", "clear", "sending", "accepted", "marking", "repairing"}

Live(w) == worker[w].pc \in LivePcs

HasLive(w, s) == Live(w) /\ worker[w].sig = s

\* It has sent nothing, and knows it.
Unsent(w) == \/ worker[w].pc \in {"reserved", "validating", "clear", "sending"}
             \/ /\ worker[w].pc \in {"marking", "repairing"}
                /\ worker[w].verdict \notin {"sent", "ambiguous"}

\* One worker at a time has s, and its row can not be taken over.
HoldInv(s) ==
    /\ \A w, x \in Workers : HasLive(w, s) /\ HasLive(x, s) => w = x
    /\ \A w \in Workers : HasLive(w, s) => Exists(row[s]) /\ ~Retryable(row[s])

\* The row is past any retry before the API call, and nothing was accepted while
\* the worker knows of nothing.
OnceInv(s) ==
    /\ accepted[s] <= 1
    /\ NotRetryableOnceSent(s)
    /\ \A w \in Workers :
          worker[w].sig = s => /\ worker[w].pc = "sending" => row[s].state \in NoBlindRetry
                               /\ Unsent(w) => accepted[s] = 0
                               /\ worker[w].pc = "repairing" => worker[w].verdict \in {"sent", "skipped"}

-----------------------------------------------------------------------------
(* What a step may do to a row that a live worker holds. *)

\* A row that may not be reserved again stays so.
Keeps(s) ==
    /\ Exists(row[s]) => Exists(row'[s])
    /\ Exists(row[s]) /\ ~Retryable(row[s]) => ~Retryable(row'[s])
    /\ row[s].state \in NoBlindRetry => row'[s].state \in NoBlindRetry

\* It lets a retry in: no worker has it before and after the step, and no
\* message of its signal is out, but for the repair of a sent one.
LetGo(s) ==
    /\ \A x \in Workers : ~(HasLive(x, s) /\ HasLive(x, s)')
    /\ OnceInv(s) /\ Unrepaired(s) /\ accepted[s] > 0 => row'[s].state \in NoBlindRetry

LEMMA KeepRowsKeeps ==
    ASSUME KeepRows, NEW s \in Signals
    PROVE  Keeps(s)
BY DEF KeepRows, Keeps

LEMMA PersistedState ==
    ASSUME TypeOK, NEW w \in Workers, worker[w].sig \in Signals, NEW t, NEW e,
           PersistKnown(w, t, e)
    PROVE  row'[worker[w].sig].state = t
<1> DEFINE u == worker[w].sig
<1>1. row[u] \in Rows /\ PutRow(u, Advanced(row[u], t, e))
  BY DEF TypeOK, PersistKnown
<1>2. row'[u] = Advanced(row[u], t, e)
  BY <1>1, PutRowStep
<1> QED
  BY <1>1, <1>2 DEF Advanced, Rows

LEMMA PersistKeeps ==
    ASSUME TypeOK, NEW w \in Workers, worker[w].sig \in Signals,
           NEW t \in {"VALIDATING", "SENDING", "BLOCKED"}, NEW e \in BOOLEAN,
           e => t = "BLOCKED", PersistUnknown(w, t, e), NEW s \in Signals
    PROVE  Keeps(s)
<1> DEFINE u == worker[w].sig
<1>1. CASE KeepRows
  BY <1>1, KeepRowsKeeps
<1>2. CASE PersistKnown(w, t, e)
  <2>1. /\ TransitionAllowed(row[u].state, t, FALSE)
        /\ PutRow(u, Advanced(row[u], t, e))
    BY <1>2 DEF PersistKnown
  <2>2. row[u] \in Rows
    BY DEF TypeOK
  <2>3. row'[s] = IF s = u THEN Advanced(row[u], t, e) ELSE row[s]
    BY <2>1, PutRowStep
  <2>4. CASE s # u
    BY <2>3, <2>4 DEF Keeps
  <2>5. CASE s = u
    <3>1. /\ row'[s].state = t /\ row'[s].sentOk = row[s].sentOk
          /\ row'[s].waited = FALSE /\ row'[s].error = (row[s].error \/ e)
      BY <2>2, <2>3, <2>5 DEF Advanced, Rows
    <3>2. row[s].state \in NoBlindRetry => t \in {"SENDING", "BLOCKED"}
      BY <2>1, <2>5 DEF TransitionAllowed, NoBlindRetry, DeliveryStates, Success, Ranked, Rank
    <3>3. {"SENDING", "BLOCKED"} \subseteq NoBlindRetry /\ t # NoState
      BY DEF NoBlindRetry, DeliveryStates, NoState
    <3>4. row[s].state \notin Success
      BY <2>1, <2>5 DEF TransitionAllowed, Success
    <3>5. CASE t = "VALIDATING"
      <4>1. ~e
        BY <3>5
      <4>2. row[s].state \notin NoBlindRetry
        BY <3>2, <3>5
      <4>3. row'[s].error = row[s].error
        BY <2>2, <2>5, <3>1, <4>1 DEF Rows
      <4> QED
        BY <3>1, <3>3, <4>2, <4>3 DEF Keeps, Retryable, Exists
    <3>6. CASE t # "VALIDATING"
      BY <3>1, <3>3, <3>6 DEF Keeps, Retryable, Exists
    <3> QED
      BY <3>5, <3>6
  <2> QED
    BY <2>4, <2>5
<1> QED
  BY <1>1, <1>2 DEF PersistUnknown

\* A result that does not invite a retry.
LEMMA SettlingKeeps ==
    ASSUME TypeOK, NEW u \in Signals, NEW m \in Nat,
           NEW q \in DeliveryStates \cup {NoState}, NEW e \in Errors,
           Canonical(q, m # 0, e) \in NoBlindRetry,
           PutRow(u, Recorded(row[u], m, q, e)) \/ KeepRows, NEW s \in Signals
    PROVE  Keeps(s)
<1> DEFINE t == Canonical(q, m # 0, e)
<1>1. CASE KeepRows
  BY <1>1, KeepRowsKeeps
<1>2. CASE PutRow(u, Recorded(row[u], m, q, e))
  <2>2. row[u] \in Rows /\ t # NoState
    BY DEF TypeOK, NoBlindRetry, NoState, DeliveryStates
  <2>3. row'[s] = IF s = u THEN Recorded(row[u], m, q, e) ELSE row[s]
    BY <1>2, PutRowStep
  <2> HIDE DEF t
  <2>4. \/ row'[s] = row[s]
        \/ s = u /\ row'[s] = [row[s] EXCEPT !.state = t, !.sentOk = TRUE, !.msg = m,
                      !.error = FALSE, !.at = clock + 1, !.waited = FALSE, !.quiet = FALSE]
        \/ s = u /\ row'[s] = [row[s] EXCEPT !.state = t, !.waited = FALSE,
                                             !.error = e # "none"]
    BY <2>3 DEF Recorded, t
  <2>5. row'[s] = row[s] \/ row'[s].state = t
    BY <2>2, <2>4 DEF Rows
  <2> QED
    BY <2>2, <2>5 DEF Keeps, Retryable, Exists, t
<1> QED
  BY <1>1, <1>2

-----------------------------------------------------------------------------
(* Reservations, and results that invite a retry. *)

\* Nobody holds a row that may be reserved, and its message is not out.
LEMMA ReservableIsFree ==
    ASSUME NEW s \in Signals, HoldInv(s), Exists(row[s]) => Retryable(row[s])
    PROVE  /\ \A x \in Workers : ~HasLive(x, s)
           /\ OnceInv(s) => ~(accepted[s] > 0)
<1>1. row[s].state \notin NoBlindRetry
  BY DEF Retryable, Exists, NoBlindRetry, DeliveryStates, NoState
<1> QED
  BY <1>1 DEF HoldInv, OnceInv, NotRetryableOnceSent

LEMMA ReservedHeld ==
    ASSUME NEW r \in Rows, clock \in Nat
    PROVE  Exists(Reserved(r)) /\ ~Retryable(Reserved(r))
<1>1. CASE Exists(r)
  <2>1. /\ Reserved(r).state = "RESERVED"
        /\ Reserved(r).error = FALSE /\ Reserved(r).waited = FALSE
    BY <1>1 DEF Reserved, Rows
  <2> QED
    BY <2>1 DEF Exists, Retryable, NoState
<1>2. CASE ~Exists(r)
  <2>1. Reserved(r) = [NoRow EXCEPT !.state = "RESERVED", !.at = clock + 1]
    BY <1>2 DEF Reserved
  <2>2. /\ Reserved(r).state = "RESERVED"
        /\ Reserved(r).error = FALSE /\ Reserved(r).waited = FALSE
    BY <2>1 DEF NoRow
  <2> QED
    BY <2>2 DEF Exists, Retryable, NoState
<1> QED
  BY <1>1, <1>2

\* The verdicts of a marking worker, by what its result does to the row.
LEMMA VerdictSettles ==
    ASSUME TypeOK, GenuineInv, NEW w \in Workers, worker[w].pc = "marking",
           worker[w].verdict \in {"sent", "skipped", "ambiguous"}
    PROVE  Canonical(RawState(worker[w].verdict), worker[w].msg # 0,
                     ErrorOf(worker[w].verdict)) \in NoBlindRetry
<1> DEFINE v == worker[w].verdict
<1>1. CASE v = "sent"
  BY <1>1 DEF RawState, ErrorOf, Alias, Canonical, NoBlindRetry, DeliveryStates, NoState
<1>2. CASE v = "skipped"
  <2>1. worker[w].msg = 0
    BY <1>2 DEF GenuineInv, HeldByWorker
  <2> QED
    BY <1>2, <2>1 DEF RawState, ErrorOf, Alias, Canonical, NoBlindRetry, DeliveryStates,
       NoState
<1>3. CASE v = "ambiguous"
  BY <1>3 DEF RawState, ErrorOf, Canonical, NoBlindRetry, DeliveryStates
<1> QED
  BY <1>1, <1>2, <1>3

\* Every step keeps a held row, or nobody who goes on holds it.
LEMMA RowKept ==
    ASSUME TypeOK, GenuineInv, NEW s \in Signals, HoldInv(s), InTime(s)', [Next]_vars
    PROVE  Keeps(s) \/ LetGo(s)
<1> DEFINE Goal == Keeps(s) \/ LetGo(s)
<1>0. row \in [Signals -> Rows] /\ clock \in Nat /\ accepted \in [Signals -> Nat]
      /\ worker \in [Workers -> WorkerStates] /\ "none" \in Errors /\ "plain" \in Errors
  BY ArgumentTypes DEF TypeOK
<1>1. ASSUME NEW w \in Workers, WorkerStep(w), worker[w].pc # "idle"
      PROVE  Goal
  <2> DEFINE u == worker[w].sig
  <2>0. u \in Signals /\ worker[w].msg \in Nat /\ worker[w].verdict \in Verdicts
    BY <1>1, BusyWorker, TypeParts
  <2>1. CASE ReserveGranted(w) \/ BlockUnformattable(w)
    <3>1. Exists(row[u]) => Retryable(row[u])
      BY <2>1 DEF ReserveGranted, BlockUnformattable, Grantable
    <3>2. s = u => LetGo(s)
      BY <3>1, ReservableIsFree DEF LetGo
    <3>3. \E r : PutRow(u, r)
      BY <2>1 DEF ReserveGranted, BlockUnformattable
    <3>4. s # u => Keeps(s)
      BY <2>0, <3>3, PutRowStep DEF Keeps
    <3> QED
      BY <3>2, <3>4
  <2>2. CASE BeginValidation(w)
    <3>1. PersistUnknown(w, "VALIDATING", FALSE)
      BY <2>2 DEF BeginValidation, PersistUnknown
    <3> QED
      BY <2>0, <3>1, PersistKeeps
  <2>3. CASE FailChecks(w)
    <3>1. PersistUnknown(w, "BLOCKED", TRUE)
      BY <2>3 DEF FailChecks
    <3> QED
      BY <2>0, <3>1, PersistKeeps
  <2>4. CASE BeginSending(w)
    <3>1. PersistUnknown(w, "SENDING", FALSE)
      BY <2>4 DEF BeginSending, PersistUnknown
    <3> QED
      BY <2>0, <3>1, PersistKeeps
  <2>5. CASE RecordResult(w)
    <3>1. /\ worker[w].pc = "marking"
          /\ \/ PutRow(u, Recorded(row[u], worker[w].msg, RawState(worker[w].verdict),
                                   ErrorOf(worker[w].verdict)))
             \/ KeepRows
      BY <2>5 DEF RecordResult
    <3>2. CASE worker[w].verdict \in {"sent", "skipped", "ambiguous"}
      BY <2>0, <3>1, <3>2, VerdictSettles, SettlingKeeps, ArgumentTypes
    <3>3. CASE worker[w].verdict \notin {"sent", "skipped", "ambiguous"}
      <4>1. CASE s = u
        <5>1. HasLive(w, s) /\ Unsent(w)
          BY <3>1, <3>3, <4>1 DEF Unsent, HasLive, Live, LivePcs
        <5>2. Goto(w, "suppressing") \/ Rest(w)
          BY <2>5, <3>3 DEF RecordResult, AfterUnproven
        <5>3. ~HasLive(w, s)'
          BY <1>0, <3>1, <5>2 DEF Goto, Rest, IdleWorker, WorkerStates, HasLive, Live, LivePcs
        <5>4. OnceInv(s) => accepted[s] = 0
          BY <4>1, <5>1 DEF OnceInv
        <5> QED
          BY <1>0, <5>1, <5>3, <5>4 DEF LetGo, HoldInv
      <4>2. CASE s # u
        BY <2>0, <3>1, <4>2, PutRowStep DEF KeepRows, Keeps
      <4> QED
        BY <4>1, <4>2
    <3> QED
      BY <3>2, <3>3
  <2>6. CASE SuppressUnreachable(w)
    <3>1. PutRow(u, Recorded(row[u], 0, "BLOCKED", "plain")) \/ KeepRows
      BY <2>6 DEF SuppressUnreachable, Alias
    <3>2. /\ Canonical("BLOCKED", 0 # 0, "plain") \in NoBlindRetry
          /\ "BLOCKED" \in DeliveryStates
      BY DEF Canonical, NoBlindRetry, DeliveryStates, NoState
    <3> QED
      BY <1>0, <2>0, <3>1, <3>2, SettlingKeeps
  <2>7. CASE RepairByHand(w)
    <3>1. /\ worker[w].pc = "repairing" /\ Rest(w)
          /\ KeepRows \/ \E r : PutRow(u, r)
      BY <2>7 DEF RepairByHand
    <3>2. CASE s = u
      <4>1. HasLive(w, s) /\ ~HasLive(w, s)'
        BY <1>0, <3>1, <3>2 DEF HasLive, Live, LivePcs, Rest, IdleWorker
      <4>2. OnceInv(s) /\ Unrepaired(s) => accepted[s] = 0
        <5>1. OnceInv(s) /\ Unrepaired(s) => worker[w].verdict = "skipped"
          BY <3>1, <3>2 DEF OnceInv, Unrepaired
        <5> QED
          BY <3>1, <3>2, <5>1 DEF OnceInv, Unsent
      <4> QED
        BY <1>0, <4>1, <4>2 DEF LetGo, HoldInv
    <3>3. CASE s # u
      BY <2>0, <3>1, <3>3, PutRowStep DEF KeepRows, Keeps
    <3> QED
      BY <3>2, <3>3
  <2>8. CASE KeepRows
    BY <2>8, KeepRowsKeeps
  <2> QED
    BY <1>1, <2>1, <2>2, <2>3, <2>4, <2>5, <2>6, <2>7, <2>8
    DEF WorkerStep, CheckDailyCap, ReserveRefused, PassChecks, SendAcknowledged,
        SendTimesOut, SendRefused, StashReceipt, AcknowledgeReceipt, Crash
<1>2. ASSUME NEW w \in Workers, WorkerStep(w), worker[w].pc = "idle"
      PROVE  Goal
  <2>1. KeepRows
    BY <1>2 DEF WorkerStep, CheckDailyCap, ReserveGranted, BlockUnformattable,
       ReserveRefused, BeginValidation, PassChecks, FailChecks, BeginSending,
       SendAcknowledged, SendTimesOut, SendRefused, StashReceipt, RecordResult,
       AcknowledgeReceipt, RepairByHand, SuppressUnreachable, Crash
  <2> QED
    BY <2>1, KeepRowsKeeps
<1>3. CASE ReconcilerStep
  <2>1. CASE ReconcileWrite /\ recon.pc = "persisting"
    <3>1. recon.sig \in Signals /\ recon.msg \in Nat
      BY <2>1 DEF TypeOK, ReconStates
    <3>2. recon.msg # 0
      BY <2>1, <3>1 DEF GenuineInv, HeldByReconciler, TypeOK
    <3>3. PutRow(recon.sig, Recorded(row[recon.sig], recon.msg, "RECONCILED", "none"))
      BY <2>1 DEF ReconcileWrite, Alias
    <3>4. /\ Canonical("RECONCILED", recon.msg # 0, "none") \in NoBlindRetry
          /\ "RECONCILED" \in DeliveryStates
      BY <3>2 DEF Canonical, NoBlindRetry, DeliveryStates
    <3> QED
      BY <1>0, <3>1, <3>3, <3>4, SettlingKeeps
  <2>2. CASE KeepRows
    BY <2>2, KeepRowsKeeps
  <2> QED
    BY <1>3, <2>1, <2>2 DEF ReconcilerStep, ReconcileRead, ReconcileCommit, ReconcileFails,
       ReconcileAck, ReconcileAckFails
<1>4. CASE EnvironmentStep
  <2> PICK u \in Signals : \/ RetryWindowElapses(u) \/ CooldownEnds(u)
                       \/ OutcomeResolves(u) \/ SignalRetires(u)
    BY <1>4 DEF EnvironmentStep
  <2>1. CASE RetryWindowElapses(u)
    <3>1. row' = [row EXCEPT ![u].waited = TRUE] /\ UNCHANGED <<worker, accepted>>
      BY <2>1 DEF RetryWindowElapses
    <3>2. row'[s].state = row[s].state /\ (s # u => row'[s] = row[s])
      BY <1>0, <3>1 DEF Rows
    <3>3. CASE s = u
      <4>1. row'[s].waited
        BY <1>0, <3>1, <3>3 DEF Rows
      <4>2. Holders(s) = {}
        BY <3>1, <4>1 DEF InTime, Holders
      <4>3. \A x \in Workers : ~HasLive(x, s)
        BY <4>2 DEF Holders, HasLive, Live, LivePcs
      <4> QED
        BY <3>2, <4>3 DEF LetGo, OnceInv, NotRetryableOnceSent
    <3>4. CASE s # u
      BY <3>2, <3>4 DEF Keeps
    <3> QED
      BY <3>3, <3>4
  <2>2. CASE CooldownEnds(u)
    <3>1. row' = [row EXCEPT ![u].quiet = TRUE]
      BY <2>2 DEF CooldownEnds
    <3>2. /\ row'[s].state = row[s].state /\ row'[s].sentOk = row[s].sentOk
          /\ row'[s].error = row[s].error /\ row'[s].waited = row[s].waited
      BY <1>0, <3>1 DEF Rows
    <3> QED
      BY <3>2 DEF Keeps, Retryable, Exists
  <2>3. CASE OutcomeResolves(u) \/ SignalRetires(u)
    BY <2>3 DEF OutcomeResolves, SignalRetires, Keeps
  <2> QED
    BY <2>1, <2>2, <2>3
<1>5. CASE UNCHANGED vars
  BY <1>5 DEF vars, Keeps
<1> QED
  BY <1>1, <1>2, <1>3, <1>4, <1>5 DEF Next

-----------------------------------------------------------------------------
(* Messages, and the workers. *)

\* Telegram accepts a message only of a worker at the API call, and no row
\* changes in that step.
LEMMA AcceptingStep ==
    ASSUME TypeOK, [Next]_vars
    PROVE  \/ UNCHANGED accepted
           \/ \E w \in Workers : /\ worker[w].pc = "sending" /\ worker'[w] # worker[w]
                                 /\ TelegramAccepts(worker[w].sig)
                                 /\ UNCHANGED row
<1>1. ASSUME NEW w \in Workers, SendAcknowledged(w) \/ SendTimesOut(w), accepted' # accepted
      PROVE  /\ worker[w].pc = "sending" /\ worker'[w] # worker[w]
             /\ TelegramAccepts(worker[w].sig)
             /\ UNCHANGED row
  <2>1. worker \in [Workers -> WorkerStates]
    BY DEF TypeOK
  <2>2. worker'[w].pc \in {"accepted", "marking"}
    BY <1>1, <2>1 DEF SendAcknowledged, SendTimesOut, Conclude, WorkerStates
  <2> QED
    BY <1>1, <2>2 DEF SendAcknowledged, SendTimesOut, KeepRows
<1>2. ASSUME NEW w \in Workers, WorkerStep(w), ~SendAcknowledged(w), ~SendTimesOut(w)
      PROVE  UNCHANGED accepted
  BY <1>2 DEF WorkerStep, CheckDailyCap, ReserveGranted, BlockUnformattable,
     ReserveRefused, BeginValidation, PassChecks, FailChecks, BeginSending,
     SendRefused, StashReceipt, RecordResult, AcknowledgeReceipt, RepairByHand,
     SuppressUnreachable, Crash
<1>3. ReconcilerStep \/ EnvironmentStep \/ UNCHANGED vars => UNCHANGED accepted
  BY DEF ReconcilerStep, ReconcileRead, ReconcileCommit, ReconcileFails, ReconcileAck,
     ReconcileAckFails, EnvironmentStep, RetryWindowElapses, CooldownEnds, OutcomeResolves,
     SignalRetires, vars
<1> QED
  BY <1>1, <1>2, <1>3 DEF Next

\* A message of s is accepted of a worker at the API call for s.
LEMMA AcceptedByHolder ==
    ASSUME TypeOK, [Next]_vars, NEW s \in Signals, accepted'[s] # accepted[s]
    PROVE  \E w \in Workers : /\ worker[w].pc = "sending" /\ worker[w].sig = s
                              /\ worker'[w] # worker[w]
                              /\ accepted'[s] = accepted[s] + 1 /\ UNCHANGED row
<1>1. accepted \in [Signals -> Nat]
  BY DEF TypeOK
<1>2. PICK w \in Workers : /\ worker[w].pc = "sending" /\ worker'[w] # worker[w]
                           /\ TelegramAccepts(worker[w].sig) /\ UNCHANGED row
  BY AcceptingStep
<1>3. worker[w].sig \in Signals
  BY <1>2 DEF TypeOK
<1>4. worker[w].sig = s /\ accepted'[s] = accepted[s] + 1
  BY <1>1, <1>2, <1>3 DEF TelegramAccepts
<1> QED
  BY <1>2, <1>4

\* A live worker that stays live, with its signal, or one that just reserved.
LEMMA WhoIsLive ==
    ASSUME TypeOK, NEW s \in Signals, [Next]_vars, NEW w \in Workers, HasLive(w, s)'
    PROVE  \/ HasLive(w, s)
           \/ worker'[w] # worker[w] /\ ReserveGranted(w) /\ worker[w].sig = s
<1>0. worker \in [Workers -> WorkerStates]
  BY DEF TypeOK
<1>1. CASE worker'[w] = worker[w]
  BY <1>1 DEF HasLive, Live
<1>2. CASE worker'[w] # worker[w]
  <2>1. WorkerStep(w)
    BY <1>2, OneActor
  <2>2. ASSUME NEW t \in Signals, CheckDailyCap(w, t)
        PROVE  FALSE
    <3>1. worker'[w].pc = "admitted"
      BY <1>0, <2>2 DEF CheckDailyCap, IdleWorker
    <3> QED
      BY <3>1 DEF HasLive, Live, LivePcs
  <2>3. CASE Rest(w)
    <3>1. worker'[w].pc = "idle"
      BY <1>0, <2>3 DEF Rest, IdleWorker
    <3> QED
      BY <3>1 DEF HasLive, Live, LivePcs
  <2>4. CASE Goto(w, "acking") \/ Goto(w, "suppressing")
    <3>1. worker'[w].pc \in {"acking", "suppressing"}
      BY <1>0, <2>4 DEF Goto, WorkerStates
    <3> QED
      BY <3>1 DEF HasLive, Live, LivePcs
  <2>5. CASE ReserveGranted(w)
    <3>1. worker'[w].sig = worker[w].sig
      BY <1>0, <2>5 DEF ReserveGranted, Goto, WorkerStates
    <3> QED
      BY <1>2, <2>5, <3>1 DEF HasLive
  <2>6. CASE \/ BeginValidation(w) \/ PassChecks(w) \/ FailChecks(w) \/ BeginSending(w)
             \/ SendAcknowledged(w) \/ SendTimesOut(w) \/ SendRefused(w) \/ StashReceipt(w)
    <3>1. /\ Live(w)
          /\ \/ \E p : Goto(w, p)
             \/ \E v : Conclude(w, v)
             \/ \E n : worker' = [worker EXCEPT ![w].pc = "accepted", ![w].msg = n]
      BY <2>6 DEF BeginValidation, PassChecks, FailChecks, BeginSending, SendAcknowledged,
         SendTimesOut, SendRefused, StashReceipt, Live, LivePcs
    <3>2. worker'[w].sig = worker[w].sig
      BY <1>0, <3>1 DEF Goto, Conclude, WorkerStates
    <3> QED
      BY <3>1, <3>2 DEF HasLive
  <2>7. CASE RecordResult(w) /\ Goto(w, "repairing")
    <3>1. Live(w) /\ worker'[w].sig = worker[w].sig
      BY <1>0, <2>7 DEF RecordResult, Goto, WorkerStates, Live, LivePcs
    <3> QED
      BY <3>1 DEF HasLive
  <2> QED
    BY <2>1, <2>2, <2>3, <2>4, <2>5, <2>6, <2>7
    DEF WorkerStep, BlockUnformattable, ReserveRefused, RecordResult, AfterUnproven,
        AcknowledgeReceipt, RepairByHand, SuppressUnreachable, Crash
<1> QED
  BY <1>1, <1>2

\* What a grant does to the row.
LEMMA GrantReserves ==
    ASSUME TypeOK, NEW w \in Workers, ReserveGranted(w)
    PROVE  LET u == worker[w].sig IN
           /\ u \in Signals
           /\ Exists(row[u]) => Retryable(row[u])
           /\ Exists(row'[u]) /\ ~Retryable(row'[u])
<1> DEFINE u == worker[w].sig
<1>1. /\ u \in Signals /\ row[u] \in Rows /\ clock \in Nat
      /\ Exists(row[u]) => Retryable(row[u])
      /\ PutRow(u, Reserved(row[u]))
  BY DEF ReserveGranted, Grantable, TypeOK
<1>2. row'[u] = Reserved(row[u])
  BY <1>1, PutRowStep
<1> QED
  BY <1>1, <1>2, ReservedHeld

LEMMA StepHold ==
    ASSUME TypeOK, GenuineInv, NEW s \in Signals, HoldInv(s), InTime(s)', [Next]_vars
    PROVE  HoldInv(s)'
<1>1. ASSUME NEW w \in Workers, HasLive(w, s)', ~HasLive(w, s)
      PROVE  /\ WorkerStep(w) /\ \A x \in Workers : ~HasLive(x, s)
             /\ Exists(row'[s]) /\ ~Retryable(row'[s])
  <2>1. ReserveGranted(w) /\ worker[w].sig = s
    BY <1>1, WhoIsLive
  <2> QED
    BY <2>1, GrantReserves, ReservableIsFree DEF WorkerStep
<1>2. ASSUME NEW w \in Workers, HasLive(w, s)', HasLive(w, s)
      PROVE  Exists(row'[s]) /\ ~Retryable(row'[s])
  <2>1. Exists(row[s]) /\ ~Retryable(row[s])
    BY <1>2 DEF HoldInv
  <2>2. CASE Keeps(s)
    BY <2>1, <2>2 DEF Keeps
  <2>3. ~LetGo(s)
    BY <1>2 DEF LetGo
  <2> QED
    BY <2>2, <2>3, RowKept
<1>3. ASSUME NEW w \in Workers, NEW x \in Workers, HasLive(w, s)', HasLive(x, s)'
      PROVE  w = x
  <2>1. CASE HasLive(w, s) /\ HasLive(x, s)
    BY <2>1 DEF HoldInv
  <2>2. CASE ~(HasLive(w, s) /\ HasLive(x, s))
    <3>1. ~HasLive(w, s) /\ ~HasLive(x, s)
      BY <1>1, <1>3, <2>2
    <3>2. worker'[w] # worker[w] /\ worker'[x] # worker[x]
      BY <1>3, <3>1 DEF HasLive, Live
    <3> QED
      BY <3>2, OneActor
  <2> QED
    BY <2>1, <2>2
<1> QED
  BY <1>1, <1>2, <1>3 DEF HoldInv

\* A live worker that goes on.
LEMMA OngoingOnce ==
    ASSUME TypeOK, NEW s \in Signals, OnceInv(s), NEW w \in Workers, HasLive(w, s),
           WorkerStep(w)
    PROVE  worker'[w].sig = s =>
              /\ worker'[w].pc = "sending" => row'[s].state \in NoBlindRetry
              /\ Unsent(w)' => accepted'[s] = 0
              /\ worker'[w].pc = "repairing" => worker'[w].verdict \in {"sent", "skipped"}
<1> DEFINE Goal == /\ worker'[w].pc = "sending" => row'[s].state \in NoBlindRetry
                   /\ Unsent(w)' => accepted'[s] = 0
                   /\ worker'[w].pc = "repairing" => worker'[w].verdict \in {"sent", "skipped"}
<1>0. /\ worker \in [Workers -> WorkerStates] /\ worker[w].sig = s /\ worker[w].pc \in LivePcs
      /\ Unsent(w) => accepted[s] = 0
  BY DEF TypeOK, HasLive, Live, OnceInv
<1>1. CASE \/ Rest(w) \/ Goto(w, "acking") \/ Goto(w, "suppressing")
           \/ Conclude(w, "sent") \/ Conclude(w, "ambiguous")
           \/ \E n : worker' = [worker EXCEPT ![w].pc = "accepted", ![w].msg = n]
  <2>1. \/ worker'[w].pc \in {"idle", "acking", "suppressing", "accepted"}
        \/ worker'[w].pc = "marking" /\ worker'[w].verdict \in {"sent", "ambiguous"}
    BY <1>0, <1>1 DEF Rest, IdleWorker, Goto, Conclude, WorkerStates
  <2> QED
    BY <2>1 DEF Unsent
<1>2. CASE BeginValidation(w) \/ PassChecks(w) \/ FailChecks(w)
  <2>1. /\ worker[w].pc \in {"reserved", "validating"} /\ UNCHANGED accepted
        /\ Goto(w, "validating") \/ Goto(w, "clear") \/ Conclude(w, "skipped")
    BY <1>2 DEF BeginValidation, PassChecks, FailChecks
  <2>2. worker'[w].pc \in {"validating", "clear", "marking"}
    BY <1>0, <2>1 DEF Goto, Conclude, WorkerStates
  <2> QED
    BY <1>0, <2>1, <2>2 DEF Unsent
<1>3. CASE BeginSending(w)
  <2>1. /\ worker[w].pc = "clear" /\ UNCHANGED accepted
        /\ \/ Goto(w, "sending") /\ PersistKnown(w, "SENDING", FALSE)
           \/ Conclude(w, "skipped")
    BY <1>3 DEF BeginSending
  <2>2. /\ worker'[w].pc \in {"sending", "marking"}
        /\ worker'[w].pc = "sending" => PersistKnown(w, "SENDING", FALSE)
    BY <1>0, <2>1 DEF Goto, Conclude, WorkerStates
  <2>3. PersistKnown(w, "SENDING", FALSE) => row'[s].state = "SENDING"
    BY <1>0, PersistedState
  <2> QED
    BY <1>0, <2>1, <2>2, <2>3 DEF Unsent, NoBlindRetry, DeliveryStates
<1>4. CASE SendRefused(w)
  <2>1. /\ worker[w].pc = "sending" /\ UNCHANGED accepted
        /\ \E v \in {"failed", "unreachable"} : Conclude(w, v)
    BY <1>4 DEF SendRefused
  <2>2. worker'[w].pc = "marking"
    BY <1>0, <2>1 DEF Conclude, WorkerStates
  <2> QED
    BY <1>0, <2>1, <2>2 DEF Unsent
<1>5. CASE RecordResult(w) /\ Goto(w, "repairing") /\ worker[w].verdict \in {"sent", "skipped"}
  <2>1. /\ worker[w].pc = "marking" /\ UNCHANGED accepted
        /\ worker'[w].pc = "repairing" /\ worker'[w].verdict = worker[w].verdict
    BY <1>0, <1>5 DEF RecordResult, Goto, WorkerStates
  <2> QED
    BY <1>0, <1>5, <2>1 DEF Unsent
<1>6. ~\E t \in Signals : CheckDailyCap(w, t)
  BY <1>0 DEF CheckDailyCap, LivePcs
<1>7. ~ReserveGranted(w)
  BY <1>0 DEF ReserveGranted, LivePcs
<1> QED
  BY <1>1, <1>2, <1>3, <1>4, <1>5, <1>6, <1>7
  DEF WorkerStep, BlockUnformattable, ReserveRefused, SendAcknowledged, SendTimesOut,
      StashReceipt, RecordResult, AfterUnproven, AcknowledgeReceipt, RepairByHand,
      SuppressUnreachable, Crash

LEMMA StepOnce ==
    ASSUME TypeOK, GenuineInv, NEW s \in Signals, HoldInv(s), OnceInv(s), InTime(s)',
           Unrepaired(s), [Next]_vars
    PROVE  OnceInv(s)'
<1>0. /\ worker \in [Workers -> WorkerStates] /\ accepted \in [Signals -> Nat]
      /\ \A w \in Workers : worker[w].pc # "idle" => worker[w].sig \in Signals
  BY DEF TypeOK
\* Once it is sent.
<1>1. ASSUME accepted'[s] # accepted[s]
      PROVE  /\ accepted[s] = 0 /\ accepted'[s] = 1 /\ row'[s].state \in NoBlindRetry
             /\ \A x \in Workers : HasLive(x, s) => worker'[x] # worker[x]
  <2>1. PICK w \in Workers : /\ worker[w].pc = "sending" /\ worker[w].sig = s
                             /\ worker'[w] # worker[w]
                             /\ accepted'[s] = accepted[s] + 1 /\ UNCHANGED row
    BY <1>1, AcceptedByHolder
  <2>2. HasLive(w, s) /\ accepted[s] = 0 /\ row[s].state \in NoBlindRetry
    BY <2>1 DEF HasLive, Live, LivePcs, OnceInv, Unsent
  <2> QED
    BY <2>1, <2>2 DEF HoldInv
<1>2. accepted'[s] <= 1
  BY <1>1 DEF OnceInv
<1>3. NotRetryableOnceSent(s)'
  <2>1. CASE accepted'[s] # accepted[s]
    BY <1>1, <2>1 DEF NotRetryableOnceSent
  <2>2. CASE accepted'[s] = accepted[s]
    BY <2>2, RowKept DEF OnceInv, NotRetryableOnceSent, Keeps, LetGo
  <2> QED
    BY <2>1, <2>2
\* The workers.
<1> DEFINE Good(w) == worker[w].sig = s =>
              /\ worker[w].pc = "sending" => row[s].state \in NoBlindRetry
              /\ Unsent(w) => accepted[s] = 0
              /\ worker[w].pc = "repairing" => worker[w].verdict \in {"sent", "skipped"}
<1>4. ASSUME NEW w \in Workers, worker'[w] = worker[w]
      PROVE  Good(w)'
  <2>1. CASE HasLive(w, s)
    <3>1. HasLive(w, s)' /\ accepted'[s] = accepted[s]
      BY <1>1, <1>4, <2>1 DEF HasLive, Live
    <3>2. Keeps(s)
      BY <2>1, <3>1, RowKept DEF LetGo
    <3> QED
      BY <1>4, <3>1, <3>2 DEF OnceInv, Unsent, Keeps
  <2>2. CASE ~HasLive(w, s)
    BY <1>4, <2>2 DEF HasLive, Live, LivePcs, Unsent
  <2> QED
    BY <2>1, <2>2
<1>5. ASSUME NEW w \in Workers, worker'[w] # worker[w]
      PROVE  Good(w)'
  <2>0. WorkerStep(w)
    BY <1>5, OneActor
  <2>1. CASE ~HasLive(w, s)'
    BY <2>1 DEF HasLive, Live, LivePcs, Unsent
  <2>2. CASE ReserveGranted(w) /\ worker[w].sig = s
    <3>1. ~(accepted[s] > 0) /\ UNCHANGED accepted
      BY <2>2, GrantReserves, ReservableIsFree DEF ReserveGranted
    <3>2. worker'[w].pc = "reserved"
      BY <1>0, <2>2 DEF ReserveGranted, Goto, WorkerStates
    <3> QED
      BY <1>0, <3>1, <3>2 DEF Unsent
  <2>3. CASE HasLive(w, s) /\ ~ReserveGranted(w)
    BY <1>0, <2>0, <2>3, OngoingOnce
  <2> QED
    BY <1>5, <2>1, <2>2, <2>3, WhoIsLive DEF ReserveGranted, HasLive, Live, LivePcs
<1> QED
  BY <1>2, <1>3, <1>4, <1>5 DEF OnceInv

LEMMA InitOnce == ASSUME NEW s \in Signals, Init PROVE HoldInv(s) /\ OnceInv(s)
BY DEF Init, HoldInv, OnceInv, NotRetryableOnceSent, HasLive, Live, LivePcs, Unsent, IdleWorker

-----------------------------------------------------------------------------
(* The theorems. *)

LEMMA HoldHolds ==
    ASSUME NEW s \in Signals
    PROVE  Spec /\ []InTime(s) => [](TypeOK /\ GenuineInv /\ HoldInv(s))
<1>1. Init => TypeOK /\ GenuineInv /\ HoldInv(s)
  BY InitType, InitGenuine, InitOnce
<1>2. TypeOK /\ GenuineInv /\ HoldInv(s) /\ InTime(s)' /\ [Next]_vars
         => (TypeOK /\ GenuineInv /\ HoldInv(s))'
  BY StepType, StepGenuine, StepHold
<1> QED
  BY <1>1, <1>2, PTL DEF Spec

LEMMA OnceHolds ==
    ASSUME NEW s \in Signals
    PROVE  Spec /\ [](InTime(s) /\ Unrepaired(s))
              => [](TypeOK /\ GenuineInv /\ HoldInv(s) /\ OnceInv(s))
<1>1. Init => TypeOK /\ GenuineInv /\ HoldInv(s) /\ OnceInv(s)
  BY InitType, InitGenuine, InitOnce
<1>2. TypeOK /\ GenuineInv /\ HoldInv(s) /\ OnceInv(s)
         /\ Unrepaired(s) /\ InTime(s)' /\ [Next]_vars
         => (TypeOK /\ GenuineInv /\ HoldInv(s) /\ OnceInv(s))'
  <2> SUFFICES ASSUME TypeOK, GenuineInv, HoldInv(s), OnceInv(s), Unrepaired(s),
                      InTime(s)', [Next]_vars
               PROVE  (TypeOK /\ GenuineInv /\ HoldInv(s) /\ OnceInv(s))'
    OBVIOUS
  <2>1. (TypeOK /\ GenuineInv)'
    BY StepType, StepGenuine
  <2>2. HoldInv(s)'
    BY StepHold
  <2>3. OnceInv(s)'
    BY StepOnce
  <2> QED
    BY <2>1, <2>2, <2>3
<1> QED
  BY <1>1, <1>2, PTL DEF Spec

\* Two workers are never on the wire for the same signal as long as no worker
\* outlives the retry window with that signal's reservation, whatever the
\* dispatch loops repair and whatever becomes of the other signals.
\* (record_signal_delivery)
THEOREM OneSender ==
    ASSUME NEW s \in Signals
    PROVE  Spec /\ []InTime(s) => []AloneOnTheWire(s)
<1>1. HoldInv(s) => AloneOnTheWire(s)
  BY DEF HoldInv, AloneOnTheWire, OnTheWire, HasLive, Live, LivePcs
<1> QED
  BY <1>1, HoldHolds, PTL

\* Once Telegram may show a message, its row can not be reserved again, unless
\* a worker outlives the retry window with it or a dispatch loop sets about
\* repairing the row of the message it has just sent.  (NO_BLIND_RETRY_STATES,
\* and the failure write of run_dispatch_cycle, which is that repair)
THEOREM NeverRetriedOnceSent ==
    ASSUME NEW s \in Signals
    PROVE  Spec /\ [](InTime(s) /\ Unrepaired(s)) => []NotRetryableOnceSent(s)
<1>1. OnceInv(s) => NotRetryableOnceSent(s)
  BY DEF OnceInv
<1> QED
  BY <1>1, OnceHolds, PTL

\* A step changes one row at most.
LEMMA OneRowChanges ==
    ASSUME TypeOK, [Next]_vars
    PROVE  UNCHANGED row \/ \E s \in Signals : \E r : row' = [row EXCEPT ![s] = r]
<1>1. ASSUME NEW w \in Workers, WorkerStep(w)
      PROVE  UNCHANGED row \/ \E r : row' = [row EXCEPT ![worker[w].sig] = r]
  BY <1>1 DEF WorkerStep, CheckDailyCap, ReserveGranted, BlockUnformattable,
     ReserveRefused, BeginValidation, PassChecks, FailChecks, BeginSending,
     SendAcknowledged, SendTimesOut, SendRefused, StashReceipt, RecordResult,
     AcknowledgeReceipt, RepairByHand, SuppressUnreachable, Crash, PersistUnknown,
     PersistKnown, KeepRows, PutRow
<1>2. ASSUME ReconcilerStep
      PROVE  UNCHANGED row \/ \E r : row' = [row EXCEPT ![recon.sig] = r]
  BY <1>2 DEF ReconcilerStep, ReconcileRead, ReconcileCommit, ReconcileFails, ReconcileAck,
     ReconcileAckFails, ReconcileWrite, KeepRows, PutRow
<1>3. ASSUME EnvironmentStep
      PROVE  UNCHANGED row \/ \E s \in Signals : \E r : row' = [row EXCEPT ![s] = r]
  <2> PICK s \in Signals : \/ RetryWindowElapses(s) \/ CooldownEnds(s)
                           \/ OutcomeResolves(s) \/ SignalRetires(s)
    BY <1>3 DEF EnvironmentStep
  <2>1. CASE RetryWindowElapses(s)
    <3>1. row' = [row EXCEPT ![s] = [row[s] EXCEPT !.waited = TRUE]]
      BY <2>1 DEF RetryWindowElapses
    <3> QED
      BY <3>1
  <2>2. CASE CooldownEnds(s)
    <3>1. row' = [row EXCEPT ![s] = [row[s] EXCEPT !.quiet = TRUE]]
      BY <2>2 DEF CooldownEnds
    <3> QED
      BY <3>1
  <2> QED
    BY <2>1, <2>2 DEF OutcomeResolves, SignalRetires
<1>4. ASSUME NEW s, NEW r, row' = [row EXCEPT ![s] = r], s \notin Signals
      PROVE  UNCHANGED row
  BY <1>4 DEF TypeOK
<1>5. UNCHANGED vars => UNCHANGED row
  BY DEF vars
<1> QED
  BY <1>1, <1>2, <1>3, <1>4, <1>5 DEF Next

\* The proof a row names, as the contract sees it.
Named == [s \in Signals |-> row[s].msg]

LEMMA StepKeepsContract ==
    ASSUME TypeOK, GenuineInv, \A s \in Signals : OnceInv(s), [Next]_vars
    PROVE  [Contract!ContractNext]_<<accepted, Named>>
<1>0. row \in [Signals -> Rows] /\ accepted \in [Signals -> Nat]
  BY DEF TypeOK
<1>1. ASSUME NEW w \in Workers, worker[w].pc = "sending", TelegramAccepts(worker[w].sig),
             UNCHANGED row
      PROVE  Contract!ContractNext
  <2>1. worker[w].sig \in Signals /\ accepted[worker[w].sig] = 0
    BY <1>1 DEF OnceInv, Unsent, TypeOK
  <2>2. accepted' = [accepted EXCEPT ![worker[w].sig] = 1]
    BY <1>1, <2>1 DEF TelegramAccepts
  <2>3. Contract!Transmit(worker[w].sig)
    BY <1>1, <2>1, <2>2 DEF Contract!Transmit
  <2> QED
    BY <2>1, <2>3 DEF Contract!ContractNext
<1>2. ASSUME NEW s \in Signals, NEW r, row' = [row EXCEPT ![s] = r], UNCHANGED accepted
      PROVE  UNCHANGED Named \/ Contract!ContractNext
  <2>1. \A t \in Signals : t # s => row'[t].msg = row[t].msg
    BY <1>2
  <2>2. CASE row'[s].msg = row[s].msg
    <3>1. \A t \in Signals : row'[t].msg = row[t].msg
      BY <2>1, <2>2
    <3> QED
      BY <3>1 DEF Named
  <2>3. CASE row'[s].msg # row[s].msg
    <3>1. RowStep(s)
      BY StepRow
    <3>2. /\ row[s].sentOk => row'[s].msg = row[s].msg
          /\ IF row'[s].sentOk THEN row'[s].msg \in 1 .. accepted[s] ELSE row'[s].msg = 0
          /\ ~row[s].sentOk => row[s].msg = 0
      BY <3>1, RowFacts DEF GenuineInv
    <3>3. row'[s].msg \in 1 .. accepted[s] /\ row[s].msg = 0
      BY <2>3, <3>2
    <3>4. accepted[s] = 1 /\ row'[s].msg = 1
      BY <1>0, <3>3 DEF OnceInv
    <3>5. Named' = [Named EXCEPT ![s] = 1]
      BY <2>1, <3>4 DEF Named
    <3>6. Contract!Prove(s)
      BY <1>2, <3>3, <3>4, <3>5 DEF Contract!Prove, Named
    <3> QED
      BY <3>6 DEF Contract!ContractNext
  <2> QED
    BY <2>2, <2>3
<1>3. UNCHANGED row => UNCHANGED Named
  BY DEF Named
<1>4. CASE UNCHANGED accepted
  <2>1. UNCHANGED row \/ \E s \in Signals : \E r : row' = [row EXCEPT ![s] = r]
    BY OneRowChanges
  <2> QED
    BY <1>2, <1>3, <1>4, <2>1
<1>5. CASE accepted' # accepted
  BY <1>1, <1>5, AcceptingStep
<1> QED
  BY <1>4, <1>5

\* The subsystem keeps its contract, one message per signal at most and a proof
\* that, once recorded, names it for good, as long as no worker outlives the
\* retry window and no dispatch loop sets about repairing the row of a message it
\* has just sent. (delivery/service.py)
THEOREM DeliveryImplementsContract ==
    Spec /\ [](\A s \in Signals : InTime(s) /\ Unrepaired(s)) => ImplementsContract
<1> DEFINE Calm == \A s \in Signals : InTime(s) /\ Unrepaired(s)
           Inv == TypeOK /\ GenuineInv /\ \A s \in Signals : HoldInv(s) /\ OnceInv(s)
<1>1. Init => Inv
  BY InitType, InitGenuine, InitOnce
<1>2. Inv /\ Calm /\ Calm' /\ [Next]_vars => Inv'
  <2> SUFFICES ASSUME Inv, Calm, Calm', [Next]_vars
               PROVE  Inv'
    OBVIOUS
  <2>1. (TypeOK /\ GenuineInv)'
    BY StepType, StepGenuine
  <2>2. ASSUME NEW s \in Signals
        PROVE  (HoldInv(s) /\ OnceInv(s))'
    BY StepHold, StepOnce
  <2> QED
    BY <2>1, <2>2
<1>3. Init => Contract!ContractInit
  BY DEF Init, Contract!ContractInit, NoRow
<1>4. Inv /\ [Next]_vars => [Contract!ContractNext]_Contract!contractVars
  BY StepKeepsContract DEF Contract!contractVars, Named
<1> HIDE DEF Inv
<1>5. Spec /\ []Calm => []Inv
  BY <1>1, <1>2, PTL DEF Spec
<1> QED
  BY <1>3, <1>4, <1>5, PTL DEF Spec, ImplementsContract, Contract!ContractSpec
=============================================================================
