----------------------- MODULE SignalDelivery_proofs -----------------------
(***************************************************************************)
(* Theorems of SignalDelivery, for any signals, workers and bounds.        *)
(***************************************************************************)
EXTENDS SignalDelivery, TLAPS

RowsOK == row \in [Signals -> Rows] /\ clock \in Nat

WorkersOK ==
    /\ worker \in [Workers -> WorkerStates]
    /\ \A w \in Workers : worker[w].pc # "idle" => worker[w].sig \in Signals

ReconOK == recon \in ReconStates /\ (recon.pc # "idle" => recon.sig \in Signals)

\* The policy always answers with a state.
LEMMA CanonicalType ==
    ASSUME NEW q \in DeliveryStates \cup {NoState}, NEW a \in BOOLEAN, NEW e \in Errors
    PROVE  Canonical(q, a, e) \in DeliveryStates
BY DEF Canonical, DeliveryStates, NoState, Errors

LEMMA RecordedType ==
    ASSUME NEW r \in Rows, NEW m \in Nat, NEW q \in DeliveryStates \cup {NoState},
           NEW e \in Errors, clock \in Nat
    PROVE  Recorded(r, m, q, e) \in Rows
<1> DEFINE t == Canonical(q, m # 0, e)
<1>1. t \in DeliveryStates
  BY CanonicalType
<1> HIDE DEF t
<1>2. Recorded(r, m, q, e) =
        IF r.sentOk \/ ~TransitionAllowed(r.state, t, m # 0) THEN r
        ELSE IF m # 0
             THEN [r EXCEPT !.state = t, !.sentOk = TRUE, !.msg = m, !.error = FALSE,
                            !.at = clock + 1, !.waited = FALSE, !.quiet = FALSE]
             ELSE [r EXCEPT !.state = t, !.waited = FALSE, !.error = e # "none"]
  BY DEF Recorded, t
<1>3. [r EXCEPT !.state = t, !.sentOk = TRUE, !.msg = m, !.error = FALSE,
                !.at = clock + 1, !.waited = FALSE, !.quiet = FALSE] \in Rows
  <2>1. clock + 1 \in Nat
    OBVIOUS
  <2>2. ASSUME NEW n \in Nat
        PROVE  [r EXCEPT !.state = t, !.sentOk = TRUE, !.msg = m, !.error = FALSE,
                         !.at = n, !.waited = FALSE, !.quiet = FALSE] \in Rows
    BY <1>1 DEF Rows
  <2> QED
    BY <2>1, <2>2
<1>4. ASSUME NEW b \in BOOLEAN
      PROVE  [r EXCEPT !.state = t, !.waited = FALSE, !.error = b] \in Rows
  <2>1. CASE b = TRUE
    BY <1>1, <2>1 DEF Rows
  <2>2. CASE b = FALSE
    BY <1>1, <2>2 DEF Rows
  <2> QED
    BY <2>1, <2>2
<1>5. [r EXCEPT !.state = t, !.waited = FALSE, !.error = e # "none"] \in Rows
  <2>1. (e # "none") \in BOOLEAN
    OBVIOUS
  <2> QED
    BY <1>4, <2>1
<1> QED
  BY <1>2, <1>3, <1>5, Zenon

LEMMA AdvancedType ==
    ASSUME NEW r \in Rows, NEW t \in DeliveryStates, NEW e \in BOOLEAN
    PROVE  Advanced(r, t, e) \in Rows
BY DEF Advanced, Rows

LEMMA ReservedType ==
    ASSUME NEW r \in Rows, clock \in Nat
    PROVE  Reserved(r) \in Rows
<1>1. CASE Exists(r)
  BY <1>1 DEF Reserved, Rows, DeliveryStates
<1>2. CASE ~Exists(r)
  <2>1. clock + 1 \in Nat
    OBVIOUS
  <2>2. ASSUME NEW n \in Nat
        PROVE  [NoRow EXCEPT !.state = "RESERVED", !.at = n] \in Rows
    BY DEF Rows, DeliveryStates, NoRow
  <2> QED
    BY <1>2, <2>1, <2>2 DEF Reserved
<1> QED
  BY <1>1, <1>2

LEMMA PutRowType ==
    ASSUME RowsOK, NEW s \in Signals, NEW r \in Rows, PutRow(s, r)
    PROVE  RowsOK'
BY DEF RowsOK, PutRow

LEMMA KeepRowsType ==
    ASSUME RowsOK, KeepRows
    PROVE  RowsOK'
BY DEF RowsOK, KeepRows

LEMMA PersistType ==
    ASSUME RowsOK, NEW w \in Workers, worker[w].sig \in Signals,
           NEW t \in DeliveryStates, NEW e \in BOOLEAN, PersistUnknown(w, t, e)
    PROVE  RowsOK'
<1>1. CASE KeepRows
  BY <1>1, KeepRowsType
<1>2. CASE PersistKnown(w, t, e)
  <2>1. row[worker[w].sig] \in Rows
    BY DEF RowsOK
  <2>2. Advanced(row[worker[w].sig], t, e) \in Rows
    BY <2>1, AdvancedType
  <2> QED
    BY <1>2, <2>2, PutRowType DEF PersistKnown
<1> QED
  BY <1>1, <1>2 DEF PersistUnknown

LEMMA GotoType ==
    ASSUME WorkersOK, NEW w \in Workers, worker[w].sig \in Signals,
           NEW p \in WorkerPcs, Goto(w, p)
    PROVE  WorkersOK'
BY DEF WorkersOK, Goto, WorkerStates

LEMMA ConcludeType ==
    ASSUME WorkersOK, NEW w \in Workers, worker[w].sig \in Signals,
           NEW v \in Verdicts, Conclude(w, v)
    PROVE  WorkersOK'
BY DEF WorkersOK, Conclude, WorkerStates, WorkerPcs

LEMMA RestType ==
    ASSUME WorkersOK, NEW w \in Workers, Rest(w)
    PROVE  WorkersOK'
BY DEF WorkersOK, Rest, WorkerStates, WorkerPcs, IdleWorker, Verdicts

LEMMA RecordType ==
    ASSUME RowsOK, NEW s \in Signals, NEW m \in Nat,
           NEW q \in DeliveryStates \cup {NoState}, NEW e \in Errors,
           PutRow(s, Recorded(row[s], m, q, e)) \/ KeepRows
    PROVE  RowsOK'
<1>1. row[s] \in Rows /\ clock \in Nat
  BY DEF RowsOK
<1>2. Recorded(row[s], m, q, e) \in Rows
  BY <1>1, RecordedType
<1> QED
  BY <1>2, PutRowType, KeepRowsType

\* Arguments the callers of the two writers use.
LEMMA ArgumentTypes ==
    /\ {"VALIDATING", "SENDING", "BLOCKED"} \subseteq DeliveryStates
    /\ Alias.blocked \in DeliveryStates
    /\ Alias.reconciled = "RECONCILED" /\ "RECONCILED" \in DeliveryStates
    /\ Alias.unspecified = NoState
    /\ "none" \in Errors /\ "plain" \in Errors
    /\ \A v \in Verdicts : RawState(v) \in DeliveryStates /\ ErrorOf(v) \in Errors
BY DEF DeliveryStates, Alias, Errors, Verdicts, RawState, ErrorOf

TelegramOK == accepted \in [Signals -> Nat] /\ receipt \in [Signals -> Nat]

\* The conjuncts of TypeOK, by the component that owns the variables.
LEMMA TypeParts ==
    TypeOK <=> /\ RowsOK /\ WorkersOK /\ ReconOK /\ TelegramOK
               /\ life \in [Signals -> Lives]
BY DEF TypeOK, RowsOK, WorkersOK, ReconOK, TelegramOK

LEMMA InitType == Init => TypeOK
BY DEF Init, TypeOK, Rows, NoRow, WorkerStates, IdleWorker, WorkerPcs, Verdicts,
       ReconStates, IdleRecon, NoState, Lives

\* A worker that is somewhere has a signal, a message number and a verdict.
LEMMA BusyWorker ==
    ASSUME WorkersOK, NEW w \in Workers, worker[w].pc # "idle"
    PROVE  /\ worker[w].sig \in Signals
           /\ worker[w].msg \in Nat
           /\ worker[w].verdict \in Verdicts
BY DEF WorkersOK, WorkerStates

LEMMA AfterUnprovenType ==
    ASSUME WorkersOK, NEW w \in Workers, worker[w].sig \in Signals, AfterUnproven(w)
    PROVE  WorkersOK'
<1>1. {"repairing", "suppressing"} \subseteq WorkerPcs
  BY DEF WorkerPcs
<1>2. Goto(w, "repairing") \/ Goto(w, "suppressing") \/ Rest(w)
  BY DEF AfterUnproven
<1> QED
  BY <1>1, <1>2, GotoType, RestType

\* Up to the API call: reservation, validation, and the SENDING phase.
LEMMA PreSendType ==
    ASSUME TypeOK, NEW w \in Workers,
           \/ \E s \in Signals : CheckDailyCap(w, s)
           \/ ReserveGranted(w) \/ BlockUnformattable(w) \/ ReserveRefused(w)
           \/ BeginValidation(w) \/ PassChecks(w) \/ FailChecks(w) \/ BeginSending(w)
    PROVE  RowsOK' /\ WorkersOK'
<1> USE TypeParts
<1>0. {"reserved", "validating", "clear", "sending"} \subseteq WorkerPcs
      /\ "skipped" \in Verdicts
  BY DEF WorkerPcs, Verdicts
<1>1. CASE \E s \in Signals : CheckDailyCap(w, s)
  <2> PICK s \in Signals : CheckDailyCap(w, s)
    BY <1>1
  <2>1. WorkersOK'
    BY DEF CheckDailyCap, WorkersOK, WorkerStates, IdleWorker, WorkerPcs, Verdicts
  <2> QED
    BY <2>1, KeepRowsType DEF CheckDailyCap
<1>2. CASE ReserveGranted(w)
  <2>1. worker[w].sig \in Signals
    BY <1>2, BusyWorker DEF ReserveGranted
  <2>2. Reserved(row[worker[w].sig]) \in Rows
    BY <2>1, ReservedType DEF RowsOK
  <2> QED
    BY <1>0, <1>2, <2>1, <2>2, PutRowType, GotoType DEF ReserveGranted
<1>3. CASE ReserveRefused(w)
  BY <1>3, KeepRowsType, RestType DEF ReserveRefused
<1>8. CASE BlockUnformattable(w)
  <2>1. worker[w].sig \in Signals
    BY <1>8, BusyWorker DEF BlockUnformattable
  <2>2. Reserved(row[worker[w].sig]) \in Rows /\ clock \in Nat
    BY <2>1, ReservedType DEF RowsOK
  <2>3. Recorded(Reserved(row[worker[w].sig]), 0, Alias.blocked, "plain") \in Rows
    BY <2>2, RecordedType, ArgumentTypes
  <2> QED
    BY <1>8, <2>1, <2>3, PutRowType, RestType DEF BlockUnformattable
<1>4. CASE BeginValidation(w)
  <2>1. worker[w].sig \in Signals
    BY <1>4, BusyWorker DEF BeginValidation
  <2>2. PersistUnknown(w, "VALIDATING", FALSE)
    BY <1>4 DEF BeginValidation, PersistUnknown
  <2>3. Goto(w, "validating") \/ Conclude(w, "skipped")
    BY <1>4 DEF BeginValidation
  <2> QED
    BY <1>0, <2>1, <2>2, <2>3, PersistType, GotoType, ConcludeType, ArgumentTypes
<1>5. CASE PassChecks(w)
  <2>1. worker[w].sig \in Signals
    BY <1>5, BusyWorker DEF PassChecks
  <2> QED
    BY <1>0, <1>5, <2>1, KeepRowsType, GotoType DEF PassChecks
<1>6. CASE FailChecks(w)
  <2>1. worker[w].sig \in Signals
    BY <1>6, BusyWorker DEF FailChecks
  <2> QED
    BY <1>0, <1>6, <2>1, PersistType, ConcludeType, ArgumentTypes DEF FailChecks
<1>7. CASE BeginSending(w)
  <2>1. worker[w].sig \in Signals
    BY <1>7, BusyWorker DEF BeginSending
  <2>2. PersistUnknown(w, "SENDING", FALSE)
    BY <1>7 DEF BeginSending, PersistUnknown
  <2>3. Goto(w, "sending") \/ Conclude(w, "skipped")
    BY <1>7 DEF BeginSending
  <2> QED
    BY <1>0, <2>1, <2>2, <2>3, PersistType, GotoType, ConcludeType, ArgumentTypes
<1> QED
  BY <1>1, <1>2, <1>3, <1>4, <1>5, <1>6, <1>7, <1>8

\* From the API call to rest.
LEMMA PostSendType ==
    ASSUME TypeOK, NEW w \in Workers,
           \/ SendAcknowledged(w) \/ SendTimesOut(w) \/ SendRefused(w)
           \/ StashReceipt(w) \/ RecordResult(w) \/ AcknowledgeReceipt(w)
           \/ RepairByHand(w) \/ SuppressUnreachable(w) \/ Crash(w)
    PROVE  RowsOK' /\ WorkersOK' /\ TelegramOK'
<1> USE TypeParts
<1> DEFINE s == worker[w].sig
<1>0. /\ worker[w].pc # "idle"
      /\ s \in Signals /\ worker[w].msg \in Nat /\ worker[w].verdict \in Verdicts
  BY BusyWorker DEF SendAcknowledged, SendTimesOut, SendRefused, StashReceipt, RecordResult,
       AcknowledgeReceipt, RepairByHand, SuppressUnreachable, Crash
<1>a. /\ {"failed", "unreachable", "ambiguous", "sent"} \subseteq Verdicts
      /\ {"accepted", "acking"} \subseteq WorkerPcs
  BY DEF Verdicts, WorkerPcs
<1>b. TelegramAccepts(s) => (accepted' \in [Signals -> Nat] /\ accepted[s] + 1 \in Nat)
  BY <1>0 DEF TelegramAccepts, TelegramOK
<1>1. CASE SendAcknowledged(w)
  <2>1. WorkersOK'
    BY <1>0, <1>1, <1>a, <1>b DEF SendAcknowledged, WorkersOK, WorkerStates
  <2> QED
    BY <1>1, <1>b, <2>1, KeepRowsType DEF SendAcknowledged, TelegramOK
<1>2. CASE SendTimesOut(w)
  BY <1>0, <1>2, <1>a, <1>b, KeepRowsType, ConcludeType DEF SendTimesOut, TelegramOK
<1>3. CASE SendRefused(w)
  BY <1>0, <1>3, <1>a, KeepRowsType, ConcludeType DEF SendRefused, TelegramOK
<1>4. CASE StashReceipt(w)
  <2>1. TelegramOK'
    BY <1>0, <1>4 DEF StashReceipt, TelegramOK
  <2> QED
    BY <1>0, <1>4, <1>a, <2>1, KeepRowsType, ConcludeType DEF StashReceipt
<1>5. CASE RecordResult(w)
  <2>1. RowsOK'
    BY <1>0, <1>5, RecordType, ArgumentTypes DEF RecordResult
  <2>2. WorkersOK'
    BY <1>0, <1>5, <1>a, GotoType, AfterUnprovenType DEF RecordResult
  <2> QED
    BY <1>5, <2>1, <2>2 DEF RecordResult, TelegramOK
<1>6. CASE AcknowledgeReceipt(w)
  <2>1. TelegramOK'
    BY <1>0, <1>6 DEF AcknowledgeReceipt, TelegramOK
  <2> QED
    BY <1>6, <2>1, KeepRowsType, RestType DEF AcknowledgeReceipt
<1>7. CASE RepairByHand(w)
  <2>1. RowsOK'
    BY <1>0, <1>7, RecordType, ArgumentTypes DEF RepairByHand
  <2> QED
    BY <1>7, <2>1, RestType DEF RepairByHand, TelegramOK
<1>8. CASE SuppressUnreachable(w)
  <2>1. RowsOK'
    BY <1>0, <1>8, RecordType, ArgumentTypes DEF SuppressUnreachable
  <2> QED
    BY <1>8, <2>1, RestType DEF SuppressUnreachable, TelegramOK
<1>9. CASE Crash(w)
  BY <1>9, KeepRowsType, RestType DEF Crash, TelegramOK
<1> QED
  BY <1>1, <1>2, <1>3, <1>4, <1>5, <1>6, <1>7, <1>8, <1>9

LEMMA ReconcilerType ==
    ASSUME TypeOK, ReconcilerStep
    PROVE  RowsOK' /\ ReconOK' /\ TelegramOK'
<1> USE TypeParts
<1>1. CASE \E s \in Signals : ReconcileRead(s)
  <2> PICK s \in Signals : ReconcileRead(s)
    BY <1>1
  <2>1. ReconOK'
    BY DEF ReconcileRead, ReconOK, ReconStates, TelegramOK
  <2> QED
    BY <2>1, KeepRowsType DEF ReconcileRead, TelegramOK
<1>2. ASSUME recon.pc = "persisting", ReconcileWrite
      PROVE  RowsOK'
  BY <1>2, RecordType, ArgumentTypes DEF ReconcileWrite, ReconOK, ReconStates
<1>3. ReconcileFails \/ ReconcileAck \/ ReconcileAckFails => ReconOK'
  BY DEF ReconcileFails, ReconcileAck, ReconcileAckFails, ReconOK, ReconStates, IdleRecon
<1>4. CASE ReconcileCommit
  <2>1. ReconOK'
    BY <1>4 DEF ReconcileCommit, ReconOK, ReconStates
  <2> QED
    BY <1>2, <1>4, <2>1 DEF ReconcileCommit, TelegramOK
<1>5. CASE ReconcileFails
  BY <1>2, <1>3, <1>5, KeepRowsType DEF ReconcileFails, TelegramOK
<1>6. CASE ReconcileAck
  <2>1. TelegramOK'
    BY <1>6 DEF ReconcileAck, TelegramOK, ReconOK
  <2> QED
    BY <1>3, <1>6, <2>1, KeepRowsType DEF ReconcileAck
<1>7. CASE ReconcileAckFails
  BY <1>3, <1>7, KeepRowsType DEF ReconcileAckFails, TelegramOK
<1> QED
  BY <1>1, <1>4, <1>5, <1>6, <1>7 DEF ReconcilerStep

LEMMA EnvironmentType ==
    ASSUME TypeOK, EnvironmentStep
    PROVE  RowsOK' /\ life' \in [Signals -> Lives]
<1> PICK s \in Signals : \/ RetryWindowElapses(s) \/ CooldownEnds(s)
                       \/ OutcomeResolves(s) \/ SignalRetires(s)
  BY DEF EnvironmentStep
<1>1. CASE RetryWindowElapses(s) \/ CooldownEnds(s)
  <2>1. row[s] \in Rows
    BY TypeParts DEF RowsOK
  <2>2. [row[s] EXCEPT !.waited = TRUE] \in Rows /\ [row[s] EXCEPT !.quiet = TRUE] \in Rows
    BY <2>1 DEF Rows
  <2>3. RowsOK'
    BY <1>1, <2>2, TypeParts DEF RetryWindowElapses, CooldownEnds, RowsOK
  <2> QED
    BY <1>1, <2>3, TypeParts DEF RetryWindowElapses, CooldownEnds
<1>2. CASE OutcomeResolves(s) \/ SignalRetires(s)
  BY <1>2, TypeParts DEF OutcomeResolves, SignalRetires, RowsOK, Lives
<1> QED
  BY <1>1, <1>2

LEMMA StepType == TypeOK /\ [Next]_vars => TypeOK'
<1> SUFFICES ASSUME TypeOK, [Next]_vars
             PROVE  TypeOK'
  OBVIOUS
<1>1. CASE \E w \in Workers : WorkerStep(w)
  <2> PICK w \in Workers : WorkerStep(w)
    BY <1>1
  <2>1. UNCHANGED life
    BY DEF WorkerStep, CheckDailyCap, ReserveGranted, BlockUnformattable, ReserveRefused,
       BeginValidation, PassChecks, FailChecks, BeginSending, SendAcknowledged,
       SendTimesOut, SendRefused, StashReceipt, RecordResult, AcknowledgeReceipt,
       RepairByHand, SuppressUnreachable, Crash
  <2>2. UNCHANGED recon
    BY DEF WorkerStep, CheckDailyCap, ReserveGranted, BlockUnformattable, ReserveRefused,
       BeginValidation, PassChecks, FailChecks, BeginSending, SendAcknowledged,
       SendTimesOut, SendRefused, StashReceipt, RecordResult, AcknowledgeReceipt,
       RepairByHand, SuppressUnreachable, Crash
  <2>3. RowsOK' /\ WorkersOK' /\ TelegramOK'
    <3>1. CASE \/ \E s \in Signals : CheckDailyCap(w, s)
               \/ ReserveGranted(w) \/ BlockUnformattable(w) \/ ReserveRefused(w)
               \/ BeginValidation(w) \/ PassChecks(w) \/ FailChecks(w) \/ BeginSending(w)
      <4>1. UNCHANGED <<accepted, receipt>>
        BY <3>1 DEF CheckDailyCap, ReserveGranted, BlockUnformattable, ReserveRefused,
           BeginValidation, PassChecks, FailChecks, BeginSending
      <4> QED
        BY <3>1, <4>1, PreSendType, TypeParts DEF TelegramOK
    <3>2. CASE \/ SendAcknowledged(w) \/ SendTimesOut(w) \/ SendRefused(w)
               \/ StashReceipt(w) \/ RecordResult(w) \/ AcknowledgeReceipt(w)
               \/ RepairByHand(w) \/ SuppressUnreachable(w) \/ Crash(w)
      BY <3>2, PostSendType
    <3> QED
      BY <3>1, <3>2 DEF WorkerStep
  <2> QED
    BY <2>1, <2>2, <2>3, TypeParts DEF TypeOK, RowsOK, WorkersOK, TelegramOK
<1>2. CASE ReconcilerStep
  <2>1. UNCHANGED <<life, worker>>
    BY <1>2 DEF ReconcilerStep, ReconcileRead, ReconcileCommit, ReconcileFails,
       ReconcileAck, ReconcileAckFails
  <2> QED
    BY <1>2, <2>1, ReconcilerType DEF TypeOK, RowsOK, ReconOK, TelegramOK
<1>3. CASE EnvironmentStep
  <2>1. UNCHANGED <<worker, accepted, receipt, recon>>
    BY <1>3 DEF EnvironmentStep, RetryWindowElapses, CooldownEnds, OutcomeResolves,
       SignalRetires
  <2> QED
    BY <1>3, <2>1, EnvironmentType DEF TypeOK, RowsOK
<1>4. CASE UNCHANGED vars
  BY <1>4 DEF vars, TypeOK
<1> QED
  BY <1>1, <1>2, <1>3, <1>4 DEF Next

\* The type invariant, for every number of signals, workers and sends.
THEOREM TypeCorrect == Spec => []TypeOK
BY InitType, StepType, PTL DEF Spec

-----------------------------------------------------------------------------
(***************************************************************************)
(* Every change of a row is one of a few, whoever makes it.  The theorems  *)
(* on proofs are about these, and never open the actions again.            *)
(***************************************************************************)

\* What a result is recorded with: a message Telegram accepted, or no message.
ResultArguments(s, m, q, e) ==
    \/ m \in 1 .. accepted[s] /\ q \in {"SENT", "RECONCILED"} /\ e = "none"
    \/ m = 0 /\ q \in (DeliveryStates \cup {NoState}) \ Success /\ e \in Errors

Records(s) ==
    \E m \in Nat, q \in DeliveryStates \cup {NoState}, e \in Errors :
        ResultArguments(s, m, q, e) /\ row'[s] = Recorded(row[s], m, q, e)

Reserves(s) == /\ Exists(row[s]) => Retryable(row[s])
               /\ row'[s] = Reserved(row[s])

Blocks(s) == /\ Exists(row[s]) => Retryable(row[s])
             /\ row'[s] = [Reserved(row[s]) EXCEPT !.state = "BLOCKED", !.waited = FALSE,
                                                   !.error = TRUE]

Persists(s) ==
    \E t \in {"VALIDATING", "SENDING", "BLOCKED"}, e \in BOOLEAN :
        TransitionAllowed(row[s].state, t, FALSE) /\ row'[s] = Advanced(row[s], t, e)

Ages(s) == \/ row'[s] = [row[s] EXCEPT !.waited = TRUE]
           \/ row'[s] = [row[s] EXCEPT !.quiet = TRUE]

\* What somebody who works on the row of s makes of it.
RowWrite(s) == \/ row'[s] = row[s]
               \/ Reserves(s) \/ Blocks(s) \/ Persists(s) \/ Records(s)

RowStep(s) == RowWrite(s) \/ Ages(s)

\* The invariant behind the theorems on proofs: acknowledgements held in rows,
\* receipts, workers and the reconciler all name messages Telegram accepted.
HeldByWorker(w) ==
    worker[w].msg # 0 =>
        /\ worker[w].msg \in 1 .. accepted[worker[w].sig]
        /\ \/ worker[w].pc = "accepted"
           \/ worker[w].pc \in {"marking", "acking",
              "repairing"} /\ worker[w].verdict = "sent"

HeldByReconciler == recon.pc # "idle" => recon.msg \in 1 .. accepted[recon.sig]

GenuineInv ==
    /\ \A s \in Signals :
        /\ row[s].sentOk <=> row[s].state \in Success
        /\ IF row[s].sentOk THEN row[s].msg \in 1 .. accepted[s] ELSE row[s].msg = 0
        /\ receipt[s] \in 0 .. accepted[s]
    /\ \A w \in Workers : HeldByWorker(w)
    /\ HeldByReconciler

LEMMA PutRowStep ==
    ASSUME TypeOK, NEW s \in Signals, NEW r, PutRow(s, r), NEW t \in Signals
    PROVE  row'[t] = IF t = s THEN r ELSE row[t]
BY DEF PutRow, TypeOK

\* The states a phase is persisted to are never a success.
LEMMA PersistStep ==
    ASSUME TypeOK, NEW w \in Workers, worker[w].sig \in Signals,
           NEW t \in {"VALIDATING", "SENDING", "BLOCKED"}, NEW e \in BOOLEAN,
           PersistUnknown(w, t, e), NEW s \in Signals
    PROVE  RowWrite(s)
<1>1. CASE KeepRows
  BY <1>1 DEF KeepRows, RowWrite
<1>2. CASE PersistKnown(w, t, e)
  BY <1>2, PutRowStep DEF PersistKnown, RowWrite, Persists
<1> QED
  BY <1>1, <1>2 DEF PersistUnknown

LEMMA RecordStep ==
    ASSUME TypeOK, NEW u \in Signals, NEW m \in Nat,
           NEW q \in DeliveryStates \cup {NoState}, NEW e \in Errors,
           ResultArguments(u, m, q, e),
           PutRow(u, Recorded(row[u], m, q, e)) \/ KeepRows, NEW s \in Signals
    PROVE  RowWrite(s)
<1>1. CASE KeepRows
  BY <1>1 DEF KeepRows, RowWrite
<1>2. CASE PutRow(u, Recorded(row[u], m, q, e))
  <2>1. CASE s = u
    BY <1>2, <2>1, PutRowStep DEF RowWrite, Records
  <2>2. CASE s # u
    BY <1>2, <2>2, PutRowStep DEF RowWrite
  <2> QED
    BY <2>1, <2>2
<1> QED
  BY <1>1, <1>2

\* A verdict goes with the acknowledgement, or with none.
LEMMA VerdictArguments ==
    ASSUME TypeOK, GenuineInv, NEW w \in Workers, worker[w].pc = "marking"
    PROVE  ResultArguments(worker[w].sig, worker[w].msg,
                           RawState(worker[w].verdict), ErrorOf(worker[w].verdict))
<1> DEFINE v == worker[w].verdict
<1>1. v \in Verdicts /\ worker[w].msg \in Nat
  BY TypeParts, BusyWorker
<1>2. RawState(v) \in {"SENT", "BLOCKED", "FAILED_PRE_SEND"} /\ ErrorOf(v) \in Errors
  BY DEF RawState, Alias, ErrorOf, Errors
<1>3. CASE worker[w].msg = 0
  BY <1>2, <1>3 DEF ResultArguments, DeliveryStates, Success
<1>4. CASE worker[w].msg # 0
  <2>1. v = "sent" /\ worker[w].msg \in 1 .. accepted[worker[w].sig]
    BY <1>4 DEF GenuineInv, HeldByWorker
  <2>2. RawState(v) = "SENT" /\ ErrorOf(v) = "none"
    BY <2>1 DEF RawState, Alias, ErrorOf
  <2> QED
    BY <2>1, <2>2 DEF ResultArguments
<1> QED
  BY <1>3, <1>4

\* Only unproven rows are reserved, and a reservation proves nothing.
LEMMA ReservedFacts ==
    ASSUME NEW r \in Rows, r.sentOk <=> r.state \in Success, ~r.sentOk => r.msg = 0,
           Exists(r) => Retryable(r)
    PROVE  /\ ~r.sentOk
           /\ Reserved(r).state = "RESERVED"
           /\ ~Reserved(r).sentOk
           /\ Reserved(r).msg = 0
<1>1. CASE Exists(r)
  BY <1>1 DEF Retryable, Reserved, Rows
<1>2. CASE ~Exists(r)
  <2>1. r.state \notin Success
    BY <1>2 DEF Exists, NoState, Success
  <2>2. Reserved(r) = [NoRow EXCEPT !.state = "RESERVED", !.at = clock + 1]
    BY <1>2 DEF Reserved
  <2> QED
    BY <2>1, <2>2 DEF NoRow
<1> QED
  BY <1>1, <1>2

LEMMA BlockedAtOnce ==
    ASSUME NEW r \in Rows, r.state = "RESERVED", ~r.sentOk
    PROVE  Recorded(r, 0, Alias.blocked, "plain") =
               [r EXCEPT !.state = "BLOCKED", !.waited = FALSE, !.error = TRUE]
<1>1. Canonical(Alias.blocked, FALSE, "plain") = "BLOCKED"
  BY DEF Canonical, Alias, NoState
<1>2. TransitionAllowed("RESERVED", "BLOCKED", FALSE)
  BY DEF TransitionAllowed, Success, Ranked
<1> QED
  BY <1>1, <1>2 DEF Recorded

\* A row ages by itself, or somebody writes it.
LEMMA StepWrite ==
    ASSUME TypeOK, GenuineInv, [Next]_vars, NEW s \in Signals
    PROVE  RowWrite(s) \/ \E u \in Signals : RetryWindowElapses(u) \/ CooldownEnds(u)
<1> USE TypeParts
<1>1. ASSUME NEW w \in Workers, WorkerStep(w)
      PROVE  RowWrite(s)
  <2> DEFINE u == worker[w].sig
  <2>1. CASE worker[w].pc = "idle"
    BY <1>1, <2>1 DEF WorkerStep, CheckDailyCap, ReserveGranted, BlockUnformattable,
       ReserveRefused, BeginValidation, PassChecks, FailChecks, BeginSending,
       SendAcknowledged, SendTimesOut, SendRefused, StashReceipt, RecordResult,
       AcknowledgeReceipt, RepairByHand, SuppressUnreachable, Crash, KeepRows, RowWrite
  <2>2. CASE worker[w].pc # "idle"
    <3>0. u \in Signals /\ worker[w].msg \in Nat /\ worker[w].verdict \in Verdicts
      BY <2>2, BusyWorker
    <3>1. CASE ReserveGranted(w)
      <4>1. PutRow(u, Reserved(row[u])) /\ (Exists(row[u]) => Retryable(row[u]))
        BY <3>1 DEF ReserveGranted, Grantable
      <4> QED
        BY <3>0, <4>1, PutRowStep DEF RowWrite, Reserves
    <3>9. CASE BlockUnformattable(w)
      <4>1. /\ PutRow(u, Recorded(Reserved(row[u]), 0, Alias.blocked, "plain"))
            /\ Exists(row[u]) => Retryable(row[u])
        BY <3>9 DEF BlockUnformattable, Grantable
      <4>2. /\ row[u] \in Rows
            /\ row[u].sentOk <=> row[u].state \in Success
            /\ ~row[u].sentOk => row[u].msg = 0
        BY <3>0 DEF RowsOK, GenuineInv
      <4>3. Reserved(row[u]) \in Rows
        BY <4>2, ReservedType DEF RowsOK
      <4>4. Recorded(Reserved(row[u]), 0, Alias.blocked, "plain") =
               [Reserved(row[u]) EXCEPT !.state = "BLOCKED", !.waited = FALSE, !.error = TRUE]
        BY <4>1, <4>2, <4>3, ReservedFacts, BlockedAtOnce
      <4> QED
        BY <3>0, <4>1, <4>4, PutRowStep DEF RowWrite, Blocks
    <3>2. CASE BeginValidation(w)
      <4>1. PersistUnknown(w, "VALIDATING", FALSE)
        BY <3>2 DEF BeginValidation, PersistUnknown
      <4> QED
        BY <3>0, <4>1, PersistStep
    <3>3. CASE FailChecks(w)
      <4>1. PersistUnknown(w, "BLOCKED", TRUE)
        BY <3>3 DEF FailChecks
      <4> QED
        BY <3>0, <4>1, PersistStep
    <3>4. CASE BeginSending(w)
      <4>1. PersistUnknown(w, "SENDING", FALSE)
        BY <3>4 DEF BeginSending, PersistUnknown
      <4> QED
        BY <3>0, <4>1, PersistStep
    <3>5. CASE RecordResult(w)
      <4>1. PutRow(u, Recorded(row[u], worker[w].msg, RawState(worker[w].verdict),
                               ErrorOf(worker[w].verdict))) \/ KeepRows
        BY <3>5 DEF RecordResult
      <4>2. worker[w].pc = "marking"
        BY <3>5 DEF RecordResult
      <4> QED
        BY <3>0, <4>1, <4>2, RecordStep, VerdictArguments, ArgumentTypes
    <3>6. CASE RepairByHand(w)
      <4>1. PutRow(u, Recorded(row[u], 0, NoState, "plain")) \/ KeepRows
        BY <3>6, ArgumentTypes DEF RepairByHand
      <4>2. ResultArguments(u, 0, NoState, "plain")
        BY DEF ResultArguments, NoState, Success, Errors
      <4> QED
        BY <3>0, <4>1, <4>2, RecordStep, ArgumentTypes
    <3>7. CASE SuppressUnreachable(w)
      <4>1. PutRow(u, Recorded(row[u], 0, "BLOCKED", "plain")) \/ KeepRows
        BY <3>7 DEF SuppressUnreachable, Alias
      <4>2. ResultArguments(u, 0, "BLOCKED", "plain")
        BY DEF ResultArguments, DeliveryStates, Success, Errors
      <4> QED
        BY <3>0, <4>1, <4>2, RecordStep, ArgumentTypes
    <3>8. CASE KeepRows
      BY <3>8 DEF KeepRows, RowWrite
    <3> QED
      BY <1>1, <2>2, <3>1, <3>2, <3>3, <3>4, <3>5, <3>6, <3>7, <3>8, <3>9
      DEF WorkerStep, CheckDailyCap, ReserveRefused, PassChecks, SendAcknowledged,
          SendTimesOut, SendRefused, StashReceipt, AcknowledgeReceipt, Crash
  <2> QED
    BY <2>1, <2>2
<1>2. ASSUME ReconcilerStep
      PROVE  RowWrite(s)
  <2>1. CASE ReconcileWrite /\ recon.pc = "persisting"
    <3>1. recon.sig \in Signals /\ recon.msg \in Nat /\ recon.msg \in 1 .. accepted[recon.sig]
      BY <2>1 DEF ReconOK, ReconStates, GenuineInv, HeldByReconciler
    <3>2. ResultArguments(recon.sig, recon.msg, "RECONCILED", "none")
      BY <3>1 DEF ResultArguments
    <3>3. PutRow(recon.sig, Recorded(row[recon.sig], recon.msg, "RECONCILED", "none"))
      BY <2>1, ArgumentTypes DEF ReconcileWrite
    <3> QED
      BY <3>1, <3>2, <3>3, RecordStep, ArgumentTypes
  <2>2. CASE KeepRows
    BY <2>2 DEF KeepRows, RowWrite
  <2> QED
    BY <1>2, <2>1, <2>2 DEF ReconcilerStep, ReconcileRead, ReconcileCommit, ReconcileFails,
       ReconcileAck, ReconcileAckFails
<1>3. ASSUME EnvironmentStep
      PROVE  RowWrite(s) \/ \E u \in Signals : RetryWindowElapses(u) \/ CooldownEnds(u)
  BY <1>3 DEF EnvironmentStep, OutcomeResolves, SignalRetires, RowWrite
<1>4. CASE UNCHANGED vars
  BY <1>4 DEF vars, RowWrite
<1> QED
  BY <1>1, <1>2, <1>3, <1>4 DEF Next

LEMMA StepRow ==
    ASSUME TypeOK, GenuineInv, [Next]_vars, NEW s \in Signals
    PROVE  RowStep(s)
<1>1. ASSUME NEW u \in Signals, RetryWindowElapses(u) \/ CooldownEnds(u)
      PROVE  RowStep(s)
  BY <1>1 DEF RetryWindowElapses, CooldownEnds, RowStep, RowWrite, Ages, TypeOK
<1> QED
  BY <1>1, StepWrite DEF RowStep

-----------------------------------------------------------------------------
(* What a row step may do to the proof a row holds. *)

LEMMA CanonicalSuccess ==
    ASSUME NEW s, NEW m \in Nat, NEW q, NEW e, ResultArguments(s, m, q, e)
    PROVE  /\ m # 0 => Canonical(q, TRUE, e) \in Success
           /\ m = 0 => Canonical(q, FALSE, e) \notin Success
BY DEF ResultArguments, Canonical, Success, Errors, NoState

LEMMA RecordedFacts ==
    ASSUME NEW r \in Rows, r.sentOk <=> r.state \in Success,
           NEW s, NEW m \in Nat, NEW q, NEW e, ResultArguments(s, m, q, e),
           NEW x, x = Recorded(r, m, q, e)
    PROVE  /\ r.sentOk => x = r
           /\ ~r.sentOk /\ m # 0 => x.sentOk /\ x.state \in Success /\ x.msg = m
           /\ ~r.sentOk /\ m = 0 => ~x.sentOk /\ x.state \notin Success /\ x.msg = r.msg
<1> DEFINE t == Canonical(q, m # 0, e)
<1>1. r.sentOk => x = r
  BY DEF Recorded
<1>2. ASSUME ~r.sentOk, m # 0
      PROVE  x.sentOk /\ x.state \in Success /\ x.msg = m
  <2>1. t \in Success
    BY <1>2, CanonicalSuccess
  <2>2. TransitionAllowed(r.state, t, m # 0)
    BY <1>2, <2>1 DEF TransitionAllowed
  <2> HIDE DEF t
  <2>3. x = [r EXCEPT !.state = t, !.sentOk = TRUE, !.msg = m, !.error = FALSE,
                      !.at = clock + 1, !.waited = FALSE, !.quiet = FALSE]
    BY <1>2, <2>2 DEF Recorded, t
  <2> QED
    BY <2>1, <2>3 DEF Rows
<1>3. ASSUME ~r.sentOk, m = 0
      PROVE  ~x.sentOk /\ x.state \notin Success /\ x.msg = r.msg
  <2>1. t \notin Success
    BY <1>3, CanonicalSuccess
  <2> HIDE DEF t
  <2>2. \/ x = r
        \/ x = [r EXCEPT !.state = t, !.waited = FALSE, !.error = e # "none"]
    BY <1>3 DEF Recorded, t
  <2> QED
    BY <1>3, <2>1, <2>2 DEF Rows
<1> QED
  BY <1>1, <1>2, <1>3

\* Advancing and reserving happen to unproven rows only, and prove nothing.
LEMMA UnprovenFacts ==
    ASSUME TypeOK, GenuineInv, NEW s \in Signals, Reserves(s) \/ Blocks(s) \/ Persists(s)
    PROVE  /\ ~row[s].sentOk
           /\ ~row'[s].sentOk /\ row'[s].state \notin Success /\ row'[s].msg = 0
<1>0. row[s] \in Rows /\ (row[s].sentOk <=> row[s].state \in Success)
      /\ (~row[s].sentOk => row[s].msg = 0)
  BY DEF TypeOK, GenuineInv
<1>1. CASE Reserves(s) \/ Blocks(s)
  <2>1. /\ ~row[s].sentOk
        /\ Reserved(row[s]).state = "RESERVED"
        /\ ~Reserved(row[s]).sentOk
        /\ Reserved(row[s]).msg = 0
    BY <1>0, <1>1, ReservedFacts DEF Reserves, Blocks
  <2>2. Reserved(row[s]) \in Rows
    BY <1>0, ReservedType DEF TypeOK
  <2> QED
    BY <1>1, <2>1, <2>2 DEF Reserves, Blocks, Success, Rows
<1>2. CASE Persists(s)
  <2> PICK t \in {"VALIDATING", "SENDING", "BLOCKED"}, e \in BOOLEAN :
              TransitionAllowed(row[s].state, t, FALSE) /\ row'[s] = Advanced(row[s], t, e)
    BY <1>2 DEF Persists
  <2>1. row[s].state \notin Success
    BY DEF TransitionAllowed, Success
  <2> QED
    BY <1>0, <2>1 DEF Advanced, Rows, Success
<1> QED
  BY <1>1, <1>2

LEMMA RowFacts ==
    ASSUME TypeOK, GenuineInv, NEW s \in Signals, RowStep(s)
    PROVE  /\ row'[s].sentOk <=> row'[s].state \in Success
           /\ row[s].sentOk => /\ row'[s].sentOk
                               /\ row'[s].msg = row[s].msg
                               /\ row'[s].state = row[s].state
           /\ IF row'[s].sentOk THEN row'[s].msg \in 1 .. accepted[s] ELSE row'[s].msg = 0
<1>0. /\ row[s] \in Rows
      /\ row[s].sentOk <=> row[s].state \in Success
      /\ IF row[s].sentOk THEN row[s].msg \in 1 .. accepted[s] ELSE row[s].msg = 0
  BY DEF TypeOK, GenuineInv
<1>1. CASE row'[s] = row[s] \/ Ages(s)
  BY <1>0, <1>1 DEF Ages, Rows
<1>2. CASE Reserves(s) \/ Blocks(s) \/ Persists(s)
  BY <1>2, UnprovenFacts
<1>3. CASE Records(s)
  <2> PICK m \in Nat, q \in DeliveryStates \cup {NoState}, e \in Errors :
              ResultArguments(s, m, q, e) /\ row'[s] = Recorded(row[s], m, q, e)
    BY <1>3 DEF Records
  <2>1. /\ row[s].sentOk => row'[s] = row[s]
        /\ ~row[s].sentOk /\ m # 0 =>
              row'[s].sentOk /\ row'[s].state \in Success /\ row'[s].msg = m
        /\ ~row[s].sentOk /\ m = 0 =>
              ~row'[s].sentOk /\ row'[s].state \notin Success /\ row'[s].msg = row[s].msg
    BY <1>0, RecordedFacts
  <2>2. m # 0 => m \in 1 .. accepted[s]
    BY DEF ResultArguments
  <2> QED
    BY <1>0, <2>1, <2>2
<1> QED
  BY <1>1, <1>2, <1>3 DEF RowStep, RowWrite

LEMMA OnlyProofLeaves ==
    ASSUME TypeOK, GenuineInv, NEW s \in Signals, RowStep(s),
           row[s].state \in {"AMBIGUOUS", "BLOCKED"}, row'[s].state # row[s].state
    PROVE  row'[s].sentOk /\ row'[s].msg > 0
<1>0. /\ row[s] \in Rows
      /\ row[s].sentOk <=> row[s].state \in Success
      /\ row[s].state \in NoBlindRetry /\ row[s].state # NoState /\ ~row[s].sentOk
  BY DEF TypeOK, GenuineInv, NoBlindRetry, DeliveryStates, NoState, Success
<1>1. ~Ages(s) /\ row'[s] # row[s]
  BY <1>0 DEF Ages, Rows
<1>2. ~Reserves(s) /\ ~Blocks(s)
  BY <1>0 DEF Reserves, Blocks, Retryable, Exists
<1>3. ~Persists(s)
  BY <1>0 DEF Persists, Advanced, TransitionAllowed, Success, Rows
<1>4. CASE Records(s)
  <2> PICK m \in Nat, q \in DeliveryStates \cup {NoState}, e \in Errors :
              ResultArguments(s, m, q, e) /\ row'[s] = Recorded(row[s], m, q, e)
    BY <1>4 DEF Records
  <2> DEFINE t == Canonical(q, m # 0, e)
  <2>1. CASE m # 0
    BY <1>0, <2>1, RecordedFacts
  <2>2. CASE m = 0
    <3>1. t \notin Success
      BY <2>2, CanonicalSuccess
    <3> HIDE DEF t
    <3>2. TransitionAllowed(row[s].state, t, FALSE) => t = row[s].state
      BY <1>0, <3>1 DEF TransitionAllowed, Success
    <3>3. \/ row'[s] = row[s]
          \/ /\ TransitionAllowed(row[s].state, t, FALSE)
             /\ row'[s] = [row[s] EXCEPT !.state = t, !.waited = FALSE, !.error = e # "none"]
      BY <1>0, <2>2 DEF Recorded, t
    <3> QED
      BY <1>0, <3>2, <3>3 DEF Rows
  <2> QED
    BY <2>1, <2>2
<1> QED
  BY <1>1, <1>2, <1>3, <1>4 DEF RowStep, RowWrite

-----------------------------------------------------------------------------
(* The invariant on proofs. *)

LEMMA InitGenuine == Init => GenuineInv
BY DEF Init, GenuineInv, HeldByWorker, HeldByReconciler, NoRow, NoState, Success,
   IdleWorker, IdleRecon

\* Telegram never takes a message back.
LEMMA AcceptedGrows ==
    ASSUME TypeOK, [Next]_vars, NEW s \in Signals
    PROVE  accepted[s] <= accepted'[s] /\ accepted'[s] \in Nat
<1>1. ASSUME NEW u \in Signals, TelegramAccepts(u)
      PROVE  accepted[s] <= accepted'[s] /\ accepted'[s] \in Nat
  BY <1>1 DEF TelegramAccepts, TypeOK
<1>2. CASE UNCHANGED accepted
  BY <1>2 DEF TypeOK
<1>3. UNCHANGED accepted \/ \E u \in Signals : TelegramAccepts(u)
  <2>1. ASSUME NEW w \in Workers, SendAcknowledged(w) \/ SendTimesOut(w)
        PROVE  UNCHANGED accepted \/ \E u \in Signals : TelegramAccepts(u)
    <3>1. worker[w].sig \in Signals
      BY <2>1, TypeParts, BusyWorker DEF SendAcknowledged, SendTimesOut
    <3> QED
      BY <2>1, <3>1 DEF SendAcknowledged, SendTimesOut
  <2>2. CASE UNCHANGED vars
    BY <2>2 DEF vars
  <2>3. CASE ReconcilerStep \/ EnvironmentStep
    BY <2>3 DEF ReconcilerStep, ReconcileRead, ReconcileCommit, ReconcileFails,
       ReconcileAck, ReconcileAckFails, EnvironmentStep, RetryWindowElapses, CooldownEnds,
       OutcomeResolves, SignalRetires
  <2>4. ASSUME NEW w \in Workers, WorkerStep(w), ~SendAcknowledged(w), ~SendTimesOut(w)
        PROVE  UNCHANGED accepted
    BY <2>4 DEF WorkerStep, CheckDailyCap, ReserveGranted, BlockUnformattable,
       ReserveRefused, BeginValidation, PassChecks, FailChecks, BeginSending, SendRefused,
       StashReceipt, RecordResult, AcknowledgeReceipt, RepairByHand, SuppressUnreachable,
       Crash
  <2> QED
    BY <2>1, <2>2, <2>3, <2>4 DEF Next
<1> QED
  BY <1>1, <1>2, <1>3

\* A verdict reached on the way to Telegram, or a move after the result is known.
LEMMA WorkerMoves ==
    ASSUME TypeOK, GenuineInv, [Next]_vars, NEW w \in Workers, worker[w].sig \in Signals,
           \/ worker[w].msg = 0 /\ (\E p \in WorkerPcs : Goto(w, p))
           \/ worker[w].msg = 0 /\ (\E v \in Verdicts : Conclude(w, v))
           \/ worker[w].pc = "accepted" /\ Conclude(w, "sent")
           \/ worker[w].pc = "marking" /\ (Goto(w, "repairing") \/ Goto(w, "acking"))
           \/ Rest(w)
    PROVE  HeldByWorker(w)'
<1>1. /\ worker[w] \in WorkerStates
      /\ accepted[worker[w].sig] \in Nat
      /\ accepted[worker[w].sig] <= accepted'[worker[w].sig]
      /\ accepted'[worker[w].sig] \in Nat
  BY AcceptedGrows DEF TypeOK
<1>2. HeldByWorker(w)
  BY DEF GenuineInv
<1>3. worker \in [Workers -> WorkerStates]
  BY DEF TypeOK
<1>4. CASE Rest(w)
  BY <1>3, <1>4 DEF Rest, HeldByWorker, IdleWorker
<1>5. CASE ~Rest(w)
  <2>1. /\ worker'[w].sig = worker[w].sig
        /\ worker'[w].msg = worker[w].msg
    BY <1>1, <1>3, <1>5 DEF Goto, Conclude, WorkerStates
  <2>2. worker[w].msg # 0 =>
           /\ worker'[w].pc \in {"marking", "acking", "repairing"}
           /\ worker'[w].verdict = "sent"
    BY <1>1, <1>2, <1>3, <1>5 DEF Goto, Conclude, WorkerStates, HeldByWorker
  <2> QED
    BY <1>1, <1>2, <2>1, <2>2 DEF HeldByWorker, WorkerStates
<1> QED
  BY <1>4, <1>5

\* The worker that takes the step.
LEMMA ActorGenuine ==
    ASSUME TypeOK, GenuineInv, [Next]_vars, NEW w \in Workers, WorkerStep(w)
    PROVE  HeldByWorker(w)'
<1> USE TypeParts
<1>0. /\ worker \in [Workers -> WorkerStates]
      /\ HeldByWorker(w)
      /\ worker[w].pc # "idle" => worker[w].sig \in Signals
  BY DEF TypeOK, GenuineInv
<1>1. CASE \E s \in Signals : CheckDailyCap(w, s)
  BY <1>0, <1>1 DEF CheckDailyCap, HeldByWorker, IdleWorker
<1>2. CASE BlockUnformattable(w) \/ ReserveRefused(w) \/ AcknowledgeReceipt(w) \/ RepairByHand(w)
           \/ SuppressUnreachable(w) \/ Crash(w)
  <2>1. Rest(w)
    BY <1>2 DEF BlockUnformattable, ReserveRefused, AcknowledgeReceipt, RepairByHand,
       SuppressUnreachable, Crash
  <2> QED
    BY <1>0, <2>1 DEF Rest, HeldByWorker, IdleWorker
<1>3. CASE ReserveGranted(w) \/ BeginValidation(w) \/ PassChecks(w) \/ FailChecks(w)
           \/ BeginSending(w) \/ SendTimesOut(w) \/ SendRefused(w)
  <2>1. worker[w].pc \in {"admitted", "reserved", "validating", "clear", "sending"}
    BY <1>3 DEF ReserveGranted, BeginValidation, PassChecks, FailChecks, BeginSending,
       SendTimesOut, SendRefused
  <2>2. worker[w].msg = 0 /\ worker[w].sig \in Signals
    BY <1>0, <2>1 DEF HeldByWorker
  <2>3. \/ \E p \in {"reserved", "validating", "clear", "sending"} : Goto(w, p)
        \/ \E v \in {"skipped", "ambiguous", "failed", "unreachable"} : Conclude(w, v)
    BY <1>3 DEF ReserveGranted, BeginValidation, PassChecks, FailChecks, BeginSending,
       SendTimesOut, SendRefused
  <2>4. (\E p \in WorkerPcs : Goto(w, p)) \/ (\E v \in Verdicts : Conclude(w, v))
    BY <2>3 DEF WorkerPcs, Verdicts
  <2> QED
    BY <2>2, <2>4, WorkerMoves
<1>4. CASE SendAcknowledged(w)
  <2>1. worker[w].sig \in Signals /\ accepted \in [Signals -> Nat]
    BY <1>0, <1>4 DEF SendAcknowledged, TypeOK
  <2>2. worker'[w] = [worker[w] EXCEPT !.pc = "accepted", !.msg = accepted[worker[w].sig] + 1]
    BY <1>0, <1>4 DEF SendAcknowledged
  <2>3. /\ worker'[w].pc = "accepted"
        /\ worker'[w].sig = worker[w].sig
        /\ worker'[w].msg = accepted[worker[w].sig] + 1
    BY <1>0, <2>2 DEF WorkerStates
  <2>4. accepted'[worker[w].sig] = accepted[worker[w].sig] + 1
    BY <1>4, <2>1 DEF SendAcknowledged, TelegramAccepts
  <2> QED
    BY <2>1, <2>3, <2>4 DEF HeldByWorker
<1>5. CASE StashReceipt(w)
  BY <1>0, <1>5, WorkerMoves DEF StashReceipt
<1>6. CASE RecordResult(w)
  <2>1. worker[w].pc = "marking" /\ worker[w].sig \in Signals
    BY <1>0, <1>6 DEF RecordResult
  <2>2. (worker[w].verdict = "sent" /\ Goto(w, "acking")) \/ AfterUnproven(w)
    BY <1>6 DEF RecordResult
  <2>3. \/ Goto(w, "acking") \/ Goto(w, "repairing") \/ Rest(w)
        \/ worker[w].verdict = "unreachable" /\ Goto(w, "suppressing")
    BY <2>2 DEF AfterUnproven
  <2>4. worker[w].verdict = "unreachable" => worker[w].msg = 0
    BY <1>0, <2>1 DEF HeldByWorker
  <2>5. "suppressing" \in WorkerPcs
    BY DEF WorkerPcs
  <2> QED
    BY <2>1, <2>3, <2>4, <2>5, WorkerMoves
<1> QED
  BY <1>1, <1>2, <1>3, <1>4, <1>5, <1>6 DEF WorkerStep

\* Who moves: one worker alone.
LEMMA OneActor ==
    ASSUME TypeOK, [Next]_vars,
           NEW x \in Workers, worker'[x] # worker[x], NEW y \in Workers, worker'[y] # worker[y]
    PROVE  WorkerStep(x) /\ x = y
<1>1. ASSUME NEW w \in Workers, WorkerStep(w), NEW z \in Workers, w # z
      PROVE  worker'[z] = worker[z]
  <2>1. worker \in [Workers -> WorkerStates]
    BY DEF TypeOK
  <2> QED
    BY <1>1, <2>1 DEF WorkerStep, CheckDailyCap, ReserveGranted, BlockUnformattable,
       ReserveRefused, BeginValidation, PassChecks, FailChecks, BeginSending,
       SendAcknowledged, SendTimesOut, SendRefused, StashReceipt, RecordResult,
       AcknowledgeReceipt, RepairByHand, SuppressUnreachable, Crash, AfterUnproven, Goto,
       Conclude, Rest
<1>2. ReconcilerStep \/ EnvironmentStep \/ UNCHANGED vars => UNCHANGED worker
  BY DEF ReconcilerStep, ReconcileRead, ReconcileCommit, ReconcileFails, ReconcileAck,
     ReconcileAckFails, EnvironmentStep, RetryWindowElapses, CooldownEnds, OutcomeResolves,
     SignalRetires, vars
<1> QED
  BY <1>1, <1>2 DEF Next

LEMMA WorkersGenuine ==
    ASSUME TypeOK, GenuineInv, [Next]_vars, NEW x \in Workers
    PROVE  HeldByWorker(x)'
<1>0. worker \in [Workers -> WorkerStates] /\ HeldByWorker(x)
      /\ (worker[x].pc # "idle" => worker[x].sig \in Signals)
  BY DEF TypeOK, GenuineInv
<1>1. CASE worker'[x] = worker[x]
  <2>1. CASE worker[x].msg = 0
    BY <1>1, <2>1 DEF HeldByWorker
  <2>2. CASE worker[x].msg # 0
    <3>1. worker[x].sig \in Signals
      BY <1>0, <2>2 DEF HeldByWorker
    <3>2. /\ accepted[worker[x].sig] \in Nat
          /\ accepted[worker[x].sig] <= accepted'[worker[x].sig]
          /\ accepted'[worker[x].sig] \in Nat
      BY <3>1, AcceptedGrows DEF TypeOK
    <3>3. worker[x].msg \in Nat
      BY <1>0 DEF WorkerStates
    <3> QED
      BY <1>0, <1>1, <2>2, <3>2, <3>3 DEF HeldByWorker
  <2> QED
    BY <2>1, <2>2
<1> QED
  BY <1>1, OneActor, ActorGenuine

\* Only the reconciler moves itself.
LEMMA ReconMoves ==
    ASSUME [Next]_vars, ~ReconcilerStep
    PROVE  UNCHANGED recon
<1>1. ASSUME NEW w \in Workers, WorkerStep(w)
      PROVE  UNCHANGED recon
  BY <1>1 DEF WorkerStep, CheckDailyCap, ReserveGranted, BlockUnformattable,
     ReserveRefused, BeginValidation, PassChecks, FailChecks, BeginSending,
     SendAcknowledged, SendTimesOut, SendRefused, StashReceipt, RecordResult,
     AcknowledgeReceipt, RepairByHand, SuppressUnreachable, Crash
<1>2. CASE EnvironmentStep \/ UNCHANGED vars
  BY <1>2 DEF EnvironmentStep, RetryWindowElapses, CooldownEnds, OutcomeResolves,
     SignalRetires, vars
<1> QED
  BY <1>1, <1>2 DEF Next

\* A receipt, and the copy the reconciler works on, come from an acknowledgement.
LEMMA ReceiptsGenuine ==
    ASSUME TypeOK, GenuineInv, [Next]_vars
    PROVE  (\A s \in Signals : receipt'[s] \in 0 .. accepted'[s]) /\ HeldByReconciler'
<1> USE TypeParts
<1>0. /\ \A s \in Signals : /\ accepted[s] \in Nat /\ accepted'[s] \in Nat
                            /\ accepted[s] <= accepted'[s]
                            /\ receipt[s] \in Nat /\ receipt[s] \in 0 .. accepted[s]
      /\ receipt \in [Signals -> Nat]
      /\ HeldByReconciler
  BY AcceptedGrows DEF TypeOK, GenuineInv
<1>1. \A s \in Signals : receipt[s] \in 0 .. accepted'[s] /\ 0 \in 0 .. accepted'[s]
  BY <1>0
<1>2. CASE UNCHANGED recon
  <2>1. HeldByReconciler'
    <3>1. CASE recon.pc = "idle"
      BY <1>2, <3>1 DEF HeldByReconciler
    <3>2. CASE recon.pc # "idle"
      <4>1. recon.sig \in Signals /\ recon.msg \in Nat
        BY <3>2 DEF ReconOK, ReconStates
      <4> QED
        BY <1>0, <1>2, <4>1 DEF HeldByReconciler
    <3> QED
      BY <3>1, <3>2
  <2>2. CASE UNCHANGED receipt
    BY <1>1, <2>1, <2>2
  <2>3. ASSUME NEW w \in Workers, StashReceipt(w) \/ AcknowledgeReceipt(w)
        PROVE  \A s \in Signals : receipt'[s] \in 0 .. accepted'[s]
    <3>1. worker[w].sig \in Signals
      BY <2>3, BusyWorker DEF StashReceipt, AcknowledgeReceipt
    <3>2. StashReceipt(w) => /\ worker[w].msg \in Nat
                             /\ worker[w].msg \in 0 .. accepted[worker[w].sig]
      <4>1. ASSUME StashReceipt(w)
            PROVE  worker[w].msg \in Nat /\ HeldByWorker(w)
        BY <4>1, BusyWorker DEF StashReceipt, GenuineInv
      <4> QED
        BY <1>0, <3>1, <4>1 DEF HeldByWorker
    <3>3. StashReceipt(w) => worker[w].msg \in 0 .. accepted'[worker[w].sig]
      BY <1>0, <3>1, <3>2
    <3>4. \/ UNCHANGED receipt
          \/ \E m \in Nat : /\ receipt' = [receipt EXCEPT ![worker[w].sig] = m]
                            /\ m \in 0 .. accepted'[worker[w].sig]
      BY <1>1, <2>3, <3>1, <3>2, <3>3 DEF StashReceipt, AcknowledgeReceipt
    <3> QED
      BY <1>0, <1>1, <3>1, <3>4
  <2>4. ASSUME NEW w \in Workers, WorkerStep(w), ~StashReceipt(w), ~AcknowledgeReceipt(w)
        PROVE  UNCHANGED receipt
    BY <2>4 DEF WorkerStep, CheckDailyCap, ReserveGranted, BlockUnformattable,
       ReserveRefused, BeginValidation, PassChecks, FailChecks, BeginSending,
       SendAcknowledged, SendTimesOut, SendRefused, RecordResult, RepairByHand,
       SuppressUnreachable, Crash
  <2>5. CASE ReconcileAck
    BY <1>0, <1>1, <2>1, <2>5 DEF ReconcileAck
  <2>6. CASE (ReconcilerStep /\ ~ReconcileAck) \/ EnvironmentStep \/ UNCHANGED vars
    BY <2>2, <2>6 DEF ReconcilerStep, ReconcileRead, ReconcileCommit, ReconcileFails,
       ReconcileAckFails, EnvironmentStep, RetryWindowElapses, CooldownEnds,
       OutcomeResolves, SignalRetires, vars
  <2> QED
    BY <2>1, <2>2, <2>3, <2>4, <2>5, <2>6 DEF Next
<1>3. CASE ReconcilerStep
  <2>1. CASE \E s \in Signals : ReconcileRead(s)
    <3> PICK s \in Signals : ReconcileRead(s)
      BY <2>1
    <3>1. /\ recon'.sig = s /\ recon'.msg = receipt[s] /\ receipt[s] # 0
          /\ UNCHANGED receipt
      BY DEF ReconcileRead
    <3> QED
      BY <1>0, <1>1, <3>1 DEF HeldByReconciler
  <2>2. CASE ReconcileCommit
    <3>1. /\ recon'.sig = recon.sig /\ recon'.msg = recon.msg /\ recon.pc = "persisting"
          /\ UNCHANGED receipt
      BY <2>2 DEF ReconcileCommit, ReconOK, ReconStates
    <3>2. recon.sig \in Signals /\ recon.msg \in Nat
      BY <3>1 DEF ReconOK, ReconStates
    <3> QED
      BY <1>0, <1>1, <3>1, <3>2 DEF HeldByReconciler
  <2>3. CASE ReconcileFails \/ ReconcileAck \/ ReconcileAckFails
    <3>1. recon' = IdleRecon
      BY <2>3 DEF ReconcileFails, ReconcileAck, ReconcileAckFails
    <3>2. HeldByReconciler'
      BY <3>1 DEF HeldByReconciler, IdleRecon
    <3>3. \A s \in Signals : receipt'[s] \in 0 .. accepted'[s]
      BY <1>0, <1>1, <2>3 DEF ReconcileFails, ReconcileAck, ReconcileAckFails
    <3> QED
      BY <3>2, <3>3
  <2> QED
    BY <1>3, <2>1, <2>2, <2>3 DEF ReconcilerStep
<1> QED
  BY <1>2, <1>3, ReconMoves

LEMMA StepGenuine == TypeOK /\ GenuineInv /\ [Next]_vars => GenuineInv'
<1> SUFFICES ASSUME TypeOK, GenuineInv, [Next]_vars
             PROVE  GenuineInv'
  OBVIOUS
<1>1. ASSUME NEW s \in Signals
      PROVE  /\ row'[s].sentOk <=> row'[s].state \in Success
             /\ IF row'[s].sentOk THEN row'[s].msg \in 1 .. accepted'[s] ELSE row'[s].msg = 0
  <2>1. accepted[s] \in Nat /\ accepted'[s] \in Nat /\ accepted[s] <= accepted'[s]
    BY AcceptedGrows DEF TypeOK
  <2>2. RowStep(s)
    BY StepRow
  <2> QED
    BY <2>1, <2>2, RowFacts
<1> QED
  BY <1>1, WorkersGenuine, ReceiptsGenuine DEF GenuineInv

-----------------------------------------------------------------------------
(* The theorems. *)

\* The proofs of delivery in rows and receipts are genuine, whatever crashes,
\* times out, stalls or is replayed. (mark_signal_delivery_result, stash_sync)
THEOREM ProofsAreGenuine == Spec => []ProofIsGenuine
<1>1. Init => TypeOK /\ GenuineInv
  BY InitType, InitGenuine
<1>2. TypeOK /\ GenuineInv /\ [Next]_vars => TypeOK' /\ GenuineInv'
  BY StepType, StepGenuine
<1>3. GenuineInv => ProofIsGenuine
  BY DEF GenuineInv, ProofIsGenuine
<1> QED
  BY <1>1, <1>2, <1>3, PTL DEF Spec

\* A recorded proof is never replaced. (pg_features.py:2151-2167)
THEOREM ProofsArePermanent == Spec => ProofIsPermanent
<1>1. Init => TypeOK /\ GenuineInv
  BY InitType, InitGenuine
<1>2. TypeOK /\ GenuineInv /\ [Next]_vars => TypeOK' /\ GenuineInv'
  BY StepType, StepGenuine
<1>3. TypeOK /\ GenuineInv /\ [Next]_vars =>
        [\A s \in Signals :
            row[s].sentOk => /\ row'[s].sentOk
                             /\ row'[s].msg = row[s].msg
                             /\ row'[s].state = row[s].state]_vars
  BY StepRow, RowFacts
<1> QED
  BY <1>1, <1>2, <1>3, PTL DEF Spec, ProofIsPermanent

\* An ambiguous or blocked row is left only with a proof. (transition_allowed)
THEOREM AmbiguityIsAbsorbing == Spec => OnlyProofResolves
<1>1. Init => TypeOK /\ GenuineInv
  BY InitType, InitGenuine
<1>2. TypeOK /\ GenuineInv /\ [Next]_vars => TypeOK' /\ GenuineInv'
  BY StepType, StepGenuine
<1>3. TypeOK /\ GenuineInv /\ [Next]_vars =>
        [\A s \in Signals :
            row[s].state \in {"AMBIGUOUS", "BLOCKED"} /\ row'[s].state # row[s].state
               => row'[s].sentOk /\ row'[s].msg > 0]_vars
  BY StepRow, OnlyProofLeaves
<1> QED
  BY <1>1, <1>2, <1>3, PTL DEF Spec, OnlyProofResolves

-----------------------------------------------------------------------------
(***************************************************************************)
(* Receipts are kept until their signal is proven.  Whoever is about to    *)
(* forget one has seen a write with an acknowledgement go through, since a *)
(* verdict "sent" always goes with a message.                              *)
(***************************************************************************)

CarriesMessage(w) ==
    \/ worker[w].pc = "accepted"
    \/ worker[w].pc = "marking" /\ worker[w].verdict = "sent"

ForgetfulWorker(w) == /\ CarriesMessage(w) => worker[w].msg # 0
                      /\ worker[w].pc = "acking" => row[worker[w].sig].sentOk

KeptInv == /\ \A w \in Workers : ForgetfulWorker(w)
           /\ recon.pc = "acking" => row[recon.sig].sentOk

LEMMA InitKept == Init => KeptInv
BY DEF Init, KeptInv, ForgetfulWorker, CarriesMessage, IdleWorker, IdleRecon

\* A write with an acknowledgement proves its row.
LEMMA AcknowledgedProves ==
    ASSUME TypeOK, GenuineInv, NEW s \in Signals, NEW m \in Nat \ {0}, NEW q, NEW e,
           ResultArguments(s, m, q, e), PutRow(s, Recorded(row[s], m, q, e))
    PROVE  row'[s].sentOk
<1>1. row[s] \in Rows /\ (row[s].sentOk <=> row[s].state \in Success)
  BY DEF TypeOK, GenuineInv
<1>2. row'[s] = Recorded(row[s], m, q, e)
  BY PutRowStep
<1> QED
  BY <1>1, <1>2, RecordedFacts

LEMMA ProofStays ==
    ASSUME TypeOK, GenuineInv, [Next]_vars, NEW s \in Signals, row[s].sentOk
    PROVE  row'[s].sentOk
BY StepRow, RowFacts

LEMMA ActorForgets ==
    ASSUME TypeOK, GenuineInv, KeptInv, [Next]_vars, NEW w \in Workers, WorkerStep(w)
    PROVE  ForgetfulWorker(w)'
<1> USE TypeParts
<1>0. /\ worker \in [Workers -> WorkerStates]
      /\ ForgetfulWorker(w)
      /\ accepted \in [Signals -> Nat]
      /\ worker[w].pc # "idle" => worker[w].sig \in Signals
  BY DEF TypeOK, KeptInv
<1>1. CASE \E s \in Signals : CheckDailyCap(w, s)
  BY <1>0, <1>1 DEF CheckDailyCap, ForgetfulWorker, CarriesMessage, IdleWorker
<1>2. ASSUME Rest(w)
      PROVE  ForgetfulWorker(w)'
  BY <1>0, <1>2 DEF Rest, ForgetfulWorker, CarriesMessage, IdleWorker
<1>3. ASSUME NEW p \in {"reserved", "validating", "clear", "sending", "repairing",
                        "suppressing"}, Goto(w, p)
      PROVE  ForgetfulWorker(w)'
  BY <1>0, <1>3 DEF Goto, ForgetfulWorker, CarriesMessage, WorkerStates
<1>4. ASSUME NEW v \in {"skipped", "ambiguous", "failed", "unreachable"}, Conclude(w, v)
      PROVE  ForgetfulWorker(w)'
  BY <1>0, <1>4 DEF Conclude, ForgetfulWorker, CarriesMessage, WorkerStates
<1>5. CASE SendAcknowledged(w)
  <2>1. worker[w].sig \in Signals
    BY <1>0, <1>5 DEF SendAcknowledged
  <2>2. worker'[w] = [worker[w] EXCEPT !.pc = "accepted", !.msg = accepted[worker[w].sig] + 1]
    BY <1>0, <1>5 DEF SendAcknowledged
  <2>3. /\ worker'[w].pc = "accepted"
        /\ worker'[w].msg = accepted[worker[w].sig] + 1
    BY <1>0, <2>2 DEF WorkerStates
  <2> QED
    BY <1>0, <2>1, <2>3 DEF ForgetfulWorker
<1>6. CASE StashReceipt(w)
  BY <1>0, <1>6 DEF StashReceipt, Conclude, ForgetfulWorker, CarriesMessage, WorkerStates
<1>7. CASE RecordResult(w)
  <2> DEFINE v == worker[w].verdict
  <2>1. worker[w].pc = "marking" /\ worker[w].sig \in Signals /\ worker[w].msg \in Nat
    BY <1>0, <1>7, BusyWorker DEF RecordResult
  <2>2. \/ AfterUnproven(w)
        \/ /\ v = "sent" /\ Goto(w, "acking")
           /\ PutRow(worker[w].sig, Recorded(row[worker[w].sig], worker[w].msg, RawState(v),
                                             ErrorOf(v)))
    BY <1>7 DEF RecordResult
  <2>3. CASE AfterUnproven(w)
    BY <1>2, <1>3, <2>3 DEF AfterUnproven
  <2>4. CASE ~AfterUnproven(w)
    <3>1. worker[w].msg # 0
      BY <1>0, <2>1, <2>2, <2>4 DEF ForgetfulWorker, CarriesMessage
    <3>2. row'[worker[w].sig].sentOk
      BY <2>1, <2>2, <2>4, <3>1, VerdictArguments, AcknowledgedProves
    <3>3. worker'[w].pc = "acking" /\ worker'[w].sig = worker[w].sig
      BY <1>0, <2>2, <2>4 DEF Goto, WorkerStates
    <3> QED
      BY <3>2, <3>3 DEF ForgetfulWorker, CarriesMessage
  <2> QED
    BY <2>3, <2>4
<1> QED
  BY <1>1, <1>2, <1>3, <1>4, <1>5, <1>6, <1>7
  DEF WorkerStep, ReserveGranted, BlockUnformattable, ReserveRefused, BeginValidation,
      PassChecks, FailChecks, BeginSending, SendTimesOut, SendRefused, AcknowledgeReceipt,
      RepairByHand, SuppressUnreachable, Crash

LEMMA WorkersForget ==
    ASSUME TypeOK, GenuineInv, KeptInv, [Next]_vars, NEW x \in Workers
    PROVE  ForgetfulWorker(x)'
<1>1. CASE worker'[x] = worker[x]
  <2>1. ForgetfulWorker(x) /\ (worker[x].pc = "acking" => worker[x].sig \in Signals)
    BY DEF KeptInv, TypeOK
  <2> QED
    BY <1>1, <2>1, ProofStays DEF ForgetfulWorker, CarriesMessage
<1>2. CASE worker'[x] # worker[x]
  BY <1>2, OneActor, ActorForgets
<1> QED
  BY <1>1, <1>2

LEMMA ReconcilerForgets ==
    ASSUME TypeOK, GenuineInv, KeptInv, [Next]_vars, recon'.pc = "acking"
    PROVE  row'[recon'.sig].sentOk
<1>0. ReconOK /\ (recon.pc = "acking" => row[recon.sig].sentOk)
  BY TypeParts DEF KeptInv
<1>1. CASE UNCHANGED recon
  BY <1>0, <1>1, ProofStays DEF ReconOK
<1>2. CASE ReconcilerStep /\ ~UNCHANGED recon
  <2>1. ReconcileCommit
    BY <1>0, <1>2 DEF ReconcilerStep, ReconcileRead, ReconcileFails, ReconcileAck,
       ReconcileAckFails, IdleRecon
  <2>2. /\ recon.sig \in Signals /\ recon.msg \in Nat \ {0}
        /\ ResultArguments(recon.sig, recon.msg, "RECONCILED", "none")
    <3>1. recon.sig \in Signals /\ recon.msg \in Nat /\ recon.msg \in 1 .. accepted[recon.sig]
      BY <1>0, <2>1 DEF ReconcileCommit, ReconOK, ReconStates, GenuineInv, HeldByReconciler
    <3> QED
      BY <3>1 DEF ResultArguments, TypeOK
  <2>3. PutRow(recon.sig, Recorded(row[recon.sig], recon.msg, "RECONCILED", "none"))
    BY <2>1, ArgumentTypes DEF ReconcileCommit, ReconcileWrite
  <2>4. row'[recon.sig].sentOk
    BY <2>2, <2>3, AcknowledgedProves
  <2>5. recon'.sig = recon.sig
    BY <1>0, <2>1 DEF ReconcileCommit, ReconOK, ReconStates
  <2> QED
    BY <2>4, <2>5
<1> QED
  BY <1>1, <1>2, ReconMoves

LEMMA StepKept == TypeOK /\ GenuineInv /\ KeptInv /\ [Next]_vars => KeptInv'
BY WorkersForget, ReconcilerForgets DEF KeptInv

\* Two handlers delete a receipt, both once its row is proven.
LEMMA ForgottenOnceProven ==
    ASSUME TypeOK, GenuineInv, KeptInv, [Next]_vars,
           NEW s \in Signals, receipt[s] # 0, receipt'[s] = 0
    PROVE  row[s].sentOk
<1> USE TypeParts
<1>0. receipt \in [Signals -> Nat]
  BY DEF TypeOK
<1>1. ASSUME NEW w \in Workers, WorkerStep(w)
      PROVE  row[s].sentOk
  <2>1. CASE AcknowledgeReceipt(w)
    BY <1>0, <2>1 DEF AcknowledgeReceipt, KeptInv, ForgetfulWorker
  <2>2. CASE StashReceipt(w)
    <3>1. worker[w].msg # 0
      BY <2>2 DEF StashReceipt, KeptInv, ForgetfulWorker, CarriesMessage
    <3> QED
      BY <1>0, <2>2, <3>1 DEF StashReceipt
  <2>3. CASE UNCHANGED receipt
    BY <2>3
  <2> QED
    BY <1>1, <2>1, <2>2, <2>3 DEF WorkerStep, CheckDailyCap, ReserveGranted,
       BlockUnformattable, ReserveRefused, BeginValidation, PassChecks, FailChecks,
       BeginSending, SendAcknowledged, SendTimesOut, SendRefused, RecordResult, RepairByHand,
       SuppressUnreachable, Crash
<1>2. CASE ReconcilerStep
  <2>1. ReconcileAck
    BY <1>2 DEF ReconcilerStep, ReconcileRead, ReconcileCommit, ReconcileFails,
       ReconcileAckFails
  <2> QED
    BY <1>0, <2>1 DEF ReconcileAck, KeptInv
<1>3. CASE EnvironmentStep \/ UNCHANGED vars
  BY <1>3 DEF EnvironmentStep, RetryWindowElapses, CooldownEnds, OutcomeResolves,
     SignalRetires, vars
<1> QED
  BY <1>1, <1>2, <1>3 DEF Next

\* No acknowledgement is forgotten before its signal is proven: the safety half
\* of what the reconciler promises. (delivery/worker.py, ReceiptStore.acknowledge)
THEOREM ReceiptsAreKept == Spec => ReceiptKept
<1>1. Init => TypeOK /\ GenuineInv /\ KeptInv
  BY InitType, InitGenuine, InitKept
<1>2. TypeOK /\ GenuineInv /\ KeptInv /\ [Next]_vars => TypeOK' /\ GenuineInv' /\ KeptInv'
  BY StepType, StepGenuine, StepKept
<1>3. TypeOK /\ GenuineInv /\ KeptInv /\ [Next]_vars =>
        [\A s \in Signals : receipt[s] # 0 /\ receipt'[s] = 0 => row[s].sentOk]_vars
  BY ForgottenOnceProven
<1> QED
  BY <1>1, <1>2, <1>3, PTL DEF Spec, ReceiptKept
=============================================================================
