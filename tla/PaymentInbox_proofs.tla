------------------------- MODULE PaymentInbox_proofs -------------------------
(***************************************************************************)
(* Theorems of PaymentInbox, for any events, workers and attempts.         *)
(***************************************************************************)
EXTENDS PaymentInbox, TLAPS

-----------------------------------------------------------------------------
(* The inductive invariant. *)

\* An effect has its record: the payment event of a subscription, the marker of
\* extra signals.
Recorded(e) == IF kind[e] = "subscription" THEN e \in payments ELSE e \in marker

EffectInv == \A e \in Events : applied[e] > 0 <=> Recorded(e)

\* What a worker is about, what it has done, and whose lock keeps what it read.
WorkInv ==
    \A w \in Workers :
       /\ worker[w].pc \in {"paying", "paid", "granting"} => kind[worker[w].event] = "subscription"
       /\ worker[w].pc = "granting" /\ worker[w].seen > 0 => lock = w /\ until = worker[w].seen
       /\ worker[w].pc \in {"credit", "credited"} => kind[worker[w].event] = "extra"
       /\ worker[w].pc \in {"credited", "processed"} => applied[worker[w].event] > 0

IInv == TypeOK /\ EffectInv /\ WorkInv /\ SucceededIsApplied

\* One insert of a reference at a time.
Inserts(w) == worker[w].pc \in {"paid", "granting"}

OneInsert ==
    \A v, w \in Workers :
       v # w /\ Inserts(v) /\ Inserts(w) /\ worker[v].event = worker[w].event =>
          worker[w].event \in payments

-----------------------------------------------------------------------------
(* What the helpers of a worker do. *)

PCs == {"idle", "looked", "process", "paying", "paid", "granting", "credit", "credited", "processed",
        "failed"}

Others(w) == \A v \in Workers : v # w => worker'[v] = worker[v]

LEMMA GoEffect ==
    ASSUME worker \in [Workers -> WorkerStates], NEW w \in Workers, NEW pc \in PCs, Go(w, pc)
    PROVE  /\ worker' \in [Workers -> WorkerStates]
           /\ worker'[w].pc = pc /\ worker'[w].event = worker[w].event
           /\ worker'[w].seen = worker[w].seen /\ worker'[w].redo = worker[w].redo
           /\ Others(w)
  BY DEF Go, WorkerStates, PCs, Others

Fields == [pc : PCs, event : Events \cup {NoEvent}, stored : BOOLEAN, seen : Nat, redo : BOOLEAN]

LEMMA FieldsAreStates == WorkerStates = Fields
  BY DEF WorkerStates, Fields, PCs

LEMMA RecordTyped ==
    ASSUME NEW pc \in PCs, NEW e \in Events \cup {NoEvent}, NEW stored \in BOOLEAN,
           NEW seen \in Nat, NEW redo \in BOOLEAN
    PROVE  [pc |-> pc, event |-> e, stored |-> stored, seen |-> seen, redo |-> redo] \in WorkerStates
  <1>1. [pc |-> pc, event |-> e, stored |-> stored, seen |-> seen, redo |-> redo]
           \in [pc : PCs, event : Events \cup {NoEvent}, stored : BOOLEAN, seen : Nat, redo : BOOLEAN]
    BY Zenon
  <1> QED BY <1>1, FieldsAreStates DEF Fields

LEMMA BegunTyped ==
    ASSUME NEW pc \in PCs, NEW e \in Events \cup {NoEvent}, NEW stored \in BOOLEAN
    PROVE  /\ Begun(pc, e, stored) \in WorkerStates
           /\ Begun(pc, e, stored).pc = pc /\ Begun(pc, e, stored).event = e
           /\ Begun(pc, e, stored).seen = 0 /\ Begun(pc, e, stored).redo = FALSE
  <1>1. 0 \in Nat /\ FALSE \in BOOLEAN OBVIOUS
  <1>2. Begun(pc, e, stored) \in WorkerStates BY <1>1, RecordTyped DEF Begun
  <1> QED BY <1>2 DEF Begun

LEMMA IdleTyped ==
    Idle \in WorkerStates /\ Idle.pc = "idle" /\ Idle.event = NoEvent /\ Idle.redo = FALSE
  <1>1. "idle" \in PCs /\ NoEvent \in Events \cup {NoEvent} /\ FALSE \in BOOLEAN BY DEF PCs
  <1> QED BY <1>1, BegunTyped, Zenon DEF Idle

LEMMA StopEffect ==
    ASSUME worker \in [Workers -> WorkerStates], NEW w \in Workers, Stop(w)
    PROVE  /\ worker' \in [Workers -> WorkerStates] /\ Others(w)
           /\ worker'[w].pc = "idle" /\ worker'[w].event = NoEvent /\ ~worker'[w].redo
  BY IdleTyped DEF Stop, Others

\* Who is at work has an event.
LEMMA AtWork ==
    ASSUME TypeOK, NEW w \in Workers, worker[w].pc # "idle"
    PROVE  worker[w].event \in Events /\ worker[w].seen \in Nat
  BY DEF TypeOK, WorkerStates

LEMMA LookedTyped ==
    ASSUME TypeOK, NEW e \in Events
    PROVE  /\ Looked(e) \in WorkerStates /\ Looked(e).pc = "looked" /\ Looked(e).event = e
           /\ Looked(e).redo => e \in Tried
  <1>1. Looked(e) = [pc |-> "looked", event |-> e, stored |-> TRUE, seen |-> attempts[e],
                     redo |-> status[e] = "processing"]
    BY DEF Looked
  <1>2. attempts[e] \in Nat BY DEF TypeOK
  <1>b. (status[e] = "processing") \in BOOLEAN BY Zenon
  <1>3. "looked" \in PCs /\ TRUE \in BOOLEAN /\ e \in Events \cup {NoEvent} BY DEF PCs
  <1>4. Looked(e) \in WorkerStates BY <1>1, <1>2, <1>b, <1>3, RecordTyped, Zenon
  <1>5. Looked(e).redo = (status[e] = "processing") BY Zenon DEF Looked
  <1>6. Looked(e).redo => e \in Tried BY <1>5, Zenon DEF Tried
  <1>7. Looked(e).pc = "looked" /\ Looked(e).event = e BY <1>1
  <1> QED BY <1>4, <1>6, <1>7

LEMMA StartEffect ==
    ASSUME TypeOK, NEW w \in Workers, NEW e \in Events, Look(w, e) \/ Confirm(w, e)
    PROVE  /\ worker' \in [Workers -> WorkerStates] /\ Others(w)
           /\ worker'[w].pc \in {"looked", "process"} /\ worker'[w].event \in Events
           /\ worker'[w].redo => worker'[w].event \in Tried
  <1>1. CASE Look(w, e)
    <2>1. worker' = [worker EXCEPT ![w] = Looked(e)] BY <1>1 DEF Look
    <2> QED BY <2>1, LookedTyped DEF TypeOK, Others
  <1>2. CASE Confirm(w, e)
    <2>1. worker' = [worker EXCEPT ![w] = Begun("process", e, FALSE)] BY <1>2 DEF Confirm
    <2>2. Begun("process", e, FALSE) \in WorkerStates /\ Begun("process", e, FALSE).pc = "process"
          /\ Begun("process", e, FALSE).event = e /\ Begun("process", e, FALSE).redo = FALSE
      <3>1. "process" \in PCs /\ e \in Events \cup {NoEvent} /\ FALSE \in BOOLEAN BY DEF PCs
      <3> QED BY <3>1, BegunTyped, Zenon
    <2> QED BY <2>1, <2>2 DEF TypeOK, Others
  <1> QED BY <1>1, <1>2

LEMMA ClaimEffect ==
    ASSUME TypeOK, NEW w \in Workers, Claim(w)
    PROVE  /\ worker' \in [Workers -> WorkerStates] /\ Others(w)
           /\ worker'[w].pc = "process" /\ worker'[w].event = worker[w].event
           /\ worker[w].event \in Events /\ worker[w].seen \in Nat /\ ~worker'[w].redo
  <1> DEFINE e == worker[w].event
  <1>1. worker' = [worker EXCEPT ![w] = Begun("process", e, TRUE)] BY DEF Claim
  <1>2. e \in Events /\ worker[w].seen \in Nat BY AtWork DEF Claim, Doing
  <1>3. Begun("process", e, TRUE) \in WorkerStates /\ Begun("process", e, TRUE).pc = "process"
        /\ Begun("process", e, TRUE).event = e /\ Begun("process", e, TRUE).redo = FALSE
    <2>1. "process" \in PCs /\ e \in Events \cup {NoEvent} /\ TRUE \in BOOLEAN BY <1>2 DEF PCs
    <2> QED BY <2>1, BegunTyped, Zenon
  <1> QED BY <1>1, <1>2, <1>3 DEF TypeOK, Others

LEMMA ReadEffect ==
    ASSUME TypeOK, NEW w \in Workers, ReadAccess(w)
    PROVE  /\ worker' \in [Workers -> WorkerStates] /\ Others(w)
           /\ worker'[w].pc = "granting" /\ worker'[w].event = worker[w].event
           /\ worker'[w].seen = until /\ worker'[w].redo = worker[w].redo
  BY DEF TypeOK, ReadAccess, WorkerStates, Others

-----------------------------------------------------------------------------
(* Types. *)

LEMMA TypeInit == ASSUME Init PROVE TypeOK
  <1>1. worker \in [Workers -> WorkerStates] BY IdleTyped DEF Init
  <1> QED BY <1>1, IdleTyped DEF Init, TypeOK, Tried

\* What a step of one worker leaves to show.
LEMMA TypeOfStep ==
    ASSUME TypeOK, NEW w \in Workers, worker' \in [Workers -> WorkerStates], Others(w),
           (worker'[w].pc = "idle") <=> (worker'[w].event = NoEvent),
           worker'[w].redo => worker'[w].event \in Tried', Tried \subseteq Tried',
           kind' = kind, payments' \subseteq Events, marker' \subseteq Events,
           applied' \in [Events -> Nat], until' \in Nat,
           started' \subseteq payments',
           status' \in [Events -> {"absent", "pending", "processing", "succeeded", "failed"}],
           attempts' \in [Events -> Nat],
           \A e \in Events \ Tried' : attempts'[e] = 0,
           lock' \in {lock, Nobody} \/ (lock' = w /\ worker'[w].pc = "granting"),
           lock = w => lock' = Nobody \/ worker'[w].pc = "granting"
    PROVE  TypeOK'
  BY PaymentAssumption DEF TypeOK, Others

LEMMA GrantTyped ==
    ASSUME TypeOK, NEW w \in Workers, worker[w].pc # "idle",
           Grant(w) \/ UNCHANGED <<payments, started, applied, until>>
    PROVE  /\ payments' \subseteq Events /\ applied' \in [Events -> Nat] /\ until' \in Nat
           /\ started' \subseteq payments'
  <1>1. worker[w].event \in Events /\ worker[w].seen \in Nat BY AtWork
  <1> QED BY <1>1 DEF Grant, Extend, TypeOK

\* The steps that only move on, or touch extra signals.
Plain(w) == \/ Reject(w) \/ AlreadyPaid(w) \/ NotYetPaid(w) \/ RecordPayment(w) \/ DuplicatePayment(w)
            \/ AlreadyStarted(w) \/ RecordExtra(w) \/ CreditExtra(w) \/ CreditFails(w) \/ FinishExtra(w)

LEMMA TypeWorker ==
    ASSUME TypeOK, NEW w \in Workers, Start(w) \/ Advance(w) \/ WorkerDies(w)
    PROVE  TypeOK'
  <1> USE DEF TypeOK, Doing
  <1>n. NoEvent \notin Events BY PaymentAssumption
  <1>1. CASE Start(w)
    <2>1. PICK e \in Events : Look(w, e) \/ Confirm(w, e) BY <1>1 DEF Start
    <2>2. UNCHANGED <<kind, status, attempts, payments, started, applied, marker, until, lock>>
          /\ worker[w].pc = "idle" /\ Tried' = Tried
      BY <2>1 DEF Look, Confirm, inboxVars, effectVars, Tried
    <2> QED BY <2>1, <2>2, <1>n, StartEffect, TypeOfStep
  <1>2. CASE ReadAccess(w)
    <2>1. UNCHANGED <<kind, status, attempts, payments, started, applied, marker, until>>
          /\ lock' \in {w, Nobody} /\ lock = Nobody /\ worker[w].pc = "paid" /\ Tried' = Tried
      BY <1>2 DEF ReadAccess, inboxVars, Tried
    <2>2. worker[w].event \in Events BY <2>1, AtWork
    <2> QED BY <1>2, <2>1, <2>2, <1>n, PaymentAssumption, ReadEffect, TypeOfStep
  <1>3. CASE Claim(w)
    <2>1. worker[w].event \in Events /\ worker[w].seen \in Nat
          /\ worker'[w].pc = "process" /\ worker'[w].event = worker[w].event /\ Others(w)
          /\ worker' \in [Workers -> WorkerStates] /\ ~worker'[w].redo
      BY <1>3, ClaimEffect
    <2>2. lock # w BY <1>3, PaymentAssumption DEF Claim
    <2>3. attempts' \in [Events -> Nat] BY <1>3, <2>1 DEF Claim
    <2>4. status' \in [Events -> {"absent", "pending", "processing", "succeeded", "failed"}]
      BY <1>3, <2>1 DEF Claim
    <2>5. Tried \subseteq Tried' /\ worker[w].event \in Tried'
      <3>1. CASE worker[w].redo BY <1>3, <3>1, <2>1 DEF Claim, Tried
      <3>2. CASE ~worker[w].redo
        <4>1. status' = [status EXCEPT ![worker[w].event] = "processing"] BY <1>3, <3>2 DEF Claim
        <4> QED BY <4>1, <2>1 DEF Tried
      <3> QED BY <3>1, <3>2
    <2>6. \A e \in Events \ Tried' : attempts'[e] = 0
      <3>1. ASSUME NEW e \in Events \ Tried' PROVE attempts'[e] = 0
        <4>1. e \notin Tried /\ e # worker[w].event BY <2>5
        <4>2. attempts[e] = 0 BY <4>1
        <4> QED BY <1>3, <2>1, <4>1, <4>2 DEF Claim
      <3> QED BY <3>1
    <2>7. UNCHANGED <<kind, payments, started, applied, marker, until, lock>>
      BY <1>3 DEF Claim, effectVars
    <2>8. (worker'[w].pc = "idle") <=> (worker'[w].event = NoEvent) BY <2>1, <1>n
    <2> QED BY <2>1, <2>2, <2>3, <2>4, <2>5, <2>6, <2>7, <2>8, TypeOfStep
  <1>4. CASE Complete(w)
    <2>1. worker[w].event \in Events /\ lock # w BY <1>4, AtWork, PaymentAssumption DEF Complete
    <2>2. /\ status' \in [Events -> {"absent", "pending", "processing", "succeeded", "failed"}]
          /\ Tried \subseteq Tried' /\ \A e \in Events \ Tried' : attempts[e] = 0
      BY <1>4, <2>1 DEF Complete, Tried
    <2> QED BY <1>4, <2>1, <2>2, StopEffect, TypeOfStep DEF Complete, effectVars
  <1>5. CASE WorkerDies(w)
    <2>1. lock' \in {lock, Nobody} /\ (lock = w => lock' = Nobody) /\ Tried' = Tried
      BY <1>5 DEF WorkerDies, Unlock, Tried, inboxVars
    <2> QED BY <1>5, <2>1, StopEffect, TypeOfStep DEF WorkerDies, inboxVars
  <1>6. CASE CommitGrant(w) \/ GrantFails(w)
    <2>1. PICK pc \in {"processed", "failed"} : Go(w, pc) BY <1>6 DEF CommitGrant, GrantFails
    <2>2. worker[w].pc # "idle" /\ worker[w].event \in Events
      BY <1>6, AtWork DEF CommitGrant, GrantFails
    <2>3. Grant(w) \/ UNCHANGED <<payments, started, applied, until>>
      BY <1>6 DEF CommitGrant, GrantFails
    <2>4. lock' \in {lock, Nobody} /\ (lock = w => lock' = Nobody) /\ Tried' = Tried
      BY <1>6 DEF CommitGrant, GrantFails, Unlock, Tried, inboxVars
    <2>5. worker'[w].pc = pc /\ worker'[w].event = worker[w].event /\ Others(w)
          /\ worker' \in [Workers -> WorkerStates] /\ worker'[w].redo = worker[w].redo
      BY <2>1, GoEffect DEF PCs
    <2> QED BY <1>6, <2>2, <2>3, <2>4, <2>5, <1>n, GrantTyped, TypeOfStep
            DEF CommitGrant, GrantFails, inboxVars
  <1>7. CASE Plain(w)
    <2>1. PICK pc \in PCs \ {"idle", "granting"} : Go(w, pc)
      BY <1>7 DEF Plain, Reject, AlreadyPaid, NotYetPaid, RecordPayment, DuplicatePayment,
                    AlreadyStarted, RecordExtra, CreditExtra, CreditFails, FinishExtra, PCs
    <2>2. worker[w].pc \notin {"idle", "granting"}
      BY <1>7 DEF Plain, Reject, AlreadyPaid, NotYetPaid, RecordPayment, DuplicatePayment,
                    AlreadyStarted, RecordExtra, CreditExtra, CreditFails, FinishExtra
    <2>3. worker[w].event \in Events BY <2>2, AtWork
    <2>4. lock # w BY <2>2, PaymentAssumption
    <2>5. worker'[w].pc = pc /\ worker'[w].event = worker[w].event /\ Others(w)
          /\ worker' \in [Workers -> WorkerStates] /\ worker'[w].redo = worker[w].redo
      BY <2>1, GoEffect
    <2>6. UNCHANGED <<kind, status, attempts, started, until, lock>> /\ Tried' = Tried
      BY <1>7 DEF Plain, Reject, AlreadyPaid, NotYetPaid, RecordPayment, DuplicatePayment, AlreadyStarted,
                    RecordExtra, CreditExtra, CreditFails, FinishExtra, inboxVars, effectVars, Tried
    <2>7. payments' \subseteq Events /\ marker' \subseteq Events /\ applied' \in [Events -> Nat]
          /\ started' \subseteq payments'
      BY <1>7, <2>3 DEF Plain, Reject, AlreadyPaid, NotYetPaid, RecordPayment, DuplicatePayment,
                    AlreadyStarted, RecordExtra, CreditExtra, CreditFails, FinishExtra, effectVars
    <2> QED BY <2>1, <2>3, <2>4, <2>5, <2>6, <2>7, <1>n, TypeOfStep
  <1> QED BY <1>1, <1>2, <1>3, <1>4, <1>5, <1>6, <1>7 DEF Advance, Process, Plain

LEMMA TypeStep == ASSUME TypeOK, [Next]_vars PROVE TypeOK'
  <1>1. CASE UNCHANGED vars BY <1>1 DEF vars, inboxVars, effectVars, TypeOK, Tried
  <1>2. ASSUME NEW e \in Events, Ingest(e) PROVE TypeOK'
    <2>1. Tried' = Tried BY <1>2 DEF Ingest, TypeOK, Tried
    <2>2. \A f \in Events \ Tried' : attempts'[f] = 0 BY <1>2, <2>1 DEF Ingest, TypeOK
    <2> QED BY <1>2, <2>1, <2>2 DEF Ingest, effectVars, TypeOK
  <1> QED BY <1>1, <1>2, TypeWorker DEF Next

\* In every state of every behaviour the variables have their types: see TypeOK.
THEOREM TypeCorrect == Spec => []TypeOK
  BY TypeInit, TypeStep, PTL DEF Spec

-----------------------------------------------------------------------------
(* Effects and their records. *)

LEMMA EffectInit == ASSUME Init PROVE EffectInv /\ WorkInv /\ SucceededIsApplied
  <1>1. \A w \in Workers : worker[w].pc = "idle" BY IdleTyped DEF Init
  <1> QED BY <1>1 DEF Init, EffectInv, Recorded, WorkInv, SucceededIsApplied

\* A step that gives nothing, for what the worker will be about.
LEMMA NothingGiven ==
    ASSUME IInv, NEW w \in Workers, Others(w), UNCHANGED <<kind, payments, applied, marker, until>>,
           worker'[w].pc \notin {"paying", "paid", "granting", "credit", "credited", "processed"},
           lock' = lock \/ (lock = w /\ lock' = Nobody),
           \A e \in Events : status'[e] = "succeeded" => status[e] = "succeeded" \/ applied[e] > 0
    PROVE  EffectInv' /\ WorkInv' /\ SucceededIsApplied'
  BY DEF IInv, EffectInv, Recorded, WorkInv, SucceededIsApplied, Others

\* A purchase goes on, its worker having something to show for it.
LEMMA NothingGivenYet ==
    ASSUME IInv, NEW w \in Workers, Others(w), UNCHANGED <<kind, status, payments, applied, marker, until, lock>>,
           worker'[w].event = worker[w].event, worker[w].event \in Events,
           \/ worker'[w].pc \in {"paying", "paid"} /\ kind[worker[w].event] = "subscription"
           \/ worker'[w].pc = "processed" /\ applied[worker[w].event] > 0
    PROVE  EffectInv' /\ WorkInv' /\ SucceededIsApplied'
  BY DEF IInv, EffectInv, Recorded, WorkInv, SucceededIsApplied, Others

\* A purchase commits, or not: what it read of an active subscription is still so.
LEMMA EffectGrant ==
    ASSUME IInv, NEW w \in Workers, CommitGrant(w) \/ GrantFails(w)
    PROVE  EffectInv' /\ WorkInv' /\ SucceededIsApplied'
  <1> DEFINE e == worker[w].event
  <1> USE DEF IInv
  <1>1. worker[w].pc \in {"paying", "paid", "granting"} /\ e \in Events /\ worker[w].seen \in Nat
    BY AtWork DEF CommitGrant, GrantFails, Doing
  <1>2. PICK pc \in {"processed", "failed"} : Go(w, pc) /\ (pc = "processed" <=> CommitGrant(w))
    <2>1. ~(Go(w, "processed") /\ Go(w, "failed")) BY GoEffect DEF TypeOK, PCs
    <2> QED BY <2>1 DEF CommitGrant, GrantFails
  <1>3. worker'[w].pc = pc /\ worker'[w].event = e /\ Others(w)
    BY <1>2, GoEffect DEF TypeOK, PCs
  <1>4. kind[e] = "subscription" BY <1>1 DEF WorkInv
  <1>5. /\ UNCHANGED <<kind, marker, status>>
        /\ lock' = (IF lock = w THEN Nobody ELSE lock)
        /\ (worker[w].pc = "granting" /\ Grant(w)) \/ UNCHANGED <<payments, applied, until>>
    BY DEF CommitGrant, GrantFails, inboxVars, Unlock, Doing
  <1>6. EffectInv' /\ (\A f \in Events : applied'[f] \in Nat /\ applied'[f] >= applied[f])
    BY <1>1, <1>4, <1>5 DEF EffectInv, Recorded, Grant, TypeOK
  <1>7. CommitGrant(w) => applied'[e] > 0
    <2>1. e \in payments' => applied'[e] > 0 BY <1>1, <1>4, <1>5, <1>6 DEF EffectInv, Recorded
    <2> QED BY <2>1 DEF CommitGrant, Grant
  <1>8. ASSUME NEW v \in Workers, v # w, worker[v].pc = "granting", worker[v].seen > 0
        PROVE  lock' = v /\ until' = worker[v].seen
    <2>1. lock = v /\ until = worker[v].seen BY <1>8 DEF WorkInv
    <2>2. worker[w].pc = "granting" => ~(worker[w].seen > 0) BY <1>1, <1>8, <2>1 DEF WorkInv
    <2>3. worker[w].pc = "granting" => worker[w].seen < until
      BY <1>1, <2>1, <2>2, <1>8, AtWork DEF TypeOK
    <2> QED BY <1>5, <1>8, <2>1, <2>3 DEF Grant, Extend
  <1>9. WorkInv'
    <2>1. \A v \in Workers : worker[v].pc # "idle" => worker[v].event \in Events BY AtWork
    <2>2. \A v \in Workers : worker[v].pc = "processed" \/ worker[v].pc = "credited" =>
             applied'[worker[v].event] > 0
      BY <2>1, <1>6 DEF WorkInv, TypeOK
    <2> QED BY <1>2, <1>3, <1>5, <1>7, <1>8, <2>2 DEF WorkInv, Others
  <1>10. SucceededIsApplied' BY <1>5, <1>6 DEF SucceededIsApplied, TypeOK
  <1> QED BY <1>6, <1>9, <1>10

\* Extra signals: the payment event does not count, the marker does.
LEMMA EffectCredit ==
    ASSUME IInv, NEW w \in Workers, RecordExtra(w) \/ CreditExtra(w) \/ CreditFails(w) \/ FinishExtra(w)
    PROVE  EffectInv' /\ WorkInv' /\ SucceededIsApplied'
  <1> DEFINE e == worker[w].event
  <1> USE DEF IInv, Doing
  <1>1. e \in Events /\ kind[e] = "extra"
    BY AtWork DEF RecordExtra, CreditExtra, CreditFails, FinishExtra, WorkInv
  <1>2. UNCHANGED <<kind, until, lock, status>>
    BY DEF RecordExtra, CreditExtra, CreditFails, FinishExtra, inboxVars, effectVars
  <1>3. PICK pc \in {"credit", "credited", "processed", "failed"} : Go(w, pc)
    BY DEF RecordExtra, CreditExtra, CreditFails, FinishExtra
  <1>4. worker'[w].pc = pc /\ worker'[w].event = e /\ Others(w) BY <1>3, GoEffect DEF TypeOK, PCs
  <1>5. EffectInv' /\ (\A f \in Events : applied'[f] \in Nat /\ applied'[f] >= applied[f])
    BY <1>1, <1>2 DEF RecordExtra, CreditExtra, CreditFails, FinishExtra, effectVars, EffectInv, Recorded,
                      TypeOK
  <1>6. worker'[w].pc \in {"credited", "processed"} => applied'[e] > 0
    <2>1. CASE RecordExtra(w) \/ CreditFails(w)
      <3>1. worker'[w].pc \in {"credit", "failed"}
        BY <2>1, GoEffect DEF RecordExtra, CreditFails, TypeOK, PCs
      <3> QED BY <3>1
    <2>2. CASE CreditExtra(w)
      <3>1. e \in marker' BY <2>2 DEF CreditExtra
      <3> QED BY <1>1, <1>2, <1>5, <3>1 DEF EffectInv, Recorded
    <2>3. CASE FinishExtra(w) BY <1>1, <2>3 DEF FinishExtra, effectVars, WorkInv
    <2> QED BY <2>1, <2>2, <2>3
  <1>7. WorkInv'
    <2>1. \A v \in Workers : worker[v].pc # "idle" => worker[v].event \in Events BY AtWork
    <2>2. \A v \in Workers : worker[v].pc = "processed" \/ worker[v].pc = "credited" =>
             applied'[worker[v].event] > 0
      BY <2>1, <1>5 DEF WorkInv, TypeOK
    <2> QED BY <1>1, <1>2, <1>3, <1>4, <1>6, <2>2 DEF WorkInv, Others
  <1>8. SucceededIsApplied' BY <1>2, <1>5 DEF SucceededIsApplied, TypeOK, EffectInv
  <1> QED BY <1>5, <1>7, <1>8

LEMMA EffectWorker ==
    ASSUME IInv, NEW w \in Workers, Start(w) \/ Advance(w) \/ WorkerDies(w)
    PROVE  EffectInv' /\ WorkInv' /\ SucceededIsApplied'
  <1> USE DEF IInv, Doing
  <1>1. CASE Start(w)
    <2>1. PICK e \in Events : Look(w, e) \/ Confirm(w, e) BY <1>1 DEF Start
    <2> QED BY <2>1, StartEffect, NothingGiven DEF Look, Confirm, inboxVars, effectVars
  <1>2. CASE WorkerDies(w)
    <2>1. worker'[w].pc = "idle" /\ Others(w) BY <1>2, StopEffect DEF WorkerDies, TypeOK
    <2> QED BY <1>2, <2>1, NothingGiven DEF WorkerDies, Unlock, inboxVars
  <1>3. CASE Claim(w)
    <2>1. worker'[w].pc = "process" /\ Others(w) BY <1>3, ClaimEffect
    <2>2. \A e \in Events : status'[e] = "succeeded" => status[e] = "succeeded"
      BY <1>3 DEF Claim, TypeOK
    <2> QED BY <1>3, <2>1, <2>2, NothingGiven DEF Claim, effectVars
  <1>4. CASE Complete(w)
    <2>1. worker'[w].pc = "idle" /\ Others(w) BY <1>4, StopEffect DEF Complete, TypeOK
    <2>2. \A e \in Events : status'[e] = "succeeded" => status[e] = "succeeded" \/ applied[e] > 0
      BY <1>4 DEF Complete, WorkInv, TypeOK
    <2> QED BY <1>4, <2>1, <2>2, NothingGiven DEF Complete, effectVars
  <1>5. CASE Reject(w)
    <2>1. worker'[w].pc = "failed" /\ Others(w) BY <1>5, GoEffect DEF Reject, TypeOK, PCs
    <2> QED BY <1>5, <2>1, NothingGiven DEF Reject, inboxVars, effectVars
  <1>6. CASE AlreadyPaid(w) \/ DuplicatePayment(w) \/ AlreadyStarted(w)
    <2>1. worker'[w].pc = "processed" /\ worker'[w].event = worker[w].event /\ Others(w)
      BY <1>6, GoEffect DEF AlreadyPaid, DuplicatePayment, AlreadyStarted, TypeOK, PCs
    <2>2. worker[w].event \in Events /\ kind[worker[w].event] = "subscription"
          /\ worker[w].event \in payments
      BY <1>6, AtWork DEF AlreadyPaid, DuplicatePayment, AlreadyStarted, WorkInv, TypeOK
    <2>3. applied[worker[w].event] > 0 BY <2>2 DEF EffectInv, Recorded
    <2> QED BY <1>6, <2>1, <2>2, <2>3, NothingGivenYet
            DEF AlreadyPaid, DuplicatePayment, AlreadyStarted, inboxVars, effectVars
  <1>7. CASE NotYetPaid(w) \/ RecordPayment(w)
    <2>1. worker'[w].pc \in {"paying", "paid"} /\ worker'[w].event = worker[w].event /\ Others(w)
      BY <1>7, GoEffect DEF NotYetPaid, RecordPayment, TypeOK, PCs
    <2>2. worker[w].event \in Events /\ kind[worker[w].event] = "subscription"
      BY <1>7, AtWork DEF NotYetPaid, RecordPayment, WorkInv
    <2> QED BY <1>7, <2>1, <2>2, NothingGivenYet DEF NotYetPaid, RecordPayment, inboxVars, effectVars
  <1>8. CASE ReadAccess(w)
    <2>1. worker'[w].pc = "granting" /\ worker'[w].event = worker[w].event /\ Others(w)
          /\ worker'[w].seen = until
      BY <1>8, ReadEffect
    <2>2. \A v \in Workers : worker[v].pc = "granting" => ~(worker[v].seen > 0)
      BY <1>8, PaymentAssumption DEF ReadAccess, WorkInv
    <2>3. kind[worker[w].event] = "subscription" BY <1>8 DEF ReadAccess, WorkInv
    <2> QED BY <1>8, <2>1, <2>2, <2>3 DEF ReadAccess, inboxVars, EffectInv, Recorded, WorkInv,
                                          SucceededIsApplied, Others
  <1> QED BY <1>1, <1>2, <1>3, <1>4, <1>5, <1>6, <1>7, <1>8, EffectGrant, EffectCredit
          DEF Advance, Process

LEMMA IInvStep == ASSUME IInv, [Next]_vars PROVE IInv'
  <1>0. TypeOK' BY TypeStep DEF IInv
  <1>1. CASE UNCHANGED vars
    BY <1>0, <1>1 DEF vars, inboxVars, effectVars, IInv, EffectInv, Recorded, WorkInv, SucceededIsApplied
  <1>2. ASSUME NEW e \in Events, Ingest(e) PROVE IInv'
    <2>1. \A f \in Events : status'[f] = "succeeded" => status[f] = "succeeded"
      BY <1>2 DEF Ingest, IInv, TypeOK
    <2> QED BY <1>0, <1>2, <2>1 DEF Ingest, effectVars, IInv, EffectInv, Recorded, WorkInv,
                                    SucceededIsApplied
  <1> QED BY <1>0, <1>1, <1>2, EffectWorker DEF Next, IInv

LEMMA Inductive == Spec => []IInv
  <1>1. Init => IInv BY TypeInit, EffectInit DEF IInv
  <1> QED BY <1>1, IInvStep, PTL DEF Spec

-----------------------------------------------------------------------------
(* Renewals alone are given again. *)

\* Who grants a recorded payment renews: it read the access the first grant gave,
\* and no subscription carries the reference.
RenewalInv ==
    /\ OneInsert
    /\ \A e \in payments : kind[e] = "subscription" => until > 0
    /\ \A w \in Workers :
          worker[w].pc = "granting" => /\ worker[w].event \notin started
                                       /\ worker[w].event \in payments => worker[w].seen > 0
    /\ OnlyRenewalsRepeat

LEMMA RenewalInit == ASSUME Init PROVE RenewalInv
  <1>1. \A w \in Workers : worker[w].pc = "idle" BY IdleTyped DEF Init
  <1> QED BY <1>1 DEF Init, RenewalInv, OneInsert, Inserts, OnlyRenewalsRepeat

\* A step that gives nothing, and after which the worker does not grant.
LEMMA RenewalAway ==
    ASSUME RenewalInv, NEW w \in Workers, Others(w), UNCHANGED <<kind, payments, started, applied, until>>,
           ~Inserts(w)'
    PROVE  RenewalInv'
  BY DEF RenewalInv, OneInsert, Inserts, OnlyRenewalsRepeat, Others

LEMMA RenewalGrant ==
    ASSUME IInv, RenewalInv, NEW w \in Workers, CommitGrant(w) \/ GrantFails(w)
    PROVE  RenewalInv'
  <1> DEFINE e == worker[w].event
  <1> USE DEF IInv
  <1>1. e \in Events /\ kind[e] = "subscription" /\ worker[w].seen \in Nat
    BY AtWork DEF CommitGrant, GrantFails, Doing, WorkInv
  <1>2. worker'[w].pc \in {"processed", "failed"} /\ Others(w) /\ kind' = kind
    BY GoEffect DEF CommitGrant, GrantFails, TypeOK, PCs
  <1>3. CASE UNCHANGED <<payments, started, applied, until>>
    BY <1>2, <1>3, RenewalAway DEF Inserts
  <1>4. CASE worker[w].pc = "granting" /\ Grant(w)
    <2>1. e \notin started /\ (worker[w].seen = 0 => e \notin payments) /\ started \subseteq payments
      BY <1>1, <1>4 DEF RenewalInv, TypeOK
    <2>2. worker[w].seen = 0 => applied[e] = 0
      BY <1>1, <2>1 DEF EffectInv, Recorded, TypeOK
    <2>3. /\ payments' = payments \cup {e}
          /\ started' = IF worker[w].seen = 0 THEN started \cup {e} ELSE started
          /\ applied' = [applied EXCEPT ![e] = @ + 1]
          /\ until' > 0 /\ until' \in Nat
      BY <1>1, <1>4 DEF Grant, Extend, TypeOK
    <2>4. OnlyRenewalsRepeat'
      BY <1>1, <1>2, <2>1, <2>2, <2>3 DEF RenewalInv, OnlyRenewalsRepeat, TypeOK
    <2>5. OneInsert' BY <1>2, <2>3 DEF RenewalInv, OneInsert, Inserts, Others
    <2>6. ASSUME NEW v \in Workers, worker'[v].pc = "granting"
          PROVE  /\ worker'[v].event \notin started'
                 /\ worker'[v].event \in payments' => worker'[v].seen > 0
      <3>1. v # w /\ worker'[v] = worker[v] BY <1>2, <2>6 DEF Others
      <3>2. worker[v].event = e => e \in payments
        BY <1>4, <2>6, <3>1 DEF RenewalInv, OneInsert, Inserts
      <3> QED BY <2>1, <2>3, <2>6, <3>1, <3>2 DEF RenewalInv
    <2> QED BY <2>3, <2>4, <2>5, <2>6 DEF RenewalInv
  <1> QED BY <1>3, <1>4 DEF CommitGrant, GrantFails, Doing

LEMMA RenewalCredit ==
    ASSUME IInv, RenewalInv, NEW w \in Workers,
           RecordExtra(w) \/ CreditExtra(w) \/ CreditFails(w) \/ FinishExtra(w)
    PROVE  RenewalInv'
  <1> DEFINE e == worker[w].event
  <1> USE DEF IInv, Doing
  <1>1. e \in Events /\ kind[e] = "extra"
    BY AtWork DEF RecordExtra, CreditExtra, CreditFails, FinishExtra, WorkInv
  <1>2. PICK pc \in {"credit", "credited", "processed", "failed"} : Go(w, pc)
    BY DEF RecordExtra, CreditExtra, CreditFails, FinishExtra
  <1>3. worker'[w].pc = pc /\ Others(w) BY <1>2, GoEffect DEF TypeOK, PCs
  <1>4. UNCHANGED <<kind, started, until>> /\ payments' \in {payments, payments \cup {e}}
    BY DEF RecordExtra, CreditExtra, CreditFails, FinishExtra, effectVars
  <1>5. OnlyRenewalsRepeat'
    <2>1. e \notin marker => applied[e] = 0 BY <1>1 DEF EffectInv, Recorded, TypeOK
    <2> QED BY <1>1, <1>4, <2>1 DEF RecordExtra, CreditExtra, CreditFails, FinishExtra, effectVars,
                                    RenewalInv, OnlyRenewalsRepeat, TypeOK
  <1>6. \A v \in Workers : Inserts(v) => worker[v].event # e BY <1>1 DEF Inserts, WorkInv
  <1>7. OneInsert' BY <1>3, <1>4 DEF RenewalInv, OneInsert, Inserts, Others
  <1>8. \A v \in Workers : worker'[v].pc = "granting" => v # w /\ worker'[v] = worker[v] /\ Inserts(v)
    BY <1>3 DEF Others, Inserts
  <1> QED BY <1>1, <1>4, <1>5, <1>6, <1>7, <1>8 DEF RenewalInv

LEMMA RenewalRecord ==
    ASSUME IInv, RenewalInv, NEW w \in Workers, RecordPayment(w)
    PROVE  RenewalInv'
  <1> DEFINE e == worker[w].event
  <1>1. worker'[w].pc = "paid" /\ worker'[w].event = e /\ Others(w)
    BY GoEffect DEF RecordPayment, IInv, TypeOK, PCs
  <1>2. UNCHANGED <<kind, payments, started, applied, until>> BY DEF RecordPayment, effectVars
  <1>3. \A v \in Workers : Inserts(v) /\ worker[v].event = e => e \in payments
    BY DEF RecordPayment, Inserting, Inserts
  <1>4. OneInsert' BY <1>1, <1>2, <1>3 DEF RenewalInv, OneInsert, Inserts, Others
  <1> QED BY <1>1, <1>2, <1>4 DEF RenewalInv, OnlyRenewalsRepeat, Others

LEMMA RenewalRead ==
    ASSUME IInv, RenewalInv, NEW w \in Workers, ReadAccess(w)
    PROVE  RenewalInv'
  <1>1. /\ worker'[w].pc = "granting" /\ worker'[w].event = worker[w].event /\ Others(w)
        /\ worker'[w].seen = until
    BY ReadEffect DEF IInv
  <1>2. UNCHANGED <<kind, payments, started, applied, until>> BY DEF ReadAccess
  <1>3. worker[w].event \notin started /\ Inserts(w) /\ kind[worker[w].event] = "subscription"
    BY DEF ReadAccess, Doing, Inserts, IInv, WorkInv
  <1>4. OneInsert' BY <1>1, <1>2, <1>3 DEF RenewalInv, OneInsert, Inserts, Others
  <1> QED BY <1>1, <1>2, <1>3, <1>4 DEF RenewalInv, OnlyRenewalsRepeat, Others

LEMMA RenewalWorker ==
    ASSUME IInv, RenewalInv, NEW w \in Workers, Start(w) \/ Advance(w) \/ WorkerDies(w)
    PROVE  RenewalInv'
  <1> USE DEF IInv
  <1>1. CASE Start(w)
    <2>1. PICK e \in Events : Look(w, e) \/ Confirm(w, e) BY <1>1 DEF Start
    <2>2. UNCHANGED <<kind, payments, started, applied, until>> BY <2>1 DEF Look, Confirm, effectVars
    <2> QED BY <2>1, <2>2, StartEffect, RenewalAway DEF Inserts
  <1>2. CASE Claim(w) BY <1>2, ClaimEffect, RenewalAway DEF Claim, effectVars, Inserts
  <1>3. CASE Complete(w) \/ WorkerDies(w)
    <2>1. worker'[w].pc = "idle" /\ Others(w) BY <1>3, StopEffect DEF Complete, WorkerDies, TypeOK
    <2>2. UNCHANGED <<kind, payments, started, applied, until>>
      BY <1>3 DEF Complete, WorkerDies, effectVars
    <2> QED BY <2>1, <2>2, RenewalAway DEF Inserts
  <1>4. CASE Reject(w) \/ AlreadyPaid(w) \/ NotYetPaid(w) \/ DuplicatePayment(w) \/ AlreadyStarted(w)
    <2>1. worker'[w].pc \in {"failed", "processed", "paying"} /\ Others(w)
      BY <1>4, GoEffect DEF Reject, AlreadyPaid, NotYetPaid, DuplicatePayment, AlreadyStarted, TypeOK, PCs
    <2>2. UNCHANGED <<kind, payments, started, applied, until>>
      BY <1>4 DEF Reject, AlreadyPaid, NotYetPaid, DuplicatePayment, AlreadyStarted, effectVars
    <2> QED BY <2>1, <2>2, RenewalAway DEF Inserts
  <1> QED BY <1>1, <1>2, <1>3, <1>4, RenewalGrant, RenewalCredit, RenewalRecord, RenewalRead
          DEF Advance, Process

LEMMA RenewalStep == ASSUME IInv, RenewalInv, [Next]_vars PROVE RenewalInv'
  <1>1. CASE UNCHANGED vars
    BY <1>1 DEF vars, effectVars, RenewalInv, OneInsert, Inserts, OnlyRenewalsRepeat
  <1>2. ASSUME NEW e \in Events, Ingest(e) PROVE RenewalInv'
    BY <1>2 DEF Ingest, effectVars, RenewalInv, OneInsert, Inserts, OnlyRenewalsRepeat
  <1> QED BY <1>1, <1>2, RenewalWorker DEF Next

\* Extra signals and the purchase that starts a subscription are given once, also
\* when renewals commit between two looks: see OnlyRenewalsRepeat.
THEOREM NothingButRenewals == Spec => []OnlyRenewalsRepeat
  <1>1. RenewalInv => OnlyRenewalsRepeat BY DEF RenewalInv
  <1>2. Init => RenewalInv BY RenewalInit
  <1>3. IInv /\ RenewalInv /\ [Next]_vars => RenewalInv' BY RenewalStep
  <1> QED BY <1>1, <1>2, <1>3, Inductive, PTL DEF Spec

-----------------------------------------------------------------------------
\* "succeeded" is said of applied charges only: see SucceededIsApplied.
THEOREM SuccessIsEffect == Spec => []SucceededIsApplied
  <1>1. IInv => SucceededIsApplied BY DEF IInv
  <1> QED BY <1>1, Inductive, PTL

\* No other purchase changes what a purchase has read: see RenewalExtends.
THEOREM NothingOverwritten == Spec => []RenewalExtends
  <1>1. IInv => RenewalExtends BY DEF IInv, WorkInv, RenewalExtends
  <1> QED BY <1>1, Inductive, PTL

=============================================================================
