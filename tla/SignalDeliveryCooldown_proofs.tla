------------------- MODULE SignalDeliveryCooldown_proofs -------------------
(***************************************************************************)
(* The same-asset gate honours every cooldown although it looks at one row *)
(* only, the latest: for any signals, assets, workers and bounds, and      *)
(* whatever stalls, crashes and late writes there are.                     *)
(***************************************************************************)
EXTENDS SignalDelivery_proofs, WellFoundedInduction

-----------------------------------------------------------------------------
(***************************************************************************)
(* The invariant: the proven rows are lined up by delivered_at, each at a  *)
(* time of its own, and their cooldowns end from the earliest on.  So the  *)
(* latest exposure is quiet only if every proven delivery is.              *)
(***************************************************************************)

Proven == {s \in Signals : row[s].sentOk}

TimeInv ==
    /\ \A s \in Signals : row[s].at <= clock
    /\ \A s, t \in Proven : s # t => row[s].at # row[t].at
    /\ \A s, t \in Proven : row[s].at <= row[t].at /\ row[t].quiet => row[s].quiet

LEMMA InitTime == Init => TimeInv
BY DEF Init, TimeInv, Proven, NoRow

-----------------------------------------------------------------------------
(* What a step does to the times. *)

\* A set of rows that is not empty has a latest one.
LEMMA Latest ==
    ASSUME TypeOK, TimeInv, NEW E \in SUBSET Signals, E # {}
    PROVE  \E u \in E : \A v \in E : row[v].at <= row[u].at
<1> DEFINE Lags == {clock - row[v].at : v \in E}
<1>1. \A v \in E : row[v].at \in Nat /\ clock - row[v].at \in Nat
  BY DEF TypeOK, TimeInv, Rows
<1>2. Lags \subseteq Nat /\ Lags # {}
  BY <1>1
<1>3. \E n \in Lags : \A m \in Lags : ~ (<<m, n>> \in OpToRel(<, Nat))
  <2> HIDE DEF Lags
  <2> QED
    BY <1>2, NatLessThanWellFounded, WFMin
<1>4. PICK n \in Lags : \A m \in Lags : ~(m < n)
  BY <1>2, <1>3 DEF OpToRel
<1>5. PICK u \in E : n = clock - row[u].at
  BY <1>4
<1>6. ASSUME NEW v \in E
      PROVE  row[v].at <= row[u].at
  <2>1. ~(clock - row[v].at < clock - row[u].at)
    BY <1>4, <1>5
  <2> QED
    BY <1>1, <2>1 DEF TypeOK
<1> QED
  BY <1>6

\* A write leaves the time of a row and its proof, or dates it anew.
KeepsTime(s) == /\ row'[s].at = row[s].at
                /\ row'[s].quiet = row[s].quiet
                /\ row'[s].sentOk => row[s].sentOk

Dates(s) == row'[s].at = clock + 1 /\ ~row'[s].quiet

LEMMA WriteTime ==
    ASSUME TypeOK, GenuineInv, NEW s \in Signals, RowWrite(s)
    PROVE  KeepsTime(s) \/ Dates(s)
<1>0. row[s] \in Rows
  BY DEF TypeOK
<1>1. CASE row'[s] = row[s]
  BY <1>1 DEF KeepsTime
<1>2. CASE Reserves(s) \/ Blocks(s)
  <2>1. Reserved(row[s]) \in Rows
    BY <1>0, ReservedType DEF TypeOK
  <2>2. /\ row'[s].at = Reserved(row[s]).at
        /\ row'[s].quiet = Reserved(row[s]).quiet
        /\ row'[s].sentOk = Reserved(row[s]).sentOk
    BY <1>2, <2>1 DEF Reserves, Blocks, Rows
  <2>3. CASE Exists(row[s])
    <3>1. /\ Reserved(row[s]).at = row[s].at
          /\ Reserved(row[s]).quiet = row[s].quiet
          /\ Reserved(row[s]).sentOk = row[s].sentOk
      BY <1>0, <2>3 DEF Reserved, Rows
    <3> QED
      BY <2>2, <3>1 DEF KeepsTime
  <2>4. CASE ~Exists(row[s])
    BY <2>2, <2>4 DEF Reserved, NoRow, Dates
  <2> QED
    BY <2>3, <2>4
<1>3. CASE Persists(s)
  BY <1>0, <1>3 DEF Persists, Advanced, Rows, KeepsTime
<1>4. CASE Records(s)
  <2> PICK m \in Nat, q \in DeliveryStates \cup {NoState}, e \in Errors :
              ResultArguments(s, m, q, e) /\ row'[s] = Recorded(row[s], m, q, e)
    BY <1>4 DEF Records
  <2> DEFINE t == Canonical(q, m # 0, e)
  <2> HIDE DEF t
  <2>1. \/ row'[s] = row[s]
        \/ row'[s] = [row[s] EXCEPT !.state = t, !.sentOk = TRUE, !.msg = m, !.error = FALSE,
                                    !.at = clock + 1, !.waited = FALSE, !.quiet = FALSE]
        \/ row'[s] = [row[s] EXCEPT !.state = t, !.waited = FALSE, !.error = e # "none"]
    BY DEF Recorded, t
  <2> QED
    BY <1>0, <2>1 DEF Rows, KeepsTime, Dates
<1> QED
  BY <1>1, <1>2, <1>3, <1>4 DEF RowWrite

\* One row at a time is written, and the clock follows the time it is given.
Puts == \E u \in Signals : \E r : PutRow(u, r)

LEMMA StepPuts ==
    ASSUME TypeOK, [Next]_vars
    PROVE  \/ KeepRows \/ Puts
           \/ \E u \in Signals : RetryWindowElapses(u) \/ CooldownEnds(u)
<1>1. ASSUME NEW w \in Workers, WorkerStep(w)
      PROVE  KeepRows \/ Puts
  <2>1. CASE worker[w].sig \in Signals
    BY <1>1, <2>1 DEF WorkerStep, CheckDailyCap, ReserveGranted, BlockUnformattable,
       ReserveRefused, BeginValidation, PassChecks, FailChecks, BeginSending,
       SendAcknowledged, SendTimesOut, SendRefused, StashReceipt, RecordResult,
       AcknowledgeReceipt, RepairByHand, SuppressUnreachable, Crash, PersistUnknown,
       PersistKnown, Puts
  <2>2. CASE worker[w].pc = "idle"
    BY <1>1, <2>2 DEF WorkerStep, CheckDailyCap, ReserveGranted, BlockUnformattable,
       ReserveRefused, BeginValidation, PassChecks, FailChecks, BeginSending,
       SendAcknowledged, SendTimesOut, SendRefused, StashReceipt, RecordResult,
       AcknowledgeReceipt, RepairByHand, SuppressUnreachable, Crash
  <2> QED
    BY <2>1, <2>2 DEF TypeOK
<1>2. ASSUME ReconcilerStep
      PROVE  KeepRows \/ Puts
  <2>1. recon.pc # "idle" => recon.sig \in Signals
    BY DEF TypeOK
  <2> QED
    BY <1>2, <2>1 DEF ReconcilerStep, ReconcileRead, ReconcileCommit, ReconcileFails,
       ReconcileAck, ReconcileAckFails, ReconcileWrite, Puts
<1>3. CASE EnvironmentStep
  BY <1>3 DEF EnvironmentStep, OutcomeResolves, SignalRetires, KeepRows
<1>4. CASE UNCHANGED vars
  BY <1>4 DEF vars, KeepRows
<1> QED
  BY <1>1, <1>2, <1>3, <1>4 DEF Next

\* The row that is written keeps its time or has the latest; the others stay.
LEMMA PutTime ==
    ASSUME TypeOK, GenuineInv, TimeInv, [Next]_vars, NEW u \in Signals, NEW r, PutRow(u, r),
           ~\E x \in Signals : RetryWindowElapses(x) \/ CooldownEnds(x)
    PROVE  /\ \A s \in Signals \ {u} : row'[s] = row[s]
           /\ \/ KeepsTime(u) /\ clock' = clock
              \/ Dates(u) /\ clock' = clock + 1
<1>1. \A s \in Signals : row'[s] = IF s = u THEN r ELSE row[s]
  BY PutRowStep
<1>2. KeepsTime(u) \/ Dates(u)
  BY StepWrite, WriteTime
<1>3. clock' = IF row'[u].at = row[u].at THEN clock ELSE clock + 1
  BY <1>1 DEF PutRow
<1>4. clock \in Nat /\ row[u].at \in Nat /\ row[u].at <= clock
  BY DEF TypeOK, TimeInv, Rows
<1> QED
  BY <1>1, <1>2, <1>3, <1>4 DEF KeepsTime, Dates

LEMMA StepTime == TypeOK /\ GenuineInv /\ TimeInv /\ [Next]_vars => TimeInv'
<1> SUFFICES ASSUME TypeOK, GenuineInv, TimeInv, [Next]_vars
             PROVE  TimeInv'
  OBVIOUS
<1>0. /\ row \in [Signals -> Rows] /\ clock \in Nat
      /\ \A s \in Signals : row[s] \in Rows /\ row[s].at \in Nat /\ row[s].at <= clock
  BY DEF TypeOK, TimeInv, Rows
<1>1. CASE KeepRows
  BY <1>1 DEF KeepRows, TimeInv, Proven
<1>2. ASSUME NEW u \in Signals, RetryWindowElapses(u)
      PROVE  TimeInv'
  <2>1. clock' = clock /\ \A s \in Signals : /\ row'[s].at = row[s].at
                                             /\ row'[s].quiet = row[s].quiet
                                             /\ row'[s].sentOk = row[s].sentOk
    BY <1>0, <1>2 DEF RetryWindowElapses, Rows
  <2> QED
    BY <2>1 DEF TimeInv, Proven
<1>3. ASSUME NEW u \in Signals, CooldownEnds(u)
      PROVE  TimeInv'
  <2>1. clock' = clock /\ \A s \in Signals : /\ row'[s].at = row[s].at
                                             /\ row'[s].quiet = (row[s].quiet \/ s = u)
                                             /\ row'[s].sentOk = row[s].sentOk
    BY <1>0, <1>3 DEF CooldownEnds, Rows
  <2>2. \A t \in Proven : row[t].at < row[u].at => row[t].quiet
    <3>1. \A t \in Proven : t \in Signals /\ Exists(row[t])
      BY DEF Proven, Exists, GenuineInv, Success, NoState
    <3> QED
      BY <1>3, <3>1 DEF CooldownEnds
  <2>3. ASSUME NEW s \in Proven, NEW t \in Proven, row[s].at <= row[t].at, row[t].quiet \/ t = u
        PROVE  row[s].quiet \/ s = u
    <3>1. CASE row[t].quiet
      BY <2>3, <3>1 DEF TimeInv
    <3>2. CASE t = u
      <4>1. s = u \/ row[s].at # row[u].at
        BY <3>2 DEF TimeInv
      <4>2. row[s].at \in Nat /\ row[u].at \in Nat /\ row[s].at <= row[u].at
        BY <1>0, <2>3, <3>2 DEF Proven
      <4> QED
        BY <2>2, <4>1, <4>2
    <3> QED
      BY <2>3, <3>1, <3>2
  <2>4. Proven' = Proven
    BY <2>1 DEF Proven
  <2>5. /\ \A s \in Signals : row'[s].at <= clock'
        /\ \A s, t \in Proven : s # t => row'[s].at # row'[t].at
    BY <2>1 DEF TimeInv, Proven
  <2>6. \A s, t \in Proven : row'[s].at <= row'[t].at /\ row'[t].quiet => row'[s].quiet
    BY <2>1, <2>3 DEF Proven
  <2> QED
    BY <2>4, <2>5, <2>6 DEF TimeInv
<1>4. ASSUME NEW u \in Signals, NEW r, PutRow(u, r),
             ~\E x \in Signals : RetryWindowElapses(x) \/ CooldownEnds(x)
      PROVE  TimeInv'
  <2>1. \A s \in Signals \ {u} : row'[s] = row[s]
    BY <1>4, PutTime
  <2>2. CASE KeepsTime(u) /\ clock' = clock
    <3>1. \A s \in Signals : row'[s].at = row[s].at /\ row'[s].quiet = row[s].quiet
      BY <2>1, <2>2 DEF KeepsTime
    <3>2. Proven' \subseteq Proven
      BY <2>1, <2>2 DEF KeepsTime, Proven
    <3> QED
      BY <2>2, <3>1, <3>2 DEF TimeInv, Proven
  <2>3. CASE Dates(u) /\ clock' = clock + 1
    <3>1. /\ row'[u].at = clock + 1 /\ ~row'[u].quiet
          /\ \A s \in Signals \ {u} : row'[s].at < row'[u].at
      BY <1>0, <2>1, <2>3 DEF Dates
    <3>2. \A s \in Signals : row'[s].at <= clock'
      BY <1>0, <2>1, <2>3, <3>1
    <3>3. \A s \in Proven' : s # u => s \in Proven
      BY <2>1 DEF Proven
    <3>4. ASSUME NEW s \in Proven', NEW t \in Proven'
          PROVE  /\ s # t => row'[s].at # row'[t].at
                 /\ row'[s].at <= row'[t].at /\ row'[t].quiet => row'[s].quiet
      <4>0. s \in Signals /\ t \in Signals
        BY DEF Proven
      <4>1. CASE s # u /\ t # u
        BY <2>1, <3>3, <4>0, <4>1 DEF TimeInv
      <4>2. CASE s = u \/ t = u
        <5>1. \A x \in Signals : row'[x].at \in Nat
          BY <1>0, <2>1, <3>1
        <5> QED
          BY <3>1, <4>0, <4>2, <5>1
      <4> QED
        BY <4>1, <4>2
    <3> QED
      BY <3>2, <3>4 DEF TimeInv
  <2> QED
    BY <1>4, <2>2, <2>3, PutTime
<1> QED
  BY <1>1, <1>2, <1>3, <1>4, StepPuts DEF Puts

-----------------------------------------------------------------------------
(* A reservation that is granted. *)

\* What the gate lets through: no proven delivery of the asset in its cooldown,
\* none of the signal itself, and none of its thesis.
LEMMA GrantHonours ==
    ASSUME TypeOK, GenuineInv, TimeInv, NEW s \in Signals, Grantable(s),
           NEW t \in Signals, AssetOf[t] = AssetOf[s], row[t].sentOk
    PROVE  t # s /\ row[t].quiet /\ ThesisOf[t] # ThesisOf[s]
<1>1. t # s
  BY DEF Grantable, Retryable, Exists, GenuineInv, Success, NoState
<1>2. ThesisOf[t] # ThesisOf[s]
  BY DEF Grantable, ThesisDelivered
<1>3. t \in Exposures(s) /\ Exposures(s) \subseteq Signals
  BY <1>1 DEF Exposures
<1>4. PICK u \in Exposures(s) : \A v \in Exposures(s) : row[v].at <= row[u].at
  BY <1>3, Latest
<1>5. row[u].sentOk /\ row[u].quiet
  BY <1>4 DEF Grantable, AssetGateBlocks
<1>6. row[t].quiet
  BY <1>3, <1>4, <1>5 DEF TimeInv, Proven
<1> QED
  BY <1>1, <1>2, <1>6

\* Only the reservation gate takes an admitted worker to its reservation.
LEMMA ReservedByGrant ==
    ASSUME TypeOK, [Next]_vars, NEW w \in Workers,
           worker[w].pc = "admitted", worker'[w].pc = "reserved"
    PROVE  ReserveGranted(w)
<1>0. worker \in [Workers -> WorkerStates]
  BY DEF TypeOK
<1>1. WorkerStep(w)
  BY OneActor
<1>2. ReserveGranted(w) \/ Rest(w)
  BY <1>1 DEF WorkerStep, CheckDailyCap, BlockUnformattable, ReserveRefused, BeginValidation,
     PassChecks, FailChecks, BeginSending, SendAcknowledged, SendTimesOut, SendRefused,
     StashReceipt, RecordResult, AcknowledgeReceipt, RepairByHand, SuppressUnreachable, Crash
<1>3. ~Rest(w)
  BY <1>0 DEF Rest, IdleWorker
<1> QED
  BY <1>2, <1>3

-----------------------------------------------------------------------------
(* The theorem. *)

\* Every reservation honours the cooldown of every proven delivery of its asset,
\* not only of the latest, which is all the gate reads. (record_signal_delivery)
THEOREM CooldownIsHonoured == Spec => CooldownHonoured
<1>1. Init => TypeOK /\ GenuineInv /\ TimeInv
  BY InitType, InitGenuine, InitTime
<1>2. TypeOK /\ GenuineInv /\ TimeInv /\ [Next]_vars => TypeOK' /\ GenuineInv' /\ TimeInv'
  BY StepType, StepGenuine, StepTime
<1>3. TypeOK /\ GenuineInv /\ TimeInv /\ [Next]_vars =>
        [\A w \in Workers :
            worker[w].pc = "admitted" /\ worker'[w].pc = "reserved" =>
               LET s == worker[w].sig IN
               \A t \in Signals :
                  AssetOf[t] = AssetOf[s] /\ row[t].sentOk =>
                     /\ t # s
                     /\ row[t].quiet
                     /\ ThesisOf[t] # ThesisOf[s]]_vars
  <2> SUFFICES ASSUME TypeOK, GenuineInv, TimeInv, [Next]_vars, NEW w \in Workers,
                      worker[w].pc = "admitted", worker'[w].pc = "reserved",
                      NEW t \in Signals, AssetOf[t] = AssetOf[worker[w].sig], row[t].sentOk
               PROVE  /\ t # worker[w].sig
                      /\ row[t].quiet
                      /\ ThesisOf[t] # ThesisOf[worker[w].sig]
    OBVIOUS
  <2>1. worker[w].sig \in Signals /\ Grantable(worker[w].sig)
    BY ReservedByGrant DEF ReserveGranted, TypeOK
  <2> QED
    BY <2>1, GrantHonours
<1> QED
  BY <1>1, <1>2, <1>3, PTL DEF Spec, CooldownHonoured
=============================================================================
