--------------------- MODULE OutcomeNotifications_proofs ---------------------
(***************************************************************************)
(* Theorems of OutcomeNotifications and of the lease it runs under, for    *)
(* any replicas, stages and moods.  What is told and what stays settled is *)
(* proved of every behaviour in which one replica is at work at a time,    *)
(* which is what a lease that outlasts every cycle gives.                  *)
(***************************************************************************)
EXTENDS OutcomeNotifications, TLAPS

-----------------------------------------------------------------------------
(* The lease. *)

\* Who believes it holds the lease is the one the store knows of.
LeaseInv ==
    /\ LeaseTypeOK
    /\ \A p \in Replicas : /\ lease[p] \in {"none", backend}
                           /\ lease[p] = "redis" => key = p
                           /\ lease[p] = "postgres" => advisory = p

LEMMA LeaseInitial == ASSUME LeaseInit PROVE LeaseInv
  BY DEF LeaseInit, LeaseInv, LeaseTypeOK

LEMMA LeaseStep ==
    ASSUME ~Overruns, LeaseInv,
           \/ UNCHANGED leaseVars \/ KeyExpires
           \/ \E p \in Replicas : AcquireRedis(p) \/ AcquirePostgres(p) \/ Release(p) \/ HolderDies(p)
    PROVE  LeaseInv'
  <1> USE LeaseAssumption DEF LeaseInv, LeaseTypeOK
  <1>1. CASE UNCHANGED leaseVars BY <1>1 DEF leaseVars
  <1>2. CASE KeyExpires BY <1>2 DEF KeyExpires
  <1>3. ASSUME NEW p \in Replicas, AcquireRedis(p) PROVE LeaseInv' BY <1>3 DEF AcquireRedis
  <1>4. ASSUME NEW p \in Replicas, AcquirePostgres(p) PROVE LeaseInv' BY <1>4 DEF AcquirePostgres
  <1>5. ASSUME NEW p \in Replicas, Release(p) \/ HolderDies(p) PROVE LeaseInv'
    BY <1>5 DEF Release, HolderDies
  <1> QED BY <1>1, <1>2, <1>3, <1>4, <1>5

LEMMA LeaseTypeStep ==
    ASSUME LeaseTypeOK,
           \/ UNCHANGED leaseVars \/ KeyExpires
           \/ \E p \in Replicas : AcquireRedis(p) \/ AcquirePostgres(p) \/ Release(p) \/ HolderDies(p)
    PROVE  LeaseTypeOK'
  BY DEF LeaseTypeOK, leaseVars, KeyExpires, AcquireRedis, AcquirePostgres, Release, HolderDies

LEMMA LeaseSingle == ASSUME LeaseInv PROVE OneHolder
  BY DEF LeaseInv, LeaseTypeOK, OneHolder

LEMMA LeaseMoves ==
    ASSUME Next
    PROVE  \/ UNCHANGED leaseVars \/ KeyExpires
           \/ \E p \in Replicas : AcquireRedis(p) \/ AcquirePostgres(p) \/ Release(p) \/ HolderDies(p)
  <1>1. CASE TrackerStep
    BY <1>1 DEF TrackerStep, CommitOutcome, QueueRows, QueueingFails, RepairQueue, Correct
  <1>2. ASSUME NEW p \in Replicas, SenderStep(p)
        PROVE  UNCHANGED leaseVars \/ AcquireRedis(p) \/ AcquirePostgres(p) \/ Release(p) \/ HolderDies(p)
    BY <1>2 DEF SenderStep, TakeLease, Fetch, NothingListed, Claim, ClaimFails, SendAccepted, SendFails,
                MarkDelivered, MarkDeliveredFails, MarkFailed, Finish, FinishFails, SenderDies
  <1>3. CASE EventStep
    BY <1>3 DEF EventStep, RecordMissedEntry, ClaimEvent, SuppressEvent, SendEvent, SendEventFails,
                FinishEvent, DispatcherDies, EventGoesStale
  <1>4. CASE Surroundings
    BY <1>4 DEF Surroundings, LeaseRunsOut, ClaimGoesStale, ChangeMood
  <1> QED BY <1>1, <1>2, <1>3, <1>4 DEF Next

LEMMA LeaseAlways == ASSUME ~Overruns PROVE Spec => []LeaseInv
  <1>1. Init => LeaseInv BY LeaseInitial DEF Init
  <1>2. LeaseInv /\ [Next]_vars => LeaseInv'
    BY LeaseStep, LeaseMoves DEF vars, leaseVars
  <1> QED BY <1>1, <1>2, PTL DEF Spec

\* At most one replica believes it holds the lease: see OneHolder.
THEOREM OneHolderAtATime == ASSUME ~Overruns PROVE Spec => []OneHolder
  BY LeaseAlways, LeaseSingle, PTL

-----------------------------------------------------------------------------
(* Types. *)

SenderPCs == {"idle", "leased", "ready", "sending", "sent", "failed", "done"}

Others(p) == \A q \in Replicas : q # p => sender'[q] = sender[q]

\* What a replica knows goes with how far it is.
Sensible(r) == (r.status = Absent) <=> (r.pc \in {"idle", "leased"})

LEMMA Written ==
    ASSUME sender \in [Replicas -> SenderStates], NEW p \in Replicas, NEW r \in SenderStates,
           SetSender(p, r)
    PROVE  sender' \in [Replicas -> SenderStates] /\ sender'[p] = r /\ Others(p)
  BY DEF SetSender, Others

LEMMA IdleTyped == IdleSender \in SenderStates /\ IdleSender.pc = "idle" /\ IdleSender.status = Absent
  BY DEF IdleSender, SenderStates

LEMMA FetchedTyped ==
    ASSUME NEW pc \in SenderPCs, NEW s \in Stages \cup {Absent}, NEW held \in BOOLEAN
    PROVE  [pc |-> pc, status |-> s, held |-> held] \in SenderStates
  <1>1. [pc |-> pc, status |-> s, held |-> held]
           \in [pc : SenderPCs, status : Stages \cup {Absent}, held : BOOLEAN]
    BY Zenon
  <1>2. SenderStates = [pc : SenderPCs, status : Stages \cup {Absent}, held : BOOLEAN]
    BY DEF SenderStates, SenderPCs
  <1> QED BY <1>1, <1>2

LEMMA MovedTyped ==
    ASSUME NEW r \in SenderStates, NEW pc \in SenderPCs
    PROVE  /\ [r EXCEPT !.pc = pc] \in SenderStates
           /\ [r EXCEPT !.pc = pc, !.held = TRUE] \in SenderStates
           /\ [r EXCEPT !.pc = pc].pc = pc /\ [r EXCEPT !.pc = pc].status = r.status
           /\ [r EXCEPT !.pc = pc, !.held = TRUE].pc = pc
           /\ [r EXCEPT !.pc = pc, !.held = TRUE].status = r.status
  BY DEF SenderStates, SenderPCs

LEMMA RowsTyped ==
    ASSUME TypeOK
    PROVE  /\ AllMarked \in [Stages -> RowStates]
           /\ \A s \in Stages : Marked(s) \in [Stages -> RowStates]
           /\ \A s \in Stages, x \in RowStates : [row EXCEPT ![s] = x] \in [Stages -> RowStates]
  BY DEF TypeOK, AllMarked, Marked, RowStates

\* A replica's step, seen from its own record and from the lease.
SenderTyped(p) ==
    /\ sender' \in [Replicas -> SenderStates] /\ Others(p) /\ Sensible(sender'[p])
    /\ (sender'[p].pc = "idle") <=> (lease'[p] = "none")
    /\ \A q \in Replicas : q # p => lease'[q] = lease[q]

LEMMA SenderMoves ==
    ASSUME TypeOK, NEW p \in Replicas, SenderStep(p)
    PROVE  SenderTyped(p)
  <1>t. lease \in [Replicas -> {"none", "redis", "postgres"}] /\ sender \in [Replicas -> SenderStates]
        /\ sender[p] \in SenderStates /\ Sensible(sender[p])
        /\ ((sender[p].pc = "idle") <=> (lease[p] = "none"))
        /\ outcome \in Stages \cup {Absent}
    BY DEF TypeOK, LeaseTypeOK, Sensible
  <1>1. CASE TakeLease(p)
    <2>1. [IdleSender EXCEPT !.pc = "leased"] \in SenderStates
          /\ [IdleSender EXCEPT !.pc = "leased"].pc = "leased"
          /\ [IdleSender EXCEPT !.pc = "leased"].status = Absent
      BY IdleTyped, MovedTyped DEF SenderPCs
    <2>2. lease'[p] # "none" /\ \A q \in Replicas : q # p => lease'[q] = lease[q]
      BY <1>1, <1>t DEF TakeLease, AcquireRedis, AcquirePostgres
    <2> QED BY <1>1, <1>t, <2>1, <2>2, Written DEF TakeLease, SenderTyped, Sensible
  <1>2. CASE Fetch(p)
    <2>1. PICK othersHold \in BOOLEAN :
             SetSender(p, [pc |-> IF mood = "on" THEN "ready" ELSE "done", status |-> outcome,
                           held |-> othersHold \/ mood = "quiet"])
      BY <1>2 DEF Fetch
    <2> DEFINE pc == IF mood = "on" THEN "ready" ELSE "done"
               held == othersHold \/ mood = "quiet"
               r == [pc |-> pc, status |-> outcome, held |-> held]
    <2>a. pc \in SenderPCs /\ pc \in {"ready", "done"} BY DEF SenderPCs
    <2>b. held \in BOOLEAN OBVIOUS
    <2>2. r \in SenderStates
      <3> HIDE DEF pc, held
      <3> QED BY <1>t, <2>a, <2>b, FetchedTyped
    <2>c. r.status = outcome /\ r.pc = pc OBVIOUS
    <2>d. SetSender(p, r) BY <2>1
    <2>3. sender' \in [Replicas -> SenderStates] /\ Others(p) /\ sender'[p].status = outcome
          /\ sender'[p].pc \in {"ready", "done"}
      <3> HIDE DEF r, pc
      <3> QED BY <1>t, <2>a, <2>c, <2>d, <2>2, Written
    <2> QED BY <1>2, <1>t, <2>3 DEF Fetch, SenderTyped, Sensible, leaseVars
  <1>3. ASSUME NEW pc \in SenderPCs \ {"idle", "leased"}, UNCHANGED leaseVars,
               sender[p].pc \notin {"idle", "leased"},
               \/ SetSender(p, [sender[p] EXCEPT !.pc = pc])
               \/ SetSender(p, [sender[p] EXCEPT !.pc = pc, !.held = TRUE])
        PROVE  SenderTyped(p)
    <2>1. sender' \in [Replicas -> SenderStates] /\ Others(p)
          /\ sender'[p].pc = pc /\ sender'[p].status = sender[p].status
      <3> DEFINE r == [sender[p] EXCEPT !.pc = pc]
                 h == [sender[p] EXCEPT !.pc = pc, !.held = TRUE]
      <3>1. r \in SenderStates /\ r.pc = pc /\ r.status = sender[p].status
            /\ h \in SenderStates /\ h.pc = pc /\ h.status = sender[p].status
        BY <1>t, MovedTyped
      <3>2. SetSender(p, r) \/ SetSender(p, h) BY <1>3
      <3> HIDE DEF r, h
      <3> QED BY <1>t, <3>1, <3>2, Written
    <2> QED BY <1>t, <1>3, <2>1 DEF SenderTyped, Sensible, leaseVars
  <1>4. ASSUME SetSender(p, IdleSender), Release(p) \/ HolderDies(p) PROVE SenderTyped(p)
    <2>1. sender' \in [Replicas -> SenderStates] /\ Others(p) /\ sender'[p].pc = "idle"
          /\ sender'[p].status = Absent
      BY <1>t, <1>4, IdleTyped, Written
    <2>2. lease'[p] = "none" /\ \A q \in Replicas : q # p => lease'[q] = lease[q]
      BY <1>4, <1>t DEF Release, HolderDies
    <2> QED BY <2>1, <2>2 DEF SenderTyped, Sensible
  <1>5. CASE Claim(p) BY <1>5, <1>3 DEF Claim, SenderPCs
  <1>6. CASE ClaimFails(p) \/ MarkFailed(p) BY <1>6, <1>3 DEF ClaimFails, MarkFailed, SenderPCs
  <1>7. CASE SendAccepted(p) \/ SendFails(p) BY <1>7, <1>3 DEF SendAccepted, SendFails, SenderPCs
  <1>8. CASE MarkDelivered(p) \/ MarkDeliveredFails(p)
    BY <1>8, <1>3 DEF MarkDelivered, MarkDeliveredFails, SenderPCs
  <1>9. CASE NothingListed(p) \/ Finish(p) \/ FinishFails(p) \/ SenderDies(p)
    BY <1>9, <1>4 DEF NothingListed, Finish, FinishFails, SenderDies
  <1> QED BY <1>1, <1>2, <1>5, <1>6, <1>7, <1>8, <1>9 DEF SenderStep

LEMMA TypeInit == ASSUME Init PROVE TypeOK
  <1>1. sender \in [Replicas -> SenderStates] /\ \A p \in Replicas : sender[p] = IdleSender
    BY IdleTyped DEF Init
  <1>2. LeaseTypeOK /\ \A p \in Replicas : lease[p] = "none"
    BY LeaseInitial DEF Init, LeaseInit, LeaseInv
  <1> QED BY <1>1, <1>2, IdleTyped, NotifyAssumption DEF Init, TypeOK, RowStates, EventStates

LEMMA TypeSender ==
    ASSUME TypeOK, LeaseTypeOK', NEW p \in Replicas, SenderStep(p)
    PROVE  TypeOK'
  <1>1. SenderTyped(p) BY SenderMoves
  <1>2. UNCHANGED <<outcome, corrected, unqueued, mood, event, dispatcher>>
    BY DEF SenderStep, TakeLease, Fetch, NothingListed, Claim, ClaimFails, SendAccepted, SendFails,
           MarkDelivered, MarkDeliveredFails, MarkFailed, Finish, FinishFails, SenderDies, KeepOthers,
           queueVars, eventVars
  <1>s. sender[p].pc \notin {"idle", "leased"} => sender[p].status \in Stages
    BY DEF TypeOK, SenderStates
  <1>3. told' \subseteq Stages
    BY <1>s DEF TypeOK, SenderStep, TakeLease, Fetch, NothingListed, Claim, ClaimFails, SendAccepted,
           SendFails, MarkDelivered, MarkDeliveredFails, MarkFailed, Finish, FinishFails, SenderDies
  <1>4. row' \in [Stages -> RowStates]
    <2>1. CASE Claim(p)
      BY <1>s, <2>1, RowsTyped DEF Claim, SetRow, RowStates, TypeOK
    <2>2. CASE MarkDelivered(p) BY <1>s, <2>2, RowsTyped DEF MarkDelivered
    <2>3. CASE MarkFailed(p) BY <1>s, <2>3, RowsTyped DEF MarkFailed, SetRow, RowStates, TypeOK
    <2>4. CASE Finish(p) BY <2>4, RowsTyped DEF Finish, TypeOK
    <2> QED BY <2>1, <2>2, <2>3, <2>4 DEF TypeOK, SenderStep, TakeLease, Fetch, NothingListed, ClaimFails,
           SendAccepted, SendFails, MarkDeliveredFails, FinishFails, SenderDies
  <1> QED BY <1>1, <1>2, <1>3, <1>4 DEF TypeOK, SenderTyped, Others, Sensible

\* Only an instance with missed entries has their event.
EventInv == event # "none" \/ dispatcher # "idle" => "missed_entry" \in Stages

LEMMA TypeElsewhere ==
    ASSUME TypeOK, EventInv, LeaseTypeOK', TrackerStep \/ EventStep \/ Surroundings
    PROVE  TypeOK'
  <1>1. UNCHANGED sender /\ lease' = lease
    BY DEF TrackerStep, CommitOutcome, QueueRows, QueueingFails, RepairQueue, Correct, EventStep,
           RecordMissedEntry, ClaimEvent, SuppressEvent, SendEvent, SendEventFails, FinishEvent,
           DispatcherDies, EventGoesStale, Surroundings, LeaseRunsOut, ClaimGoesStale, ChangeMood,
           leaseVars, KeyExpires
  <1>2. CASE TrackerStep
    <2>1. row' \in [Stages -> RowStates]
      BY <1>2, RowsTyped DEF TrackerStep, CommitOutcome, QueueRows, QueueingFails, RepairQueue, Correct,
                  QueueFor, SetRow, RowStates, TypeOK
    <2> QED BY <1>1, <1>2, <2>1 DEF TypeOK, TrackerStep, CommitOutcome, QueueRows, QueueingFails,
                  RepairQueue, Correct, eventVars, queueVars
  <1>3. CASE EventStep
    <2>1. row' \in [Stages -> RowStates]
      BY <1>3, RowsTyped DEF EventStep, RecordMissedEntry, ClaimEvent, SuppressEvent, SendEvent,
                  SendEventFails, FinishEvent, DispatcherDies, EventGoesStale, RowStates, TypeOK
    <2>2. told' \subseteq Stages
      BY <1>3 DEF EventInv, EventStep, RecordMissedEntry, ClaimEvent, SuppressEvent, SendEvent,
                  SendEventFails, FinishEvent, DispatcherDies, EventGoesStale, TypeOK
    <2> QED BY <1>1, <1>3, <2>1, <2>2 DEF TypeOK, EventStates, EventStep, RecordMissedEntry, ClaimEvent,
                  SuppressEvent, SendEvent, SendEventFails, FinishEvent, DispatcherDies, EventGoesStale,
                  queueVars
  <1>4. CASE Surroundings
    <2>1. row' \in [Stages -> RowStates]
      BY <1>4, RowsTyped DEF Surroundings, LeaseRunsOut, ClaimGoesStale, ChangeMood, SetRow,
                  RowStates, TypeOK
    <2> QED BY <1>1, <1>4, <2>1 DEF TypeOK, Surroundings, LeaseRunsOut, ClaimGoesStale, ChangeMood,
                  queueVars, eventVars
  <1> QED BY <1>2, <1>3, <1>4

LEMMA EventStays == ASSUME EventInv, [Next]_vars PROVE EventInv'
  <1>1. CASE UNCHANGED vars BY <1>1 DEF vars, EventInv
  <1>2. CASE TrackerStep
    BY <1>2 DEF EventInv, TrackerStep, CommitOutcome, QueueRows, QueueingFails, RepairQueue, Correct,
                eventVars
  <1>3. ASSUME NEW p \in Replicas, SenderStep(p) PROVE EventInv'
    BY <1>3 DEF EventInv, SenderStep, TakeLease, Fetch, NothingListed, Claim, ClaimFails, SendAccepted,
                SendFails, MarkDelivered, MarkDeliveredFails, MarkFailed, Finish, FinishFails, SenderDies,
                KeepOthers, eventVars
  <1>4. CASE EventStep
    BY <1>4 DEF EventInv, EventStep, RecordMissedEntry, ClaimEvent, SuppressEvent, SendEvent,
                SendEventFails, FinishEvent, DispatcherDies, EventGoesStale
  <1>5. CASE Surroundings
    BY <1>5 DEF EventInv, Surroundings, LeaseRunsOut, ClaimGoesStale, ChangeMood, eventVars
  <1> QED BY <1>1, <1>2, <1>3, <1>4, <1>5 DEF Next

Typed == TypeOK /\ EventInv

LEMMA TypedInit == ASSUME Init PROVE Typed
  BY TypeInit DEF Init, Typed, EventInv

LEMMA TypedStep == ASSUME Typed, [Next]_vars PROVE Typed'
  <1>1. EventInv' BY EventStays DEF Typed
  <1>2. LeaseTypeOK' BY LeaseTypeStep, LeaseMoves DEF Typed, TypeOK, vars, leaseVars
  <1>3. CASE UNCHANGED vars BY <1>1, <1>2, <1>3 DEF vars, Typed, TypeOK
  <1>4. CASE Next BY <1>1, <1>2, <1>4, TypeSender, TypeElsewhere DEF Next, Typed
  <1> QED BY <1>3, <1>4

LEMMA AlwaysTyped == Spec => []Typed
  BY TypedInit, TypedStep, PTL DEF Spec

\* In every state of every behaviour the variables have their types: see TypeOK.
THEOREM TypeCorrect == Spec => []TypeOK
  <1>1. Typed => TypeOK BY DEF Typed
  <1> QED BY <1>1, AlwaysTyped, PTL

-----------------------------------------------------------------------------
(* What is settled stays settled. *)

Sending(p) == sender[p].pc \in {"sending", "sent", "failed"}

\* A row that is being sent is settled by the dispatcher only, which told of it.
RowInv ==
    /\ dispatcher = "sent" => "missed_entry" \in told
    /\ \A p \in Replicas :
          Sending(p) => \/ row[sender[p].status] = "sending"
                        \/ sender[p].status = "missed_entry" /\ "missed_entry" \in told

\* What may become of a settled row.
Reopening(s) ==
    row[s] \in Settled /\ row'[s] \notin Settled =>
       /\ s = "missed_entry" /\ s \in told
       /\ \E p \in Replicas : sender[p].pc = "failed" /\ sender[p].status = s

\* One replica is at work at a time.
LEMMA Alone ==
    ASSUME Typed, OneHolder, NEW p \in Replicas, NEW q \in Replicas, sender[p].pc # "idle", sender[q].pc # "idle"
    PROVE  p = q
  BY DEF Typed, TypeOK, OneHolder

\* The others are idle while a replica takes a step, or it takes the lease only now.
LEMMA OthersIdle ==
    ASSUME Typed, Typed', OneHolder, OneHolder', NEW p \in Replicas, SenderStep(p),
           NEW q \in Replicas, q # p
    PROVE  ~Sending(q)'
  <1>1. sender'[q] = sender[q] BY SenderMoves DEF Typed, SenderTyped, Others
  <1>2. CASE sender[p].pc # "idle" BY <1>1, <1>2, Alone DEF Sending
  <1>3. CASE sender[p].pc = "idle"
    <2>1. sender'[p].pc = "leased"
      BY <1>3 DEF SenderStep, TakeLease, Fetch, NothingListed, Claim, ClaimFails, SendAccepted, SendFails,
                MarkDelivered, MarkDeliveredFails, MarkFailed, Finish, FinishFails, SenderDies,
                SetSender, IdleSender, Typed, TypeOK
    <2>2. sender'[q].pc = "idle" BY <2>1 DEF Typed, TypeOK, OneHolder
    <2> QED BY <2>2 DEF Sending
  <1> QED BY <1>2, <1>3

LEMMA RowSender ==
    ASSUME Typed, Typed', OneHolder, OneHolder', RowInv, NEW p \in Replicas, SenderStep(p)
    PROVE  /\ RowInv'
           /\ \A s \in Stages : Reopening(s)
  <1> DEFINE st == sender[p].status
             Kept == \A s \in Stages : row[s] \in Settled => row'[s] \in Settled
             Mine == Sending(p)' => \/ row'[sender'[p].status] = "sending"
                                    \/ sender'[p].status = "missed_entry" /\ "missed_entry" \in told'
  <1>q. \A q \in Replicas : q # p => ~Sending(q)' BY OthersIdle
  <1>d. dispatcher' = dispatcher /\ told \subseteq told'
    BY DEF SenderStep, TakeLease, Fetch, NothingListed, Claim, ClaimFails, SendAccepted, SendFails,
           MarkDelivered, MarkDeliveredFails, MarkFailed, Finish, FinishFails, SenderDies, KeepOthers,
           eventVars
  <1>t. sender \in [Replicas -> SenderStates] /\ row \in [Stages -> RowStates]
        /\ (sender[p].pc \notin {"idle", "leased"} => st \in Stages)
    BY DEF Typed, TypeOK, SenderStates
  <1>m. ASSUME NEW pc \in SenderPCs,
               \/ SetSender(p, [sender[p] EXCEPT !.pc = pc])
               \/ SetSender(p, [sender[p] EXCEPT !.pc = pc, !.held = TRUE])
        PROVE  sender'[p].pc = pc /\ sender'[p].status = st
    BY <1>m, <1>t DEF SetSender, SenderStates, SenderPCs
  <1>i. SetSender(p, IdleSender) => ~Sending(p)' BY <1>t DEF SetSender, IdleSender, Sending
  <1>f. ASSUME MarkFailed(p) PROVE \A s \in Stages : Reopening(s)
    <2>1. /\ sender[p].pc = "failed" /\ st \in Stages
          /\ row[st] = "sending" \/ (st = "missed_entry" /\ st \in told)
      BY <1>f, <1>t DEF MarkFailed, Sending, RowInv
    <2>2. \A s \in Stages : s # st => row'[s] = row[s]
      BY <1>f, <1>t DEF MarkFailed, SetRow
    <2> QED BY <2>1, <2>2 DEF Reopening, Settled
  <1> SUFFICES (Kept \/ MarkFailed(p)) /\ Mine
    BY <1>q, <1>d, <1>f DEF RowInv, Reopening
  <1>1. CASE TakeLease(p)
    BY <1>1, <1>t DEF TakeLease, SetSender, IdleSender, Sending
  <1>2. CASE Fetch(p)
    BY <1>2, <1>t DEF Fetch, SetSender, Sending
  <1>3. CASE NothingListed(p) \/ FinishFails(p) \/ SenderDies(p)
    BY <1>3, <1>i DEF NothingListed, FinishFails, SenderDies
  <1>4. CASE Claim(p)
    <2>1. st \in Stages BY <1>4, <1>t DEF Claim
    <2>2. Kept BY <1>4, <1>t, <2>1 DEF Claim, Claimable, SetRow, Settled
    <2>3. Mine BY <1>4, <1>t, <1>m, <2>1 DEF Claim, SenderPCs, SetRow, Sending
    <2> QED BY <2>2, <2>3
  <1>5. CASE ClaimFails(p) BY <1>5, <1>m DEF ClaimFails, SenderPCs, Sending
  <1>6. CASE SendAccepted(p) \/ SendFails(p) \/ MarkDeliveredFails(p)
    <2>1. Sending(p) /\ sender'[p].status = st /\ row' = row
      BY <1>6, <1>m DEF SendAccepted, SenderPCs, SendFails, MarkDeliveredFails, Sending
    <2> QED BY <1>d, <2>1 DEF RowInv
  <1>7. CASE MarkDelivered(p)
    <2>1. ~Sending(p)' BY <1>7, <1>m DEF MarkDelivered, SenderPCs, Sending
    <2>2. Kept BY <1>7, <1>t DEF MarkDelivered, Marked, Settled, Open
    <2> QED BY <2>1, <2>2
  <1>8. CASE MarkFailed(p)
    <2>1. ~Sending(p)' BY <1>8, <1>m DEF MarkFailed, SenderPCs, Sending
    <2> QED BY <1>8, <2>1
  <1>9. CASE Finish(p)
    <2>1. Kept BY <1>9, <1>t DEF Finish, AllMarked, Settled, Open, Waiting
    <2> QED BY <1>9, <1>i, <2>1 DEF Finish
  <1> QED BY <1>1, <1>2, <1>3, <1>4, <1>5, <1>6, <1>7, <1>8, <1>9 DEF SenderStep

LEMMA RowElsewhere ==
    ASSUME Typed, RowInv, TrackerStep \/ EventStep \/ Surroundings
    PROVE  /\ RowInv'
           /\ \A s \in Stages : Reopening(s)
  <1>1. sender' = sender
    BY DEF TrackerStep, CommitOutcome, QueueRows, QueueingFails, RepairQueue, Correct, EventStep,
           RecordMissedEntry, ClaimEvent, SuppressEvent, SendEvent, SendEventFails, FinishEvent,
           DispatcherDies, EventGoesStale, Surroundings, LeaseRunsOut, ClaimGoesStale, ChangeMood
  <1>t. row \in [Stages -> RowStates] /\ sender \in [Replicas -> SenderStates]
        /\ \A p \in Replicas : sender[p].pc \notin {"idle", "leased"} => sender[p].status \in Stages
    BY DEF Typed, TypeOK, SenderStates
  <1>2. CASE TrackerStep
    <2>1. \A s \in Stages : row[s] # "absent" => row'[s] = row[s]
      BY <1>2, <1>t DEF TrackerStep, CommitOutcome, QueueRows, QueueingFails, RepairQueue, Correct,
                  QueueFor, SetRow
    <2>2. UNCHANGED <<told, dispatcher>>
      BY <1>2 DEF TrackerStep, CommitOutcome, QueueRows, QueueingFails, RepairQueue, Correct, eventVars
    <2> QED BY <1>1, <1>t, <2>1, <2>2 DEF RowInv, Sending, Settled, Reopening
  <1>3. CASE EventStep
    <2>1. /\ \A s \in Stages : \/ row'[s] = row[s]
                               \/ /\ s = "missed_entry" /\ row'[s] = "delivered"
                                  /\ dispatcher = "sent"
          /\ told \subseteq told'
      BY <1>3, <1>t DEF EventStep, RecordMissedEntry, ClaimEvent, SuppressEvent, SendEvent,
                  SendEventFails, FinishEvent, DispatcherDies, EventGoesStale
    <2>2. dispatcher' = "sent" => dispatcher = "sent" \/ "missed_entry" \in told'
      BY <1>3 DEF EventStep, RecordMissedEntry, ClaimEvent, SuppressEvent, SendEvent,
                  SendEventFails, FinishEvent, DispatcherDies, EventGoesStale
    <2>3. \A s \in Stages : Reopening(s) BY <2>1 DEF Reopening, Settled
    <2> QED BY <1>1, <1>t, <2>1, <2>2, <2>3 DEF RowInv, Sending
  <1>4. CASE Surroundings
    <2>1. \A s \in Stages : row'[s] = row[s] \/ (row[s] = "sending" /\ ~Attended(s))
      BY <1>4, <1>t DEF Surroundings, LeaseRunsOut, ClaimGoesStale, ChangeMood, SetRow
    <2>2. UNCHANGED <<told, dispatcher>>
      BY <1>4 DEF Surroundings, LeaseRunsOut, ClaimGoesStale, ChangeMood, eventVars
    <2> QED BY <1>1, <1>t, <2>1, <2>2 DEF RowInv, Sending, Attended, Settled, Reopening
  <1> QED BY <1>2, <1>3, <1>4

LEMMA RowStep ==
    ASSUME Typed, Typed', OneHolder, OneHolder', RowInv, [Next]_vars
    PROVE  RowInv' /\ [\A s \in Stages : Reopening(s)]_vars
  <1>1. CASE UNCHANGED vars BY <1>1 DEF vars, RowInv, Sending
  <1> QED BY <1>1, RowSender, RowElsewhere DEF Next

LEMMA RowInit == ASSUME Init PROVE RowInv
  BY IdleTyped DEF Init, RowInv, Sending

\* As long as one replica is at work at a time, what is delivered or superseded does
\* not wait again, but for a missed entry that the lifecycle dispatcher has told of
\* meanwhile: see SettledForGood.
THEOREM SettledStays == Spec /\ []OneHolder => SettledForGood
  <1>1. Typed /\ Typed' /\ OneHolder /\ OneHolder' /\ RowInv /\ [Next]_vars
           => RowInv' /\ [\A s \in Stages : Reopening(s)]_vars
    BY RowStep
  <1>2. [\A s \in Stages : Reopening(s)]_vars
           => [\A s \in Stages :
                  row[s] \in Settled /\ row'[s] \notin Settled =>
                     /\ s = "missed_entry" /\ s \in told
                     /\ \E p \in Replicas : sender[p].pc = "failed" /\ sender[p].status = s]_vars
    BY DEF Reopening
  <1> QED BY <1>1, <1>2, AlwaysTyped, RowInit, PTL DEF Spec, SettledForGood

-----------------------------------------------------------------------------
(* The order of what a recipient is told. *)

\* Stage t may have been told before s.
Before(t, s) == ~EndsStory(t) /\ StageRank[t] <= StageRank[s]

\* Until the outcome is final nothing was told, and nothing is being sent, that
\* lies beyond it; and whoever sends a stage holds one nothing told lies beyond.
StoryInv ==
    /\ outcome \notin Final =>
          /\ \A t \in told : Before(t, outcome)
          /\ \A p \in Replicas : sender[p].status # Absent => Before(sender[p].status, outcome)
    /\ \A p \in Replicas : sender[p].status \notin Final \cup {Absent} =>
          \A t \in told : Before(t, sender[p].status)

\* Progress is ordered by rank, and only final outcomes end a story.
LEMMA Ranks ==
    /\ \A s \in Statuses : StageRank[s] \in Nat
    /\ \A s \in Statuses : EndsStory(s) => s \in Final
    /\ \A s, t \in Statuses \ Final : OutcomeMoveAllowed(s, t) => StageRank[s] <= StageRank[t]
    /\ Before("missed_entry", Absent) /\ \A s \in Statuses : Before("missed_entry", s)
  BY DEF Statuses, Final, Absent, StageRank, EndsStory, OutcomeMoveAllowed, StatusTarget, Before

LEMMA StagesTyped ==
    ASSUME Typed
    PROVE  /\ outcome \in Statuses /\ told \subseteq Statuses
           /\ \A p \in Replicas : sender[p].status \in Statuses
           /\ \A s \in Stages : s \in Statuses /\ s # Absent
  BY NotifyAssumption DEF Typed, TypeOK, SenderStates, Statuses

LEMMA StoryInit == ASSUME Init PROVE StoryInv
  BY IdleTyped DEF Init, StoryInv

LEMMA StoryTracker ==
    ASSUME Typed, StoryInv, TrackerStep
    PROVE  StoryInv'
  <1>1. UNCHANGED <<told, sender>>
    BY DEF TrackerStep, CommitOutcome, QueueRows, QueueingFails, RepairQueue, Correct
  <1>2. CASE outcome' = outcome BY <1>1, <1>2 DEF StoryInv
  <1>3. ASSUME NEW s \in Stages, CommitOutcome(s) PROVE StoryInv'
    <2>1. outcome' = s /\ OutcomeMoveAllowed(outcome, s) /\ outcome \in Statuses /\ s \in Statuses
      BY <1>3, StagesTyped DEF CommitOutcome, Follows
    <2>2. s \notin Final => outcome \notin Final BY <2>1 DEF OutcomeMoveAllowed
    <2>3. s \notin Final => StageRank[outcome] <= StageRank[s] BY <2>1, <2>2, Ranks
    <2>4. ASSUME NEW t \in Statuses, Before(t, outcome), s \notin Final PROVE Before(t, s)
      BY <2>1, <2>3, <2>4, Ranks DEF Before
    <2> QED BY <1>1, <2>1, <2>2, <2>4, StagesTyped DEF StoryInv
  <1>4. ASSUME NEW s \in Stages, Correct(s) PROVE StoryInv'
    <2>1. outcome' \in Final BY <1>4 DEF Correct
    <2> QED BY <1>1, <2>1 DEF StoryInv
  <1> QED BY <1>2, <1>3, <1>4 DEF TrackerStep, QueueRows, QueueingFails, RepairQueue, queueVars

LEMMA StoryEvent ==
    ASSUME Typed, StoryInv, EventStep
    PROVE  StoryInv'
  <1>1. UNCHANGED <<outcome, sender>> /\ told' \subseteq told \cup {"missed_entry"}
    BY DEF EventStep, RecordMissedEntry, ClaimEvent, SuppressEvent, SendEvent, SendEventFails, FinishEvent,
           DispatcherDies, EventGoesStale, queueVars
  <1> QED BY <1>1, Ranks, StagesTyped DEF StoryInv

\* What the step of a replica tells, and of which outcome it is about afterwards.
LEMMA StorySender ==
    ASSUME Typed, OneHolder, StoryInv, NEW p \in Replicas, SenderStep(p)
    PROVE  StoryInv'
  <1> DEFINE st == sender[p].status
  <1>o. outcome' = outcome
    BY DEF SenderStep, TakeLease, Fetch, NothingListed, Claim, ClaimFails, SendAccepted, SendFails,
           MarkDelivered, MarkDeliveredFails, MarkFailed, Finish, FinishFails, SenderDies, KeepOthers,
           queueVars
  <1>t. sender \in [Replicas -> SenderStates] BY DEF Typed, TypeOK
  <1>q. \A q \in Replicas : q # p => sender'[q] = sender[q]
    BY SenderMoves DEF Typed, SenderTyped, Others
  <1>1. CASE SendAccepted(p) \/ SendFails(p)
    <2>1. told' \subseteq told \cup {st} /\ sender[p].pc = "sending"
      BY <1>1 DEF SendAccepted, SendFails
    <2>2. sender'[p].status = st BY <1>1, <1>t DEF SendAccepted, SendFails, SetSender, SenderStates
    <2>3. \A q \in Replicas : q # p => sender[q].status = Absent
      <3>1. \A q \in Replicas : q # p => sender[q].pc = "idle" BY <2>1, Alone
      <3> QED BY <3>1 DEF Typed, TypeOK
    <2>4. st \in Statuses /\ st # Absent BY <2>1 , StagesTyped DEF Typed, TypeOK
    <2>5. st \notin Final => Before(st, st) BY <2>4, Ranks DEF Before
    <2> QED BY <1>o, <1>q, <2>1, <2>2, <2>3, <2>4, <2>5 DEF StoryInv
  <1>2. CASE Fetch(p)
    <2>1. told' = told /\ sender'[p].status = outcome
      BY <1>2, <1>t DEF Fetch, SetSender
    <2>2. outcome \notin Final => Before(outcome, outcome) BY StagesTyped, Ranks DEF Before
    <2> QED BY <1>o, <1>q, <2>1, <2>2 DEF StoryInv
  <1>3. CASE told' = told /\ sender'[p].status \in {st, Absent}
    BY <1>3, <1>o, <1>q DEF StoryInv
  <1>4. CASE ~(SendAccepted(p) \/ SendFails(p) \/ Fetch(p))
    <2>1. told' = told
      BY <1>4 DEF SenderStep, TakeLease, NothingListed, Claim, ClaimFails, MarkDelivered,
             MarkDeliveredFails, MarkFailed, Finish, FinishFails, SenderDies
    <2>2. sender'[p].status \in {st, Absent}
      <3>1. CASE TakeLease(p) BY <3>1, <1>t, IdleTyped DEF TakeLease, SetSender, SenderStates
      <3>2. CASE SetSender(p, IdleSender) BY <3>2, <1>t, IdleTyped DEF SetSender
      <3>3. ASSUME NEW pc \in SenderPCs,
                   \/ SetSender(p, [sender[p] EXCEPT !.pc = pc])
                   \/ SetSender(p, [sender[p] EXCEPT !.pc = pc, !.held = TRUE])
            PROVE  sender'[p].status = st
        BY <3>3, <1>t DEF SetSender, SenderStates
      <3>4. CASE Claim(p) BY <3>4, <3>3 DEF Claim, SenderPCs
      <3>5. CASE ClaimFails(p) \/ MarkDelivered(p) \/ MarkDeliveredFails(p) \/ MarkFailed(p)
        BY <3>5, <3>3 DEF ClaimFails, MarkDelivered, MarkDeliveredFails, MarkFailed, SenderPCs
      <3> QED BY <1>4, <3>1, <3>2, <3>4, <3>5
              DEF SenderStep, NothingListed, Finish, FinishFails, SenderDies
    <2> QED BY <1>3, <2>1, <2>2
  <1> QED BY <1>1, <1>2, <1>4

LEMMA StoryStep == ASSUME Typed, OneHolder, StoryInv, [Next]_vars PROVE StoryInv'
  <1>1. CASE UNCHANGED <<told, sender, outcome>> BY <1>1 DEF StoryInv
  <1>2. Surroundings => UNCHANGED <<told, sender, outcome>>
    BY DEF Surroundings, LeaseRunsOut, ClaimGoesStale, ChangeMood, queueVars
  <1> QED BY <1>1, <1>2, StoryTracker, StoryEvent, StorySender DEF Next, vars

\* As long as one replica is at work at a time, a recipient is not told of an
\* earlier stage after a later one: see NotifiedInOrder.
THEOREM ToldInOrder == Spec /\ []OneHolder => NotifiedInOrder
  <1> DEFINE InOrder == \A p \in Replicas :
                /\ sender[p].pc = "sending" /\ sender'[p].pc \in {"sent", "failed"}
                /\ sender[p].status \notin Final
                => \A t \in told : ~EndsStory(t) /\ StageRank[t] <= StageRank[sender[p].status]
  <1>1. Typed /\ StoryInv => InOrder
    <2> HAVE Typed /\ StoryInv
    <2> TAKE p \in Replicas
    <2> HAVE sender[p].pc = "sending" /\ sender'[p].pc \in {"sent", "failed"}
             /\ sender[p].status \notin Final
    <2>1. sender[p].status # Absent BY DEF Typed, TypeOK
    <2>2. \A t \in told : Before(t, sender[p].status) BY <2>1 DEF StoryInv
    <2> QED BY <2>2 DEF Before
  <1>2. Typed /\ OneHolder /\ StoryInv /\ [Next]_vars => StoryInv' BY StoryStep
  <1>3. Init => StoryInv BY StoryInit
  <1> QED BY <1>1, <1>2, <1>3, AlwaysTyped, PTL DEF Spec, NotifiedInOrder

=============================================================================
