----------------------- MODULE TradeExecution_proofs -----------------------
(***************************************************************************)
(* Theorems of TradeExecution, for any calls, processes, keys and limits.  *)
(***************************************************************************)
EXTENDS TradeExecution, FiniteSetTheorems, TLAPS

-----------------------------------------------------------------------------
(* The inductive invariant. *)

\* The call holds its key's reservation and has not asked the broker yet.
OnItsWay(c) == call[c].pc \in {"reserved", "slotted"}

\* A reservation is taken by one call, once, and an order needs one.
OrderInv ==
    /\ \A c \in Calls : OnItsWay(c) => call[c].key \in reserved /\ orders[call[c].key] = 0
    /\ \A c, d \in Calls : OnItsWay(c) /\ OnItsWay(d) /\ call[c].key = call[d].key => c = d
    /\ \A k \in Keys : /\ orders[k] > 0 => orders[k] = 1 /\ k \in reserved
                       /\ orders[k] = 0 => position[k] = "none" /\ k \notin answered

\* A closing deal the reconciler saw is there.
BookInv ==
    /\ ClosedIsBooked
    /\ recon.pc = "persist" /\ recon.closing # "none" => position[recon.key] = recon.closing

IInv == TypeOK /\ OrderInv /\ BookInv

-----------------------------------------------------------------------------
(* What the helpers of a call do. *)

PCs == {"idle", "admitted", "gated", "reserved", "slotted", "acknowledged", "unsuccessful"}

Others(c) == \A d \in Calls : d # c => call'[d] = call[d]

LEMMA StepEffect ==
    ASSUME call \in [Calls -> CallStates], NEW c \in Calls, NEW pc \in PCs, Step(c, pc)
    PROVE  /\ call' \in [Calls -> CallStates]
           /\ call'[c].pc = pc /\ call'[c].key = call[c].key /\ call'[c].proc = call[c].proc
           /\ Others(c)
  BY DEF Step, CallStates, PCs, Others

LEMMA LeaveEffect ==
    ASSUME call \in [Calls -> CallStates], NEW c \in Calls, Leave(c)
    PROVE  call' \in [Calls -> CallStates] /\ call'[c] = IdleCall /\ Others(c)
  BY DEF Leave, CallStates, IdleCall, Others

LEMMA DeathEffect ==
    ASSUME call \in [Calls -> CallStates], NEW p \in Processes, ProcessDies(p)
    PROVE  /\ call' \in [Calls -> CallStates]
           /\ \A c \in Calls : call'[c] = IdleCall \/ call'[c] = call[c]
  BY DEF ProcessDies, CallStates, IdleCall

\* Where a call can be after its step.
LEMMA CallMoves ==
    ASSUME TypeOK, NEW c \in Calls, RouteStep(c)
    PROVE  /\ call' \in [Calls -> CallStates] /\ Others(c)
           /\ call'[c].pc # "idle" => call'[c].key \in Keys /\ call'[c].proc \in Processes
  <1> DEFINE Goal == /\ call' \in [Calls -> CallStates] /\ Others(c)
                     /\ call'[c].pc # "idle" => call'[c].key \in Keys /\ call'[c].proc \in Processes
  <1> USE DEF TypeOK, At
  <1>1. ASSUME NEW p \in Processes, NEW k \in Keys, Admit(c, p, k) PROVE Goal
    BY <1>1 DEF Admit, CallStates, Others
  <1>2. ASSUME NEW pc \in PCs, Step(c, pc), call[c].pc # "idle" PROVE Goal
    BY <1>2, StepEffect
  <1>3. ASSUME Leave(c) PROVE Goal
    BY <1>3, LeaveEffect DEF IdleCall
  <1>4. CASE EnterGate(c) BY <1>4, <1>2, <1>3 DEF EnterGate, PCs
  <1>5. CASE Reserve(c) \/ TakeSlot(c) BY <1>5, <1>2, <1>3 DEF Reserve, TakeSlot, PCs
  <1>6. CASE OrderAccepted(c) \/ OrderRefused(c) \/ AnswerLost(c)
    BY <1>6, <1>2 DEF OrderAccepted, OrderRefused, AnswerLost, PCs
  <1>7. CASE ReserveFails(c) \/ TakeSlotFails(c) \/ Book(c) \/ BookFails(c) \/ ReleaseSlot(c)
             \/ ReleaseSlotFails(c)
    BY <1>7, <1>3 DEF ReserveFails, TakeSlotFails, Book, BookFails, ReleaseSlot, ReleaseSlotFails
  <1> QED BY <1>1, <1>4, <1>5, <1>6, <1>7 DEF RouteStep

-----------------------------------------------------------------------------
(* Types. *)

LEMMA IdleReconTyped == IdleRecon \in ReconStates
  BY DEF IdleRecon, ReconStates

LEMMA TypeInit == ASSUME Init PROVE TypeOK
  <1>1. IdleRecon \in ReconStates BY IdleReconTyped
  <1>2. IdleSweep \in [pc : {"idle", "closing"}, left : SUBSET Keys] BY DEF IdleSweep
  <1>3. call \in [Calls -> CallStates] BY DEF Init, IdleCall, CallStates
  <1>4. used \in 0 .. DailyLimit BY ExecutionAssumption DEF Init
  <1> QED BY <1>1, <1>2, <1>3, <1>4 DEF Init, TypeOK, IdleCall, IdleRecon, RowStates

LEMMA TypeRoute ==
    ASSUME TypeOK, NEW c \in Calls, RouteStep(c)
    PROVE  TypeOK'
  <1>1. /\ call' \in [Calls -> CallStates]
        /\ \A d \in Calls : call'[d].pc # "idle" => call'[d].key \in Keys /\ call'[d].proc \in Processes
    BY CallMoves DEF TypeOK, Others
  <1> USE DEF TypeOK, brokerVars, reconVars, killVars
  <1>2. /\ killSwitch' \in BOOLEAN /\ swept' \in BOOLEAN
        /\ sweep' \in [pc : {"idle", "closing"}, left : SUBSET Keys]
        /\ recon' \in ReconStates /\ (recon'.pc = "persist" => recon'.key \in Keys)
        /\ ledger' \subseteq Keys /\ held' \subseteq Keys
    BY DEF RouteStep, Admit, EnterGate, Reserve, ReserveFails, TakeSlot, TakeSlotFails, OrderAccepted,
           OrderRefused, AnswerLost, Book, BookFails, ReleaseSlot, ReleaseSlotFails
  <1>3. CASE \E p \in Processes, k \in Keys : Admit(c, p, k) BY <1>1, <1>2, <1>3 DEF Admit
  <1>4. CASE EnterGate(c) BY <1>1, <1>2, <1>4 DEF EnterGate, At, CallStates
  <1>5. CASE Reserve(c) \/ ReserveFails(c) BY <1>1, <1>2, <1>5 DEF Reserve, ReserveFails, At
  <1>6. CASE TakeSlot(c) \/ TakeSlotFails(c) \/ ReleaseSlot(c) \/ ReleaseSlotFails(c)
    <2>1. used' \in 0 .. DailyLimit
      BY <1>6, ExecutionAssumption DEF TakeSlot, TakeSlotFails, ReleaseSlot, ReleaseSlotFails
    <2> QED BY <1>1, <1>2, <1>6, <2>1 DEF TakeSlot, TakeSlotFails, ReleaseSlot, ReleaseSlotFails
  <1>7. CASE OrderAccepted(c) \/ AnswerLost(c)
    BY <1>1, <1>2, <1>7 DEF OrderAccepted, AnswerLost, PlaceOrder, At
  <1>8. CASE OrderRefused(c) \/ BookFails(c) BY <1>1, <1>2, <1>8 DEF OrderRefused, BookFails
  <1>9. CASE Book(c) BY <1>1, <1>2, <1>9 DEF Book, At, RowStates
  <1> QED BY <1>3, <1>4, <1>5, <1>6, <1>7, <1>8, <1>9 DEF RouteStep

LEMMA TypeDeath ==
    ASSUME TypeOK, NEW p \in Processes, ProcessDies(p)
    PROVE  TypeOK'
  <1>1. /\ call' \in [Calls -> CallStates]
        /\ \A d \in Calls : call'[d].pc # "idle" => call'[d].key \in Keys /\ call'[d].proc \in Processes
    BY DeathEffect DEF TypeOK, IdleCall
  <1> QED BY <1>1 DEF TypeOK, ProcessDies, brokerVars, reconVars, killVars

LEMMA TypeReconciler ==
    ASSUME TypeOK, ReconcilerStep
    PROVE  TypeOK'
  <1>1. recon' \in ReconStates /\ (recon'.pc = "persist" => recon'.key \in Keys)
    <2> USE DEF TypeOK
    <2>1. CASE Scan BY <2>1 DEF Scan, Unsettled, ReconStates
    <2>2. CASE Snapshot BY <2>2 DEF Snapshot, ReconStates
    <2>3. CASE recon' = IdleRecon BY <2>3, IdleReconTyped DEF IdleRecon
    <2>4. CASE \E k \in Keys : ReadDeals(k) BY <2>4 DEF ReadDeals, Shown, ReconStates
    <2>5. CASE NextRow BY <2>5 DEF NextRow, ReconStates
    <2> QED BY <2>1, <2>2, <2>3, <2>4, <2>5
            DEF ReconcilerStep, SnapshotFails, CycleEnds, ReconcilerDies, Persist, RowFails
  <1>2. row' \in [Keys -> RowStates] /\ ledger' \subseteq Keys
    BY DEF TypeOK, ReconcilerStep, Scan, Snapshot, SnapshotFails, CycleEnds, ReconcilerDies, ReadDeals,
           Persist, WithProfit, RowFails, RowStates
  <1>3. UNCHANGED <<routeVars, brokerVars, killVars, held>>
    BY DEF ReconcilerStep, Scan, Snapshot, SnapshotFails, CycleEnds, ReconcilerDies, ReadDeals,
           Persist, RowFails, KeepOthers
  <1> QED BY <1>1, <1>2, <1>3 DEF TypeOK, routeVars, brokerVars, killVars

LEMMA TypeSurroundings ==
    ASSUME TypeOK, BrokerStep \/ WatchdogStep \/ JobStep
    PROVE  TypeOK'
  <1> USE DEF TypeOK, routeVars, brokerVars, killVars, reconVars
  <1>1. CASE BrokerStep
    <2>1. position' \in [Keys -> {"none", "open", "closed", "settled", "unnamed"}]
      BY <1>1 DEF BrokerStep, PositionCloses, DealAppears
    <2> QED BY <1>1, <2>1 DEF BrokerStep, PositionCloses, DealAppears
  <1>2. CASE TurnSwitch \/ MarkerGoes BY <1>2 DEF TurnSwitch, MarkerGoes
  <1>5. CASE SweepStarts
    <2>1. PICK listed \in SUBSET Keys : sweep' = [pc |-> "closing", left |-> listed]
      BY <1>5 DEF SweepStarts
    <2> QED BY <1>5, <2>1 DEF SweepStarts
  <1>6. CASE SweepDies BY <1>6 DEF SweepDies, IdleSweep
  <1>3. CASE \E k \in Keys : SweepPosition(k)
    <2>1. PICK k \in Keys : SweepPosition(k) BY <1>3
    <2>2. position' \in [Keys -> {"none", "open", "closed", "settled", "unnamed"}]
      BY <2>1 DEF SweepPosition
    <2> QED BY <2>1, <2>2 DEF SweepPosition
  <1>4. CASE SweepRows BY <1>4 DEF SweepRows, IdleSweep, RowStates
  <1>7. CASE JobReads \/ JobEnds BY <1>7 DEF JobReads, JobEnds, OpenRows
  <1>8. CASE JobWrites
    <2>1. PICK marked \in SUBSET held :
             /\ row' = [k \in Keys |-> IF k \in marked THEN "marked" ELSE row[k]]
             /\ held' = held \ marked
      BY <1>8 DEF JobWrites
    <2>2. row' \in [Keys -> RowStates] /\ held' \subseteq Keys BY <2>1 DEF RowStates
    <2> QED BY <1>8, <2>2 DEF JobWrites
  <1>9. CASE \E k \in Keys : ExitCloses(k) BY <1>9 DEF ExitCloses
  <1> QED BY <1>1, <1>2, <1>3, <1>4, <1>5, <1>6, <1>7, <1>8, <1>9 DEF WatchdogStep, JobStep

LEMMA TypeStep == ASSUME TypeOK, [Next]_vars PROVE TypeOK'
  <1>1. CASE UNCHANGED vars BY <1>1 DEF vars, TypeOK
  <1> QED BY <1>1, TypeRoute, TypeDeath, TypeReconciler, TypeSurroundings DEF Next

\* In every state of every behaviour the variables have their types: see TypeOK.
THEOREM TypeCorrect == Spec => []TypeOK
  BY TypeInit, TypeStep, PTL DEF Spec

-----------------------------------------------------------------------------
(* One order of a key. *)

LEMMA OrderInit == ASSUME Init PROVE OrderInv
  BY DEF Init, OrderInv, OnItsWay, IdleCall

\* A call that is not on its way afterwards, while no order is placed.
LEMMA OrderAside ==
    ASSUME TypeOK, OrderInv, TypeOK', NEW c \in Calls, Others(c), ~OnItsWay(c)', reserved \subseteq reserved',
           orders' = orders, position' = position, answered' = answered
    PROVE  OrderInv'
  BY DEF OrderInv, OnItsWay, Others, TypeOK

\* A call that stays on its way.
LEMMA OrderOnward ==
    ASSUME TypeOK, OrderInv, TypeOK', NEW c \in Calls, Others(c), OnItsWay(c), call'[c].key = call[c].key,
           reserved' = reserved, orders' = orders, position' = position, answered' = answered
    PROVE  OrderInv'
  BY DEF OrderInv, OnItsWay, Others, TypeOK

LEMMA OrderReserve ==
    ASSUME TypeOK, OrderInv, TypeOK', NEW c \in Calls, Reserve(c)
    PROVE  OrderInv'
  <1>1. CASE call[c].key \in reserved
    BY <1>1, OrderAside, LeaveEffect DEF Reserve, TypeOK, OnItsWay, IdleCall, brokerVars
  <1>2. CASE call[c].key \notin reserved
    <2>1. Step(c, "reserved") BY <1>2 DEF Reserve
    <2>2. call'[c].key = call[c].key /\ call'[c].pc = "reserved" /\ Others(c)
      BY <2>1, StepEffect DEF TypeOK, PCs
    <2>3. call[c].key \in Keys BY DEF TypeOK, Reserve, At
    <2>4. reserved' = reserved \cup {call[c].key} /\ orders' = orders /\ position' = position /\ answered' = answered
      BY DEF Reserve, brokerVars
    <2>5. orders[call[c].key] = 0 BY <1>2, <2>3 DEF OrderInv, TypeOK
    <2>6. \A d \in Calls : OnItsWay(d) => call[d].key # call[c].key BY <1>2 DEF OrderInv
    <2> QED BY <2>2, <2>3, <2>4, <2>5, <2>6 DEF OrderInv, OnItsWay, Others
  <1> QED BY <1>1, <1>2

LEMMA OrderPlaced ==
    ASSUME TypeOK, OrderInv, TypeOK', NEW c \in Calls, OnItsWay(c), PlaceOrder(call[c].key),
           NEW pc \in PCs, Step(c, pc), ~OnItsWay(c)',
           reserved' = reserved, answered' \subseteq answered \cup {call[c].key}
    PROVE  OrderInv'
  <1> DEFINE k == call[c].key
  <1>1. k \in Keys /\ k \in reserved /\ orders[k] = 0 BY DEF OrderInv, OnItsWay, TypeOK
  <1>2. orders'[k] = 1 /\ \A l \in Keys \ {k} : orders'[l] = orders[l] /\ position'[l] = position[l]
    BY <1>1 DEF PlaceOrder, TypeOK
  <1>3. Others(c) BY StepEffect DEF TypeOK
  <1>4. \A d \in Calls : OnItsWay(d)' => d # c /\ OnItsWay(d) /\ call'[d] = call[d] /\ call[d].key # k
    BY <1>3 DEF OrderInv, OnItsWay, Others
  <1>5. \A d \in Calls : OnItsWay(d)' => call[d].key \in Keys BY <1>4 DEF OnItsWay, TypeOK
  <1> QED BY <1>1, <1>2, <1>4, <1>5 DEF OrderInv

LEMMA OrderRoute ==
    ASSUME TypeOK, OrderInv, TypeOK', NEW c \in Calls, RouteStep(c)
    PROVE  OrderInv'
  <1> USE DEF brokerVars
  <1>o. Others(c) BY CallMoves
  <1>1. CASE \E p \in Processes, k \in Keys : Admit(c, p, k)
    <2>1. ~OnItsWay(c)' BY <1>1 DEF Admit, OnItsWay, TypeOK, CallStates
    <2> QED BY <1>1, <1>o, <2>1, OrderAside DEF Admit
  <1>2. CASE EnterGate(c)
    <2>1. ~OnItsWay(c)'
      BY <1>2, StepEffect, LeaveEffect DEF EnterGate, OnItsWay, TypeOK, IdleCall, PCs
    <2> QED BY <1>2, <1>o, <2>1, OrderAside DEF EnterGate
  <1>3. CASE Reserve(c) BY <1>3, OrderReserve
  <1>4. CASE ReserveFails(c) \/ TakeSlotFails(c) \/ Book(c) \/ BookFails(c) \/ ReleaseSlot(c)
             \/ ReleaseSlotFails(c)
    <2>1. ~OnItsWay(c)'
      BY <1>4, LeaveEffect DEF OnItsWay, TypeOK, IdleCall, ReserveFails, TakeSlotFails, Book, BookFails,
                               ReleaseSlot, ReleaseSlotFails
    <2> QED BY <1>4, <1>o, <2>1, OrderAside
            DEF ReserveFails, TakeSlotFails, Book, BookFails, ReleaseSlot, ReleaseSlotFails
  <1>5. CASE TakeSlot(c)
    <2>1. CASE Step(c, "slotted")
      BY <1>5, <1>o, <2>1, StepEffect, OrderOnward DEF TakeSlot, OnItsWay, At, TypeOK, PCs
    <2>2. CASE Leave(c)
      BY <1>5, <1>o, <2>2, LeaveEffect, OrderAside DEF TakeSlot, OnItsWay, IdleCall, TypeOK
    <2> QED BY <1>5, <2>1, <2>2 DEF TakeSlot
  <1>6. CASE OrderRefused(c)
    <2>1. ~OnItsWay(c)' BY <1>6, StepEffect DEF OrderRefused, OnItsWay, TypeOK, PCs
    <2> QED BY <1>6, <1>o, <2>1, OrderAside DEF OrderRefused
  <1>7. CASE OrderAccepted(c)
    <2>1. OnItsWay(c) /\ Step(c, "acknowledged") /\ PlaceOrder(call[c].key)
      BY <1>7 DEF OrderAccepted, OnItsWay, At
    <2>2. ~OnItsWay(c)' BY <2>1, StepEffect DEF OnItsWay, TypeOK, PCs
    <2> QED BY <1>7, <2>1, <2>2, OrderPlaced DEF OrderAccepted, PCs
  <1>8. CASE AnswerLost(c)
    <2>1. OnItsWay(c) /\ Step(c, "unsuccessful") /\ PlaceOrder(call[c].key)
      BY <1>8 DEF AnswerLost, OnItsWay, At
    <2>2. ~OnItsWay(c)' BY <2>1, StepEffect DEF OnItsWay, TypeOK, PCs
    <2> QED BY <1>8, <2>1, <2>2, OrderPlaced DEF AnswerLost, PCs
  <1> QED BY <1>1, <1>2, <1>3, <1>4, <1>5, <1>6, <1>7, <1>8 DEF RouteStep

\* Positions move on only where there was one.
LEMMA OrderElsewhere ==
    ASSUME TypeOK, OrderInv, BrokerStep \/ ReconcilerStep \/ WatchdogStep \/ JobStep
    PROVE  OrderInv'
  <1>1. UNCHANGED <<call, reserved, orders, answered>>
    BY DEF BrokerStep, PositionCloses, DealAppears, ReconcilerStep, Scan, Snapshot, SnapshotFails,
           ReadDeals, Persist, RowFails, CycleEnds, ReconcilerDies, KeepOthers, WatchdogStep, TurnSwitch,
           MarkerGoes, SweepStarts, SweepPosition, SweepRows, SweepDies, JobStep, JobReads, JobWrites,
           JobEnds, ExitCloses, routeVars, brokerVars
  <1>2. \A k \in Keys : position[k] = "none" => position'[k] = "none"
    BY DEF BrokerStep, PositionCloses, DealAppears, ReconcilerStep, Scan, Snapshot, SnapshotFails,
           ReadDeals, Persist, RowFails, CycleEnds, ReconcilerDies, KeepOthers, WatchdogStep, TurnSwitch,
           MarkerGoes, SweepStarts, SweepPosition, SweepRows, SweepDies, JobStep, JobReads, JobWrites,
           JobEnds, ExitCloses, brokerVars, TypeOK
  <1> QED BY <1>1, <1>2 DEF OrderInv, OnItsWay

LEMMA OrderStep == ASSUME TypeOK, OrderInv, [Next]_vars PROVE OrderInv'
  <1>0. TypeOK' BY TypeStep
  <1>1. CASE UNCHANGED vars BY <1>1 DEF vars, OrderInv, OnItsWay
  <1>2. ASSUME NEW c \in Calls, RouteStep(c) PROVE OrderInv' BY <1>0, <1>2, OrderRoute
  <1>3. ASSUME NEW p \in Processes, ProcessDies(p) PROVE OrderInv'
    <2>1. \A c \in Calls : call'[c] = IdleCall \/ call'[c] = call[c] BY <1>3, DeathEffect DEF TypeOK
    <2> QED BY <1>3, <2>1 DEF ProcessDies, OrderInv, OnItsWay, IdleCall, brokerVars
  <1> QED BY <1>1, <1>2, <1>3, OrderElsewhere DEF Next

\* A key reaches the broker at most once, for any calls and processes: see OrderOnce.
THEOREM OneOrder == Spec => []OrderOnce
  <1>1. TypeOK /\ OrderInv => OrderOnce BY DEF TypeOK, OrderInv, OrderOnce
  <1> QED BY <1>1, TypeInit, TypeStep, OrderInit, OrderStep, PTL DEF Spec

-----------------------------------------------------------------------------
(* Profit is booked from the broker's closing deal. *)

LEMMA BookInit == ASSUME Init PROVE BookInv
  BY DEF Init, BookInv, ClosedIsBooked, IdleRecon

\* A deal at the broker stays: no order is placed under a key that had one.
LEMMA DealStays ==
    ASSUME TypeOK, OrderInv, Next, NEW k \in Keys, position[k] \in {"settled", "unnamed"}
    PROVE  position'[k] = position[k]
  <1>1. ASSUME NEW c \in Calls, RouteStep(c) PROVE position'[k] = position[k]
    <2>1. CASE OrderAccepted(c) \/ AnswerLost(c)
      <3>1. OnItsWay(c) /\ PlaceOrder(call[c].key)
        BY <2>1 DEF OrderAccepted, AnswerLost, OnItsWay, At
      <3>2. orders[call[c].key] = 0 /\ call[c].key \in Keys BY <3>1 DEF OrderInv, OnItsWay, TypeOK
      <3>3. k # call[c].key BY <3>2 DEF OrderInv
      <3> QED BY <3>1, <3>3 DEF PlaceOrder, TypeOK
    <2> QED BY <1>1, <2>1 DEF RouteStep, Admit, EnterGate, Reserve, ReserveFails, TakeSlot, TakeSlotFails,
                             OrderRefused, Book, BookFails, ReleaseSlot, ReleaseSlotFails, brokerVars
  <1>2. CASE \E p \in Processes : ProcessDies(p) BY <1>2 DEF ProcessDies, brokerVars
  <1>3. CASE BrokerStep BY <1>3 DEF BrokerStep, PositionCloses, DealAppears, TypeOK
  <1>4. CASE ReconcilerStep
    BY <1>4 DEF ReconcilerStep, Scan, Snapshot, SnapshotFails, ReadDeals, Persist, RowFails, CycleEnds,
                ReconcilerDies, KeepOthers, brokerVars
  <1>5. CASE WatchdogStep
    BY <1>5 DEF WatchdogStep, TurnSwitch, MarkerGoes, SweepStarts, SweepPosition, SweepRows, SweepDies,
                brokerVars, TypeOK
  <1>6. CASE JobStep BY <1>6 DEF JobStep, JobReads, JobWrites, JobEnds, ExitCloses, TypeOK
  <1> QED BY <1>1, <1>2, <1>3, <1>4, <1>5, <1>6 DEF Next

\* A row that is neither open nor new, and what a step may make of it.
KeptOrMarked(k) == row[k] \notin {"none", "open"} => row'[k] = row[k] \/ StaleWrite(k)

\* Outside the reconciler no row becomes closed and no profit is booked.
LEMMA BookElsewhere ==
    ASSUME TypeOK, BrokerStep \/ WatchdogStep \/ JobStep \/ (\E c \in Calls : RouteStep(c))
                           \/ (\E p \in Processes : ProcessDies(p))
    PROVE  /\ UNCHANGED <<recon, ledger>>
           /\ \A k \in Keys : row'[k] = "closed" => row[k] = "closed"
           /\ \A k \in Keys : KeptOrMarked(k)
  <1> DEFINE Goal == /\ UNCHANGED <<recon, ledger>>
                     /\ \A k \in Keys : row'[k] = "closed" => row[k] = "closed"
                     /\ \A k \in Keys : KeptOrMarked(k)
  <1> USE DEF reconVars, TypeOK, KeptOrMarked
  <1>1. CASE BrokerStep BY <1>1 DEF BrokerStep, PositionCloses, DealAppears
  <1>2. CASE WatchdogStep
    BY <1>2 DEF WatchdogStep, TurnSwitch, MarkerGoes, SweepStarts, SweepPosition, SweepRows, SweepDies
  <1>3. ASSUME NEW c \in Calls, RouteStep(c) PROVE Goal
    <2>1. CASE Book(c) BY <1>3, <2>1 DEF Book
    <2> QED BY <1>3, <2>1 DEF RouteStep, Admit, EnterGate, Reserve, ReserveFails, TakeSlot, TakeSlotFails,
                             OrderAccepted, AnswerLost, OrderRefused, BookFails, ReleaseSlot,
                             ReleaseSlotFails
  <1>4. CASE \E p \in Processes : ProcessDies(p) BY <1>4 DEF ProcessDies
  <1>5. CASE JobWrites
    <2>1. PICK marked \in SUBSET held : row' = [k \in Keys |-> IF k \in marked THEN "marked" ELSE row[k]]
      BY <1>5 DEF JobWrites
    <2> QED BY <1>5, <2>1 DEF JobWrites, StaleWrite
  <1>6. CASE JobReads \/ JobEnds \/ \E k \in Keys : ExitCloses(k)
    BY <1>6 DEF JobReads, JobEnds, ExitCloses
  <1> QED BY <1>1, <1>2, <1>3, <1>4, <1>5, <1>6 DEF JobStep

LEMMA BookReconciler ==
    ASSUME TypeOK, BookInv, ReconcilerStep
    PROVE  BookInv'
  <1> USE DEF BookInv, ClosedIsBooked, TypeOK, KeepOthers, brokerVars
  <1>1. CASE Scan \/ Snapshot
    <2>1. recon'.pc # "persist" BY <1>1 DEF Scan, Snapshot, ReconStates
    <2> QED BY <1>1, <2>1 DEF Scan, Snapshot
  <1>2. CASE recon' = IdleRecon /\ UNCHANGED <<position, row, ledger>> BY <1>2 DEF IdleRecon
  <1>3. ASSUME NEW k \in Keys, ReadDeals(k) PROVE BookInv'
    <2>1. recon'.key = k /\ (recon'.closing # "none" => position[k] = recon'.closing)
      BY <1>3 DEF ReadDeals, Shown, ReconStates
    <2> QED BY <1>3, <2>1 DEF ReadDeals
  <1>4. CASE Persist
    <2>1. recon'.pc # "persist" BY <1>4 DEF Persist, NextRow, ReconStates
    <2>2. \A k \in Keys : row'[k] = "closed" =>
             row[k] = "closed" \/ (k = recon.key /\ row[k] = "open" /\ recon.closing # "none")
      BY <1>4 DEF Persist
    <2>3. /\ ledger \subseteq ledger'
          /\ row[recon.key] = "open" /\ recon.closing = "settled" => recon.key \in ledger'
      BY <1>4 DEF Persist, WithProfit
    <2>4. \A k \in ledger' : k \in ledger \/ (k = recon.key /\ recon.closing = "settled")
      BY <1>4 DEF Persist, WithProfit
    <2>5. position' = position /\ recon.pc = "persist" BY <1>4 DEF Persist
    <2>6. recon.closing \in {"none", "settled", "unnamed"} BY DEF ReconStates
    <2> QED BY <2>1, <2>2, <2>3, <2>4, <2>5, <2>6
  <1>5. CASE RowFails
    <2>1. recon'.pc # "persist" BY <1>5 DEF RowFails, NextRow, ReconStates
    <2> QED BY <1>5, <2>1 DEF RowFails
  <1> QED BY <1>1, <1>2, <1>3, <1>4, <1>5
          DEF ReconcilerStep, SnapshotFails, CycleEnds, ReconcilerDies

LEMMA BookStep == ASSUME TypeOK, OrderInv, BookInv, [Next]_vars PROVE BookInv'
  <1>1. CASE UNCHANGED vars BY <1>1 DEF vars, BookInv, ClosedIsBooked
  <1>2. CASE Next /\ ~ReconcilerStep
    <2>1. \A k \in Keys : position[k] \in {"settled", "unnamed"} => position'[k] = position[k]
      BY <1>2, DealStays
    <2>2. /\ UNCHANGED <<recon, ledger>>
          /\ \A k \in Keys : row'[k] = "closed" => row[k] = "closed"
      BY <1>2, BookElsewhere DEF Next
    <2>3. ledger \subseteq Keys /\ (recon.pc = "persist" => recon.key \in Keys) BY DEF TypeOK
    <2>4. recon.closing \in {"none", "settled", "unnamed"} BY DEF TypeOK, ReconStates
    <2> QED BY <2>1, <2>2, <2>3, <2>4 DEF BookInv, ClosedIsBooked
  <1> QED BY <1>1, <1>2, BookReconciler DEF Next

LEMMA IInvStep == ASSUME IInv, [Next]_vars PROVE IInv'
  BY TypeStep, OrderStep, BookStep DEF IInv

\* A closed row has a closing deal, and its profit in the ledger if that deal has an
\* id; the ledger has none the broker did not show: see ClosedIsBooked.
THEOREM Booked == Spec => []ClosedIsBooked
  <1>1. Init => IInv BY TypeInit, OrderInit, BookInit DEF IInv
  <1>2. IInv => ClosedIsBooked BY DEF IInv, BookInv
  <1> QED BY <1>1, <1>2, IInvStep, PTL DEF Spec

LEMMA ClosedStep ==
    ASSUME TypeOK, [Next]_vars
    PROVE  [\A k \in Keys : KeptOrMarked(k)]_vars
  <1>1. CASE UNCHANGED vars BY <1>1
  <1>2. CASE ReconcilerStep
    BY <1>2 DEF ReconcilerStep, Scan, Snapshot, SnapshotFails, ReadDeals, Persist, RowFails, CycleEnds,
                ReconcilerDies, TypeOK, KeptOrMarked
  <1> QED BY <1>1, <1>2, BookElsewhere DEF Next

\* No step opens a row again, and none but a stale write changes it once it is closed
\* or marked: see ClosedForGood.
THEOREM NotTakenBack == Spec => ClosedForGood
  <1>1. TypeOK /\ [Next]_vars =>
          [\A k \in Keys : row[k] \notin {"none", "open"} => row'[k] = row[k] \/ StaleWrite(k)]_vars
    BY ClosedStep DEF KeptOrMarked
  <1> QED BY <1>1, TypeInit, TypeStep, PTL DEF Spec, ClosedForGood

-----------------------------------------------------------------------------
(* The day's limit. *)

\* The calls that took a slot and have no answer that uses it.
Slots == {c \in Calls : call[c].pc \in {"slotted", "unsuccessful"}}

\* Every answered order and every such call has a slot of its own.
CountInv == IsFiniteSet(answered) /\ Cardinality(answered) + Cardinality(Slots) <= used

LEMMA CountInit == ASSUME Init PROVE CountInv
  <1>1. Slots = {} /\ answered = {} /\ used = 0 BY DEF Init, Slots, IdleCall
  <1> QED BY <1>1, FS_EmptySet DEF CountInv

LEMMA SlotsFinite == IsFiniteSet(Slots) /\ Cardinality(Slots) \in Nat
  <1>1. Slots \subseteq Calls BY DEF Slots
  <1> QED BY <1>1, ExecutionAssumption, FS_Subset, FS_CardinalityType

\* A call steps aside, or nothing of it counts.
LEMMA CountFewer ==
    ASSUME TypeOK, CountInv, Slots' \subseteq Slots, answered' = answered, used' \in Nat, used' >= used
    PROVE  CountInv'
  <1>1. Cardinality(Slots') <= Cardinality(Slots) /\ Cardinality(Slots') \in Nat
    BY SlotsFinite, FS_Subset, FS_CardinalityType
  <1>2. Cardinality(answered) \in Nat BY FS_CardinalityType DEF CountInv
  <1>3. used \in Nat BY ExecutionAssumption DEF TypeOK
  <1> QED BY <1>1, <1>2, <1>3, SlotsFinite DEF CountInv

\* How a step of a call changes the slots.
LEMMA SlotsMove ==
    ASSUME NEW c \in Calls, Others(c)
    PROVE  /\ call'[c].pc \in {"slotted", "unsuccessful"} => Slots' = Slots \cup {c}
           /\ call'[c].pc \notin {"slotted", "unsuccessful"} => Slots' = Slots \ {c}
  BY DEF Slots, Others

LEMMA CountRoute ==
    ASSUME TypeOK, CountInv, NEW c \in Calls, RouteStep(c)
    PROVE  CountInv'
  <1>o. Others(c) BY CallMoves
  <1>n. used \in Nat /\ used' \in Nat
    <2>1. TypeOK' BY TypeRoute
    <2> QED BY <2>1, ExecutionAssumption DEF TypeOK
  <1>c. Cardinality(answered) \in Nat /\ IsFiniteSet(answered) BY FS_CardinalityType DEF CountInv
  <1>s. IsFiniteSet(Slots) /\ Cardinality(Slots) \in Nat BY SlotsFinite
  <1>a. c \notin Slots => Cardinality(Slots \cup {c}) = Cardinality(Slots) + 1 BY <1>s, FS_AddElement
  <1>r. c \in Slots => Cardinality(Slots \ {c}) = Cardinality(Slots) - 1 BY <1>s, FS_RemoveElement
  <1> USE DEF TypeOK
  <1>1. CASE (TakeSlot(c) /\ Step(c, "slotted"))
    <2>1. used' = used + 1 \/ (used' = used /\ Leave(c)) BY <1>1 DEF TakeSlot
    <2>2. call'[c].pc = "slotted" BY <1>1, StepEffect DEF PCs
    <2>3. ~Leave(c) BY <2>2, LeaveEffect DEF IdleCall
    <2>4. c \notin Slots BY <1>1 DEF TakeSlot, At, Slots
    <2>5. Slots' = Slots \cup {c} BY <2>2, <1>o, SlotsMove
    <2>6. answered' = answered BY <1>1 DEF TakeSlot
    <2> QED BY <2>1, <2>3, <2>4, <2>5, <2>6, <1>a, <1>n, <1>c, <1>s DEF CountInv
  <1>2. CASE OrderAccepted(c)
    <2>1. call'[c].pc = "acknowledged" /\ c \in Slots
      BY <1>2, StepEffect DEF OrderAccepted, PCs, Slots, At
    <2>2. Slots' = Slots \ {c} BY <2>1, <1>o, SlotsMove
    <2>3. answered' = answered \cup {call[c].key} /\ used' = used BY <1>2 DEF OrderAccepted
    <2>4. IsFiniteSet(answered') /\ Cardinality(answered') <= Cardinality(answered) + 1
      <3>1. CASE call[c].key \in answered
        <4>1. answered' = answered BY <3>1, <2>3
        <4> QED BY <4>1, <1>c
      <3>2. CASE call[c].key \notin answered
        <4>1. /\ IsFiniteSet(answered \cup {call[c].key})
              /\ Cardinality(answered \cup {call[c].key}) = Cardinality(answered) + 1
          BY <3>2, <1>c, FS_AddElement
        <4> QED BY <4>1, <2>3, <1>c
      <3> QED BY <3>1, <3>2
    <2>5. Cardinality(answered') \in Nat BY <2>4, FS_CardinalityType
    <2> QED BY <2>1, <2>2, <2>3, <2>4, <2>5, <1>r, <1>n, <1>c, <1>s DEF CountInv
  <1>3. CASE OrderRefused(c) \/ AnswerLost(c)
    <2>1. call'[c].pc = "unsuccessful" /\ c \in Slots
      BY <1>3, StepEffect DEF OrderRefused, AnswerLost, PCs, Slots, At
    <2>2. Slots' \subseteq Slots BY <2>1, <1>o, SlotsMove
    <2> QED BY <1>3, <2>2, <1>n, CountFewer DEF OrderRefused, AnswerLost
  <1>4. CASE ReleaseSlot(c)
    <2>1. call'[c].pc = "idle" /\ c \in Slots
      BY <1>4, LeaveEffect DEF ReleaseSlot, IdleCall, Slots, At
    <2>2. Slots' = Slots \ {c} BY <2>1, <1>o, SlotsMove
    <2>3. answered' = answered /\ used' = (IF used = 0 THEN 0 ELSE used - 1) BY <1>4 DEF ReleaseSlot
    <2>4. Cardinality(Slots') = Cardinality(Slots) - 1 BY <2>1, <2>2, <1>r
    <2>5. Cardinality(Slots') \in Nat BY <2>2, <1>s, FS_RemoveElement, FS_CardinalityType
    <2> QED BY <2>3, <2>4, <2>5, <1>n, <1>c, <1>s DEF CountInv
  <1>5. CASE Step(c, "gated") \/ Step(c, "reserved")
    <2>1. Slots' = Slots \ {c} BY <1>5, <1>o, StepEffect, SlotsMove DEF PCs
    <2>2. answered' = answered /\ used' = used
      <3>1. call'[c].pc \in {"gated", "reserved"} BY <1>5, StepEffect DEF PCs
      <3>2. ~Leave(c) /\ ~Step(c, "slotted") /\ ~Step(c, "acknowledged") /\ ~Step(c, "unsuccessful")
        BY <3>1, LeaveEffect, StepEffect DEF IdleCall, PCs
      <3>3. ~\E p \in Processes, k \in Keys : Admit(c, p, k)
        BY <3>1 DEF Admit, CallStates
      <3> QED BY <3>2, <3>3 DEF RouteStep, EnterGate, Reserve, ReserveFails, TakeSlot, TakeSlotFails,
                 OrderAccepted, OrderRefused, AnswerLost, Book, BookFails, ReleaseSlot, ReleaseSlotFails
    <2> QED BY <2>1, <2>2, <1>n, CountFewer
  <1>6. CASE Leave(c) /\ ~ReleaseSlot(c)
    <2>1. call'[c].pc = "idle" BY <1>6, LeaveEffect DEF IdleCall
    <2>2. Slots' = Slots \ {c} BY <2>1, <1>o, SlotsMove
    <2>3. ~Step(c, "slotted") /\ ~Step(c, "acknowledged") /\ ~Step(c, "unsuccessful")
      BY <2>1, StepEffect DEF PCs
    <2>4. answered' = answered /\ used' >= used
      BY <1>6, <1>n, <2>3 DEF RouteStep, Admit, EnterGate, Reserve, ReserveFails, TakeSlot, TakeSlotFails,
                 OrderAccepted, OrderRefused, AnswerLost, Book, BookFails, ReleaseSlotFails
    <2> QED BY <2>2, <2>4, <1>n, CountFewer
  <1>7. CASE \E p \in Processes, k \in Keys : Admit(c, p, k)
    <2>1. call'[c].pc = "admitted" BY <1>7 DEF Admit, CallStates
    <2>2. Slots' = Slots \ {c} BY <2>1, <1>o, SlotsMove
    <2> QED BY <1>7, <2>2, <1>n, CountFewer DEF Admit
  <1> QED BY <1>1, <1>2, <1>3, <1>4, <1>5, <1>6, <1>7
          DEF RouteStep, EnterGate, Reserve, ReserveFails, TakeSlot, TakeSlotFails, Book, BookFails,
              ReleaseSlotFails

LEMMA CountStep == ASSUME TypeOK, CountInv, [Next]_vars PROVE CountInv'
  <1>1. used \in Nat BY ExecutionAssumption DEF TypeOK
  <1>2. CASE UNCHANGED <<call, answered, used>> BY <1>1, <1>2, CountFewer DEF Slots
  <1>3. ASSUME NEW p \in Processes, ProcessDies(p) PROVE CountInv'
    <2>1. \A c \in Calls : call'[c] = IdleCall \/ call'[c] = call[c] BY <1>3, DeathEffect DEF TypeOK
    <2>2. Slots' \subseteq Slots BY <2>1 DEF Slots, IdleCall
    <2> QED BY <1>1, <1>3, <2>2, CountFewer DEF ProcessDies
  <1>4. BrokerStep \/ ReconcilerStep \/ WatchdogStep \/ JobStep => UNCHANGED <<call, answered, used>>
    BY DEF BrokerStep, PositionCloses, DealAppears, ReconcilerStep, Scan, Snapshot, SnapshotFails,
           ReadDeals, Persist, RowFails, CycleEnds, ReconcilerDies, KeepOthers, WatchdogStep, TurnSwitch,
           MarkerGoes, SweepStarts, SweepPosition, SweepRows, SweepDies, JobStep, JobReads, JobWrites,
           JobEnds, ExitCloses, routeVars
  <1> QED BY <1>2, <1>3, <1>4, CountRoute DEF Next, vars

\* Acknowledged orders stay within the day's limit: see QuotaHolds.
THEOREM QuotaKept == Spec => []QuotaHolds
  <1>1. TypeOK /\ CountInv => QuotaHolds
    <2> SUFFICES ASSUME TypeOK, CountInv PROVE QuotaHolds OBVIOUS
    <2>1. Cardinality(answered) \in Nat BY FS_CardinalityType DEF CountInv
    <2> QED BY <2>1, SlotsFinite, ExecutionAssumption DEF TypeOK, CountInv, QuotaHolds
  <1> QED BY <1>1, TypeInit, TypeStep, CountInit, CountStep, PTL DEF Spec

-----------------------------------------------------------------------------
(* The contract. *)

\* A row stands for an order the router was told of, and a job holds only rows.
RowInv ==
    /\ \A c \in Calls : call[c].pc = "acknowledged" => call[c].key \in answered
    /\ \A k \in Keys : row[k] # "none" => k \in answered
    /\ \A k \in held : row[k] # "none"

\* The proof a row gives, as the contract sees it.
OnRecord == [k \in Keys |-> IF row[k] = "none" THEN 0 ELSE 1]

LEMMA RowInit == ASSUME Init PROVE RowInv
  BY DEF Init, RowInv, IdleCall

\* Who is acknowledged was answered in the same step.
LEMMA RowRoute ==
    ASSUME TypeOK, RowInv, NEW c \in Calls, RouteStep(c)
    PROVE  RowInv'
  <1> USE DEF TypeOK
  <1>1. Others(c) BY CallMoves
  <1>2. CASE OrderAccepted(c)
    <2>1. call'[c].key = call[c].key BY <1>2, StepEffect DEF OrderAccepted, PCs
    <2> QED BY <1>1, <1>2, <2>1 DEF OrderAccepted, RowInv, Others
  <1>3. CASE Book(c)
    <2>1. call'[c].pc = "idle" BY <1>3, LeaveEffect DEF Book, IdleCall
    <2>2. call[c].key \in answered /\ answered' = answered BY <1>3 DEF Book, At, RowInv
    <2>3. \A k \in Keys : row'[k] # "none" => row[k] # "none" \/ k = call[c].key BY <1>3 DEF Book
    <2>4. held' = held /\ \A k \in Keys : row[k] # "none" => row'[k] # "none" BY <1>3 DEF Book
    <2> QED BY <1>1, <2>1, <2>2, <2>3, <2>4 DEF RowInv, Others
  <1>4. CASE ~OrderAccepted(c) /\ ~Book(c)
    <2>1. answered' = answered /\ row' = row /\ held' = held
      BY <1>4 DEF RouteStep, Admit, EnterGate, Reserve, ReserveFails, TakeSlot, TakeSlotFails, OrderRefused,
                  AnswerLost, BookFails, ReleaseSlot, ReleaseSlotFails
    <2>2. call'[c].pc # "acknowledged"
      <3>1. CASE \E p \in Processes, k \in Keys : Admit(c, p, k) BY <3>1 DEF Admit, CallStates
      <3>2. CASE \E pc \in PCs \ {"acknowledged"} : Step(c, pc) BY <3>2, StepEffect
      <3>3. CASE Leave(c) BY <3>3, LeaveEffect DEF IdleCall
      <3> QED BY <1>4, <3>1, <3>2, <3>3
              DEF RouteStep, EnterGate, Reserve, ReserveFails, TakeSlot, TakeSlotFails, OrderRefused,
                  AnswerLost, BookFails, ReleaseSlot, ReleaseSlotFails, PCs
    <2> QED BY <1>1, <2>1, <2>2 DEF RowInv, Others
  <1> QED BY <1>2, <1>3, <1>4

\* Nobody but a call writes the first row of a key.
LEMMA RowElsewhere ==
    ASSUME TypeOK, RowInv, BrokerStep \/ ReconcilerStep \/ WatchdogStep \/ JobStep
    PROVE  /\ UNCHANGED <<call, answered, orders>>
           /\ \A k \in Keys : row'[k] = "none" <=> row[k] = "none"
           /\ \A k \in held' : row[k] # "none"
  <1> USE DEF routeVars, brokerVars, TypeOK, RowInv
  <1>1. CASE BrokerStep BY <1>1 DEF BrokerStep, PositionCloses, DealAppears
  <1>2. CASE ReconcilerStep
    BY <1>2 DEF ReconcilerStep, Scan, Snapshot, SnapshotFails, ReadDeals, Persist, RowFails, CycleEnds,
                ReconcilerDies, KeepOthers
  <1>3. CASE WatchdogStep
    BY <1>3 DEF WatchdogStep, TurnSwitch, MarkerGoes, SweepStarts, SweepPosition, SweepRows, SweepDies
  <1>4. CASE JobReads \/ JobEnds \/ \E k \in Keys : ExitCloses(k)
    BY <1>4 DEF JobReads, JobEnds, ExitCloses, OpenRows
  <1>5. CASE JobWrites
    <2>1. PICK marked \in SUBSET held :
             /\ row' = [k \in Keys |-> IF k \in marked THEN "marked" ELSE row[k]]
             /\ held' = held \ marked
      BY <1>5 DEF JobWrites
    <2> QED BY <1>5, <2>1 DEF JobWrites
  <1> QED BY <1>1, <1>2, <1>3, <1>4, <1>5 DEF JobStep

LEMMA RowStep == ASSUME TypeOK, RowInv, [Next]_vars PROVE RowInv'
  <1>1. CASE UNCHANGED vars BY <1>1 DEF vars, RowInv
  <1>2. ASSUME NEW p \in Processes, ProcessDies(p) PROVE RowInv'
    <2>1. \A c \in Calls : call'[c] = IdleCall \/ call'[c] = call[c] BY <1>2, DeathEffect DEF TypeOK
    <2> QED BY <1>2, <2>1 DEF ProcessDies, RowInv, IdleCall
  <1>3. CASE BrokerStep \/ ReconcilerStep \/ WatchdogStep \/ JobStep
    <2>1. held' \subseteq Keys BY <1>3, TypeStep DEF Next, TypeOK
    <2> QED BY <1>3, <2>1, RowElsewhere DEF RowInv
  <1> QED BY <1>1, <1>2, <1>3, RowRoute DEF Next

LEMMA ContractStep ==
    ASSUME TypeOK, OrderInv, RowInv, [Next]_vars
    PROVE  [Contract!ContractNext]_<<orders, OnRecord>>
  <1>0. row \in [Keys -> RowStates] /\ orders \in [Keys -> Nat] BY DEF TypeOK
  <1>1. ASSUME NEW c \in Calls, OrderAccepted(c) \/ AnswerLost(c) PROVE Contract!ContractNext
    <2> DEFINE k == call[c].key
    <2>1. k \in Keys /\ orders[k] = 0
      BY <1>1 DEF OrderAccepted, AnswerLost, At, OrderInv, OnItsWay, TypeOK
    <2>2. orders' = [orders EXCEPT ![k] = 1] /\ row' = row
      BY <1>0, <1>1, <2>1 DEF OrderAccepted, AnswerLost, PlaceOrder
    <2>3. Contract!Transmit(k) BY <2>1, <2>2 DEF Contract!Transmit
    <2> QED BY <2>1, <2>3 DEF Contract!ContractNext
  <1>2. ASSUME NEW c \in Calls, Book(c) PROVE Contract!ContractNext \/ UNCHANGED <<orders, OnRecord>>
    <2>0. PICK k \in Keys : k = call[c].key BY <1>2 DEF Book, At, TypeOK
    <2>1. orders[k] = 1 /\ orders' = orders
      BY <1>0, <1>2, <2>0 DEF Book, At, RowInv, OrderInv, TypeOK, brokerVars
    <2>2. CASE row[k] = "none"
      <3>1. row' = [row EXCEPT ![k] = "open"] BY <1>2, <2>0, <2>2 DEF Book
      <3>2. OnRecord[k] = 0 /\ OnRecord' = [OnRecord EXCEPT ![k] = 1]
        BY <1>0, <2>1, <2>2, <3>1 DEF OnRecord
      <3>3. Contract!Prove(k) BY <2>1, <3>2 DEF Contract!Prove, OnRecord
      <3> QED BY <3>3 DEF Contract!ContractNext
    <2>3. CASE row[k] # "none"
      <3>1. row' = row BY <1>0, <1>2, <2>0, <2>3 DEF Book
      <3> QED BY <2>1, <3>1 DEF OnRecord
    <2> QED BY <2>2, <2>3
  <1>3. ASSUME NEW c \in Calls, RouteStep(c), ~OrderAccepted(c), ~AnswerLost(c), ~Book(c)
        PROVE UNCHANGED <<orders, OnRecord>>
    BY <1>3 DEF RouteStep, Admit, EnterGate, Reserve, ReserveFails, TakeSlot, TakeSlotFails, OrderRefused,
                BookFails, ReleaseSlot, ReleaseSlotFails, brokerVars, OnRecord
  <1>4. CASE BrokerStep \/ ReconcilerStep \/ WatchdogStep \/ JobStep
    BY <1>4, RowElsewhere DEF OnRecord
  <1>5. CASE \E p \in Processes : ProcessDies(p) BY <1>5 DEF ProcessDies, brokerVars, OnRecord
  <1>6. CASE UNCHANGED vars BY <1>6 DEF vars, OnRecord
  <1> QED BY <1>1, <1>2, <1>3, <1>4, <1>5, <1>6 DEF Next

\* Execution implements the delivery contract, for any calls and processes: see
\* ImplementsContract.
THEOREM ExecutionImplementsContract == Spec => ImplementsContract
  <1>1. Init => Contract!ContractInit BY DEF Init, Contract!ContractInit
  <1>2. Init => TypeOK /\ OrderInv /\ RowInv BY TypeInit, OrderInit, RowInit
  <1>3. TypeOK /\ OrderInv /\ RowInv /\ [Next]_vars => (TypeOK /\ OrderInv /\ RowInv)'
    BY TypeStep, OrderStep, RowStep
  <1>4. TypeOK /\ OrderInv /\ RowInv /\ [Next]_vars => [Contract!ContractNext]_Contract!contractVars
    BY ContractStep DEF Contract!contractVars, OnRecord
  <1> QED BY <1>1, <1>2, <1>3, <1>4, PTL DEF Spec, ImplementsContract, Contract!ContractSpec

=============================================================================
