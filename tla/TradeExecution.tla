--------------------------- MODULE TradeExecution ---------------------------
(***************************************************************************)
(* A signal becomes a MetaTrader order, its position closes, and the       *)
(* profit is booked.  Calls of route_signal, in several processes, cross   *)
(* the execution gate, a durable reservation and the daily quota before    *)
(* they reach the broker; a reconciler compares rows with the broker; the  *)
(* watchdog of the kill switch closes everything once; two jobs of the bot *)
(* close weak positions and mark rows whose position they cannot see.      *)
(*                                                                         *)
(* One user with one account, over one day and one lifetime of the         *)
(* reservations (24 h).  A key is what idempotency is about: an account, a *)
(* signal and a mode.  The broker is external.                             *)
(***************************************************************************)
EXTENDS Naturals, FiniteSets

CONSTANTS
    Calls,         \* concurrent calls of route_signal
    Processes,     \* each with a gate of its own
    Keys,          \* idempotency keys
    NoKey, NoProcess,
    DailyLimit,    \* executions a day
    MaxPositions   \* positions at a time, as the profile has it

ASSUME ExecutionAssumption ==
    /\ NoKey \notin Keys /\ NoProcess \notin Processes
    /\ DailyLimit \in Nat /\ MaxPositions \in Nat
    /\ IsFiniteSet(Calls)

VARIABLES
    gate,        \* process -> keys its gate has seen
    reserved,    \* keys with a row in runtime_state
    used,        \* daily_executions_today
    call,        \* call -> how far it is, with which key, in which process
    orders,      \* key -> orders the broker took
    answered,    \* keys whose order the router was told of
    position,    \* key -> position at the broker; its closing deal shows later
    row,         \* key -> status of the execution row
    ledger,      \* keys whose profit is in the account ledger
    recon,       \* the reconciler's cycle
    killSwitch,  \* is it on?
    swept,       \* killswitch:closeall:done
    sweep,       \* the watchdog's close-all
    held         \* rows a job of the bot read as open and may yet write over

routeVars == <<gate, reserved, used, call, answered>>
brokerVars == <<orders, position>>
reconVars == <<recon, ledger>>
killVars == <<killSwitch, swept, sweep>>
vars == <<gate, reserved, used, call, orders, answered, position, row, ledger, recon,
          killSwitch, swept, sweep, held>>

IdleCall == [pc |-> "idle", key |-> NoKey, proc |-> NoProcess]

IdleRecon == [pc |-> "idle", todo |-> {}, active |-> {}, key |-> NoKey, closing |-> "none"]

IdleSweep == [pc |-> "idle", left |-> {}]

-----------------------------------------------------------------------------
(* route_signal *)

At(c, pc) == call[c].pc = pc

Step(c, pc) == call' = [call EXCEPT ![c].pc = pc]

Leave(c) == call' = [call EXCEPT ![c] = IdleCall]

OpenRows == {k \in Keys : row[k] = "open"}

\* Kill switch and profile policy are read here and not again.
Admit(c, p, k) ==
    /\ At(c, "idle")
    /\ ~killSwitch
    /\ k \notin OpenRows /\ Cardinality(OpenRows) < MaxPositions
    /\ call' = [call EXCEPT ![c] = [pc |-> "admitted", key |-> k, proc |-> p]]
    /\ UNCHANGED <<gate, reserved, used, answered, brokerVars, row, reconVars, killVars, held>>

\* ExecutionGate.execute: a key is let through once in the life of a process.
EnterGate(c) ==
    LET k == call[c].key
        p == call[c].proc
    IN /\ At(c, "admitted")
       /\ IF k \in gate[p] THEN Leave(c) ELSE Step(c, "gated")
       /\ gate' = [gate EXCEPT ![p] = @ \cup {k}]
       /\ UNCHANGED <<reserved, used, answered, brokerVars, row, reconVars, killVars, held>>

\* Mutant: the upsert also takes a reservation that is alive.
ReserveOver(c) ==
    /\ At(c, "gated")
    /\ Step(c, "reserved")
    /\ reserved' = reserved \cup {call[c].key}
    /\ UNCHANGED <<gate, used, answered, brokerVars, row, reconVars, killVars, held>>

\* _reserve_execution_once
Reserve(c) ==
    /\ At(c, "gated")
    /\ IF call[c].key \in reserved THEN Leave(c) ELSE Step(c, "reserved")
    /\ reserved' = reserved \cup {call[c].key}
    /\ UNCHANGED <<gate, used, answered, brokerVars, row, reconVars, killVars, held>>

\* An exception blocks the call, whether or not the row was committed.
ReserveFails(c) ==
    /\ At(c, "gated")
    /\ Leave(c)
    /\ reserved' \in {reserved, reserved \cup {call[c].key}}
    /\ UNCHANGED <<gate, used, answered, brokerVars, row, reconVars, killVars, held>>

\* Mutant: off by one.
TakeSlotInclusive(c) ==
    /\ At(c, "reserved")
    /\ \/ used <= DailyLimit /\ used' = used + 1 /\ Step(c, "slotted")
       \/ used' = used /\ Leave(c)
    /\ UNCHANGED <<gate, reserved, answered, brokerVars, row, reconVars, killVars, held>>

\* _reserve_execution_quota, under the lock of the user's row.  The guard of the
\* daily drawdown, or a lost profile, may refuse as well.
TakeSlot(c) ==
    /\ At(c, "reserved")
    /\ \/ used < DailyLimit /\ used' = used + 1 /\ Step(c, "slotted")
       \/ used' = used /\ Leave(c)
    /\ UNCHANGED <<gate, reserved, answered, brokerVars, row, reconVars, killVars, held>>

\* The exception came after the commit: the slot is lost for the day.
TakeSlotFails(c) ==
    /\ At(c, "reserved")
    /\ used < DailyLimit /\ used' = used + 1
    /\ Leave(c)
    /\ UNCHANGED <<gate, reserved, answered, brokerVars, row, reconVars, killVars, held>>

PlaceOrder(k) ==
    /\ orders' = [orders EXCEPT ![k] = @ + 1]
    /\ position' = [position EXCEPT ![k] = "open"]

\* execute_trade
OrderAccepted(c) ==
    /\ At(c, "slotted")
    /\ PlaceOrder(call[c].key)
    /\ answered' = answered \cup {call[c].key}
    /\ Step(c, "acknowledged")
    /\ UNCHANGED <<gate, reserved, used, row, reconVars, killVars, held>>

\* Invalid values, slippage, or the broker says no.
OrderRefused(c) ==
    /\ At(c, "slotted")
    /\ Step(c, "unsuccessful")
    /\ UNCHANGED <<gate, reserved, used, answered, brokerVars, row, reconVars, killVars, held>>

\* A timeout, or an answer without an order's id: the same to the router.
AnswerLost(c) ==
    /\ At(c, "slotted")
    /\ PlaceOrder(call[c].key)
    /\ Step(c, "unsuccessful")
    /\ UNCHANGED <<gate, reserved, used, answered, row, reconVars, killVars, held>>

\* _record_execution_ledger
Book(c) ==
    /\ At(c, "acknowledged")
    /\ row' = [row EXCEPT ![call[c].key] = IF @ = "none" THEN "open" ELSE @]
    /\ Leave(c)
    /\ UNCHANGED <<gate, reserved, used, answered, brokerVars, reconVars, killVars, held>>

\* Mutant: the error "execution_ledger_pending" gives the slot back.
BookFailsReleasing(c) ==
    /\ At(c, "acknowledged")
    /\ used' = IF used = 0 THEN 0 ELSE used - 1
    /\ Leave(c)
    /\ UNCHANGED <<gate, reserved, answered, brokerVars, row, reconVars, killVars, held>>

\* The exception is swallowed, and no one else books the order.
BookFails(c) ==
    /\ At(c, "acknowledged")
    /\ Leave(c)
    /\ UNCHANGED <<gate, reserved, used, answered, brokerVars, row, reconVars, killVars, held>>

\* Every call without success gives its slot back.
ReleaseSlot(c) ==
    /\ At(c, "unsuccessful")
    /\ used' = IF used = 0 THEN 0 ELSE used - 1
    /\ Leave(c)
    /\ UNCHANGED <<gate, reserved, answered, brokerVars, row, reconVars, killVars, held>>

ReleaseSlotFails(c) ==
    /\ At(c, "unsuccessful")
    /\ Leave(c)
    /\ UNCHANGED <<gate, reserved, used, answered, brokerVars, row, reconVars, killVars, held>>

\* The gate's memory is gone, the reservations stay.
ProcessDies(p) ==
    /\ gate' = [gate EXCEPT ![p] = {}]
    /\ call' = [c \in Calls |-> IF call[c].proc = p THEN IdleCall ELSE call[c]]
    /\ UNCHANGED <<reserved, used, answered, brokerVars, row, reconVars, killVars, held>>

-----------------------------------------------------------------------------
(* The broker, as execute_trade and the reconciler use it. *)

\* Stop or target is hit, or someone closes it.
PositionCloses(k) ==
    /\ position[k] = "open"
    /\ position' = [position EXCEPT ![k] = "closed"]
    /\ UNCHANGED <<orders, routeVars, row, reconVars, killVars, held>>

\* The closing deal shows in the history, with an id of its own or without one.
DealAppears(k) ==
    /\ position[k] = "closed"
    /\ \E shown \in {"settled", "unnamed"} : position' = [position EXCEPT ![k] = shown]
    /\ UNCHANGED <<orders, routeVars, row, reconVars, killVars, held>>

-----------------------------------------------------------------------------
(* services/mt5_reconciler.py *)

\* The statuses of the kill switch and of the bot's jobs are not among
\* _TERMINAL_STATUSES.
Unsettled == {k \in Keys : row[k] \in {"open", "marked"}}

KeepOthers == UNCHANGED <<routeVars, brokerVars, killVars, held>>

Scan ==
    /\ recon.pc = "idle"
    /\ Unsettled # {}
    /\ recon' = [recon EXCEPT !.pc = "scanned", !.todo = Unsettled]
    /\ KeepOthers /\ UNCHANGED <<row, ledger>>

Snapshot ==
    /\ recon.pc = "scanned"
    /\ recon' = [recon EXCEPT !.pc = "ready", !.active = {k \in Keys : position[k] = "open"}]
    /\ KeepOthers /\ UNCHANGED <<row, ledger>>

\* None is not an empty list: the account is left for the next cycle.
SnapshotFails ==
    /\ recon.pc = "scanned"
    /\ recon' = IdleRecon
    /\ KeepOthers /\ UNCHANGED <<row, ledger>>

\* Which closing deal the history shows.
Shown(k) == IF position[k] \in {"settled", "unnamed"} THEN position[k] ELSE "none"

ReadDeals(k) ==
    /\ recon.pc = "ready" /\ k \in recon.todo
    /\ recon' = [recon EXCEPT !.pc = "persist", !.key = k, !.closing = Shown(k)]
    /\ KeepOthers /\ UNCHANGED <<row, ledger>>

NextRow == recon' = [recon EXCEPT !.pc = "ready", !.todo = @ \ {recon.key},
                                  !.key = NoKey, !.closing = "none"]

\* _ledger_events leaves out a deal without an id.
WithProfit(k) == IF recon.closing = "settled" THEN ledger \cup {k} ELSE ledger

\* Mutant: what is no longer active is closed, deal or not.
PersistUnproven ==
    LET k == recon.key
    IN /\ recon.pc = "persist"
       /\ row' = IF row[k] = "open" /\ k \notin recon.active
                 THEN [row EXCEPT ![k] = "closed"] ELSE row
       /\ ledger' = IF row[k] = "open" THEN WithProfit(k) ELSE ledger
       /\ NextRow /\ KeepOthers

\* Mutant: a status the state machine does not know counts as open.
PersistAnyStatus ==
    LET k == recon.key
    IN /\ recon.pc = "persist"
       /\ row' = IF k \in recon.active THEN [row EXCEPT ![k] = "open"]
                 ELSE IF recon.closing # "none" THEN [row EXCEPT ![k] = "closed"] ELSE row
       /\ ledger' = WithProfit(k)
       /\ NextRow /\ KeepOthers

\* _persist_reconciliation, under the row's lock.  A closed row is left alone; for
\* one with a status of the watchdog or of the jobs the transition raises, and all
\* is rolled back.  A position in the snapshot keeps its row open, whatever the
\* deals say by now; a closing deal closes it, with an id or without.
Persist ==
    LET k == recon.key
    IN /\ recon.pc = "persist"
       /\ row' = IF row[k] = "open" /\ k \notin recon.active /\ recon.closing # "none"
                 THEN [row EXCEPT ![k] = "closed"] ELSE row
       /\ ledger' = IF row[k] = "open" THEN WithProfit(k) ELSE ledger
       /\ NextRow /\ KeepOthers

RowFails ==
    /\ recon.pc = "persist"
    /\ NextRow
    /\ KeepOthers /\ UNCHANGED <<row, ledger>>

CycleEnds ==
    /\ recon.pc = "ready" /\ recon.todo = {}
    /\ recon' = IdleRecon
    /\ KeepOthers /\ UNCHANGED <<row, ledger>>

ReconcilerDies ==
    /\ recon.pc # "idle"
    /\ recon' = IdleRecon
    /\ KeepOthers /\ UNCHANGED <<row, ledger>>

-----------------------------------------------------------------------------
(* killswitch_close_all_watchdog_job *)

TurnSwitch ==
    /\ killSwitch' = ~killSwitch
    /\ UNCHANGED <<routeVars, brokerVars, row, reconVars, swept, sweep, held>>

\* The marker is lifted by a run that finds the switch off, or after a day.
MarkerGoes ==
    /\ swept /\ sweep.pc = "idle"
    /\ swept' = FALSE
    /\ UNCHANGED <<routeVars, brokerVars, row, reconVars, killSwitch, sweep, held>>

\* list_open_positions is empty when the broker does not answer.
SweepStarts ==
    /\ sweep.pc = "idle" /\ killSwitch /\ ~swept
    /\ \E listed \in {{k \in Keys : position[k] = "open"}, {}} :
          sweep' = [pc |-> "closing", left |-> listed]
    /\ UNCHANGED <<routeVars, brokerVars, row, reconVars, killSwitch, swept, held>>

\* close_position succeeds or not; no one looks.
SweepPosition(k) ==
    /\ k \in sweep.left
    /\ sweep' = [sweep EXCEPT !.left = @ \ {k}]
    /\ \/ position' = [position EXCEPT ![k] = IF @ = "open" THEN "closed" ELSE @]
       \/ UNCHANGED position
    /\ UNCHANGED <<orders, routeVars, row, reconVars, killSwitch, swept, held>>

SweepRows ==
    /\ sweep.pc = "closing" /\ sweep.left = {}
    /\ row' = [k \in Keys |-> IF row[k] = "open" THEN "marked" ELSE row[k]]
    /\ swept' = TRUE
    /\ sweep' = IdleSweep
    /\ UNCHANGED <<routeVars, brokerVars, reconVars, killSwitch, held>>

SweepDies ==
    /\ sweep.pc = "closing"
    /\ sweep' = IdleSweep
    /\ UNCHANGED <<routeVars, brokerVars, row, reconVars, killSwitch, swept, held>>

-----------------------------------------------------------------------------
(* broker_reconciliation_job and smart_exit_guard_job.  Each reads the open       *)
(* rows, waits for the broker, and stores what it decided by primary key, without *)
(* a lock, whatever became of the rows.  What either holds is one set: to         *)
(* everyone else closed_unknown and smart_exit are the same.                      *)

JobReads ==
    /\ ~(OpenRows \subseteq held)
    /\ held' = held \cup OpenRows
    /\ UNCHANGED <<orders, position, routeVars, row, reconVars, killVars>>

\* smart_exit_guard_job: a weak position, and close_position says success.
ExitCloses(k) ==
    /\ k \in held /\ position[k] = "open"
    /\ position' = [position EXCEPT ![k] = "closed"]
    /\ UNCHANGED <<orders, routeVars, row, reconVars, killVars, held>>

\* The commit of a job.  list_open_positions is empty when the broker does not
\* answer, so that any row old enough may be taken for a ghost.
JobWrites ==
    /\ \E marked \in SUBSET held \ {{}} :
          /\ row' = [k \in Keys |-> IF k \in marked THEN "marked" ELSE row[k]]
          /\ held' = held \ marked
    /\ UNCHANGED <<orders, position, routeVars, reconVars, killVars>>

\* Nothing found, or the job failed.
JobEnds ==
    /\ held # {}
    /\ held' = {}
    /\ UNCHANGED <<orders, position, routeVars, row, reconVars, killVars>>

-----------------------------------------------------------------------------
Init ==
    /\ gate = [p \in Processes |-> {}]
    /\ reserved = {} /\ used = 0 /\ answered = {}
    /\ call = [c \in Calls |-> IdleCall]
    /\ orders = [k \in Keys |-> 0]
    /\ position = [k \in Keys |-> "none"]
    /\ row = [k \in Keys |-> "none"]
    /\ ledger = {} /\ recon = IdleRecon
    /\ killSwitch = FALSE /\ swept = FALSE /\ sweep = IdleSweep
    /\ held = {}

RouteStep(c) ==
    \/ \E p \in Processes, k \in Keys : Admit(c, p, k)
    \/ EnterGate(c)
    \/ Reserve(c) \/ ReserveFails(c)
    \/ TakeSlot(c) \/ TakeSlotFails(c)
    \/ OrderAccepted(c) \/ OrderRefused(c) \/ AnswerLost(c)
    \/ Book(c) \/ BookFails(c)
    \/ ReleaseSlot(c) \/ ReleaseSlotFails(c)

BrokerStep == \E k \in Keys : PositionCloses(k) \/ DealAppears(k)

ReconcilerStep ==
    \/ Scan \/ Snapshot \/ SnapshotFails
    \/ \E k \in Keys : ReadDeals(k)
    \/ Persist \/ RowFails \/ CycleEnds \/ ReconcilerDies

WatchdogStep ==
    \/ TurnSwitch \/ MarkerGoes \/ SweepStarts
    \/ \E k \in Keys : SweepPosition(k)
    \/ SweepRows \/ SweepDies

JobStep == JobReads \/ JobWrites \/ JobEnds \/ \E k \in Keys : ExitCloses(k)

Next == \/ \E c \in Calls : RouteStep(c)
        \/ \E p \in Processes : ProcessDies(p)
        \/ BrokerStep \/ ReconcilerStep \/ WatchdogStep \/ JobStep

Spec == Init /\ [][Next]_vars

-----------------------------------------------------------------------------
(* Properties. *)

CallStates == [pc : {"idle", "admitted", "gated", "reserved", "slotted", "acknowledged",
                     "unsuccessful"},
               key : Keys \cup {NoKey}, proc : Processes \cup {NoProcess}]

ReconStates == [pc : {"idle", "scanned", "ready", "persist"}, todo : SUBSET Keys,
                active : SUBSET Keys, key : Keys \cup {NoKey},
                closing : {"none", "settled", "unnamed"}]

RowStates == {"none", "open", "closed", "marked"}

\* Every variable has its type; the quota counter stays in its range; whoever is
\* under way has a key and a process.
TypeOK ==
    /\ gate \in [Processes -> SUBSET Keys]
    /\ reserved \subseteq Keys /\ answered \subseteq Keys /\ ledger \subseteq Keys
    /\ used \in 0 .. DailyLimit
    /\ call \in [Calls -> CallStates]
    /\ orders \in [Keys -> Nat]
    /\ position \in [Keys -> {"none", "open", "closed", "settled", "unnamed"}]
    /\ row \in [Keys -> RowStates]
    /\ recon \in ReconStates
    /\ killSwitch \in BOOLEAN /\ swept \in BOOLEAN
    /\ sweep \in [pc : {"idle", "closing"}, left : SUBSET Keys]
    /\ held \subseteq Keys
    /\ \A c \in Calls : call[c].pc # "idle" => call[c].key \in Keys /\ call[c].proc \in Processes
    /\ recon.pc = "persist" => recon.key \in Keys

\* A key reaches the broker at most once, whichever processes it is routed in,
\* however often they restart, and whatever became of the answer. ("so concurrent
\* coroutines cannot cross the broker boundary with the same key",
\* execution/service.py:123-126)
OrderOnce == \A k \in Keys : orders[k] <= 1

\* The orders the router was told of stay within the day's limit, though slots are
\* taken before the broker is asked and given back after. (execution_quota.py)
QuotaHolds == Cardinality(answered) <= DailyLimit

\* A row says closed only when the broker showed a closing deal for its position,
\* whatever the jobs, the kill switch and old snapshots do; when that deal has an id
\* the profit is in the ledger with it, and the ledger never holds a profit the
\* broker did not show. (mt5_reconciler.py:184-186, 299-392)
ClosedIsBooked ==
    /\ \A k \in Keys : row[k] = "closed" =>
          position[k] = "unnamed" \/ (position[k] = "settled" /\ k \in ledger)
    /\ \A k \in ledger : position[k] = "settled"

\* Whoever stores a job's stale reading of row k in this step.
StaleWrite(k) == k \in held /\ row'[k] = "marked"

\* No row is opened again, and once it is closed or marked neither the reconciler
\* with its old snapshot nor the kill switch changes it: nobody but a job that
\* found it open before. (execution_state_machine.py:54-62, bot.py:8541-8622)
ClosedForGood ==
    [][\A k \in Keys : row[k] \notin {"none", "open"} => row'[k] = row[k] \/ StaleWrite(k)]_vars

\* The router keeps the contract of the delivery subsystem with the broker in
\* Telegram's place: one order per key at most, a row only for an order the broker
\* took, and no row is lost again. (route_signal, _record_execution_ledger)
Contract == INSTANCE DeliveryContract WITH
                Operations <- Keys,
                sent <- orders,
                proof <- [k \in Keys |-> IF row[k] = "none" THEN 0 ELSE 1]

ImplementsContract == Contract!ContractSpec

\* All orders stay within the day's limit, the ambiguous ones included. ("A slot
\* is ... released only for a definite pre-order rejection; ambiguous submissions
\* remain reserved until reconciliation", execution_quota.py:3-6)
OrdersWithinLimit == Cardinality({k \in Keys : orders[k] > 0}) <= DailyLimit
=============================================================================
