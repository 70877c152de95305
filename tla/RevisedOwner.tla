---------------------------- MODULE RevisedOwner ----------------------------
(***************************************************************************)
(* The live owner of the revised equity hard stop: one task runs protective *)
(* passes and sends orders, a background task prepares the ordinary plan,   *)
(* another reads the fill history, and startup preparation or the hourly    *)
(* maintenance read the account too.  Nothing but a wave ties an order to   *)
(* what it was planned on: each order carries the account facts and the     *)
(* permission of its plan, and is admitted again from the current facts     *)
(* right before its connector call.                                         *)
(*                                                                         *)
(* The account is a position, counted in fills, and the resting orders of   *)
(* one scope.  A read asks the exchange for the two at different moments.   *)
(* The balance is compared wherever the position is and adds no case.       *)
(* Epochs are relative: a pending confirmation is satisfied by the read     *)
(* begun last ("this") or only by one that begins later ("next").  Inputs   *)
(* too old to use, and a scope without a signal, may hold back any order.   *)
(***************************************************************************)
EXTENDS Integers, FiniteSets

CONSTANTS
    Ordinary,       \* ordinary order intents of the scope
    Panic,          \* its protective close
    Wanted,         \* what the planner wants for good once nothing disturbs it
    MaxDisturbances \* bound: fills, failures, invalidations, signal changes, other reads

Orders == Ordinary \cup {Panic}

ASSUME OwnerAssumption ==
    /\ IsFiniteSet(Ordinary) /\ Panic \notin Ordinary
    /\ Wanted \subseteq Ordinary
    /\ MaxDisturbances \in Nat

VARIABLES
    ex,        \* exchange: [pos, orders]
    loc,       \* positions and open_orders as last applied
    need,      \* pending confirmation of balance, positions and open_orders
    fillsNeed, \* pending confirmation of fills, which an enabled feature consumes
    sig,       \* what evaluating the current inputs permits in the scope
    tried,     \* recent_order_cancellations
    reader,    \* _refresh_lock: who reads the account, and what was read so far
    ordinary,  \* _ordinary, the background task, and its result until it is used
    pc,        \* where cycle() waits
    turn,      \* "first" and "second" protect(), or "plan"
    batch,     \* orders still to be sent with the wave they are bound to
    write,     \* the order inside the connector, under _write_lock
    register,  \* _current_planning_snapshot
    left,      \* environment: disturbances still to come
    slow,      \* environment: after the last one the ordinary task makes no progress
    unread,    \* history: a write was not yet followed by a complete read
    created,   \* history: orders created since the last complete read
    torn       \* history: a fill between the answers of the last read went unnoticed

facts == <<loc, need, fillsNeed, tried>>
cycleVars == <<pc, turn, batch, write>>
envVars == <<ex, sig, slow>>
ghosts == <<unread, created, torn>>
vars == <<facts, reader, ordinary, cycleVars, register, envVars, left, ghosts>>

\* Nothing fills, fails, moves or is held back any more.
calm == left = 0
Disturb == left > 0 /\ left' = left - 1
Quiet(condition) == IF condition THEN UNCHANGED left ELSE Disturb

NotRead == -1
NoWrite == [op |-> "none", order |-> Panic]
Facts == [pos : NotRead..MaxDisturbances, orders : SUBSET Orders]
Writes == [op : {"create", "cancel"}, order : Orders]
Signals == {"normal", "panic"}
Confirmations == {"none", "this", "next"}

\* Wave: account facts, whether the fills were certified, and the permission.  "moved"
\* says the invalidation generation or the fill history has changed since.
Waves == [facts : Facts, fills : BOOLEAN, sig : Signals, moved : BOOLEAN]

\* PlanningSnapshot: who built it, the account it describes, and whether the account
\* was invalidated since (account_invalidation_generation).
Snapshots == [by : {"none", "protect", "ordinary"}, facts : Facts, moved : BOOLEAN]

\* The reader of the account, the orders to be sent with the snapshot their executor
\* holds, and the background task with the one its calculation keeps.
Readers == [who : {"none", "cycle", "upkeep"}, pos : NotRead..MaxDisturbances, listed : BOOLEAN,
            orders : SUBSET Orders, clean : BOOLEAN, cut : BOOLEAN]
Batches == [wave : Waves, todo : SUBSET Writes, snapshot : Snapshots]
Plans == [step : {"none", "preparing", "loading", "sorting", "done", "taken"},
          wave : Waves, todo : SUBSET Writes, snapshot : Snapshots]

NoFacts == [pos |-> NotRead, orders |-> {}]
NoWave == [facts |-> NoFacts, fills |-> FALSE, sig |-> "normal", moved |-> TRUE]
NoSnapshot == [by |-> "none", facts |-> NoFacts, moved |-> TRUE]
NoBatch == [wave |-> NoWave, todo |-> {}, snapshot |-> NoSnapshot]
NoPlan == [step |-> "none", wave |-> NoWave, todo |-> {}, snapshot |-> NoSnapshot]
NoReader == [who |-> "none", pos |-> NotRead, listed |-> FALSE, orders |-> {}, clean |-> FALSE,
             cut |-> FALSE]

TypeOK ==
    /\ ex \in Facts /\ loc \in Facts
    /\ need \in Confirmations /\ fillsNeed \in Confirmations
    /\ sig \in Signals
    /\ tried \subseteq Orders
    /\ reader \in Readers
    /\ ordinary \in Plans
    /\ pc \in {"idle", "quotes", "sorting", "sending", "lock", "reading"}
    /\ turn \in {"first", "plan", "second"}
    /\ batch \in Batches
    /\ write \in Writes \cup {NoWrite}
    /\ write # NoWrite => pc = "sending"
    /\ pc = "reading" <=> reader.who = "cycle"
    /\ ordinary.step = "taken" => turn = "first" /\ pc \in {"quotes", "sorting", "sending"}
    /\ register \in Snapshots
    /\ left \in 0..MaxDisturbances /\ slow \in BOOLEAN
    /\ unread \in BOOLEAN /\ created \subseteq Orders /\ torn \in BOOLEAN

\* The process starts with an account it has not read; orders of an earlier run rest.
Init ==
    /\ \E resting \in SUBSET Orders : ex = [pos |-> 0, orders |-> resting]
    /\ loc = NoFacts
    /\ need = "none" /\ fillsNeed = "next"
    /\ sig \in Signals
    /\ tried = {}
    /\ reader = NoReader
    /\ ordinary = NoPlan
    /\ pc = "idle" /\ turn = "first" /\ batch = NoBatch
    /\ write = NoWrite
    /\ register = NoSnapshot
    /\ left = MaxDisturbances /\ slow = FALSE
    /\ unread = FALSE /\ created = {} /\ torn = FALSE

-----------------------------------------------------------------------------
(* Waves and admission.                                                     *)

\* capture() and required_fill_facts()
Capture == [facts |-> loc, fills |-> fillsNeed = "none", sig |-> sig, moved |-> FALSE]

\* build_planning_snapshot, build_protective_planning_snapshot
Snapshot(by) == [by |-> by, facts |-> loc, moved |-> FALSE]

\* A protective wave requires no fills.
CaptureProtective == [Capture EXCEPT !.fills = FALSE]

\* same_account_facts: positions, generation, open orders and required fills.
SameAccountFacts(w) ==
    /\ w.facts = loc
    /\ ~ w.moved
    /\ w.fills => fillsNeed = "none"

\* Mutant: a pending confirmation does not stop an admission.
AccountMatches_unconfirmed(w) ==
    /\ reader.who = "none"
    /\ loc.pos # NotRead
    /\ SameAccountFacts(w)

\* _account_matches
AccountMatches(w) ==
    /\ reader.who = "none"
    /\ loc.pos # NotRead
    /\ need = "none"
    /\ SameAccountFacts(w)

\* Mutant: the permission of the plan stands for the current one.
Admitted_planned(w) == AccountMatches(w)

\* admit
Admitted(w) ==
    /\ AccountMatches(w)
    /\ sig = w.sig

Cancel(S) == {[op |-> "cancel", order |-> o] : o \in S}
Create(S) == {[op |-> "create", order |-> o] : o \in S}

\* calc_orders_to_cancel_and_create_from_ideal
Reconciled(ideal) == Cancel(loc.orders \ ideal) \cup Create(ideal \ loc.orders)

\* calc_protective_panic_orders_to_cancel_and_create under RED; under GREEN the resting
\* panic closes are retired.
ProtectiveOrders ==
    IF sig = "panic" THEN Reconciled({Panic}) ELSE Cancel(loc.orders \cap {Panic})

\* Planner (Rust, external): the close under RED, else any ordinary orders.
IdealOrders ==
    CASE sig = "panic" -> {{Panic}}
      [] sig = "normal" /\ calm -> {Wanted}
      [] OTHER -> SUBSET Ordinary

-----------------------------------------------------------------------------
(* Reading the account, under _refresh_lock.                                *)

\* Mutant: a read belongs to the epoch of the one before.
Begun_kept(confirmation) == confirmation

\* _begin_authoritative_refresh_epoch
Begun(confirmation) == IF confirmation = "next" THEN "this" ELSE confirmation

\* What recording a surface in the running epoch satisfies.
Recorded(confirmation) == IF confirmation = "this" THEN "none" ELSE confirmation

BeginRead(who) ==
    /\ reader.who = "none"
    /\ reader' = [NoReader EXCEPT !.who = who, !.clean = write = NoWrite]
    /\ need' = Begun(need)
    /\ fillsNeed' = Begun(fillsNeed)
    /\ UNCHANGED <<loc, tried, ordinary, register, envVars, ghosts>>

\* cycle() reaches its refresh; startup preparation and maintenance refresh as well.
CycleReads ==
    /\ pc = "lock" /\ pc' = "reading"
    /\ BeginRead("cycle")
    /\ UNCHANGED <<turn, batch, write, left>>

UpkeepReads ==
    /\ Disturb
    /\ BeginRead("upkeep")
    /\ UNCHANGED cycleVars

\* The exchange answers the two requests one by one.
PositionsAnswered ==
    /\ reader.who # "none" /\ reader.pos = NotRead
    /\ reader' = [reader EXCEPT !.pos = ex.pos]
    /\ UNCHANGED <<facts, ordinary, cycleVars, register, envVars, left, ghosts>>

OpenOrdersAnswered ==
    /\ reader.who # "none" /\ ~ reader.listed
    /\ reader' = [reader EXCEPT !.listed = TRUE, !.orders = ex.orders]
    /\ UNCHANGED <<facts, ordinary, cycleVars, register, envVars, left, ghosts>>

\* Mutant: a missing order is accepted without another read.
Unsettled_positionsOnly == reader.pos # loc.pos

\* _apply_open_orders_snapshot and _finalize_authoritative_refresh_consistency: an order
\* is missing that the bot did not cancel, or the positions changed.
Unsettled ==
    \/ (loc.orders \ reader.orders) \ tried # {}
    \/ reader.pos # loc.pos

\* History: own orders whose absence from the listing the bot takes as explained.
Explained == (created \cup (loc.orders \cap tried)) \ reader.orders

CommitRead ==
    /\ reader.who # "none" /\ reader.pos # NotRead /\ reader.listed
    /\ loc' = [pos |-> reader.pos, orders |-> reader.orders]
    /\ need' = IF Unsettled THEN "next" ELSE Recorded(need)
    /\ fillsNeed' = IF Unsettled THEN "next" ELSE fillsNeed
    /\ unread' = (unread /\ ~ reader.clean)
    /\ torn' = (reader.cut /\ Explained = {})
    /\ created' = IF reader.clean THEN {} ELSE created
    /\ reader' = NoReader
    /\ IF reader.who = "cycle" THEN pc' = "quotes" /\ turn' = "second" ELSE UNCHANGED <<pc, turn>>
    /\ UNCHANGED <<tried, ordinary, batch, write, register, envVars, left>>

\* The fetch fails or defers: nothing is applied, and the cycle ends.
ReadFails ==
    /\ Disturb
    /\ reader.who # "none"
    /\ reader' = NoReader
    /\ pc' = IF reader.who = "cycle" THEN "idle" ELSE pc
    /\ UNCHANGED <<facts, ordinary, turn, batch, write, register, envVars, ghosts>>

-----------------------------------------------------------------------------
(* cycle(), protect() and connector_write().                                *)

\* Mutant: a cycle may begin while another one reads the account.
ReadyToBegin_overlapping == pc \in {"idle", "reading"}

\* Mutant: a cycle waits for the ordinary task.
ReadyToBegin_waits == pc = "idle" /\ ordinary.step \in {"none", "done"}

\* run() starts one cycle after another, whatever the ordinary task is doing.
ReadyToBegin == pc = "idle"

\* A completed task is retrieved first; its plan is sent after a protective pass.
BeginCycle ==
    /\ ReadyToBegin
    /\ LET planned == ordinary.step = "done" /\ ordinary.wave # NoWave
       IN  /\ ordinary' = CASE planned -> [ordinary EXCEPT !.step = "taken"]
                            [] ordinary.step = "done" /\ ~ planned -> NoPlan
                            [] OTHER -> ordinary
           /\ pc' = IF planned THEN "quotes" ELSE "lock"
    /\ UNCHANGED <<facts, reader, turn, batch, write, register, envVars, left, ghosts>>

\* Mutant: a finished plan is sent with whatever snapshot is there.
HandedOver_current(plan, now) == now

\* The snapshot a plan returned is put back for its execution.
HandedOver(plan, now) == plan.snapshot

\* After the first protect(), which left the snapshot now, the plan is sent if its wave
\* still matches, else dropped.  Sending notes the snapshot it finds.
SendPlan(now) ==
    /\ turn = "first"
    /\ IF AccountMatches(ordinary.wave)
       THEN /\ pc' = "sending" /\ turn' = "plan"
            /\ register' = HandedOver(ordinary, now)
            /\ batch' = [wave |-> ordinary.wave, todo |-> ordinary.todo, snapshot |-> register']
       ELSE /\ pc' = "lock" /\ batch' = NoBatch
            /\ register' = now
            /\ UNCHANGED turn
    /\ ordinary' = NoPlan

PlanSent(now) ==
    /\ turn = "plan" /\ turn' = "first"
    /\ pc' = "lock" /\ batch' = NoBatch
    /\ register' = now
    /\ UNCHANGED ordinary

\* The end of a cycle starts the ordinary task unless it still runs; the passes during
\* startup preparation do not.  The task notes the account facts first.
EndCycle(now) ==
    /\ turn = "second" /\ turn' = "first"
    /\ pc' = "idle" /\ batch' = NoBatch
    /\ \E start \in BOOLEAN :
        /\ calm => start
        /\ ordinary' = IF start /\ ordinary.step = "none"
                       THEN [NoPlan EXCEPT !.step = "preparing", !.wave = Capture]
                       ELSE ordinary
    /\ register' = now

Proceed(now) == SendPlan(now) \/ PlanSent(now) \/ EndCycle(now)

\* protect() has its quotes: capture, choose targets, calculate on a snapshot of its own
\* and reconcile.  Sorting the orders waits for prices; retired closes alone are sent at
\* once.  Under RED the snapshot changes although there may be nothing to send.
Protect ==
    /\ pc = "quotes"
    /\ \/ /\ Quiet(ProtectiveOrders = {})
          /\ \E now \in {register} \cup
                        (IF sig = "panic" THEN {NoSnapshot, Snapshot("protect")} ELSE {}) :
                Proceed(now)
       \/ /\ ProtectiveOrders # {}
          /\ register' = IF sig = "panic" THEN Snapshot("protect") ELSE register
          /\ batch' = [wave |-> CaptureProtective, todo |-> ProtectiveOrders,
                       snapshot |-> register']
          /\ pc' = IF sig = "panic" THEN "sorting" ELSE "sending"
          /\ UNCHANGED <<turn, ordinary, left>>
    /\ UNCHANGED <<facts, reader, write, envVars, ghosts>>

\* Mutant: the snapshot is left as it is after the last wait.
RestoredSnapshot_kept(own) == register

\* A plan's own snapshot is put back after its last wait.
RestoredSnapshot(own) == own

ProtectSorted ==
    /\ pc = "sorting" /\ pc' = "sending"
    /\ register' = RestoredSnapshot(batch.snapshot)
    /\ batch' = [batch EXCEPT !.snapshot = register']
    /\ UNCHANGED <<facts, reader, ordinary, turn, write, envVars, left, ghosts>>

\* A quote or planning input is unavailable: the cycle ends, its plan is dropped.
ProtectFails ==
    /\ Disturb
    /\ pc \in {"quotes", "sorting"}
    /\ pc' = "idle" /\ turn' = "first" /\ batch' = NoBatch
    /\ ordinary' = IF ordinary.step = "taken" THEN NoPlan ELSE ordinary
    /\ UNCHANGED <<facts, reader, write, register, envVars, ghosts>>

\* The order of the batch, cancels first, that reaches connector_write next.
Due(x) ==
    /\ pc = "sending" /\ write = NoWrite
    /\ x \in batch.todo
    /\ x.op = "create" => \A y \in batch.todo : y.op = "create"

EnterConnector(x) ==
    /\ Due(x)
    /\ Admitted(batch.wave)
    /\ batch' = [batch EXCEPT !.todo = @ \ {x}]
    /\ write' = x
    /\ tried' = IF x.op = "cancel" THEN tried \cup {x.order} ELSE tried
    /\ created' = IF x.op = "create" THEN created \cup {x.order} ELSE created
    /\ reader' = [reader EXCEPT !.clean = FALSE]
    /\ unread' = TRUE
    /\ UNCHANGED <<loc, need, fillsNeed, ordinary, pc, turn, register, envVars, left, torn>>

\* Deferred: not admitted, or an account surface or a quote is too old.
Defer(x) ==
    /\ Due(x)
    /\ Quiet(~ Admitted(batch.wave))
    /\ batch' = [batch EXCEPT !.todo = @ \ {x}]
    /\ UNCHANGED <<facts, reader, ordinary, pc, turn, write, register, envVars, ghosts>>

\* What a write makes of the resting orders.
Effect(x) == IF x.op = "create" THEN ex.orders \cup {x.order} ELSE ex.orders \ {x.order}

\* Mutant: a call that failed asks for no confirmation.
AfterWrite_successOnly(worked) == IF worked THEN "next" ELSE need

\* The finally clause of connector_write: a read in progress does not count.
AfterWrite(worked) == "next"

\* The connector call ends; after an error the exchange may have acted or not.
WriteEnds ==
    /\ write # NoWrite
    /\ \E worked \in BOOLEAN : \E acted \in BOOLEAN :
        /\ worked => acted
        /\ Quiet(worked)
        /\ ex' = [ex EXCEPT !.orders = IF acted THEN Effect(write) ELSE @]
        /\ need' = AfterWrite(worked)
    /\ write' = NoWrite
    /\ UNCHANGED <<loc, fillsNeed, tried, reader, ordinary, pc, turn, batch, sig, slow, register, ghosts>>

BatchSent ==
    /\ pc = "sending" /\ write = NoWrite /\ batch.todo = {}
    /\ Proceed(register)
    /\ UNCHANGED <<facts, reader, write, envVars, left, ghosts>>

-----------------------------------------------------------------------------
(* The background tasks.                                                    *)

Abandoned == [NoPlan EXCEPT !.step = "done"]

\* Preconditions of planning: nothing it requires is pending.
PlannerReady == need = "none" /\ fillsNeed = "none"

\* _ordinary_plan: universe and market state are prepared.
Prepared ==
    /\ ordinary.step = "preparing"
    /\ ~ slow
    /\ ordinary' = IF SameAccountFacts(ordinary.wave) /\ PlannerReady
                   THEN [ordinary EXCEPT !.step = "loading"] ELSE Abandoned
    /\ register' = IF ordinary'.step = "loading" THEN NoSnapshot ELSE register
    /\ UNCHANGED <<facts, reader, cycleVars, envVars, left, ghosts>>

\* calc_ideal_orders_orchestrator has its quotes: wave, snapshot, Rust, reconciliation.
\* A wave of other facts than those noted at the start cannot pass the last comparison.
Calculated ==
    /\ ordinary.step = "loading"
    /\ ~ slow
    /\ IF PlannerReady /\ SameAccountFacts(ordinary.wave)
       THEN /\ register' = Snapshot("ordinary")
            /\ \E ideal \in IdealOrders :
                ordinary' = [step |-> "sorting", wave |-> Capture, todo |-> Reconciled(ideal),
                             snapshot |-> register']
       ELSE /\ ordinary' = Abandoned
            /\ UNCHANGED register
    /\ UNCHANGED <<facts, reader, cycleVars, envVars, left, ghosts>>

\* Orders sorted: the wave is bound, the snapshot put back, the facts compared; the plan
\* is returned with the snapshot found there.
OrdinarySorted ==
    /\ ordinary.step = "sorting"
    /\ ~ slow
    /\ register' = RestoredSnapshot(ordinary.snapshot)
    /\ ordinary' = IF SameAccountFacts(ordinary.wave)
                   THEN [ordinary EXCEPT !.step = "done", !.snapshot = register']
                   ELSE Abandoned
    /\ UNCHANGED <<facts, reader, cycleVars, envVars, left, ghosts>>

\* A market read or a precondition raised.
OrdinaryFails ==
    /\ Disturb
    /\ ordinary.step \in {"preparing", "loading", "sorting"}
    /\ ordinary' = Abandoned
    /\ UNCHANGED <<facts, reader, cycleVars, register, envVars, ghosts>>

Moved(holder) == [holder EXCEPT !.wave.moved = TRUE]

\* _refresh_history, restarted every five seconds: new fills ask for the whole account
\* and change the facts of ordinary waves, a failure asks for the fills.
HistoryRead ==
    \/ /\ fillsNeed' = Recorded(fillsNeed)
       /\ UNCHANGED <<need, ordinary, batch, left>>
    \/ /\ Disturb
       /\ need' = "next" /\ fillsNeed' = "next"
       /\ ordinary' = Moved(ordinary)
       /\ batch' = IF turn = "plan" THEN Moved(batch) ELSE batch
    \/ /\ Disturb
       /\ fillsNeed' = "next"
       /\ UNCHANGED <<need, ordinary, batch>>

HistoryTask ==
    /\ HistoryRead
    /\ UNCHANGED <<loc, tried, reader, pc, turn, write, register, envVars, ghosts>>

-----------------------------------------------------------------------------
(* Environment.                                                             *)

Superseded(holder) == [Moved(holder) EXCEPT !.snapshot.moved = TRUE]

\* mark_account_critical_state_dirty: another generation.
Invalidate ==
    /\ Disturb
    /\ need' = "next" /\ fillsNeed' = "next"
    /\ ordinary' = Superseded(ordinary)
    /\ batch' = Superseded(batch)
    /\ register' = [register EXCEPT !.moved = TRUE]
    /\ UNCHANGED <<loc, tried, reader, pc, turn, write, envVars, ghosts>>

\* Exchange: a resting order fills, perhaps between the two answers of a read.
Fill(o) ==
    /\ Disturb
    /\ o \in ex.orders /\ ex.pos < MaxDisturbances
    /\ ex' = [pos |-> ex.pos + 1, orders |-> ex.orders \ {o}]
    /\ reader' = [reader EXCEPT !.cut = @ \/ (reader.pos # NotRead) # reader.listed]
    /\ UNCHANGED <<facts, ordinary, cycleVars, sig, slow, register, ghosts>>

\* Prices, candles and the time move the evaluation.
SignalMoves ==
    /\ Disturb
    /\ sig' \in Signals \ {sig}
    /\ UNCHANGED <<facts, reader, ordinary, cycleVars, ex, slow, register, ghosts>>

\* Cancels are forgotten after three minutes.
Forget ==
    /\ Disturb
    /\ tried' = {}
    /\ UNCHANGED <<loc, need, fillsNeed, reader, ordinary, cycleVars, register, envVars, ghosts>>

CalmDown ==
    /\ left > 0 /\ left' = 0
    /\ slow' \in BOOLEAN
    /\ UNCHANGED <<facts, reader, ordinary, cycleVars, register, ex, sig, ghosts>>

-----------------------------------------------------------------------------

Cycle ==
    \/ BeginCycle
    \/ Protect
    \/ ProtectSorted
    \/ \E x \in Writes : EnterConnector(x) \/ Defer(x)
    \/ WriteEnds
    \/ BatchSent
    \/ CycleReads

Read == PositionsAnswered \/ OpenOrdersAnswered \/ CommitRead

OrdinaryTask == Prepared \/ Calculated \/ OrdinarySorted

Environment ==
    \/ UpkeepReads
    \/ ReadFails
    \/ ProtectFails
    \/ OrdinaryFails
    \/ Invalidate
    \/ \E o \in Orders : Fill(o)
    \/ SignalMoves
    \/ Forget
    \/ CalmDown

Next == Cycle \/ Read \/ OrdinaryTask \/ HistoryTask \/ Environment

Spec == Init /\ [][Next]_vars

\* Requests are answered and tasks are scheduled; only the ordinary task may get stuck.
FairSpec ==
    /\ Spec
    /\ WF_vars(Cycle) /\ WF_vars(Read) /\ WF_vars(OrdinaryTask) /\ WF_vars(HistoryTask)

-----------------------------------------------------------------------------

Entering == write = NoWrite /\ write' # NoWrite

\* At most one write per account read: the next one waits for a complete read begun
\* after the last one ended, even after an ambiguous failure.
OneWritePerRead == [][Entering => ~ unread]_vars

\* Positions and open orders are asked for at different moments, and yet no write is
\* decided on a position from before a fill and orders from after it, or the reverse.
\* The exception is an own order just created, or cancelled in vain, that fills between
\* the two answers: the bot takes its absence as explained.
NoWriteOnTornRead == [][Entering => ~ torn]_vars

\* While the scope is RED only its close is created, and otherwise the close is not,
\* whatever was permitted when the order was planned.
NoEntryUnderRed ==
    [][Entering /\ write'.op = "create" => (write'.order = Panic <=> sig = "panic")]_vars

\* Protective passes and the ordinary task plan through one attribute and both wait in
\* between; a finished plan waits for its turn while other passes and reads come first.
\* And yet a create goes out only with the snapshot its own planner calculated it on,
\* and only while that snapshot describes the account as last read and no invalidation
\* came since.
SentOnOwnSnapshot ==
    [][Entering /\ write'.op = "create" =>
           batch.snapshot = Snapshot(IF turn = "plan" THEN "ordinary" ELSE "protect")]_vars

\* Under RED the scope's orders become its close alone, even when the ordinary task is
\* stuck for ever.
ProtectionGoesOn == calm /\ sig = "panic" ~> ex.orders = {Panic}

\* Under GREEN the panic close is retired and the ordinary plan is executed.
PlanGoesOut == calm /\ ~ slow /\ sig = "normal" ~> ex.orders = Wanted

=============================================================================
