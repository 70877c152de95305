------------------------- MODULE RevisedOwnerProofs -------------------------
(***************************************************************************)
(* What RevisedOwner guarantees for every set of orders and every number of *)
(* disturbances: one write per account read, no write decided on a read     *)
(* that a fill went through, no order against the current signal, and none  *)
(* sent with a planning snapshot other than its own (SnapshotsBound).       *)
(*                                                                         *)
(* The first two rest on the confirmation that a write asks for when it     *)
(* ends and that an unsettled read asks for again.  The argument follows    *)
(* the read that answers it.  It is clean (CleanReads): it began with no    *)
(* write in the connector, and none enters under it.  So the resting orders *)
(* only shrink while it runs, by fills, and a fill between its two answers  *)
(* shows in what it returns (CutShows): as a position ahead of the applied  *)
(* one, or as an order that was known (OrdersKnown) and is not listed.      *)
(***************************************************************************)
EXTENDS RevisedOwner, TLAPS

-----------------------------------------------------------------------------
(* The inductive invariant.                                                 *)

\* A read that began with no write in the connector is clean to its end; what another
\* one sees may be older than the write, whose end is then still to come or awaited.
CleanReads ==
    /\ reader.who = "none" => reader = NoReader
    /\ reader.clean => write = NoWrite
    /\ reader.who # "none" /\ ~ reader.clean => write # NoWrite \/ need = "next"

\* After a write, and after a read that a fill went through, a confirmation is pending.
UnreadAwaited == unread /\ write = NoWrite => need # "none"
TornAwaited == torn /\ write = NoWrite => need # "none"

\* A resting order was listed by the last complete read or created since.
OrdersKnown ==
    /\ loc.pos = NotRead => write = NoWrite
    /\ write # NoWrite /\ write.op = "create" => write.order \in created
    /\ loc.pos # NotRead => ex.orders \subseteq loc.orders \cup created
    /\ reader.listed => ex.orders \subseteq reader.orders \cup created
    /\ reader.listed /\ reader.clean => ex.orders \subseteq reader.orders

\* Positions only grow, so no answer is ahead of the exchange.
PositionsGrow == loc.pos <= ex.pos /\ reader.pos <= ex.pos

\* A fill between the two answers shows: in the position, if that is answered last, or
\* as an order that the other answer lacks.
CutShows ==
    reader.cut /\ reader.clean =>
        \/ loc.pos = NotRead
        \/ reader.pos = NotRead /\ loc.pos < ex.pos
        \/ reader.pos # NotRead /\ loc.pos < reader.pos
        \/ /\ reader.pos # NotRead
           /\ \E o \in loc.orders \cup created :
                o \notin (IF reader.listed THEN reader.orders ELSE ex.orders)

\* Under RED a plan creates the close, and otherwise anything but the close.
Suits(todo, wave) ==
    \A x \in todo : x.op = "create" => (x.order = Panic <=> wave.sig = "panic")

PlansSuit == Suits(batch.todo, batch.wave) /\ Suits(ordinary.todo, ordinary.wave)

\* A plan is being sent only where orders are, and the second pass follows the read.
TurnOfPlace ==
    /\ turn = "plan" => pc = "sending"
    /\ pc \in {"idle", "lock", "reading"} => turn = "first"

\* TypeOK, taken apart.
AccountTypes ==
    /\ ex \in Facts /\ loc \in Facts
    /\ need \in Confirmations /\ fillsNeed \in Confirmations
    /\ sig \in Signals
    /\ tried \subseteq Orders /\ created \subseteq Orders
    /\ left \in 0..MaxDisturbances

FlagTypes == slow \in BOOLEAN /\ unread \in BOOLEAN /\ torn \in BOOLEAN

PlanTypes == reader \in Readers /\ ordinary \in Plans /\ batch \in Batches

RegisterTypes == register \in Snapshots

LoopTypes ==
    /\ pc \in {"idle", "quotes", "sorting", "sending", "lock", "reading"}
    /\ turn \in {"first", "plan", "second"}
    /\ write \in Writes \cup {NoWrite}
    /\ write # NoWrite => pc = "sending"
    /\ pc = "reading" <=> reader.who = "cycle"
    /\ ordinary.step = "taken" => turn = "first" /\ pc \in {"quotes", "sorting", "sending"}

AccountInv ==
    /\ AccountTypes /\ FlagTypes /\ PlanTypes /\ LoopTypes
    /\ CleanReads
    /\ UnreadAwaited
    /\ TornAwaited
    /\ OrdersKnown
    /\ PositionsGrow
    /\ CutShows
    /\ PlansSuit
    /\ TurnOfPlace

\* Orders to create are held with the snapshot their planner took, of the facts their
\* wave is bound to; what supersedes the snapshot moves the wave.
Bound(holder, by) ==
    (\E x \in holder.todo : x.op = "create") =>
        /\ holder.snapshot.by = by
        /\ holder.snapshot.facts = holder.wave.facts
        /\ holder.snapshot.moved => holder.wave.moved

SnapshotsBound ==
    /\ Bound(ordinary, "ordinary")
    /\ Bound(batch, IF turn = "plan" THEN "ordinary" ELSE "protect")

IInv == AccountInv /\ RegisterTypes /\ SnapshotsBound

-----------------------------------------------------------------------------
(* Values.                                                                  *)

\* A wave taken now is bound to the current permission.
LEMMA CaptureTypes ==
    ASSUME TypeOK
    PROVE  /\ Capture \in Waves /\ Capture.sig = sig
           /\ CaptureProtective \in Waves /\ CaptureProtective.sig = sig
           /\ Capture.facts = loc /\ CaptureProtective.facts = loc
           /\ ~ Capture.moved /\ ~ CaptureProtective.moved
BY DEF TypeOK, Capture, CaptureProtective, Waves

\* A snapshot taken now describes the account as last read.
LEMMA SnapshotTypes ==
    ASSUME TypeOK, NEW by \in {"protect", "ordinary"}
    PROVE  /\ Snapshot(by) \in Snapshots
           /\ Snapshot(by).by = by /\ Snapshot(by).facts = loc /\ ~ Snapshot(by).moved
BY DEF TypeOK, Snapshot, Snapshots

\* The values that stand for nothing.
LEMMA NoValues ==
    /\ NoReader \in Readers /\ NoPlan \in Plans /\ NoBatch \in Batches
    /\ NoSnapshot \in Snapshots
    /\ NoPlan.step = "none" /\ NoPlan.todo = {} /\ NoBatch.todo = {}
    /\ NoReader.who = "none" /\ NoReader.pos = NotRead /\ ~ NoReader.listed
    /\ ~ NoReader.clean /\ ~ NoReader.cut
<1>1. NotRead \in NotRead..MaxDisturbances
    BY OwnerAssumption DEF NotRead
<1>2. NoWave \in Waves
    BY <1>1 DEF NoWave, Waves, Signals, NoFacts, Facts
<1>3. NoSnapshot \in Snapshots
    BY <1>1 DEF NoSnapshot, Snapshots, NoFacts, Facts
<1> QED
    BY <1>1, <1>2, <1>3 DEF NoReader, Readers, NoPlan, Plans, NoBatch, Batches

\* Nothing but the flag changes when a wave is marked.
LEMMA MovedTypes ==
    /\ \A p \in Plans : /\ Moved(p) \in Plans
                        /\ Moved(p).step = p.step /\ Moved(p).todo = p.todo
                        /\ Moved(p).wave.sig = p.wave.sig
                        /\ Moved(p).wave.facts = p.wave.facts /\ Moved(p).wave.moved
                        /\ Moved(p).snapshot = p.snapshot
    /\ \A b \in Batches : /\ Moved(b) \in Batches
                          /\ Moved(b).todo = b.todo /\ Moved(b).wave.sig = b.wave.sig
                          /\ Moved(b).wave.facts = b.wave.facts /\ Moved(b).wave.moved
                          /\ Moved(b).snapshot = b.snapshot
BY DEF Moved, Plans, Batches, Waves

\* Nor when its snapshot is marked as well.
LEMMA SupersededTypes ==
    /\ \A p \in Plans : /\ Superseded(p) \in Plans
                        /\ Superseded(p).step = p.step /\ Superseded(p).todo = p.todo
                        /\ Superseded(p).wave = Moved(p).wave
                        /\ Superseded(p).snapshot.by = p.snapshot.by
                        /\ Superseded(p).snapshot.facts = p.snapshot.facts
    /\ \A b \in Batches : /\ Superseded(b) \in Batches
                          /\ Superseded(b).todo = b.todo
                          /\ Superseded(b).wave = Moved(b).wave
                          /\ Superseded(b).snapshot.by = b.snapshot.by
                          /\ Superseded(b).snapshot.facts = b.snapshot.facts
<1>1. \A p \in Plans : Moved(p) \in Plans /\ Moved(p).step = p.step /\ Moved(p).todo = p.todo
                      /\ Moved(p).snapshot = p.snapshot
    BY MovedTypes
<1>2. \A b \in Batches : Moved(b) \in Batches /\ Moved(b).todo = b.todo
                        /\ Moved(b).snapshot = b.snapshot
    BY MovedTypes
<1> QED
    BY <1>1, <1>2 DEF Superseded, Plans, Batches, Snapshots

\* The background task moves on with the plan it has.
LEMMA StepTypes ==
    ASSUME NEW p \in Plans,
           NEW s \in {"none", "preparing", "loading", "sorting", "done", "taken"}
    PROVE  /\ [p EXCEPT !.step = s] \in Plans
           /\ [p EXCEPT !.step = s].step = s
           /\ [p EXCEPT !.step = s].todo = p.todo
           /\ [p EXCEPT !.step = s].wave = p.wave
           /\ [p EXCEPT !.step = s].snapshot = p.snapshot
BY DEF Plans

\* What the steps of a read make of its record.
LEMMA ReaderTypes ==
    ASSUME NEW r \in Readers, NEW b \in BOOLEAN
    PROVE  /\ [r EXCEPT !.clean = b] \in Readers
           /\ [r EXCEPT !.cut = b] \in Readers
           /\ \A S \in SUBSET Orders : [r EXCEPT !.listed = b, !.orders = S] \in Readers
           /\ \A w \in {"none", "cycle", "upkeep"} : [r EXCEPT !.who = w, !.clean = b] \in Readers
           /\ \A n \in NotRead..MaxDisturbances : [r EXCEPT !.pos = n] \in Readers
BY DEF Readers

\* What a plan makes of ideal orders.
LEMMA ReconciledTypes ==
    ASSUME TypeOK, NEW ideal \in SUBSET Orders
    PROVE  /\ Reconciled(ideal) \in SUBSET Writes
           /\ \A x \in Reconciled(ideal) : x.op = "create" => x.order \in ideal
BY DEF TypeOK, Reconciled, Cancel, Create, Writes, Facts

\* A protective pass creates the close, and only under RED.
LEMMA ProtectiveTypes ==
    ASSUME TypeOK
    PROVE  /\ ProtectiveOrders \in SUBSET Writes
           /\ \A x \in ProtectiveOrders : x.op = "create" => x.order = Panic /\ sig = "panic"
<1>1. {Panic} \in SUBSET Orders
    BY DEF Orders
<1>2. CASE sig = "panic"
    BY <1>1, <1>2, ReconciledTypes DEF ProtectiveOrders
<1>3. CASE sig # "panic"
    BY <1>3 DEF ProtectiveOrders, Cancel, Writes, Orders
<1> QED
    BY <1>2, <1>3

\* The planner asks for the close under RED, and for ordinary orders otherwise.
LEMMA IdealTypes ==
    ASSUME TypeOK, NEW ideal \in IdealOrders
    PROVE  /\ ideal \in SUBSET Orders
           /\ \A o \in ideal : o = Panic <=> sig = "panic"
BY OwnerAssumption DEF TypeOK, IdealOrders, Signals, Orders

-----------------------------------------------------------------------------
(* The steps.                                                               *)

\* The parts are TypeOK.
LEMMA Types == AccountTypes /\ FlagTypes /\ PlanTypes /\ RegisterTypes /\ LoopTypes <=> TypeOK
BY DEF AccountTypes, FlagTypes, PlanTypes, RegisterTypes, LoopTypes, TypeOK

\* The record with which cycle() starts the ordinary task.
LEMMA Preparing ==
    ASSUME TypeOK
    PROVE  /\ [NoPlan EXCEPT !.step = "preparing", !.wave = Capture] \in Plans
           /\ [NoPlan EXCEPT !.step = "preparing", !.wave = Capture].step = "preparing"
           /\ [NoPlan EXCEPT !.step = "preparing", !.wave = Capture].todo = {}
BY NoValues, CaptureTypes DEF Plans

\* And the one of a task that gave up.
LEMMA AbandonedTypes ==
    Abandoned \in Plans /\ Abandoned.step = "done" /\ Abandoned.todo = {}
BY NoValues, StepTypes DEF Abandoned

\* Going on after a pass or a batch: send the plan, go to read, or end the cycle.
LEMMA ProceedKeeps ==
    ASSUME IInv, NEW now \in Snapshots, Proceed(now), pc \in {"quotes", "sending"},
           reader' = reader, write' = NoWrite
    PROVE  /\ ordinary' \in Plans /\ batch' \in Batches
           /\ (LoopTypes /\ PlansSuit /\ TurnOfPlace)'
<1> USE DEF AccountInv, IInv
<1>0. TypeOK
    BY Types
<1>4. pc # "reading" /\ reader.who # "cycle"
    BY DEF LoopTypes
<1>1. CASE SendPlan(now)
    <2>0. /\ NoPlan \in Plans /\ NoPlan.step = "none" /\ NoPlan.todo = {}
          /\ NoBatch \in Batches /\ NoBatch.todo = {}
        BY NoValues
    <2>1. ordinary' = NoPlan
        BY <1>1 DEF SendPlan
    <2>2. CASE AccountMatches(ordinary.wave)
        <3> DEFINE b == [wave |-> ordinary.wave, todo |-> ordinary.todo, snapshot |-> ordinary.snapshot]
        <3>1. b \in Batches /\ b.todo = ordinary.todo /\ b.wave = ordinary.wave
            BY DEF PlanTypes, Plans, Batches
        <3>2. batch' = b /\ pc' = "sending" /\ turn' = "plan"
            BY <1>1, <2>2 DEF SendPlan, HandedOver
        <3>3. Suits(batch'.todo, batch'.wave)
            BY <3>1, <3>2 DEF PlansSuit, Suits
        <3> HIDE DEF b
        <3> QED
            BY <1>4, <2>0, <2>1, <3>1, <3>2, <3>3
               DEF PlanTypes, LoopTypes, PlansSuit, Suits, TurnOfPlace
    <2>3. CASE ~ AccountMatches(ordinary.wave)
        BY <1>4, <1>1, <2>0, <2>1, <2>3
           DEF SendPlan, PlanTypes, LoopTypes, PlansSuit, Suits, TurnOfPlace
    <2> QED
        BY <2>2, <2>3
<1>2. CASE PlanSent(now)
    BY <1>4, <1>2, NoValues DEF PlanSent, PlanTypes, LoopTypes, PlansSuit, Suits, TurnOfPlace
<1>3. CASE EndCycle(now)
    <2>1. \/ ordinary' = ordinary
          \/ ordinary' = [NoPlan EXCEPT !.step = "preparing", !.wave = Capture]
        BY <1>3 DEF EndCycle
    <2>2. ordinary' \in Plans /\ ordinary'.step # "taken" /\ Suits(ordinary'.todo, ordinary'.wave)
        BY <1>0, <1>3, <2>1, Preparing DEF EndCycle, PlanTypes, LoopTypes, PlansSuit, Suits
    <2> QED
        BY <1>4, <1>3, <2>2, NoValues
           DEF EndCycle, PlanTypes, LoopTypes, PlansSuit, Suits, TurnOfPlace
<1> QED
    BY <1>1, <1>2, <1>3 DEF Proceed

\* A pass without orders goes on with some snapshot, the other sends what it calculated.
LEMMA ProtectSteps ==
    ASSUME IInv, Protect
    PROVE  \/ \E now \in Snapshots : Proceed(now)
           \/ /\ register' = IF sig = "panic" THEN Snapshot("protect") ELSE register
              /\ batch' = [wave |-> CaptureProtective, todo |-> ProtectiveOrders,
                           snapshot |-> register']
              /\ pc' = IF sig = "panic" THEN "sorting" ELSE "sending"
              /\ UNCHANGED <<turn, ordinary>>
<1>1. TypeOK
    BY Types DEF IInv, AccountInv
<1>2. register \in Snapshots /\ NoSnapshot \in Snapshots /\ Snapshot("protect") \in Snapshots
    BY <1>1, NoValues, SnapshotTypes DEF IInv, RegisterTypes
<1>3. {register} \cup (IF sig = "panic" THEN {NoSnapshot, Snapshot("protect")} ELSE {})
          \in SUBSET Snapshots
    BY <1>2
<1> QED
    BY <1>3 DEF Protect

\* Every step keeps what concerns the account and the places of the loop.
LEMMA NextKeeps == IInv /\ [Next]_vars => AccountInv'
<1> SUFFICES ASSUME IInv, [Next]_vars PROVE AccountInv'
    OBVIOUS
<1> USE OwnerAssumption DEF IInv, AccountInv, facts, cycleVars, envVars, ghosts
<1>1. CASE BeginCycle
    <2>1. PlanTypes'
        <3>1. \/ ordinary' = [ordinary EXCEPT !.step = "taken"] \/ ordinary' = NoPlan
              \/ ordinary' = ordinary
            BY <1>1 DEF BeginCycle
        <3>2. ordinary' \in Plans
            BY <3>1, NoValues, StepTypes DEF PlanTypes
        <3> QED
            BY <1>1, <3>2 DEF BeginCycle, PlanTypes
    <2>2. LoopTypes'
        <3> DEFINE planned == ordinary.step = "done" /\ ordinary.wave # NoWave
        <3>1. CASE planned
            <4>1. ordinary' = [ordinary EXCEPT !.step = "taken"] /\ pc' = "quotes"
                BY <1>1, <3>1 DEF BeginCycle
            <4>2. turn = "first"
                BY <1>1 DEF BeginCycle, ReadyToBegin, TurnOfPlace
            <4> QED
                BY <1>1, <4>1, <4>2 DEF BeginCycle, ReadyToBegin, LoopTypes
        <3>2. CASE ~ planned
            <4>1. (ordinary' = NoPlan \/ ordinary' = ordinary) /\ pc' = "lock"
                BY <1>1, <3>2 DEF BeginCycle
            <4> QED
                BY <1>1, <4>1, NoValues DEF BeginCycle, ReadyToBegin, LoopTypes
        <3> QED
            BY <3>1, <3>2
    <2>3. (AccountTypes /\ FlagTypes /\ CleanReads /\ UnreadAwaited /\ TornAwaited)'
        BY <1>1 DEF BeginCycle, ReadyToBegin, AccountTypes, Facts, Confirmations,
               Signals, FlagTypes, CleanReads, UnreadAwaited, TornAwaited
    <2>4. (OrdersKnown /\ PositionsGrow /\ CutShows /\ PlansSuit /\ TurnOfPlace)'
        BY <1>1, NoValues DEF BeginCycle, ReadyToBegin, OrdersKnown, PositionsGrow,
               CutShows, PlansSuit, Suits, TurnOfPlace
    <2> QED
        BY <2>1, <2>2, <2>3, <2>4
<1>2. CASE Protect
    <2>0. write = NoWrite /\ TypeOK
        BY <1>2, Types DEF Protect, LoopTypes
    <2>1. (PlanTypes /\ LoopTypes /\ PlansSuit /\ TurnOfPlace)'
        <3>1. ASSUME NEW now \in Snapshots, Proceed(now)
              PROVE  (PlanTypes /\ LoopTypes /\ PlansSuit /\ TurnOfPlace)'
            BY <1>2, <2>0, <3>1, ProceedKeeps DEF Protect, PlanTypes
        <3>2. ASSUME register' = IF sig = "panic" THEN Snapshot("protect") ELSE register,
                     batch' = [wave |-> CaptureProtective, todo |-> ProtectiveOrders,
                               snapshot |-> register'],
                     pc' \in {"sorting", "sending"},
                     UNCHANGED <<turn, ordinary>>
              PROVE  (PlanTypes /\ LoopTypes /\ PlansSuit /\ TurnOfPlace)'
            <4>0. register' \in Snapshots
                BY <2>0, <3>2, SnapshotTypes DEF RegisterTypes
            <4>1. PlanTypes'
                BY <1>2, <2>0, <3>2, <4>0, CaptureTypes, ProtectiveTypes
                   DEF Protect, PlanTypes, Batches
            <4>2. batch'.todo = ProtectiveOrders /\ batch'.wave.sig = sig
                BY <2>0, <3>2, CaptureTypes
            <4>3. PlansSuit'
                BY <2>0, <3>2, <4>2, ProtectiveTypes DEF PlansSuit, Suits
            <4>4. (LoopTypes /\ TurnOfPlace)'
                BY <1>2, <3>2 DEF Protect, LoopTypes, TurnOfPlace
            <4> QED
                BY <4>1, <4>3, <4>4
        <3> QED
            BY <1>2, <3>1, <3>2, ProtectSteps
    <2>2. UNCHANGED <<facts, reader, write, envVars, ghosts>> /\ left' \in 0..MaxDisturbances
        BY <1>2 DEF Protect, Quiet, Disturb, AccountTypes
    <2>3. (AccountTypes /\ FlagTypes /\ CleanReads /\ UnreadAwaited)'
        BY <2>2 DEF AccountTypes, FlagTypes, CleanReads, UnreadAwaited
    <2>4. (TornAwaited /\ OrdersKnown /\ PositionsGrow /\ CutShows)'
        BY <2>2 DEF TornAwaited, OrdersKnown, PositionsGrow, CutShows
    <2> QED
        BY <2>1, <2>3, <2>4
<1>3. CASE ProtectSorted
    <2>0. /\ batch' = [batch EXCEPT !.snapshot = batch.snapshot]
          /\ pc = "sorting" /\ pc' = "sending"
          /\ UNCHANGED <<facts, reader, ordinary, turn, write, envVars, left, ghosts>>
        BY <1>3 DEF ProtectSorted, RestoredSnapshot
    <2>1. batch' = batch
        BY <2>0 DEF PlanTypes, Batches
    <2>2. (AccountTypes /\ FlagTypes /\ PlanTypes /\ LoopTypes /\ CleanReads
           /\ UnreadAwaited)'
        BY <2>0, <2>1 DEF AccountTypes, FlagTypes, PlanTypes, LoopTypes, CleanReads,
               UnreadAwaited
    <2>3. (TornAwaited /\ OrdersKnown /\ PositionsGrow /\ CutShows
           /\ PlansSuit /\ TurnOfPlace)'
        BY <2>0, <2>1 DEF TornAwaited, OrdersKnown, PositionsGrow, CutShows, PlansSuit,
               Suits, TurnOfPlace
    <2> QED
        BY <2>2, <2>3
<1>4. ASSUME NEW x \in Writes, EnterConnector(x) PROVE AccountInv'
    <2>1. AccountTypes'
        BY <1>4 DEF EnterConnector, Due, Admitted, AccountMatches, AccountTypes,
               Writes
    <2>2. PlanTypes'
        <3>1. reader' \in Readers
            BY <1>4, ReaderTypes DEF EnterConnector, PlanTypes
        <3>2. ordinary' \in Plans
            BY <1>4 DEF EnterConnector, PlanTypes
        <3>3. batch' \in Batches
            BY <1>4 DEF EnterConnector, PlanTypes, Batches
        <3> QED
            BY <3>1, <3>2, <3>3 DEF PlanTypes
    <2>3. CleanReads'
        BY <1>4, NoValues DEF EnterConnector, Due, Admitted, AccountMatches,
               CleanReads, AccountTypes, Facts, Confirmations, Signals, PlanTypes, Readers,
               NotRead
    <2>4. UnreadAwaited'
        BY <1>4 DEF EnterConnector, Due, Admitted, AccountMatches, UnreadAwaited,
               Writes, NoWrite
    <2>5. (FlagTypes /\ LoopTypes /\ TornAwaited /\ OrdersKnown)'
        BY <1>4 DEF EnterConnector, Due, Admitted, AccountMatches, FlagTypes,
               LoopTypes, TornAwaited, OrdersKnown
    <2>6. (PositionsGrow /\ CutShows /\ PlansSuit /\ TurnOfPlace)'
        BY <1>4 DEF EnterConnector, Due, Admitted, AccountMatches, PositionsGrow,
               CutShows, PlansSuit, Suits, TurnOfPlace
    <2> QED
        BY <2>1, <2>2, <2>3, <2>4, <2>5, <2>6
<1>5. ASSUME NEW x \in Writes, Defer(x) PROVE AccountInv'
    <2>1. PlanTypes'
        <3>1. reader' \in Readers
            BY <1>5 DEF Defer, PlanTypes
        <3>2. ordinary' \in Plans
            BY <1>5 DEF Defer, PlanTypes
        <3>3. batch' \in Batches
            BY <1>5 DEF Defer, PlanTypes, Batches
        <3> QED
            BY <3>1, <3>2, <3>3 DEF PlanTypes
    <2>2. (AccountTypes /\ FlagTypes /\ LoopTypes /\ CleanReads
           /\ UnreadAwaited /\ TornAwaited)'
        BY <1>5 DEF Defer, Due, Quiet, Disturb, AccountTypes, Facts, Confirmations,
               Signals, FlagTypes, LoopTypes, CleanReads, UnreadAwaited, TornAwaited
    <2>3. (OrdersKnown /\ PositionsGrow /\ CutShows /\ PlansSuit /\ TurnOfPlace)'
        BY <1>5 DEF Defer, Due, Quiet, Disturb, OrdersKnown, PositionsGrow, CutShows,
               PlansSuit, Suits, TurnOfPlace
    <2> QED
        BY <2>1, <2>2, <2>3
<1>6. CASE WriteEnds
    <2>1. AccountTypes'
        BY <1>6 DEF WriteEnds, Quiet, Disturb, AfterWrite, Effect, AccountTypes,
               Facts, Confirmations, LoopTypes, Writes
    <2>2. OrdersKnown'
        BY <1>6 DEF WriteEnds, Quiet, Disturb, AfterWrite, Effect, OrdersKnown,
               CleanReads, AccountTypes, Facts
    <2>3. CutShows'
        BY <1>6 DEF WriteEnds, Quiet, Disturb, AfterWrite, Effect, CutShows,
               CleanReads
    <2>4. (FlagTypes /\ PlanTypes /\ LoopTypes /\ CleanReads /\ UnreadAwaited)'
        BY <1>6 DEF WriteEnds, Quiet, Disturb, AfterWrite, Effect, FlagTypes,
               PlanTypes, LoopTypes, CleanReads, UnreadAwaited
    <2>5. (TornAwaited /\ PositionsGrow /\ PlansSuit /\ TurnOfPlace)'
        BY <1>6 DEF WriteEnds, Quiet, Disturb, AfterWrite, Effect, TornAwaited,
               PositionsGrow, PlansSuit, Suits, TurnOfPlace
    <2> QED
        BY <2>1, <2>2, <2>3, <2>4, <2>5
<1>7. CASE BatchSent
    <2>1. (PlanTypes /\ LoopTypes /\ PlansSuit /\ TurnOfPlace)'
        <3>1. pc \in {"quotes", "sending"} /\ write = NoWrite /\ register \in Snapshots
            BY <1>7 DEF BatchSent, RegisterTypes
        <3> QED
            BY <1>7, <3>1, ProceedKeeps DEF BatchSent, PlanTypes
    <2>2. UNCHANGED <<facts, reader, write, envVars, left, ghosts>>
        BY <1>7 DEF BatchSent
    <2>3. (AccountTypes /\ FlagTypes /\ CleanReads /\ UnreadAwaited)'
        BY <2>2 DEF AccountTypes, FlagTypes, CleanReads, UnreadAwaited
    <2>4. (TornAwaited /\ OrdersKnown /\ PositionsGrow /\ CutShows)'
        BY <2>2 DEF TornAwaited, OrdersKnown, PositionsGrow, CutShows
    <2> QED
        BY <2>1, <2>3, <2>4
<1>8. CASE CycleReads
    <2>1. PlanTypes'
        <3>1. reader' \in Readers
            <4>1. reader' = [NoReader EXCEPT !.who = "cycle", !.clean = (write = NoWrite)]
                BY <1>8 DEF CycleReads, BeginRead
            <4>2. (write = NoWrite) \in BOOLEAN
                OBVIOUS
            <4> QED
                BY <4>1, <4>2, NoValues, ReaderTypes
        <3>2. ordinary' \in Plans
            BY <1>8 DEF CycleReads, BeginRead, PlanTypes
        <3>3. batch' \in Batches
            BY <1>8 DEF CycleReads, BeginRead, PlanTypes
        <3> QED
            BY <3>1, <3>2, <3>3 DEF PlanTypes
    <2>2. CleanReads'
        <3>1. reader' = [NoReader EXCEPT !.who = "cycle", !.clean = (write = NoWrite)]
              /\ UNCHANGED write
            BY <1>8 DEF CycleReads, BeginRead, cycleVars
        <3>2. reader'.who = "cycle" /\ reader'.clean = (write = NoWrite)
            BY <3>1, NoValues DEF Readers
        <3> QED
            BY <3>1, <3>2 DEF CleanReads
    <2>3. PositionsGrow'
        BY <1>8, NoValues DEF CycleReads, BeginRead, Begun, PositionsGrow,
               AccountTypes, Facts, Confirmations, Signals, PlanTypes, Readers, NotRead
    <2>4. (AccountTypes /\ FlagTypes /\ LoopTypes /\ UnreadAwaited /\ TornAwaited)'
        BY <1>8 DEF CycleReads, BeginRead, Begun, AccountTypes, Facts, Confirmations,
               Signals, FlagTypes, LoopTypes, UnreadAwaited, TornAwaited
    <2>5. (OrdersKnown /\ CutShows /\ PlansSuit /\ TurnOfPlace)'
        BY <1>8, NoValues DEF CycleReads, BeginRead, Begun, OrdersKnown, CutShows,
               PlansSuit, Suits, TurnOfPlace
    <2> QED
        BY <2>1, <2>2, <2>3, <2>4, <2>5
<1>9. CASE PositionsAnswered
    <2>1. PlanTypes'
        <3>1. reader' \in Readers
            BY <1>9, ReaderTypes DEF PositionsAnswered, PlanTypes, AccountTypes, Facts
        <3>2. ordinary' \in Plans
            BY <1>9 DEF PositionsAnswered, PlanTypes
        <3>3. batch' \in Batches
            BY <1>9 DEF PositionsAnswered, PlanTypes
        <3> QED
            BY <3>1, <3>2, <3>3 DEF PlanTypes
    <2>2. PositionsGrow'
        BY <1>9 DEF PositionsAnswered, PositionsGrow, AccountTypes, Facts,
               Confirmations, Signals, PlanTypes, Readers, NotRead
    <2>3. (AccountTypes /\ FlagTypes /\ LoopTypes /\ CleanReads /\ UnreadAwaited)'
        BY <1>9 DEF PositionsAnswered, AccountTypes, Facts, Confirmations, Signals,
               FlagTypes, LoopTypes, CleanReads, UnreadAwaited
    <2>4. (TornAwaited /\ OrdersKnown /\ CutShows /\ PlansSuit /\ TurnOfPlace)'
        BY <1>9 DEF PositionsAnswered, TornAwaited, OrdersKnown, CutShows, PlansSuit,
               Suits, TurnOfPlace
    <2> QED
        BY <2>1, <2>2, <2>3, <2>4
<1>10. CASE OpenOrdersAnswered
    <2>1. PlanTypes'
        <3>1. reader' \in Readers
            BY <1>10, ReaderTypes DEF OpenOrdersAnswered, PlanTypes, AccountTypes, Facts
        <3>2. ordinary' \in Plans
            BY <1>10 DEF OpenOrdersAnswered, PlanTypes
        <3>3. batch' \in Batches
            BY <1>10 DEF OpenOrdersAnswered, PlanTypes
        <3> QED
            BY <3>1, <3>2, <3>3 DEF PlanTypes
    <2>2. (AccountTypes /\ FlagTypes /\ LoopTypes /\ CleanReads
           /\ UnreadAwaited /\ TornAwaited)'
        BY <1>10 DEF OpenOrdersAnswered, AccountTypes, Facts, Confirmations, Signals,
               FlagTypes, LoopTypes, CleanReads, UnreadAwaited, TornAwaited
    <2>3. (OrdersKnown /\ PositionsGrow /\ CutShows /\ PlansSuit /\ TurnOfPlace)'
        BY <1>10 DEF OpenOrdersAnswered, OrdersKnown, PositionsGrow, CutShows,
               PlansSuit, Suits, TurnOfPlace
    <2> QED
        BY <2>1, <2>2, <2>3
<1>11. CASE CommitRead
    <2>1. AccountTypes'
        BY <1>11 DEF CommitRead, Recorded, Unsettled, Explained, AccountTypes, Facts,
               Confirmations, Signals, PlanTypes, Readers, NotRead
    <2>2. UnreadAwaited'
        BY <1>11, NoValues DEF CommitRead, Recorded, Unsettled, Explained,
               UnreadAwaited, CleanReads, AccountTypes, Confirmations
    <2>3. TornAwaited'
        BY <1>11, NoValues DEF CommitRead, Recorded, Unsettled, Explained,
               TornAwaited, CleanReads, CutShows, AccountTypes, Confirmations, PlanTypes,
               Readers, NotRead
    <2>4. OrdersKnown'
        BY <1>11, NoValues DEF CommitRead, Recorded, Unsettled, Explained,
               OrdersKnown, CleanReads
    <2>5. PositionsGrow'
        BY <1>11, NoValues DEF CommitRead, Recorded, Unsettled, Explained,
               PositionsGrow, AccountTypes, Facts, Confirmations, Signals, PlanTypes,
               Readers, NotRead
    <2>6. (FlagTypes /\ PlanTypes /\ LoopTypes /\ CleanReads)'
        BY <1>11, NoValues DEF CommitRead, Recorded, Unsettled, Explained, FlagTypes,
               PlanTypes, LoopTypes, CleanReads
    <2>7. (CutShows /\ PlansSuit /\ TurnOfPlace)'
        BY <1>11, NoValues DEF CommitRead, Recorded, Unsettled, Explained, CutShows,
               PlansSuit, Suits, TurnOfPlace
    <2> QED
        BY <2>1, <2>2, <2>3, <2>4, <2>5, <2>6, <2>7
<1>12. CASE Prepared
    <2>1. PlanTypes'
        <3>1. reader' \in Readers
            BY <1>12 DEF Prepared, PlanTypes
        <3>2. ordinary' \in Plans
            <4>1. CASE SameAccountFacts(ordinary.wave) /\ PlannerReady
                <5>1. ordinary' = [ordinary EXCEPT !.step = "loading"]
                    BY <1>12, <4>1 DEF Prepared
                <5> QED
                    BY <5>1, StepTypes DEF PlanTypes
            <4>2. CASE ~ (SameAccountFacts(ordinary.wave) /\ PlannerReady)
                <5>1. ordinary' = Abandoned
                    BY <1>12, <4>2 DEF Prepared
                <5> QED
                    BY <5>1, AbandonedTypes
            <4> QED
                BY <4>1, <4>2
        <3>3. batch' \in Batches
            BY <1>12 DEF Prepared, PlanTypes
        <3> QED
            BY <3>1, <3>2, <3>3 DEF PlanTypes
    <2>2. (AccountTypes /\ FlagTypes /\ LoopTypes /\ CleanReads
           /\ UnreadAwaited /\ TornAwaited)'
        BY <1>12 DEF Prepared, Abandoned, AccountTypes, Facts, Confirmations, Signals,
               FlagTypes, LoopTypes, CleanReads, UnreadAwaited, TornAwaited
    <2>3. (OrdersKnown /\ PositionsGrow /\ CutShows /\ PlansSuit /\ TurnOfPlace)'
        BY <1>12, NoValues DEF Prepared, Abandoned, OrdersKnown, PositionsGrow,
               CutShows, PlansSuit, Suits, TurnOfPlace
    <2> QED
        BY <2>1, <2>2, <2>3
<1>13. CASE Calculated
    <2>1. (PlanTypes /\ LoopTypes /\ PlansSuit)'
        <3>1. CASE ordinary' = Abandoned
            BY <1>13, <3>1, AbandonedTypes DEF Calculated, PlanTypes, LoopTypes, PlansSuit, Suits
        <3>2. ASSUME NEW ideal \in IdealOrders,
                     ordinary' = [step |-> "sorting", wave |-> Capture,
                                  todo |-> Reconciled(ideal),
                                  snapshot |-> Snapshot("ordinary")]
              PROVE  (PlanTypes /\ LoopTypes /\ PlansSuit)'
            <4>1. /\ Capture \in Waves /\ Capture.sig = sig /\ Reconciled(ideal) \in SUBSET Writes
                  /\ Snapshot("ordinary") \in Snapshots
                BY CaptureTypes, Types, IdealTypes, ReconciledTypes, SnapshotTypes
            <4>2. \A x \in Reconciled(ideal) :
                    x.op = "create" => (x.order = Panic <=> sig = "panic")
                BY Types, IdealTypes, ReconciledTypes
            <4>3. ordinary'.todo = Reconciled(ideal) /\ ordinary'.wave.sig = sig
                BY <3>2, <4>1
            <4>4. PlanTypes'
                BY <1>13, <3>2, <4>1 DEF Calculated, PlanTypes, Plans
            <4>5. LoopTypes'
                BY <1>13, <3>2 DEF Calculated, LoopTypes
            <4>6. PlansSuit'
                BY <1>13, <4>2, <4>3 DEF Calculated, PlansSuit, Suits
            <4> QED
                BY <4>4, <4>5, <4>6
        <3> QED
            BY <1>13, <3>1, <3>2 DEF Calculated
    <2>2. (AccountTypes /\ FlagTypes /\ CleanReads /\ UnreadAwaited /\ TornAwaited)'
        BY <1>13 DEF Calculated, Abandoned, AccountTypes, Facts, Confirmations,
               Signals, FlagTypes, CleanReads, UnreadAwaited, TornAwaited
    <2>3. (OrdersKnown /\ PositionsGrow /\ CutShows /\ TurnOfPlace)'
        BY <1>13 DEF Calculated, Abandoned, OrdersKnown, PositionsGrow, CutShows,
               TurnOfPlace
    <2> QED
        BY <2>1, <2>2, <2>3
<1>14. CASE OrdinarySorted
    <2>1. PlanTypes'
        <3>1. reader' \in Readers
            BY <1>14 DEF OrdinarySorted, PlanTypes
        <3>2. ordinary' \in Plans
            <4>1. CASE SameAccountFacts(ordinary.wave)
                <5>1. ordinary' = [ordinary EXCEPT !.step = "done",
                                                   !.snapshot = ordinary.snapshot]
                    BY <1>14, <4>1 DEF OrdinarySorted, RestoredSnapshot
                <5> QED
                    BY <5>1 DEF PlanTypes, Plans
            <4>2. CASE ~ SameAccountFacts(ordinary.wave)
                <5>1. ordinary' = Abandoned
                    BY <1>14, <4>2 DEF OrdinarySorted
                <5> QED
                    BY <5>1, AbandonedTypes
            <4> QED
                BY <4>1, <4>2
        <3>3. batch' \in Batches
            BY <1>14 DEF OrdinarySorted, PlanTypes
        <3> QED
            BY <3>1, <3>2, <3>3 DEF PlanTypes
    <2>2. (AccountTypes /\ FlagTypes /\ LoopTypes /\ CleanReads
           /\ UnreadAwaited /\ TornAwaited)'
        BY <1>14 DEF OrdinarySorted, Abandoned, RestoredSnapshot, AccountTypes, Facts,
               Confirmations, Signals, FlagTypes, LoopTypes, CleanReads, UnreadAwaited,
               TornAwaited
    <2>3. (OrdersKnown /\ PositionsGrow /\ CutShows /\ PlansSuit /\ TurnOfPlace)'
        BY <1>14, NoValues DEF OrdinarySorted, Abandoned, RestoredSnapshot,
               OrdersKnown, PositionsGrow, CutShows, PlansSuit, Suits, TurnOfPlace
    <2> QED
        BY <2>1, <2>2, <2>3
<1>15. CASE HistoryTask
    <2>1. PlanTypes'
        <3>1. reader' \in Readers
            BY <1>15 DEF HistoryTask, PlanTypes
        <3>2. ordinary' \in Plans
            BY <1>15, MovedTypes DEF HistoryTask, HistoryRead, PlanTypes
        <3>3. batch' \in Batches
            BY <1>15, MovedTypes DEF HistoryTask, HistoryRead, PlanTypes
        <3> QED
            BY <3>1, <3>2, <3>3 DEF PlanTypes
    <2>2. LoopTypes'
        <3>1. ordinary'.step = ordinary.step
            BY <1>15, MovedTypes DEF HistoryTask, HistoryRead, PlanTypes
        <3> QED
            BY <1>15, <3>1 DEF HistoryTask, LoopTypes
    <2>3. PlansSuit'
        <3>1. ordinary'.todo = ordinary.todo /\ ordinary'.wave.sig = ordinary.wave.sig
            BY <1>15, MovedTypes DEF HistoryTask, HistoryRead, PlanTypes
        <3>2. batch'.todo = batch.todo /\ batch'.wave.sig = batch.wave.sig
            BY <1>15, MovedTypes DEF HistoryTask, HistoryRead, PlanTypes
        <3> QED
            BY <3>1, <3>2 DEF PlansSuit, Suits
    <2>4. (AccountTypes /\ FlagTypes /\ CleanReads /\ UnreadAwaited /\ TornAwaited)'
        BY <1>15 DEF HistoryTask, HistoryRead, Disturb, Moved, Recorded, AccountTypes,
               Facts, Confirmations, Signals, FlagTypes, CleanReads, UnreadAwaited,
               TornAwaited
    <2>5. (OrdersKnown /\ PositionsGrow /\ CutShows /\ TurnOfPlace)'
        BY <1>15 DEF HistoryTask, HistoryRead, Disturb, Moved, Recorded, OrdersKnown,
               PositionsGrow, CutShows, TurnOfPlace
    <2> QED
        BY <2>1, <2>2, <2>3, <2>4, <2>5
<1>16. CASE UpkeepReads
    <2>1. PlanTypes'
        <3>1. reader' \in Readers
            <4>1. reader' = [NoReader EXCEPT !.who = "upkeep", !.clean = (write = NoWrite)]
                BY <1>16 DEF UpkeepReads, BeginRead
            <4>2. (write = NoWrite) \in BOOLEAN
                OBVIOUS
            <4> QED
                BY <4>1, <4>2, NoValues, ReaderTypes
        <3>2. ordinary' \in Plans
            BY <1>16 DEF UpkeepReads, BeginRead, PlanTypes
        <3>3. batch' \in Batches
            BY <1>16 DEF UpkeepReads, BeginRead, PlanTypes
        <3> QED
            BY <3>1, <3>2, <3>3 DEF PlanTypes
    <2>2. CleanReads'
        <3>1. reader' = [NoReader EXCEPT !.who = "upkeep", !.clean = (write = NoWrite)]
              /\ UNCHANGED write
            BY <1>16 DEF UpkeepReads, BeginRead, cycleVars
        <3>2. reader'.who = "upkeep" /\ reader'.clean = (write = NoWrite)
            BY <3>1, NoValues DEF Readers
        <3> QED
            BY <3>1, <3>2 DEF CleanReads
    <2>3. PositionsGrow'
        BY <1>16, NoValues DEF UpkeepReads, Disturb, BeginRead, Begun, PositionsGrow,
               AccountTypes, Facts, Confirmations, Signals, PlanTypes, Readers, NotRead
    <2>4. (AccountTypes /\ FlagTypes /\ LoopTypes /\ UnreadAwaited /\ TornAwaited)'
        BY <1>16 DEF UpkeepReads, Disturb, BeginRead, Begun, AccountTypes, Facts,
               Confirmations, Signals, FlagTypes, LoopTypes, UnreadAwaited, TornAwaited
    <2>5. (OrdersKnown /\ CutShows /\ PlansSuit /\ TurnOfPlace)'
        BY <1>16, NoValues DEF UpkeepReads, Disturb, BeginRead, Begun, OrdersKnown,
               CutShows, PlansSuit, Suits, TurnOfPlace
    <2> QED
        BY <2>1, <2>2, <2>3, <2>4, <2>5
<1>17. CASE ReadFails
    <2>1. PositionsGrow'
        BY <1>17, NoValues DEF ReadFails, Disturb, PositionsGrow, AccountTypes, Facts,
               Confirmations, Signals, PlanTypes, Readers, NotRead
    <2>2. TurnOfPlace'
        BY <1>17, NoValues DEF ReadFails, Disturb, TurnOfPlace, LoopTypes
    <2>3. (AccountTypes /\ FlagTypes /\ PlanTypes /\ LoopTypes /\ CleanReads)'
        BY <1>17, NoValues DEF ReadFails, Disturb, AccountTypes, Facts, Confirmations,
               Signals, FlagTypes, PlanTypes, LoopTypes, CleanReads
    <2>4. (UnreadAwaited /\ TornAwaited /\ OrdersKnown /\ CutShows /\ PlansSuit)'
        BY <1>17, NoValues DEF ReadFails, Disturb, UnreadAwaited, TornAwaited,
               OrdersKnown, CutShows, PlansSuit, Suits
    <2> QED
        BY <2>1, <2>2, <2>3, <2>4
<1>18. CASE ProtectFails
    <2>1. (AccountTypes /\ FlagTypes /\ PlanTypes /\ LoopTypes /\ CleanReads
           /\ UnreadAwaited)'
        BY <1>18, NoValues DEF ProtectFails, Disturb, AccountTypes, Facts,
               Confirmations, Signals, FlagTypes, PlanTypes, LoopTypes, CleanReads,
               UnreadAwaited
    <2>2. (TornAwaited /\ OrdersKnown /\ PositionsGrow /\ CutShows
           /\ PlansSuit /\ TurnOfPlace)'
        BY <1>18, NoValues DEF ProtectFails, Disturb, TornAwaited, OrdersKnown,
               PositionsGrow, CutShows, PlansSuit, Suits, TurnOfPlace
    <2> QED
        BY <2>1, <2>2
<1>19. CASE OrdinaryFails
    <2>1. PlanTypes'
        <3>1. reader' \in Readers
            BY <1>19 DEF OrdinaryFails, PlanTypes
        <3>2. ordinary' \in Plans
            BY <1>19, AbandonedTypes DEF OrdinaryFails
        <3>3. batch' \in Batches
            BY <1>19 DEF OrdinaryFails, PlanTypes
        <3> QED
            BY <3>1, <3>2, <3>3 DEF PlanTypes
    <2>2. (AccountTypes /\ FlagTypes /\ LoopTypes /\ CleanReads
           /\ UnreadAwaited /\ TornAwaited)'
        BY <1>19 DEF OrdinaryFails, Disturb, Abandoned, AccountTypes, Facts,
               Confirmations, Signals, FlagTypes, LoopTypes, CleanReads, UnreadAwaited,
               TornAwaited
    <2>3. (OrdersKnown /\ PositionsGrow /\ CutShows /\ PlansSuit /\ TurnOfPlace)'
        BY <1>19, NoValues DEF OrdinaryFails, Disturb, Abandoned, OrdersKnown,
               PositionsGrow, CutShows, PlansSuit, Suits, TurnOfPlace
    <2> QED
        BY <2>1, <2>2, <2>3
<1>20. CASE Invalidate
    <2>1. PlanTypes'
        <3>1. reader' \in Readers
            BY <1>20 DEF Invalidate, PlanTypes
        <3>2. ordinary' \in Plans
            BY <1>20, MovedTypes, SupersededTypes DEF Invalidate, PlanTypes
        <3>3. batch' \in Batches
            BY <1>20, MovedTypes, SupersededTypes DEF Invalidate, PlanTypes
        <3> QED
            BY <3>1, <3>2, <3>3 DEF PlanTypes
    <2>2. PlansSuit'
        <3>1. ordinary'.todo = ordinary.todo /\ ordinary'.wave.sig = ordinary.wave.sig
            BY <1>20, MovedTypes, SupersededTypes DEF Invalidate, PlanTypes
        <3>2. batch'.todo = batch.todo /\ batch'.wave.sig = batch.wave.sig
            BY <1>20, MovedTypes, SupersededTypes DEF Invalidate, PlanTypes
        <3> QED
            BY <3>1, <3>2 DEF PlansSuit, Suits
    <2>3. (AccountTypes /\ FlagTypes /\ LoopTypes /\ CleanReads /\ UnreadAwaited)'
        BY <1>20 DEF Invalidate, Disturb, Moved, Superseded, AccountTypes, Facts, Confirmations,
               Signals, FlagTypes, LoopTypes, CleanReads, UnreadAwaited
    <2>4. (TornAwaited /\ OrdersKnown /\ PositionsGrow /\ CutShows /\ TurnOfPlace)'
        BY <1>20 DEF Invalidate, Disturb, Moved, Superseded, TornAwaited, OrdersKnown,
               PositionsGrow, CutShows, TurnOfPlace
    <2> QED
        BY <2>1, <2>2, <2>3, <2>4
<1>21. ASSUME NEW o \in Orders, Fill(o) PROVE AccountInv'
    <2>1. AccountTypes'
        BY <1>21 DEF Fill, Disturb, AccountTypes, Facts, Confirmations, Signals,
               PlanTypes, Readers, NotRead
    <2>2. PlanTypes'
        <3>1. reader' \in Readers
            <4>1. (reader.cut \/ ((reader.pos # NotRead) # reader.listed)) \in BOOLEAN
                OBVIOUS
            <4> QED
                BY <1>21, <4>1, ReaderTypes DEF Fill, PlanTypes
        <3>2. ordinary' \in Plans
            BY <1>21 DEF Fill, PlanTypes
        <3>3. batch' \in Batches
            BY <1>21 DEF Fill, PlanTypes
        <3> QED
            BY <3>1, <3>2, <3>3 DEF PlanTypes
    <2>3. CleanReads'
        BY <1>21, NoValues DEF Fill, Disturb, CleanReads, AccountTypes, Facts,
               Confirmations, Signals, PlanTypes, Readers, NotRead
    <2>4. PositionsGrow'
        BY <1>21 DEF Fill, Disturb, PositionsGrow, AccountTypes, Facts, Confirmations,
               Signals, PlanTypes, Readers, NotRead
    <2>5. CutShows'
        BY <1>21 DEF Fill, Disturb, CutShows, CleanReads, OrdersKnown, PositionsGrow,
               AccountTypes, Facts, PlanTypes, Readers, NotRead
    <2>6. (FlagTypes /\ LoopTypes /\ UnreadAwaited /\ TornAwaited)'
        BY <1>21 DEF Fill, Disturb, FlagTypes, LoopTypes, UnreadAwaited, TornAwaited
    <2>7. (OrdersKnown /\ PlansSuit /\ TurnOfPlace)'
        BY <1>21 DEF Fill, Disturb, OrdersKnown, PlansSuit, Suits, TurnOfPlace
    <2> QED
        BY <2>1, <2>2, <2>3, <2>4, <2>5, <2>6, <2>7
<1>22. CASE SignalMoves
    <2>1. (AccountTypes /\ FlagTypes /\ PlanTypes /\ LoopTypes /\ CleanReads
           /\ UnreadAwaited)'
        BY <1>22 DEF SignalMoves, Disturb, AccountTypes, Facts, Confirmations,
               Signals, FlagTypes, PlanTypes, LoopTypes, CleanReads, UnreadAwaited
    <2>2. (TornAwaited /\ OrdersKnown /\ PositionsGrow /\ CutShows
           /\ PlansSuit /\ TurnOfPlace)'
        BY <1>22 DEF SignalMoves, Disturb, TornAwaited, OrdersKnown, PositionsGrow,
               CutShows, PlansSuit, Suits, TurnOfPlace
    <2> QED
        BY <2>1, <2>2
<1>23. CASE Forget
    <2>1. (AccountTypes /\ FlagTypes /\ PlanTypes /\ LoopTypes /\ CleanReads
           /\ UnreadAwaited)'
        BY <1>23 DEF Forget, Disturb, AccountTypes, Facts, Confirmations, Signals,
               FlagTypes, PlanTypes, LoopTypes, CleanReads, UnreadAwaited
    <2>2. (TornAwaited /\ OrdersKnown /\ PositionsGrow /\ CutShows
           /\ PlansSuit /\ TurnOfPlace)'
        BY <1>23 DEF Forget, Disturb, TornAwaited, OrdersKnown, PositionsGrow,
               CutShows, PlansSuit, Suits, TurnOfPlace
    <2> QED
        BY <2>1, <2>2
<1>24. CASE CalmDown
    <2>1. (AccountTypes /\ FlagTypes /\ PlanTypes /\ LoopTypes /\ CleanReads
           /\ UnreadAwaited)'
        BY <1>24 DEF CalmDown, AccountTypes, Facts, Confirmations, Signals, FlagTypes,
               PlanTypes, LoopTypes, CleanReads, UnreadAwaited
    <2>2. (TornAwaited /\ OrdersKnown /\ PositionsGrow /\ CutShows
           /\ PlansSuit /\ TurnOfPlace)'
        BY <1>24 DEF CalmDown, TornAwaited, OrdersKnown, PositionsGrow, CutShows,
               PlansSuit, Suits, TurnOfPlace
    <2> QED
        BY <2>1, <2>2
<1>25. CASE UNCHANGED vars
    BY <1>25 DEF vars, Suits, AccountTypes, FlagTypes, PlanTypes, LoopTypes,
           CleanReads, UnreadAwaited, TornAwaited, OrdersKnown, PositionsGrow, CutShows,
           PlansSuit, TurnOfPlace
<1> QED
    BY <1>1, <1>2, <1>3, <1>4, <1>5, <1>6, <1>7, <1>8, <1>9, <1>10, <1>11, <1>12,
       <1>13, <1>14, <1>15, <1>16, <1>17, <1>18, <1>19, <1>20, <1>21, <1>22, <1>23,
       <1>24, <1>25 DEF Next, Cycle, Read, OrdinaryTask, Environment

\* The register holds a snapshot.
LEMMA RegisterKept == IInv /\ [Next]_vars => RegisterTypes'
<1> SUFFICES ASSUME IInv, [Next]_vars PROVE RegisterTypes'
    OBVIOUS
<1>0. TypeOK
    BY Types DEF IInv, AccountInv
<1>1. /\ register \in Snapshots /\ ordinary.snapshot \in Snapshots
      /\ batch.snapshot \in Snapshots /\ NoSnapshot \in Snapshots
      /\ Snapshot("protect") \in Snapshots /\ Snapshot("ordinary") \in Snapshots
    BY <1>0, NoValues, SnapshotTypes DEF TypeOK, Plans, Batches
<1>2. CASE Protect
    <2>1. ASSUME NEW now \in Snapshots, Proceed(now) PROVE RegisterTypes'
        BY <1>1, <2>1 DEF Proceed, SendPlan, HandedOver, PlanSent, EndCycle, RegisterTypes
    <2> QED
        BY <1>1, <1>2, <2>1, ProtectSteps DEF IInv, RegisterTypes
<1>3. CASE BatchSent
    BY <1>1, <1>3 DEF BatchSent, Proceed, SendPlan, HandedOver, PlanSent, EndCycle, RegisterTypes
<1>4. CASE ProtectSorted \/ Prepared \/ Calculated \/ OrdinarySorted
    BY <1>1, <1>4 DEF ProtectSorted, Prepared, Calculated, OrdinarySorted, RestoredSnapshot,
           RegisterTypes
<1>5. CASE Invalidate
    BY <1>1, <1>5 DEF Invalidate, RegisterTypes, Snapshots
<1>6. \/ Protect \/ BatchSent \/ ProtectSorted \/ Prepared \/ Calculated \/ OrdinarySorted
      \/ Invalidate \/ UNCHANGED register
    BY DEF Next, Cycle, Read, OrdinaryTask, Environment, BeginCycle, EnterConnector, Defer,
           WriteEnds, CycleReads, BeginRead, PositionsAnswered, OpenOrdersAnswered, CommitRead,
           HistoryTask, UpkeepReads, ReadFails, ProtectFails, OrdinaryFails, Fill, SignalMoves,
           Forget, CalmDown, vars
<1> QED
    BY <1>1, <1>2, <1>3, <1>4, <1>5, <1>6 DEF RegisterTypes

\* Orders stay with the snapshot they were calculated on.
LEMMA SnapshotsKept == IInv /\ [Next]_vars => SnapshotsBound'
<1> SUFFICES ASSUME IInv, [Next]_vars PROVE SnapshotsBound'
    OBVIOUS
<1> DEFINE by(t) == IF t = "plan" THEN "ordinary" ELSE "protect"
<1>0. TypeOK /\ ordinary \in Plans /\ batch \in Batches
    BY Types DEF IInv, AccountInv, PlanTypes
<1>1. Bound(ordinary, "ordinary") /\ Bound(batch, by(turn))
    BY DEF IInv, SnapshotsBound
<1>2. NoPlan.todo = {} /\ NoBatch.todo = {} /\ Abandoned.todo = {}
    BY NoValues, AbandonedTypes
<1>3. ASSUME NEW now \in Snapshots, Proceed(now) PROVE SnapshotsBound'
    <2>1. CASE SendPlan(now)
        <3>1. ordinary' = NoPlan
            BY <2>1 DEF SendPlan
        <3>2. CASE AccountMatches(ordinary.wave)
            <4>1. /\ turn' = "plan"
                  /\ batch' = [wave |-> ordinary.wave, todo |-> ordinary.todo,
                               snapshot |-> ordinary.snapshot]
                BY <2>1, <3>2 DEF SendPlan, HandedOver
            <4>2. /\ batch'.todo = ordinary.todo /\ batch'.wave = ordinary.wave
                  /\ batch'.snapshot = ordinary.snapshot
                BY <4>1
            <4> QED
                BY <1>1, <1>2, <3>1, <4>1, <4>2 DEF SnapshotsBound, Bound
        <3>3. CASE ~ AccountMatches(ordinary.wave)
            BY <1>2, <2>1, <3>1, <3>3 DEF SendPlan, SnapshotsBound, Bound
        <3> QED
            BY <3>2, <3>3
    <2>2. CASE PlanSent(now)
        BY <1>1, <1>2, <2>2 DEF PlanSent, SnapshotsBound, Bound
    <2>3. CASE EndCycle(now)
        <3>1. batch' = NoBatch
            BY <2>3 DEF EndCycle
        <3>2. ordinary' = ordinary \/ ordinary'.todo = {}
            BY <1>0, <2>3, Preparing DEF EndCycle
        <3> QED
            BY <1>1, <1>2, <3>1, <3>2 DEF SnapshotsBound, Bound
    <2> QED
        BY <1>3, <2>1, <2>2, <2>3 DEF Proceed
<1>4. CASE Protect
    <2>1. ASSUME register' = IF sig = "panic" THEN Snapshot("protect") ELSE register,
                 batch' = [wave |-> CaptureProtective, todo |-> ProtectiveOrders,
                           snapshot |-> register'],
                 pc' = IF sig = "panic" THEN "sorting" ELSE "sending",
                 UNCHANGED <<turn, ordinary>>
          PROVE  SnapshotsBound'
        <3>1. turn # "plan"
            BY <1>4 DEF Protect, IInv, AccountInv, TurnOfPlace
        <3>2. CaptureProtective.facts = loc
            BY <1>0, CaptureTypes
        <3>3. \A x \in ProtectiveOrders : x.op = "create" => sig = "panic"
            BY <1>0, ProtectiveTypes
        <3>4. /\ Snapshot("protect").by = "protect" /\ Snapshot("protect").facts = loc
              /\ ~ Snapshot("protect").moved
            BY <1>0, SnapshotTypes
        <3>5. /\ batch'.todo = ProtectiveOrders /\ batch'.wave = CaptureProtective
              /\ batch'.snapshot = register'
            BY <2>1
        <3>6. Bound(batch, by(turn))'
            BY <2>1, <3>1, <3>2, <3>3, <3>4, <3>5 DEF Bound
        <3> QED
            BY <1>1, <2>1, <3>6 DEF SnapshotsBound
    <2> QED
        BY <1>3, <1>4, <2>1, ProtectSteps
<1>5. CASE BatchSent
    BY <1>3, <1>5 DEF BatchSent, IInv, RegisterTypes
<1>6. CASE ProtectSorted
    <2>1. batch' = [batch EXCEPT !.snapshot = batch.snapshot] /\ UNCHANGED <<turn, ordinary>>
        BY <1>6 DEF ProtectSorted, RestoredSnapshot
    <2>2. batch' = batch
        BY <1>0, <2>1 DEF Batches
    <2> QED
        BY <1>1, <2>1, <2>2 DEF SnapshotsBound
<1>7. CASE ProtectFails
    BY <1>1, <1>2, <1>7 DEF ProtectFails, SnapshotsBound, Bound
<1>8. ASSUME NEW x \in Writes, EnterConnector(x) \/ Defer(x) PROVE SnapshotsBound'
    <2>1. batch' = [batch EXCEPT !.todo = @ \ {x}] /\ UNCHANGED <<turn, ordinary>>
        BY <1>8 DEF EnterConnector, Defer
    <2>2. /\ batch'.todo \subseteq batch.todo /\ batch'.wave = batch.wave
          /\ batch'.snapshot = batch.snapshot
        BY <1>0, <2>1 DEF Batches
    <2> QED
        BY <1>1, <2>1, <2>2 DEF SnapshotsBound, Bound
<1>9. CASE BeginCycle
    <2>1. \/ ordinary' = [ordinary EXCEPT !.step = "taken"] \/ ordinary' = NoPlan
          \/ ordinary' = ordinary
        BY <1>9 DEF BeginCycle
    <2>2. \/ ordinary'.todo = {}
          \/ /\ ordinary'.todo = ordinary.todo /\ ordinary'.wave = ordinary.wave
             /\ ordinary'.snapshot = ordinary.snapshot
        BY <1>0, <1>2, <2>1 DEF Plans
    <2> QED
        BY <1>1, <1>9, <2>2 DEF BeginCycle, SnapshotsBound, Bound
<1>10. CASE CommitRead
    <2>1. /\ turn = "first" \/ turn' = turn
          /\ turn' = "second" \/ turn' = turn
          /\ UNCHANGED <<ordinary, batch>>
        BY <1>10 DEF CommitRead, IInv, AccountInv, TurnOfPlace, LoopTypes
    <2> QED
        BY <1>1, <2>1 DEF SnapshotsBound, Bound
<1>11. CASE Prepared \/ OrdinarySorted \/ OrdinaryFails
    <2>1. \/ ordinary' = [ordinary EXCEPT !.step = "loading"] \/ ordinary' = Abandoned
          \/ ordinary' = [ordinary EXCEPT !.step = "done", !.snapshot = ordinary.snapshot]
        BY <1>11 DEF Prepared, OrdinarySorted, OrdinaryFails, RestoredSnapshot
    <2>2. \/ ordinary'.todo = {}
          \/ /\ ordinary'.todo = ordinary.todo /\ ordinary'.wave = ordinary.wave
             /\ ordinary'.snapshot = ordinary.snapshot
        BY <1>0, <1>2, <2>1 DEF Plans
    <2>3. UNCHANGED <<turn, batch>>
        BY <1>11 DEF Prepared, OrdinarySorted, OrdinaryFails, cycleVars
    <2> QED
        BY <1>1, <2>2, <2>3 DEF SnapshotsBound, Bound
<1>12. CASE Calculated
    <2>1. UNCHANGED <<turn, batch>>
        BY <1>12 DEF Calculated, cycleVars
    <2>2. CASE ordinary' = Abandoned
        BY <1>1, <1>2, <2>1, <2>2 DEF SnapshotsBound, Bound
    <2>3. ASSUME NEW ideal \in IdealOrders,
                 ordinary' = [step |-> "sorting", wave |-> Capture, todo |-> Reconciled(ideal),
                              snapshot |-> Snapshot("ordinary")]
          PROVE  SnapshotsBound'
        <3>1. Capture.facts = loc
            BY <1>0, CaptureTypes
        <3>2. /\ Snapshot("ordinary").by = "ordinary" /\ Snapshot("ordinary").facts = loc
              /\ ~ Snapshot("ordinary").moved
            BY <1>0, SnapshotTypes
        <3>3. ordinary'.wave = Capture /\ ordinary'.snapshot = Snapshot("ordinary")
            BY <2>3
        <3> QED
            BY <1>1, <2>1, <3>1, <3>2, <3>3 DEF SnapshotsBound, Bound
    <2> QED
        BY <1>12, <2>2, <2>3 DEF Calculated
<1>13. CASE HistoryTask \/ Invalidate
    <2>1. /\ ordinary' \in {ordinary, Moved(ordinary), Superseded(ordinary)}
          /\ batch' \in {batch, Moved(batch), Superseded(batch)}
          /\ turn' = turn
        BY <1>13 DEF HistoryTask, HistoryRead, Invalidate
    <2>2. /\ ordinary'.todo = ordinary.todo /\ ordinary'.wave.facts = ordinary.wave.facts
          /\ ordinary' = ordinary \/ ordinary'.wave.moved
          /\ ordinary'.snapshot.by = ordinary.snapshot.by
          /\ ordinary'.snapshot.facts = ordinary.snapshot.facts
        BY <1>0, <2>1, MovedTypes, SupersededTypes
    <2>3. /\ batch'.todo = batch.todo /\ batch'.wave.facts = batch.wave.facts
          /\ batch' = batch \/ batch'.wave.moved
          /\ batch'.snapshot.by = batch.snapshot.by
          /\ batch'.snapshot.facts = batch.snapshot.facts
        BY <1>0, <2>1, MovedTypes, SupersededTypes
    <2>4. Bound(ordinary, "ordinary")'
        BY <1>1, <2>2 DEF Bound
    <2>5. Bound(batch, by(turn))'
        BY <1>1, <2>1, <2>3 DEF Bound
    <2> QED
        BY <2>4, <2>5 DEF SnapshotsBound
<1>14. CASE UNCHANGED <<turn, ordinary, batch>>
    BY <1>1, <1>14 DEF SnapshotsBound, Bound
<1>15. \/ BeginCycle \/ Protect \/ ProtectSorted \/ BatchSent \/ ProtectFails \/ CommitRead
       \/ \E x \in Writes : EnterConnector(x) \/ Defer(x)
       \/ OrdinaryTask \/ OrdinaryFails \/ HistoryTask \/ Invalidate
       \/ UNCHANGED <<turn, ordinary, batch>>
    BY DEF Next, Cycle, Read, Environment, WriteEnds, CycleReads, BeginRead, PositionsAnswered,
           OpenOrdersAnswered, UpkeepReads, ReadFails, Fill, SignalMoves, Forget, CalmDown, vars,
           cycleVars
<1> QED
    BY <1>4, <1>5, <1>6, <1>7, <1>8, <1>9, <1>10, <1>11, <1>12, <1>13, <1>14, <1>15
       DEF OrdinaryTask

\* A process that has not read the account has not written either.
LEMMA InitHolds == Init => IInv
<1> SUFFICES ASSUME Init PROVE IInv
    OBVIOUS
<1>1. AccountTypes /\ PlanTypes /\ LoopTypes
    BY NoValues, OwnerAssumption
       DEF Init, AccountTypes, PlanTypes, LoopTypes, NoFacts, Facts, Confirmations, Orders, NotRead
<1>2. FlagTypes
    BY DEF Init, FlagTypes
<1>3. CleanReads /\ UnreadAwaited /\ TornAwaited /\ PlansSuit /\ TurnOfPlace
    BY NoValues DEF Init, CleanReads, UnreadAwaited, TornAwaited, PlansSuit, Suits, TurnOfPlace
<1>4. OrdersKnown /\ PositionsGrow /\ CutShows
    BY NoValues DEF Init, OrdersKnown, PositionsGrow, CutShows, NoFacts, NotRead
<1>5. RegisterTypes /\ SnapshotsBound
    BY NoValues DEF Init, RegisterTypes, SnapshotsBound, Bound
<1> QED
    BY <1>1, <1>2, <1>3, <1>4, <1>5 DEF IInv, AccountInv

\* The two together.
LEMMA Invariance == Spec => []IInv
<1>1. Init => IInv
    BY InitHolds
<1>2. IInv /\ [Next]_vars => IInv'
    <2> SUFFICES ASSUME IInv, [Next]_vars PROVE IInv'
        OBVIOUS
    <2>1. AccountInv'
        BY NextKeeps
    <2>2. RegisterTypes'
        BY RegisterKept
    <2>3. SnapshotsBound'
        BY SnapshotsKept
    <2> QED
        BY <2>1, <2>2, <2>3 DEF IInv
<1> QED
    BY <1>1, <1>2, PTL DEF Spec

-----------------------------------------------------------------------------
(* The theorems.                                                            *)

\* connector_write is the only way to the connector.
LEMMA OnlyEnterConnectorEnters ==
    ASSUME Next, Entering
    PROVE  \E x \in Writes : EnterConnector(x)
BY DEF Next, Cycle, Read, OrdinaryTask, Environment, Entering, BeginCycle, Protect, ProtectSorted,
       Defer, WriteEnds, BatchSent, CycleReads, BeginRead, PositionsAnswered, OpenOrdersAnswered,
       CommitRead, Prepared, Calculated, OrdinarySorted, HistoryTask, UpkeepReads, ReadFails,
       ProtectFails, OrdinaryFails, Invalidate, Fill, SignalMoves, Forget, CalmDown, cycleVars

\* What admit() has established when an order enters it.
LEMMA Entry ==
    ASSUME IInv, Next, Entering
    PROVE  /\ need = "none" /\ write = NoWrite
           /\ \E x \in batch.todo : write' = x
           /\ sig = batch.wave.sig
BY OnlyEnterConnectorEnters DEF EnterConnector, Due, Admitted, AccountMatches

\* And what it has established of the snapshot, by comparing the facts of the wave.
LEMMA SnapshotOfEntry ==
    ASSUME IInv, Next, Entering, write'.op = "create"
    PROVE  batch.snapshot = Snapshot(IF turn = "plan" THEN "ordinary" ELSE "protect")
<1>1. PICK x \in Writes : EnterConnector(x)
    BY OnlyEnterConnectorEnters
<1>2. \E y \in batch.todo : y.op = "create"
    BY <1>1 DEF EnterConnector, Due
<1>3. batch.wave.facts = loc /\ ~ batch.wave.moved
    BY <1>1 DEF EnterConnector, Admitted, AccountMatches, SameAccountFacts
<1>4. batch.snapshot \in Snapshots
    BY DEF IInv, AccountInv, PlanTypes, Batches
<1>5. Bound(batch, IF turn = "plan" THEN "ordinary" ELSE "protect")
    BY DEF IInv, SnapshotsBound
<1> QED
    BY <1>2, <1>3, <1>4, <1>5 DEF Bound, Snapshot, Snapshots

\* The owner keeps its types: one reader at a time, a write only while orders are sent,
\* a retrieved plan only before the second pass.
THEOREM StateTypes == Spec => []TypeOK
<1>1. IInv => TypeOK
    BY Types DEF IInv, AccountInv
<1> QED
    BY <1>1, Invariance, PTL

\* connector_write: no second write before a complete read that began after the first one
\* ended, whatever became of it.
THEOREM WritesWaitForReads == Spec => OneWritePerRead
<1>1. IInv /\ [Next]_vars => [Entering => ~ unread]_vars
    BY Entry DEF IInv, AccountInv, UnreadAwaited
<1> QED
    BY <1>1, Invariance, PTL DEF Spec, OneWritePerRead

\* No write is decided on a read that a fill cut in two, unless the bot takes the missing
\* order for one it created or cancelled itself.
THEOREM WritesOnWholeReads == Spec => NoWriteOnTornRead
<1>1. IInv /\ [Next]_vars => [Entering => ~ torn]_vars
    BY Entry DEF IInv, AccountInv, TornAwaited
<1> QED
    BY <1>1, Invariance, PTL DEF Spec, NoWriteOnTornRead

\* admit(): under RED only the protective close is created, otherwise anything but it,
\* though both tasks plan ahead and the signal moves under them.
THEOREM EntriesFollowTheSignal == Spec => NoEntryUnderRed
<1>1. IInv /\ [Next]_vars
          => [Entering /\ write'.op = "create" => (write'.order = Panic <=> sig = "panic")]_vars
    BY Entry DEF IInv, AccountInv, PlansSuit, Suits
<1> QED
    BY <1>1, Invariance, PTL DEF Spec, NoEntryUnderRed

\* A plan or a pass is executed with the planning snapshot it was calculated on, of the
\* account as last read and not invalidated since, though the protective pass and the
\* ordinary task share the register and a finished plan waits for its turn.
THEOREM SnapshotsStayApart == Spec => SentOnOwnSnapshot
<1>1. IInv /\ [Next]_vars
          => [Entering /\ write'.op = "create" =>
                 batch.snapshot = Snapshot(IF turn = "plan" THEN "ordinary" ELSE "protect")]_vars
    BY SnapshotOfEntry
<1> QED
    BY <1>1, Invariance, PTL DEF Spec, SentOnOwnSnapshot
=============================================================================
