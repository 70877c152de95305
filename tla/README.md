# Verification of the live execution core of passivbot

Passivbot trades perpetual futures. Its live process reads an account, asks a Rust
planner which orders it would like to see, and brings the exchange's order book there,
minute after minute, while websockets report fills, answers get lost, listings lag and
the process is restarted. This directory holds TLA+ models of the parts that decide
*whether it is safe to send an order now*, the TLC configurations that check them on
small instances, and TLAPS proofs of the safety properties for every instance.

Paths below are those of the repository as found under `src/`: the Python package is
`src/src/`, the Rust crate `src/passivbot-rust/`, the documentation `src/docs/`.

## 1. Inventory

### The live process

| component | code | state | operations |
|---|---|---|---|
| execution loop | `passivbot.py` `run_execution_loop` and what it calls | the place where the one asyncio task awaits | refresh, readiness, barrier, plan, execute, back to the top from every early return |
| freshness ledger and barrier | `live/freshness.py`, `passivbot.py` `_request_authoritative_confirmation`, `_authoritative_execution_barrier_state` | epoch, stamp and signature of each account surface, pending confirmations and their target epochs | begin an epoch, stamp, request, test and clear |
| account refresh | `live/state_refresh.py`, `passivbot.py` `refresh_authoritative_state`, `refresh_protective_authoritative_state`, `update_pnls` | planned surfaces, running reads, the fill lock, the prefetch task | staged refresh, protective refresh, background fill prefetch, commit, consistency check |
| market maintenance | `passivbot.py` `maintain_hourly_cycle`, `init_markets` | time of the last update | once an hour: exchange configuration, market metadata, a staged account refresh of its own |
| position/fill settling gate | `live/position_fill_sync.py` | last positions, pending keys with deadline and revision, receipt of the running fill fetch, contexts of writes | observe positions, begin/finish/drop a fetch, admit a write, check its transport again |
| planning snapshot and gates | `live/planning_snapshot.py`, `live/planning_gates.py` | the generation a plan was made in | refuse a snapshot while a confirmation is pending |
| reconciler | `live/reconciler.py` | local open orders, recent creates and cancels | diff ideal and actual orders, explain changes of the listing, detect foreign orders |
| executor | `live/executor.py`, `passivbot.py` `execute_orders_parent` etc. | orders to cancel and to create, held symbols | cancel wave, cancel-first barrier, filters of the creates, send, classify answers |
| order churn gate | `live/order_churn_gate.py` | recent plans per symbol, evidence of churn, times of recent creates | judge and record a plan, admit or put off, charge |
| risk-input recovery | `live/risk_input_recovery.py` | open recovery, next attempt | protection cycle, defer, ensure_ready, mark_ready |
| HSL protection journal | `live/hsl_protection.py` | per scope: outage clock, committed exit, hold, exit window; a JSON file | unavailable, evaluated, commit, confirm flat, release, reconcile config, save, load |
| revised hard-stop owner | `live/hsl_revised_live.py` | account facts, waves, the ordinary task, the write lock | protective pass, plan, admit, write, read, refresh history |
| equity hard stop (legacy, revised engine) | `passivbot_hsl.py`, `live/hsl_episode.py`, `live/hsl_revised_runtime.py` etc., Rust `hsl_revised_*`, `equity_hard_stop_loss.rs` | tiers, peaks, episodes, cooldowns | evaluate, halt, cool down, replay |
| fill events manager | `fill_events_manager.py` | events in memory and in day files, metadata: proved start, scope, gaps, last refresh | incremental, bounded and full refresh, repair, gap retry, save, load |
| candles and quotes | `candlestick_manager.py`, `live/candle_ws.py`, `live/market_snapshot.py` | arrays on disk, last quotes | fetch, merge, age |
| planner | Rust `orchestrator.rs`, `entries.rs`, `closes.rs`, `trailing.rs`, `risk.rs` | none between calls | ideal orders from one input |
| exchange adapters | `exchanges/*.py` | connector sessions | wire formats, retries |
| observability | `live/event_bus.py`, `passivbot_monitor.py`, ... | queues of events | emit |

Outside the live process: configuration loading, the backtester (Python and Rust), the
optimizer, and restart/smoke/incident tooling. `PROJECT.json` lists every component with
its status; section 8 says why the ones left out are left out.

### How they interact

One asyncio task runs the loop. Each cycle starts with the protection owner
(`risk_input_recovery`), which may refresh, send panic closes and start over; then the
staged refresh commits balance, positions, open orders and fills; `ensure_ready`
evaluates HSL; halted scopes may be protected with one more refresh; the barrier tests
that every awaited surface was confirmed in this epoch; the planner is called; the
executor cancels, then creates.

Everything else interleaves at its awaits: websocket callbacks call
`mark_account_critical_state_dirty`, which requests confirmations and raises an
invalidation generation; the fill prefetch may stamp fills in an epoch that is not its
own; the background replay publishes HSL evaluations; a write waits in the connector's
rate limiter; the wall clock, the exchange and the operator do what they do. Market
maintenance is a second asyncio task, and its `init_markets` refreshes the account: with
the legacy hard stop it takes no lock and begins an epoch of its own, whatever the loop
has in flight. Only the lock around `update_pnls` keeps parts of the two apart.

With the revised hard stop another loop takes over: `Owner.run` repeats a cycle of
protective pass, ordinary plan (if its task has finished one), account read and protective
pass, while the task that makes the plan and the one that reads the fill history run beside it.

### What is hard

* a surface is stamped when its read is committed, not when it was sent, and
  invalidations land in between, or an epoch another refresh began;
* the bot learns of its own orders from a lagging listing, and answers get lost;
* the memory of recent orders is read with two horizons, and the readers with the short
  one delete what the others need;
* exits and outage clocks must survive a crash between any two steps, a failing write
  and a damaged file;
* deadlines must not be renewed by what they guard against;
* protection that owns the loop may starve what it protects;
* positions and open orders come from two requests, and an order may fill in between;
* a plan is made in one task and sent by another, after the account and the permission
  may have changed;
* an incremental fill refresh never looks back: a fill missed behind its start is missed
  for good, so files, metadata and memory must not disagree in the wrong direction;
* times of two clocks are compared: the exchange stamps fills, the bot stamps exits;
* an economy measure (churn) must not hold an order back for ever.

`PROJECT.json` lists these as hazards with the line where each bites and the properties
that cover it.

### What makes each component correct

Gate: no write reaches the exchange on a position nobody has fills for, and no key is
blocked for ever. Ledger and barrier: no confirmation request is lost or answered by
data older than it, and execution resumes. Reconciler and executor: no order rests
twice, nothing is replaced before its cancel is confirmed, nothing is sent on a
superseded plan, and the book converges. Protection: an exit is executed until the scope
is flat and is not forgotten before a replay takes over, no outage gets more than its
grace, and recovery ends. Revised owner: one write per account read, decided on a
consistent read and a permission that still holds, and neither protection nor plan is
starved. Churn gate: old evidence is not resurrected, the allowance holds, a settled order
is placed. Fill history: it vouches for a fill it does not have only in ways that can be
named, and proves what is required again after a failure.

## 2. Plan

| order | module | about | state |
|---|---|---|---|
| 1 | `PositionFillSync` (+ `Proofs`, `MC`) | settling gate | modelled, checked, proved |
| 2 | `AuthoritativeState` (+ `Proofs`) | ledger, refreshes, prefetch, barrier | modelled, checked, proved |
| 3 | `OrderExecution` (+ `Proofs`, `MC`) | reconciler and executor against a lossy exchange | modelled, checked, proved |
| 4 | `HslProtection` (+ `Proofs`, `MC`), `DurableExit` | journal, outage clocks, protection cycle, recovery, and what the journal promises | modelled, checked, proved, refinement proved |
| 5 | `OrderChurnGate` (+ `Proofs`, `MC`) | evidence of churn, admission, charge at the connector | modelled, checked, proved |
| 6 | `RevisedOwner` (+ `Proofs`, `MC`) | `live/hsl_revised_live.py`: waves, admission, one write per account read, torn reads | modelled, checked, proved |
| 7 | `FillHistory` (+ `Proofs`), `FillLedger` | cache, metadata and gaps of the fill events manager, and what it promises | modelled, checked, refinement proved |
| 8 | `HardStop` | tier machine, cooldown and replay of the legacy hard stop, without its arithmetic | later |
| 9 | `ForeignOrders` | emitted custom ids and the stop on foreign orders | later |

Abstract specifications: `FillLedger` (a history that never unlearns a fill and vouches
only for fills it holds), implemented by `FillHistory` up to the fills it lost track of; `DurableExit` (exits run, are
held and are taken over, each change is offered to a medium at once, and a crash resumes
what the medium holds), implemented by `HslProtection` with its journal. Worth stating
next: a *confirmed account* (a request is answered only by a later read), implemented by
`AuthoritativeState`.

## 3. The modules

### PositionFillSync

| model | code |
|---|---|
| `entry`, `pending`, `revision` | the dict of `Pending` entries and the revision counter; revision 0 stands for "not in the dict" |
| `fetching`, `receipt` | `refresh_evidence` awaiting its operation, and the receipt of `begin_fetch` |
| `write` | one `WriteContext` and where its coroutine is |
| `Observe(p)` | `observe_positions`: changed keys get consecutive revisions in any order, the first change time is kept |
| `BeginFetch`, `FinishFetch`, `DropFetch` | `begin_fetch`, `finish_fetch`, and every way an operation ends without confirming |
| `SubmitWrite` | the admission in `connector_write` |
| `TransportWrite`, `TransportRead`, `TransportResult` | `check_transport_admission` for writes and reads, the client's answer or retry |
| `Scope`, `PermitKeys` | the keys a write depends on, in the modes `pside` and `unified` other ones than its own; the gate asks for those among them that are pending |

A position is one of a small set of (size, price) pairs; the clock is a counter.
`fetchBegan`, `pendingSince`, `unfetched` and `missed` are history variables. `unfetched`
has the keys whose position changed and for which no fetch that began after the change had
settled has ended, and it is kept apart from `pending`: `SentOnFetchedFills` would see an
entry dropped too early, a fetch that counts for too many keys, or a scope too small.

### AuthoritativeState

Epoch numbers are not counted: the code compares them with the current epoch only, so a
surface is `fresh` or not, and its confirmation is `due` (target reached) or `next`
(target is the epoch after this one). This makes the model finite without a bound.
`phase` is where the loop awaits, `owner` which of its refreshes runs, and `hourly` where
the refresh of market maintenance awaits. Each refresh has its own `plan` and its own
reads, but `fresh`, `changed`, `due`, `next` and `planned` are one for both, and every
commit stamps the current epoch, whoever began it.

| model | code |
|---|---|
| `fresh`, `changed`, `seen` | the stamps and signatures of the freshness ledger; a signature is reduced to whether it changed, for the surfaces of which anything asks |
| `planned` | `_authoritative_refresh_plan_surfaces`, set by the refresh that began last |
| `fillTask`, `before` | the calls of `update_pnls` by loop, maintenance and prefetch, and the queue of its lock |
| `StartStaged`, `StartEarly`, `StartHalted`, `StartHourly` | the refreshes, each with `SendReads` |
| `TakeFillLock`, `StagedFillsEnd`, `HourlyFillsEnd`, `TailFillsEnd`, `PrefetchEnds` | `update_pnls` of each caller |
| `ApplyOpenOrders`, `ApplyAccount`, `FinalizeRefresh` and their `Hourly` forms | the commit with its awaits |
| `EnsureReady`, `Barrier`, `EndCycle` | the rest of the cycle |
| `Invalidate`, `RequestAfterBarrier`, `ProtectiveWave` | requests made outside a refresh |
| `halted` | recovery is open and a halted scope exists, so that `StartHalted` runs between staged refresh and barrier; set anew by `EnsureReady`, until `calm` |
| `moved` | halted protection compares the epoch after its fill tail with the one before |

History: `reread` and `flight` say which committed values and which reads in flight are
younger than the last request for their surface. `overlap` is set when a maintenance
refresh begins, and ends with the next cycle that begins without one; `suspect` are the
surfaces committed meanwhile from a read that was outdated. The safety properties except
the suspect surfaces, or the cycles with an overlap, and nothing else; without that
exception they are false (`FreshBeforeExecution`, finding 3).

The model is of the legacy hard stop. The revised engine's refresh, which takes a lock, is
in `RevisedOwner`.

### OrderExecution

An order is an intent (symbol, side, price, quantity) further from every other one than
the matching tolerance. `live` and `lag` are the exchange: how often an intent rests,
and for how long the listing may still be wrong about it. `executed` and `cancelled`
are the two memories, as ticks left of the long horizon. One cycle is
`ReadOpenOrders` (refresh, explanation of changes, barrier), `Plan` (diff, cancel
batch), `CancelsAnswered` (classification, cancel-first barrier, filters),
`ConfigureCreates` (configuration, quotes, churn, capacity, generation), `SendCreate`
per order, `CreatesAnswered`. `Invalidate`, `Fill`, `Tick` and `Restart` interleave. The
planner is an arbitrary choice of ideal orders, and `Wanted` once the environment is
calm. Dedicated protective market closes (`Panics`) skip the same filters as in the code.
`FillsDiscovered` is the prefetch that finds new fills: it asks for confirmations and does
not raise the generation, so creates already planned are still sent. A listing with more
than `MaxAdded` new orders is taken without asking whose they are.

### HslProtection

`health` is `ProtectionHealth.scopes`, `journal` the file, `durable` whether the last
save succeeded, `invalid` whether the journal was refused. `step` is where the loop
awaits: `exits`/`confirm` serve committed exits, `decide`/`account`/`observe`/`weigh`
are `_evaluate_emergency_scopes`, `refresh`/`ready`/`evaluate`/`reweigh` the staged
refresh and `ensure_ready`, `plan` ordinary trading and `mark_ready`. `Restart` may
happen anywhere, with another configuration or a damaged file; `ReplayPublishes` is the
background replay, `CloseFills` and `Opens` the exchange, `Tick` the wall clock, which
with `Rollback` may be set back. `CloseFills` stamps the fill by the exchange's clock, up
to `Skew` ahead of or behind the bot's. `EmergencyStopApplies` compares that time with the
bot's stamps without a tolerance, as the code does; `FlattenIsExplained` therefore claims
it up to the skew. A fill that skew alone puts outside the window is not explained.

`DurableExit` is the promise without the mechanism. Per scope it knows no exit, a running
or a held one, and what a restart would bring back; a change must be written at once, or
the process must know that the write did not arrive (`safe`, in the code `durable`). A
running exit ends only by being confirmed flat, and then it is held; a held one is taken
over by a completed replay, unless the scope must be left once more; retirement of the
scope ends either. `KeepsExits` maps the flags of `health` and the
rows `_load` would accept to it. The eight ways a row of `health` changes are
four changes of exits there; all that clocks, evaluations and reasons do is a rewrite.

Abstractions: scopes do not overlap (signal modes `coin` and `pside`, not `unified`);
scopes halted by a regular RED stop are left out; exposure and open orders of a scope
are one fact (`busy`); a refresh is one atomic read; the saves of one `defer` count as
one; `protect_and_wait` is merged with the protection of the next cycle; balances,
quotes and drawdowns, with the fill tail they may need, are a nondeterministic trigger.

### RevisedOwner

| model | code |
|---|---|
| `ex` | the exchange: position, counted in fills, and resting orders of one scope |
| `loc`, `tried` | positions and open orders as last applied, recent cancels |
| `need`, `fillsNeed` | pending confirmations: satisfied by the read begun last (`this`) or by a later one (`next`) |
| `reader` | the holder of `_refresh_lock` and the answers it has so far |
| `ordinary` | the task `_ordinary_plan` and its result |
| `pc`, `turn`, `batch`, `write` | where `cycle` awaits, which of its three parts it is in, the orders bound to a wave, the call inside the connector |
| `register` | `_current_planning_snapshot`, shared by the two planners: who captured it, on which account, whether an invalidation came since |
| `HandedOver`, `RestoredSnapshot` | a finished plan brings its snapshot along (`cycle`), and it is put back after the awaits of the reconciliation |
| `Protect`, `ProtectSorted` | `protect`: capture a wave, calculate, reconcile, sort |
| `BeginCycle`, `SendPlan`, `PlanSent`, `EndCycle` | the parts of `cycle` |
| `EnterConnector`, `Defer`, `WriteEnds` | `connector_write` with `admit` and its `finally` |
| `CycleReads`, `UpkeepReads`, `PositionsAnswered`, `OpenOrdersAnswered`, `CommitRead`, `ReadFails` | account reads by the cycle and by startup or maintenance |
| `Prepared`, `Calculated`, `OrdinarySorted`, `OrdinaryFails` | the awaits of `_ordinary_plan` |
| `HistoryTask` | `_refresh_history` |
| `Invalidate`, `Fill`, `SignalMoves`, `Forget` | websockets, exchange, market, time |

Abstractions: one scope; the balance is compared wherever the position is and adds no
case; a permission is RED or not, and inputs that are too old or unavailable may hold
back any order (`Quiet`); a wave carries `moved` instead of the generation and
the fill history it was made on. `left` counts what the environment may still disturb;
at 0 it is calm. `unread`, `created` and `torn` are history.

Left out: shutdown, the number of quotes per pass, forced modes, the cache of past waves,
candle sources.

### OrderChurnGate

`history` holds the recent plans of one symbol as ages and sets of ideal orders,
`attempts` the ages of the account's creates. `Plan` is the judgement and recording of
`evaluate_and_record`: `Track` and `TightCount` follow one rung of a cohort through the plans, `Drifts` and
`Reappears` are the two kinds of evidence, `Recorded` the pruning with the cut at a stable
run. `Admit` is `_apply_order_churn_admission` on any wave of the symbol's creates and
those of other symbols, in any mix of far, near, unpriced and exempt orders: `AdmittedOf`
states the loop's outcome as the one set in which every order is judged by those admitted
before it. `Enter` and
`Refuse` are what becomes of an admitted create. `Forget` is a symbol that leaves or a
failed plan, `Restart` a fresh process. Attempts beyond the allowance change no decision and are cut off after a
wave (`Charged`). `since` and `overtaken` are history.

Exempt creates of critical priority are sent before the far ones of the same wave
although the projection counted them in the planner's order, so `FarWithinAllowance` leaves
those (`overtaken`) out: they may exceed the allowance by their own number.

### FillHistory and FillLedger

| model | code |
|---|---|
| `ledger` | the account's fills on the exchange; a fill is its timestamp |
| `events`, `files` | `FillEventsManager._events`, the day files |
| `meta`, `metaFile` | the metadata in memory and in `metadata.json`; gaps are sets of ticks, the bounds of the cached rows are reduced to whether they are set |
| `job` | the refresh in flight: what it is for, its range, the answer, the days to write |
| `UpdateProved`, `UpdateUnproved` | the choice in `_update_pnls_locked`: tail, repair, full, or proof of the window |
| `FetchAnswered`, `FetchFails` | the fetch inside `refresh` |
| `SaveDay`, `SaveFails`, `Commit`, `Cover` | `save_days`, the merge and the metadata writes |
| `Continue` | the sequence of refreshes inside `refresh_for_lookback` and after a repair |
| `Restart` | loading after a crash |
| `Require` | the required start follows positions and configuration; 0 is all history |

`FillLedger` is what the consumers rely on: `made`, `kept` and `final`, the fills the
history vouches for and will not ask for again. `KeepsLedger` shows that every step of
`FillHistory`, crashes and failed writes included, is a step of it or none.

The history can vouch for a fill it lacks and never ask for it again: `VouchedIsHeld` is
false (finding 4). `exposed` records how that comes about: a refresh that begins past the
fill moves `last_refresh_ms` (`PassedOver`); an interrupted save wrote a newer day and not
the older one (`Unwritten`); a later rewrite of a day file drops what such a save left in
it (`Lost`); or the exchange shows the fill after a newer one (`Stranded`), when the next
refresh starts at the newest fills. On Hyperliquid the incremental refresh takes the
earlier of two starts, by its last refresh too, and only the first remains.
`NothingSkipped` says that there is no other way. `OverlapAssumption` says what the overlap
of the last refresh is for: the lag of the exchange and the time to save.

Abstractions: the consecutive metadata writes at the end of a refresh are one step; up to
four repairs per cycle are one after the other over several cycles; merging by
source ids, fees, synthesized PnL and its window extension, the doctor, and gaps marked
confirmed or malformed are left out, and so is the mode without a consumer of history.

## 4. Runs

| run | shows |
|---|---|
| `position_fill_sync` | `BlockedIsBounded`, `SubmissionProvenance`, `ReleaseIsSettled`, `SentOnFetchedFills` for two keys of one aggregate scope |
| `authoritative_state` | `UnreadIsPending`, `ReadyPositionsExplained`, `OpensOnConfirmedState` with every kind of refresh, the hourly one beside the loop's; `ResumesUnlessHalted` |
| `authoritative_state_halted` | violation: `ExecutionResumes` with a halted scope (finding 1) |
| `authoritative_state_overlap` | violation: `FreshBeforeExecution` when the maintenance refresh meets the loop's (finding 3) |
| `order_execution` | `NoDuplicateOrder`, `ReplacedAfterConfirmation`, `SentOnCurrentState`, `BookConverges` |
| `hsl_protection` | `ExitRemembered`, `GraceIsBounded`, `FlattenIsExplained`, `NoEntryAfterExit`, `ClockNeverRenewed`, the refinement `KeepsExits`, with failing saves, damaged files and restarts |
| `hsl_protection_live` | `WatchGoesOn`, `RecoveryEnds` for two scopes |
| `hsl_protection_rollback` | violation: `ExitRemembered` with a clock that is set back (finding 2) |
| `revised_owner` | `OneWritePerRead`, `NoWriteOnTornRead`, `NoEntryUnderRed`, `SentOnOwnSnapshot`, `ProtectionGoesOn`, `PlanGoesOut` |
| `order_churn_gate` | `EvidenceSinceStable`, `FarWithinAllowance`, `SettledOrderPlaced` |
| `fill_history` | `NothingSkipped`, the refinement `KeepsLedger`, `WindowProved` |
| `fill_history_holes` | violation: `VouchedIsHeld` after a refresh from `since_ms` (finding 4) |

Every passing run's property has a mutant in `PROJECT.json`: a plausible slip in a
mapped definition under which TLC finds the property violated. Deadlock is checked in
every run.

### Bounds

* `PositionFillSync.cfg`: two symbols of one position side, because a scope of two keys
  is the smallest in which a write waits for another key; one write with two attempts
  (a retry); `Settle` 1, `MaxWait` 3 and five ticks, so that a key changes, settles,
  changes again, expires and becomes pending anew; four revisions; symbols are symmetric.
* `AuthoritativeState*.cfg`: no bounds. Maintenance refreshes begin at any time, but not
  once the account is calm: the next one is an hour away.
* `OrderExecution.cfg`: two resting orders of one symbol, so that one replaces the
  other; `MaxCancellations` 1, so that a batch overflows, and `MaxAdded` 1, so that a
  listing shows more new orders than are examined; `Window` 2, `Recall` 3, `Lag` 1,
  `MaxCycle` 1: the smallest numbers that tell the horizons apart. `live` stops at 2,
  which is enough to see a duplicate. No market close (`Panics` is empty); the theorems
  cover any set of them.
* `HslProtection.cfg`: one scope (the properties speak of one scope at a time; the
  proofs cover any set), `Grace` 1 and two ticks, so that an outage is younger than, as
  old as and older than its grace; the clock is not set back, while theorem `ClockKept`
  covers one that is. `Skew` 1: the exchange's clock is a tick ahead, behind or right. The
  live run has two scopes, for one can only starve another, and no faults before `calm`
  beyond those of the account.
* `RevisedOwner.cfg`: one ordinary order and the panic close, two disturbances: enough for
  a fill between two answers after another one, a failed write that acted, a signal that
  changes twice or an invalidation during a read.
* `OrderChurnGate.cfg`: one order that drifts over three prices and one of another cohort,
  so that drift, reappearance and stability all occur; `Window` 6 holds three
  appearances and a stable run, `Stability` 2, `MaxGap` 1, an allowance of 1 and one
  create of another symbol per wave.
* `FillHistory.cfg`: five ticks in three day files, two fills, two disturbances (a failed
  fetch and a crash, a full disk and a new requirement, ...); a lag and an overlap of 2 and
  a save time of 1 use up what `OverlapAssumption` permits. `FillHistoryHoles.cfg` is the
  same with one requirement on Hyperliquid, where a fill can only be passed over.

### Fairness

Weak fairness of the loop's own steps (`Loop`, `Cycle`), of a running maintenance refresh
(`Maintenance`), of the lock queue and of the prefetch: asyncio does not starve a task that can run, `asyncio.Lock` is fair, and every
connector read has a timeout and therefore ends. Time passes (`Tick`), the next attempt
of recovery comes (`RetryTime`), and a market close the exchange accepted fills
(`CloseFills`: a condition on the exchange, not something the code ensures). `RevisedOwner`: the cycle, the reads, the
ordinary task and the history task; the ordinary task loses its progress when the
environment chooses `slow`, and `ProtectionGoesOn` holds in spite of it.
`OrderChurnGate`: plans are made (`[]<>~NewPlan` is weak fairness of `Plan`, in a form TLC
evaluates quickly), admitted and sent. `FillHistory`: a refresh goes on and the loop asks
for the next. No fairness is assumed of the environment's
changes. Liveness is claimed after `calm`: a flag the environment may raise at any time,
after which nothing fails, fills by itself or invalidates. Without it a failure in every
cycle is a legal behaviour in which nothing ever happens.

## 5. Proofs

The theorems hold for every set of keys, orders, fills or scopes and every horizon. The
bounds `MaxTime`, `MaxRevision`, `MaxAttempts`, `MaxDisturbances`, `MaxOthers` are
parameters too, so they bound nothing. Every safety property of a passing run is stated
by a theorem, and so are the refinements of `FillLedger` and `DurableExit`; each inductive invariant was
checked by TLC on the run's constants before it was proved.

**`PositionFillSyncProofs`** — from `ConstantsAssumption`. `TypeCorrect`,
`DeadlineNeverRenewed`, `ProvenanceIsExact`, `OnlySettledKeysReleased`, `NothingSentUnfetched`.
The invariant `Inv` has six parts: types; `DeadlineInv` (the first change time in an entry is
the moment the key became pending); `RevisionInv` (no entry and no receipt is ahead of the
counter); `ReceiptInv` (while a key still has the revision in the receipt, it was settled
or expired when the fetch began); `WriteInv` (attempts, submission and recorded
provenance of a write agree); `UnfetchedInv` (a key nobody has read the fills for is pending
or has used up `MaxWait`, and a running fetch that misses the change of a key its receipt
still describes began after that key's deadline). `RevisionInv` and `ReceiptInv` together make a release
safe: revisions only grow, so a key that changed again no longer has the revision in the
receipt.

**`OrderExecutionProofs`** — from `OrdersAssumption`, `LimitsAssumption` and
`TimingAssumption` (`Lag + MaxCycle <= Window`). `ExecutionTypes`, `NeverDuplicated`,
`CancelsComeFirst`, `CreatesAreCurrent`. The invariant `IInv`: nothing rests twice; an
order that rests but may be missing from the listing, or that rests and is missing from
the applied one, is remembered for long enough; an order admitted for creation does not
rest; the cancels behind a cycle are known to it, and so is every invalidation.
`TimingAssumption` is what the 15 s window is for and is needed: with `Window` 1 TLC
finds a duplicate. It is an assumption about the exchange, not something the code
enforces.

**`HslProtectionProofs`** — from `ProtectionAssumption`. `ProtectionTypes` and
`ClockKept` need nothing of the wall clock. `ExitsSurvive`, `ExitedStaysOut`,
`FlattenExplained`, `GraceBounded` and `ImplementsDurableExit` assume `~ Rollback`;
finding 2 shows that the first is false without it. A row of `health` changes in eight ways only (`RowChange`), and
every step other than a restart has one of them on each row (`Effects`). While a save is
durable, the file agrees with the process on every fact of a row a restart must bring
back (`Same`, `JournalAgrees`); every row the code writes passes the checks of `_load`
(`RowsSound`, `JournalLoads`). Together a restart from an undamaged, up-to-date file
changes no exit and no clock. `FlattenExplained` adds that the recorded window contains
every close (`Window`), `GraceBounded` that a clock never starts later than the outage it
measures, or is spent already (`Grants`). `ImplementsDurableExit` needs no more than the
invariant behind `ExitsSurvive`: `SaveWrites` maps a save to the abstract write,
`RestartResumes` a restart to a crash or to damage, `DurableStep` every other step by
what it does to the phases; that a row with a hold has no running exit (`Acceptable`)
is what makes a release end in "none".

**`AuthoritativeStateProofs`** — no assumption. `StateTypes`, `NoRequestLost`,
`PositionsExplained`, `OpensConfirmed`. The barrier clears a confirmation on a stamp, and a
stamp is set when a read is committed, so the invariant follows a read from its sending to
its stamp. Part of it holds whether the refreshes overlap or not: who waits for the lock
(`LockQueue`), where each refresh can be (`Control`), that a late prefetch leaves its
request open (`LatePrefetch`), and that during an overlap every stamp is young enough or
suspect (`OverlapStamps`). `Alone` is what holds without an overlap, and it has to be
established anew by the first refresh after one (`AloneBegins`): what is in flight and was not
requested again is young enough (`ReadsAreCurrent`), and so is what was stamped
(`StampsAreCurrent`). Fills are the exception: a prefetch begun before a request may stamp
them after it. `StagedFills` and `LockOrder` say why a staged refresh is not misled, and
`HaltedWaits` why halted protection is not: with a request of fills it always waits for
the balance too, which it does not read.

**`RevisedOwnerProofs`** — from `OwnerAssumption`. `StateTypes`, `WritesWaitForReads`,
`WritesOnWholeReads`, `EntriesFollowTheSignal`, `SnapshotsStayApart`. A write and an
unsettled read both leave a confirmation pending (`UnreadAwaited`, `TornAwaited`), and the
read that answers it runs with no write in the connector (`CleanReads`). Under such a read
the resting orders only shrink, so a fill between its two answers shows in what it
returns (`OrdersKnown`, `PositionsGrow`, `CutShows`). `PlansSuit` carries the permission a
plan was made under to its write. `SnapshotsBound` carries a snapshot with its plan: from
the planner that captured it through the hand-over and the awaits to the connector, where
admission has compared the account it was made on with the one last read.

**`FillHistoryProofs`** — from `HistoryAssumption` and `OverlapAssumption`. `StateTypes`,
`NoHoleBehindTail`, and `ImplementsLedger`: every step of `FillHistory` is a step of
`FillLedger` or none. `NothingSkipped` speaks of the required start and of memory; the
next step may require another start, clear a gap or lose memory. `TailHeld` therefore
speaks of all the metadata vouches for, `FilesWhole` of the files and the metadata file a
crash falls back on. What keeps them is where a refresh starts (`RefreshAsked`), up to when
an answer is whole (`AnswerWhole`), and that metadata is written after the fills it speaks
of (`AnswerStored`, `MetadataFollows`).

**`OrderChurnGateProofs`** — from `ChurnAssumption`. `StateTypes`, `EvidenceIsRecent`,
`RoomInTheAllowance`. `FarRoom`: a far create has room behind all attempts and all that
stands before it in the wave, from the admission until it enters. For
`EvidenceSinceStable` the invariant needs that the kept plans are no older than the last
stable run (`HistoryKept`) and that decisions do not outlive their plan (`DecidedTypes`);
the rest is `ThreeTimes`, which relates the run starts the code counts to separate
appearances in the recorded plans. `SortedIs` shows that ordering a cohort by price and
quantity gives every place one of its orders, which needs that equal orders of a cohort
are one (`ChurnAssumption`).

### What the proofs found

* An earlier form of `OverlapAssumption` bounded the sum of lag and save time alone. The
  induction needs the save time apart: without lag, a save longer than the overlap already
  moves `last_refresh_ms` past a fill. It is
  `Lag + MaxSave <= RecentOverlap + 1 /\ MaxSave <= RecentOverlap` now.
* `exposed` missed a case, and without it `NothingSkipped` is false beyond the bounds of
  the run. A save interrupted by a full disk leaves fills in the day files that memory does
  not have. A later refresh of an older range rewrites their day file from memory
  (`_events_for_days`, `save_days`), keeping the newer file, and drops them. After a restart
  the newest cached fill lies behind the dropped ones, and with enough cached fills no
  incremental refresh looks that far back. TLC shows this sequence once `Lost` is taken
  out of `SaveDay`. It contradicts "No data loss on interruption"
  (`src/docs/fill_events_manager_spec.md:396-399`) as `Unwritten` does.

### Only model-checked

Liveness (`ResumesUnlessHalted`, `BookConverges`, `RecoveryEnds`, `WatchGoesOn`,
`ProtectionGoesOn`, `PlanGoesOut`, `SettledOrderPlaced`, `WindowProved`): TLAPS has
no rules for fairness or `ENABLED` in reach here. These are all; no safety property is
left to the runs alone. What each passing run adds to the proofs is liveness, and that the
interesting cases occur. TLAPS also cannot prove by induction over data or reason about
`RECURSIVE` operators; the modules use neither: the prefix lengths, sorted groups and
admitted sets of `OrderChurnGate` are written as minima, counts and a fixed point.

## 6. Findings

1. **A halted scope can keep the barrier closed** (`passivbot.py:6681`). With recovery
   open and a halted HSL scope, a protective refresh runs between the staged refresh and
   the barrier. It begins a new epoch that reads positions and open orders only, so a
   pending confirmation of balance or fills is never fresh at the barrier; `mark_ready`,
   which would close recovery, is behind it. The documentation says other coins continue
   normally.
2. **A wall clock set back loses the journal** (`live/hsl_protection.py:192`).
   `confirm_flat` stamps the current time without looking at the start of the exit. The
   row it saves is refused by `_load` at the next start, and the whole journal with it.
3. **The hourly maintenance lets outdated reads pass as fresh**
   (`live/state_refresh.py:56`). `maintain_hourly_cycle` refreshes the account in its own
   task. With the legacy hard stop no lock keeps it from the loop's refresh, and a commit
   stamps the current epoch, whoever began it. Reads of the loop that were sent before an
   invalidation are stamped in the epoch the maintenance began after it, and open the
   barrier. The window is short (a maintenance refresh per hour that begins during a refresh
   of the loop with an invalidation in between); the revised engine holds a lock for
   exactly this reason.
4. **The fill history vouches for fills it does not have** (`passivbot.py:13432`). A refresh
   from `since_ms` moves `last_refresh_ms` although it did not read what came before
   `since_ms`, say while the bot was offline; coverage stays ready, and the next
   incremental refreshes start behind it. The documentation says that `last_refresh_ms`
   ensures the opposite. A save interrupted between two day files does the same on
   exchanges other than Hyperliquid.

Two observations beside them, which no run shows. An exit that cannot complete starves the
other scopes: while one is pending the protection cycle returns to the top of the loop
before `ensure_ready` (`live/risk_input_recovery.py:480`), so another scope is not
evaluated and has no outage clock; `WatchGoesOn` holds because the fairness of
`CloseFills` lets every exit complete. And with an unlimited lookback a range recorded by a
failed bounded PnL repair is never retried (`fill_events_manager.py:5161`): a full refresh
has no bounds and clears no gap, and gaps are retried only for a required window with a
start; `WindowProved` speaks of such a window.

## 7. What a reader should keep in mind

The seven models are separate: each replaces its neighbours by a nondeterministic choice
that includes what they do. An account read is several steps in `AuthoritativeState` and
`RevisedOwner` and one step in `OrderExecution` and `HslProtection`. What a torn read may
lead to is therefore checked for the revised owner; the confirmation it rests on
(`_finalize_authoritative_refresh_consistency`) is the one the ordinary loop uses. Its
limit is stated in `NoWriteOnTornRead`: an own order just created, or cancelled in vain,
that fills between the two answers goes unnoticed, because its absence counts as
explained. A create answered without an id counts as rejected, as in the code;
whether an exchange may have accepted it is not modelled.

## 8. Not modelled

* **Pricing, risk and selection in Rust, drawdowns and EMAs**: floating-point or decimal
  arithmetic over unbounded inputs, out of reach of enumeration. Their results are
  nondeterministic choices.
* **Exchange adapters**: wire formats and I/O; modelled as an exchange that may lose
  answers and lag.
* **Candles, OHLCV stores, quotes**: file and array handling; in the models a missing
  quote may drop any create.
* **Backtester, optimizer, suites**: deterministic numeric programs without protocol state.
* **Configuration, monitoring, restart tooling**: sequential transformations, or output
  no decision reads back.
* **Foreign-order detection, hard-stop tiers**: have protocol state and are in the plan.
