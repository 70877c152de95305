------------------------- MODULE AuthoritativeState -------------------------
(***************************************************************************)
(* The account-state side of the live execution loop (legacy HSL engine):  *)
(* the freshness ledger, the pending confirmations, the staged and the     *)
(* protective refresh, the hourly maintenance refresh, the background fill *)
(* prefetch and the execution barrier.                                     *)
(*                                                                         *)
(* The loop is one asyncio task (variable phase), market maintenance is    *)
(* another (variable hourly).  Both refresh the account, each with reads   *)
(* and a plan of its own, but on one ledger, one map of confirmations and  *)
(* one attribute with the planned surfaces; nothing keeps them apart.      *)
(* Websocket callbacks and the prefetch run whenever either awaits.  So an *)
(* invalidation, or an epoch begun by the other refresh, may land between  *)
(* the moment a read is sent and the moment its result is committed, and a *)
(* surface is stamped with the epoch that is current at the commit.        *)
(*                                                                         *)
(* Epochs are not counted.  The code only compares them with the current   *)
(* one, so a surface is fresh (stamped in this epoch) or not, and its      *)
(* pending confirmation is due (target <= epoch) or next (target is        *)
(* epoch + 1, the largest there is).                                       *)
(***************************************************************************)

\* ACCOUNT_SURFACES
Surfaces == {"balance", "positions", "open_orders", "fills"}

\* The surfaces of which anything asks whether their signature changed.
Compared == {"positions", "fills"}

\* Whoever reads: the loop's refreshes, the hourly one, the fill prefetch.
Callers == {"loop", "hourly", "prefetch"}

VARIABLES
    fresh,       \* surfaces_at_epoch(): stamped in the current epoch
    changed,     \* changed_surfaces_at_epoch(), of those compared
    seen,        \* surfaces stamped in any epoch, of those compared
    due, next,   \* _authoritative_pending_confirmations by target epoch
    planned,     \* _authoritative_refresh_plan_surfaces, of the refresh that began last
    halted,      \* _risk_input_recovery is open and a halted HSL scope exists
    phase,       \* where the execution loop awaits
    owner,       \* which of the loop's refreshes is running, or ran last in this cycle
    hourly,      \* where the maintenance refresh awaits
    plan,        \* the surfaces each caller's refresh reads: its local variable
    fillTask,    \* each caller's update_pnls call
    before,      \* _pnls_refresh_lock: who asked for it before each caller, or holds it
    moved,       \* the epoch ended under the fill tail of halted protection
    calm,        \* environment: the account no longer changes, reads no longer fail
    reread,      \* history: surfaces committed from a read begun after their last request
    flight,      \* history: each caller's reads begun after the last request
    overlap,     \* history: a maintenance refresh met the loop's refresh or its cycle
    suspect      \* history: committed during an overlap from a read outdated by then

ledgerVars == <<fresh, changed, seen>>
requestVars == <<due, next>>
planVars == <<planned, plan>>
fillVars == <<fillTask, before>>
readVars == <<reread, flight>>
meetVars == <<overlap, suspect>>
loopVars == <<phase, owner, moved>>
authVars == <<ledgerVars, requestVars, halted, planVars, loopVars, hourly, fillVars,
              calm, readVars, meetVars>>

\* "idle": top of the loop; "fetch": reads in flight; "applied": open orders applied,
\* awaiting the foreign-order check; "committed": everything applied, awaiting the
\* balance handlers; "settled": the staged refresh returned True, HSL is evaluated;
\* "guard": halted protection is about to refresh; "tail": it awaits the fill tail;
\* "again": it is about to refresh a second time; "gate": at the barrier; "ready":
\* past the barrier, planning and executing.
Phases == {"idle", "fetch", "applied", "committed", "settled", "guard", "tail", "again",
           "gate", "ready"}

\* The awaits of a staged refresh, also of the hourly one.
Steps == {"idle", "fetch", "applied", "committed"}

\* The staged refresh; a protective refresh before it (red supervisor, committed
\* exits); halted protection after it, first and second refresh.
Owners == {"staged", "early", "halted", "again"}

\* update_pnls holds _pnls_refresh_lock from "run" to its end.
FillTasks == {"none", "wait", "run", "done"}

TypeOK ==
    /\ fresh \in SUBSET Surfaces
    /\ changed \in SUBSET (fresh \cap Compared)
    /\ seen \in SUBSET Compared
    /\ due \in SUBSET Surfaces
    /\ next \in SUBSET (Surfaces \ due)
    /\ planned \in SUBSET Surfaces
    /\ halted \in BOOLEAN
    /\ phase \in Phases
    /\ owner \in Owners
    /\ hourly \in Steps
    /\ plan \in [Callers -> SUBSET Surfaces]
    /\ fillTask \in [Callers -> FillTasks]
    /\ before \in [Callers -> SUBSET Callers]
    /\ \A a, b \in Callers : fillTask[a] = "run" /\ fillTask[b] = "run" => a = b
    /\ moved \in BOOLEAN /\ calm \in BOOLEAN
    /\ reread \in SUBSET Surfaces
    /\ flight \in [Callers -> SUBSET Surfaces]
    /\ overlap \in BOOLEAN
    /\ suspect \in SUBSET Surfaces

Init ==
    /\ fresh = {} /\ changed = {} /\ seen = {}
    /\ due = {} /\ next = {}
    /\ planned = {}
    /\ halted = FALSE
    /\ phase = "idle"
    /\ owner = "staged"
    /\ hourly = "idle"
    /\ plan = [c \in Callers |-> {}]
    /\ fillTask = [c \in Callers |-> "none"]
    /\ before = [c \in Callers |-> {}]
    /\ moved = FALSE /\ calm = FALSE
    /\ reread = Surfaces
    /\ flight = [c \in Callers |-> {}]
    /\ overlap = FALSE
    /\ suspect = {}

-----------------------------------------------------------------------------
(* Operators on the ledger and on the confirmations.                        *)

pending == due \cup next

\* The reads that are young enough for a confirmation, once S is asked for again.
Outdate(S) == [c \in Callers |-> flight[c] \ S]

\* Mutant: the confirmation may be satisfied by the epoch that is running.
RequestConfirmation_currentEpoch(S) ==
    /\ due' = due \cup (S \ next)
    /\ next' = next

\* _request_authoritative_confirmation(S): max(previous target, epoch + 1).
RequestConfirmation(S) ==
    /\ due' = due \ S
    /\ next' = next \cup S

\* FreshnessLedger.stamp of the surfaces in S, of which those in C have a new
\* signature.  Restamping in one epoch keeps an earlier change of that epoch.
Stamp(S, C) ==
    /\ fresh' = fresh \cup S
    /\ changed' = changed \cup C
    /\ seen' = seen \cup (S \cap Compared)

\* One signature comparison each: the first stamp of a surface always differs from
\* None, later ones differ only while the account still changes.
Changes(S) ==
    LET first == (S \cap Compared) \ seen
    IN  {C \in SUBSET (S \cap Compared) : first \subseteq C /\ (calm => C = first)}

\* who commits what it read of the surfaces in S; the commit asks for a confirmation of
\* the surfaces in asked.  Every commit stamps the current epoch, whoever began it.
Commit(who, S, C, asked) ==
    /\ Stamp(S, C)
    /\ RequestConfirmation(asked)
    /\ reread' = ((reread \ S) \cup (flight[who] \cap S)) \ asked
    /\ suspect' = ((suspect \ S) \cup (IF overlap THEN S \ flight[who] ELSE {})) \ asked

-----------------------------------------------------------------------------
(* The lock around update_pnls.                                             *)

Queued == {c \in Callers : fillTask[c] \in {"wait", "run"}}

\* c calls update_pnls.
Ask(c) ==
    /\ fillTask' = [fillTask EXCEPT ![c] = "wait"]
    /\ before' = [before EXCEPT ![c] = Queued]

\* c's call ends, or is cancelled.
Leave(c, outcome) ==
    /\ fillTask' = [fillTask EXCEPT ![c] = outcome]
    /\ before' = [d \in Callers |-> IF d = c THEN {} ELSE before[d] \ {c}]

\* Mutant: without the lock fill refreshes overlap.
TakeFillLock_unlocked ==
    /\ \E c \in Callers :
        /\ fillTask[c] = "wait"
        /\ fillTask' = [fillTask EXCEPT ![c] = "run"]
        /\ flight' = [flight EXCEPT ![c] = @ \cup {"fills"}]
    /\ UNCHANGED <<ledgerVars, requestVars, halted, planVars, loopVars, hourly, before, calm,
                   reread, meetVars>>

\* asyncio.Lock is fair: whoever asked first has its turn first.
TakeFillLock ==
    /\ \E c \in Callers :
        /\ fillTask[c] = "wait"
        /\ before[c] = {}
        /\ fillTask' = [fillTask EXCEPT ![c] = "run"]
        /\ flight' = [flight EXCEPT ![c] = @ \cup {"fills"}]
    /\ UNCHANGED <<ledgerVars, requestVars, halted, planVars, loopVars, hourly, before, calm,
                   reread, meetVars>>

-----------------------------------------------------------------------------
(* Refresh: begin the epoch, choose the surfaces, send the reads.           *)

\* Mutant: a minute boundary not reached drops fills even if they are awaited.
RefreshPlans_dropAwaitedFills ==
    IF pending = {"open_orders"} THEN {{"open_orders"}}
    ELSE {Surfaces, Surfaces \ {"fills"}}

\* authoritative_staged_refresh_plan: fills may be left to a later cycle, or to the
\* background prefetch, only when no confirmation awaits them and they were stamped
\* before.
RefreshPlans ==
    IF pending = {"open_orders"} THEN {{"open_orders"}}
    ELSE IF "fills" \in pending \/ "fills" \notin seen THEN {Surfaces}
    ELSE {Surfaces, Surfaces \ {"fills"}}

\* _begin_authoritative_refresh_epoch, then the reads of who's plan.  They start after
\* every request made so far; the fill refresh first waits for its lock.
SendReads(who, surfaces) ==
    /\ fresh' = {} /\ changed' = {} /\ seen' = seen
    /\ due' = due \cup next /\ next' = {}
    /\ planned' = surfaces
    /\ plan' = [plan EXCEPT ![who] = surfaces]
    /\ flight' = [flight EXCEPT ![who] = surfaces \ {"fills"}]
    /\ UNCHANGED <<halted, calm, reread, suspect>>

\* A staged refresh calls update_pnls itself, or leaves fills out and may then schedule
\* the prefetch (minute boundary or trailing recovery) unless that still runs.
FetchFills(who, surfaces) ==
    \/ "fills" \in surfaces /\ Ask(who)
    \/ "fills" \notin surfaces /\ UNCHANGED fillVars
    \/ "fills" \notin surfaces /\ fillTask["prefetch"] = "none" /\ Ask("prefetch")

\* refresh_authoritative_state, called by the loop.
StartStaged ==
    /\ phase = "idle"
    /\ phase' = "fetch"
    /\ owner' = "staged"
    /\ \E surfaces \in RefreshPlans :
        /\ SendReads("loop", surfaces)
        /\ FetchFills("loop", surfaces)
    /\ overlap' = (hourly # "idle")
    /\ UNCHANGED <<hourly, moved>>

\* refresh_protective_authoritative_state by the red supervisor or by risk-input
\* recovery, before the staged refresh of a cycle.
StartEarly ==
    /\ phase = "idle"
    /\ ~ calm
    /\ phase' = "fetch"
    /\ owner' = "early"
    /\ \E extra \in SUBSET {"balance"} :
        SendReads("loop", {"positions", "open_orders"} \cup extra)
    /\ overlap' = (hourly # "idle")
    /\ UNCHANGED <<hourly, moved, fillVars>>

\* _run_halted_hsl_protection_if_active: its first refresh, or the one it repeats when
\* the account was invalidated under its fill refresh.
StartHalted ==
    /\ phase \in {"guard", "again"}
    /\ phase' = "fetch"
    /\ owner' = IF phase = "guard" THEN "halted" ELSE "again"
    /\ SendReads("loop", {"positions", "open_orders"})
    /\ UNCHANGED <<hourly, moved, fillVars, overlap>>

\* maintain_hourly_cycle -> init_markets -> refresh_authoritative_state: at any await of
\* the loop, and whatever the loop has in flight.
StartHourly ==
    /\ hourly = "idle"
    /\ ~ calm
    /\ hourly' = "fetch"
    /\ \E surfaces \in RefreshPlans :
        /\ SendReads("hourly", surfaces)
        /\ FetchFills("hourly", surfaces)
    /\ moved' = (phase = "tail")
    /\ overlap' = TRUE
    /\ UNCHANGED <<phase, owner>>

\* A read raised, or returned nothing usable: its siblings are cancelled and nothing
\* is committed.  Only halted protection treats a plain failure of its refresh as "no
\* work" and goes on to the barrier; everything else goes back to the top of the loop.
RefreshFails ==
    /\ phase \in {"fetch", "tail"}
    /\ ~ calm
    /\ \/ phase' = "idle" /\ owner' = "staged"
       \/ /\ phase = "fetch" /\ owner \in {"halted", "again"}
          /\ phase' = "gate" /\ UNCHANGED owner
    /\ moved' = FALSE
    /\ Leave("loop", "none")
    /\ plan' = [plan EXCEPT !["loop"] = {}]
    /\ flight' = [flight EXCEPT !["loop"] = {}]
    /\ UNCHANGED <<ledgerVars, requestVars, halted, planned, hourly, calm, reread, meetVars>>

\* The same in the maintenance task, which logs the error or finds False.
HourlyFails ==
    /\ hourly = "fetch"
    /\ ~ calm
    /\ hourly' = "idle"
    /\ Leave("hourly", "none")
    /\ plan' = [plan EXCEPT !["hourly"] = {}]
    /\ flight' = [flight EXCEPT !["hourly"] = {}]
    /\ UNCHANGED <<ledgerVars, requestVars, halted, planned, loopVars, calm, reread,
                   meetVars>>

-----------------------------------------------------------------------------
(* update_pnls ends, for each of its callers.                               *)

\* _update_pnls_locked: new fill events ask for a full account confirmation; then, if
\* coverage and PnL are ready (ok), the surface is stamped.
FillsFetched(who, ok, newEvents) ==
    LET asked == IF newEvents THEN Surfaces ELSE {}
        stamped == IF ok THEN {"fills"} ELSE {}
    IN  /\ ~ ok \/ newEvents => ~ calm
        /\ \E C \in Changes(stamped) :
            /\ newEvents => C = stamped
            /\ Commit(who, stamped, C, asked)
        /\ flight' = [Outdate(asked) EXCEPT ![who] = IF ok THEN @ \ stamped ELSE {}]
        /\ UNCHANGED <<halted, planned, owner, calm, overlap>>

PrefetchEnds ==
    /\ fillTask["prefetch"] = "run"
    /\ Leave("prefetch", "none")
    /\ \E ok, newEvents \in BOOLEAN : FillsFetched("prefetch", ok, newEvents)
    /\ UNCHANGED <<phase, moved, plan, hourly>>

\* pnls_ok False makes the staged refresh return False.
StagedFillsEnd ==
    /\ phase = "fetch"
    /\ fillTask["loop"] = "run"
    /\ \E ok, newEvents \in BOOLEAN :
        /\ FillsFetched("loop", ok, newEvents)
        /\ Leave("loop", IF ok THEN "done" ELSE "none")
        /\ phase' = IF ok THEN phase ELSE "idle"
        /\ plan' = IF ok THEN plan ELSE [plan EXCEPT !["loop"] = {}]
    /\ UNCHANGED <<moved, hourly>>

HourlyFillsEnd ==
    /\ fillTask["hourly"] = "run"
    /\ \E ok, newEvents \in BOOLEAN :
        /\ FillsFetched("hourly", ok, newEvents)
        /\ Leave("hourly", IF ok THEN "done" ELSE "none")
        /\ hourly' = IF ok THEN hourly ELSE "idle"
        /\ plan' = IF ok THEN plan ELSE [plan EXCEPT !["hourly"] = {}]
    /\ UNCHANGED <<phase, moved>>

\* Halted protection ignores the result, but refreshes again when a confirmation was
\* requested or another epoch begun meanwhile.
TailFillsEnd ==
    /\ phase = "tail"
    /\ fillTask["loop"] = "run"
    /\ \E ok, newEvents \in BOOLEAN : FillsFetched("loop", ok, newEvents)
    /\ Leave("loop", "none")
    /\ phase' = IF moved \/ next' # {} THEN "again" ELSE "gate"
    /\ moved' = FALSE
    /\ UNCHANGED <<plan, hourly>>

-----------------------------------------------------------------------------
(* Commit.  Each refresh uses its own plan, but the ledger of both.         *)

\* _apply_open_orders_snapshot up to its first await.
CommitOpenOrders(who) ==
    /\ "fills" \in plan[who] => fillTask[who] = "done"
    /\ fillTask' = [fillTask EXCEPT ![who] = "none"]
    /\ \E C \in Changes({"open_orders"}) : Commit(who, {"open_orders"}, C, {})
    /\ flight' = [flight EXCEPT ![who] = @ \ {"open_orders"}]
    /\ UNCHANGED <<halted, planVars, owner, moved, before, calm, overlap>>

ApplyOpenOrders ==
    /\ phase = "fetch"
    /\ phase' = "applied"
    /\ CommitOpenOrders("loop")
    /\ UNCHANGED hourly

HourlyApplyOpenOrders ==
    /\ hourly = "fetch"
    /\ hourly' = "applied"
    /\ CommitOpenOrders("hourly")
    /\ UNCHANGED phase

\* The rest of the commit: the request for a change of the open orders that the bot
\* cannot explain, positions (a changed position of a trailing strategy asks for fills)
\* and balance.
CommitAccount(who) ==
    LET S == plan[who] \cap {"positions", "balance"}
    IN  /\ \E C \in Changes(S), unexpected, trailing \in BOOLEAN :
            LET asked == (IF unexpected THEN Surfaces ELSE {})
                           \cup (IF trailing /\ "positions" \in C THEN {"fills"} ELSE {})
            IN  /\ calm => ~ unexpected
                /\ Commit(who, S, C, asked)
                /\ flight' = [Outdate(asked) EXCEPT ![who] = {}]
        /\ UNCHANGED <<halted, planVars, owner, moved, fillVars, calm, overlap>>

ApplyAccount ==
    /\ phase = "applied"
    /\ phase' = "committed"
    /\ CommitAccount("loop")
    /\ UNCHANGED hourly

HourlyApplyAccount ==
    /\ hourly = "applied"
    /\ hourly' = "committed"
    /\ CommitAccount("hourly")
    /\ UNCHANGED phase

\* Mutant: a position change without a fill change asks for nothing.
FinalizeRequests_noEscalation(surfaces, confirmed) ==
    IF surfaces = {"open_orders"} /\ ~ confirmed THEN Surfaces ELSE {}

\* _finalize_authoritative_refresh_consistency(surfaces)
FinalizeRequests(surfaces, confirmed) ==
    IF \/ surfaces = {"open_orders"} /\ ~ confirmed
       \/ "positions" \in changed /\ ~ ("fills" \in surfaces /\ "fills" \in changed)
    THEN Surfaces ELSE {}

\* The refresh of who is over.
Finalize(who) ==
    \E confirmed \in BOOLEAN :
        LET asked == FinalizeRequests(plan[who], confirmed)
        IN  /\ calm => confirmed
            /\ RequestConfirmation(asked)
            /\ reread' = reread \ asked
            /\ suspect' = suspect \ asked
            /\ flight' = Outdate(asked)
            /\ plan' = [plan EXCEPT ![who] = {}]
            /\ UNCHANGED <<ledgerVars, halted, planned, moved, calm, overlap>>

\* A refresh at the top of the loop is followed by the staged one; halted protection
\* may first need the fill tail (manual cooldown policy) or run a wave of its own.
FinalizeRefresh ==
    /\ phase = "committed"
    /\ Finalize("loop")
    /\ owner' = IF owner = "early" THEN "staged" ELSE owner
    /\ \/ /\ phase' = CASE owner = "staged" -> "settled"
                        [] owner = "early" -> "idle"
                        [] OTHER -> "gate"
          /\ UNCHANGED fillVars
       \/ /\ owner = "halted" /\ ~ calm
          /\ phase' = "tail"
          /\ Ask("loop")
    /\ UNCHANGED hourly

HourlyFinalize ==
    /\ hourly = "committed"
    /\ hourly' = "idle"
    /\ Finalize("hourly")
    /\ UNCHANGED <<phase, owner, fillVars>>

-----------------------------------------------------------------------------
(* Readiness, barrier, invalidation and the requests of execution.          *)

\* risk_input_recovery.ensure_ready: the evaluation may halt scopes or find their
\* cooldown over.  A failed one opens recovery and either blocks the cycle or, when it
\* concerns HSL alone, lets it go on.  Recovery without a halted scope changes nothing
\* here, nor does a halted scope without recovery.
EnsureReady ==
    /\ phase = "settled"
    /\ halted' \in (IF calm THEN {halted} ELSE BOOLEAN)
    /\ \/ phase' = IF halted' THEN "guard" ELSE "gate"
       \/ ~ calm /\ phase' = "idle"
    /\ UNCHANGED <<ledgerVars, requestVars, planVars, owner, moved, hourly, fillVars, calm,
                   readVars, meetVars>>

\* _authoritative_required_surfaces
RequiredSurfaces == IF pending # {} THEN pending ELSE planned

\* Mutant: any stamp in this epoch satisfies the barrier.
MissingSurfaces_ignoreTarget == {s \in RequiredSurfaces : s \notin fresh}

\* The surfaces the barrier misses: not stamped in this epoch, or awaited later.
MissingSurfaces == {s \in RequiredSurfaces : s \notin fresh \/ s \in next}

\* _authoritative_execution_barrier_state: no await between test and clear.
Barrier ==
    /\ phase = "gate"
    /\ IF MissingSurfaces = {}
       THEN /\ phase' = "ready"
            /\ due' = due \ RequiredSurfaces
            /\ next' = next \ RequiredSurfaces
       ELSE /\ phase' = "idle"
            /\ UNCHANGED requestVars
    /\ owner' = "staged"
    /\ UNCHANGED <<ledgerVars, halted, planVars, moved, hourly, fillVars, calm, readVars,
                   meetVars>>

\* Confirmations asked for outside a refresh.
Request(S) ==
    /\ RequestConfirmation(S)
    /\ reread' = reread \ S
    /\ suspect' = suspect \ S
    /\ flight' = Outdate(S)
    /\ UNCHANGED <<ledgerVars, halted, planVars, moved, hourly, fillVars, calm, overlap>>

\* Order writes ask for open_orders or for everything, missing fill coverage for fills.
WriteRequests == {{"open_orders"}, {"fills"}, Surfaces}

RequestAfterBarrier ==
    /\ phase = "ready"
    /\ ~ calm
    /\ \E S \in WriteRequests : Request(S)
    /\ UNCHANGED <<phase, owner>>

\* Halted protection found panic closes or entry cancels: it executes them without
\* the barrier and starts the cycle over.
ProtectiveWave ==
    /\ phase = "gate"
    /\ owner \in {"halted", "again"}
    /\ ~ calm
    /\ phase' = "idle"
    /\ owner' = "staged"
    /\ \E S \in WriteRequests : Request(S)

\* handle_order_update -> mark_account_critical_state_dirty: at any await.
Invalidate ==
    /\ ~ calm
    /\ Request(Surfaces)
    /\ UNCHANGED <<phase, owner>>

\* The cycle ends; mark_ready closes recovery once nothing is unavailable any more.
EndCycle ==
    /\ phase = "ready"
    /\ phase' = "idle"
    /\ halted' \in (IF calm THEN {FALSE} ELSE {FALSE, halted})
    /\ UNCHANGED <<ledgerVars, requestVars, planVars, owner, moved, hourly, fillVars,
                   calm, readVars, meetVars>>

\* Environment: from here on nothing disturbs the account, and the next maintenance is
\* an hour away.
CalmDown ==
    /\ ~ calm
    /\ calm' = TRUE
    /\ UNCHANGED <<ledgerVars, requestVars, halted, planVars, loopVars, hourly, fillVars,
                   readVars, meetVars>>

-----------------------------------------------------------------------------

Loop ==
    \/ StartStaged
    \/ StartHalted
    \/ StagedFillsEnd
    \/ TailFillsEnd
    \/ ApplyOpenOrders
    \/ ApplyAccount
    \/ FinalizeRefresh
    \/ EnsureReady
    \/ Barrier
    \/ EndCycle

Maintenance ==
    \/ HourlyFillsEnd
    \/ HourlyApplyOpenOrders
    \/ HourlyApplyAccount
    \/ HourlyFinalize

Next ==
    \/ Loop
    \/ Maintenance
    \/ StartEarly
    \/ StartHourly
    \/ TakeFillLock
    \/ PrefetchEnds
    \/ RefreshFails
    \/ HourlyFails
    \/ ProtectiveWave
    \/ RequestAfterBarrier
    \/ Invalidate
    \/ CalmDown

Spec == Init /\ [][Next]_authVars

\* asyncio never starves a task that can run, and every exchange read ends: the loop, a
\* running maintenance refresh, the lock queue and the prefetch task make progress.
FairSpec ==
    /\ Spec
    /\ WF_authVars(Loop)
    /\ WF_authVars(Maintenance)
    /\ WF_authVars(TakeFillLock)
    /\ WF_authVars(PrefetchEnds)

-----------------------------------------------------------------------------

\* No invalidation is lost: a surface whose committed value was read before the last
\* request to confirm it still has that confirmation pending, so the barrier stays
\* closed until it is read again.  Excepted are surfaces last stamped while a
\* maintenance refresh overlapped the loop's (suspect): their stamp may belong to the
\* other refresh's epoch.
UnreadIsPending == Surfaces \ reread \subseteq pending \cup suspect

\* No plan is made in a cycle whose refresh saw a position change without a fill
\* change that explains it, unless a maintenance refresh ran into that cycle.
ReadyPositionsExplained ==
    phase = "ready" /\ "positions" \in changed /\ ~ overlap => "fills" \in changed

\* The barrier opens only when every surface was read after the last request for it, or
\* was stamped while a maintenance refresh overlapped the loop's.
OpensOnConfirmedState ==
    [][phase # "ready" /\ phase' = "ready" => Surfaces \ reread \subseteq suspect]_authVars

\* What the comment of _request_authoritative_confirmation promises: fresh confirmation
\* surfaces before the next execution.  Two overlapping refreshes break it.
FreshBeforeExecution ==
    [][phase # "ready" /\ phase' = "ready" => reread = Surfaces]_authVars

\* Once the account calms down every pending confirmation is answered and ordinary
\* execution resumes.  (A halted scope breaks it while recovery is open.)
ExecutionResumes == calm ~> (phase = "ready" /\ pending = {})

\* The same for an account without a halted scope.
ResumesUnlessHalted == calm /\ ~ halted ~> (phase = "ready" /\ pending = {})

=============================================================================
