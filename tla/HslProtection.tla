---------------------------- MODULE HslProtection ----------------------------
(***************************************************************************)
(* Scoped HSL signal health, its journal on disk and the loop that serves  *)
(* it (live/hsl_protection.py, live/risk_input_recovery.py, legacy HSL).   *)
(*                                                                         *)
(* A scope whose signal cannot be evaluated gets an outage clock.  After   *)
(* the grace period current losses alone may commit a protective exit; a   *)
(* committed exit is served before anything else until the account shows   *)
(* the scope flat, and the scope is then held until a canonical replay     *)
(* takes it over.  Clock and exit must survive a restart, so every change  *)
(* is written to a journal, whose write may fail.                          *)
(*                                                                         *)
(* One asyncio task runs the loop (variable step).  At its awaits the      *)
(* account changes, closes fill, the background replay publishes           *)
(* evaluations and the process may die.  Scopes do not overlap (signal     *)
(* modes coin and pside); a scope is busy while it has exposure or open    *)
(* orders.  Scopes halted by a regular RED stop are not modelled.          *)
(***************************************************************************)
EXTENDS Integers

CONSTANTS
    Scopes,
    Grace,      \* hsl_unavailable_grace_seconds
    MaxTime,    \* bound: readings of the wall clock
    Rollback,   \* the wall clock may be set back
    Faults,     \* a save may fail and the process may be restarted
    Skew        \* the exchange's clock, which stamps fills, and the bot's differ by at most this

ASSUME ProtectionAssumption ==
    /\ Grace \in Nat /\ MaxTime \in Nat
    /\ Rollback \in BOOLEAN /\ Faults \in BOOLEAN
    /\ Skew \in Nat

VARIABLES
    now,        \* get_exchange_time(): the wall clock
    health,     \* ProtectionHealth.scopes; NoHealth stands for "not in the dict"
    invalid,    \* journal_invalid
    durable,    \* durable: the last save succeeded
    journal,    \* the file: readable or not, its rows and their provenance
    config,     \* scope -> "active", "inactive" (no sizing) or "off" (retired)
    recovery,   \* _risk_input_recovery: "none", "open", or "proved" once
                \* normal_evaluation_succeeded
    waiting,    \* monotonic() < retry_at
    step,       \* where the loop awaits
    view,       \* scopes busy in bot.positions and bot.open_orders
    todo,       \* scopes the running evaluation has still to visit
    served,     \* protected: this protection cycle had committed exits
    again,      \* the exits are served for the second time in this cycle
    failed,     \* not retry_due or failure_seen
    busy,       \* account: scopes with exposure or open orders
    closing,    \* account: scopes with a panic close at the exchange
    calm,       \* environment: nothing fails, opens, or restarts any more
    outage,     \* history: when the scope's signal was first found unavailable
    exited,     \* history: scopes with an exit no replay has taken over
    closed,     \* history: exchange timestamp of the fill of the last commitment's panic close
    watched     \* history: scopes evaluated since the top of the loop

journalVars == <<invalid, durable, journal>>
loopVars == <<todo, served, again, failed>>
accountVars == <<busy, closing>>
historyVars == <<outage, exited, closed, watched>>
vars == <<now, health, journalVars, config, recovery, waiting, step, view, loopVars,
          accountVars, calm, historyVars>>

NoTime == -1

Health == [since : Int, evaluated : BOOLEAN, committed : BOOLEAN, held : BOOLEAN,
           started : Int, flat : Int]

NoHealth == [since |-> NoTime, evaluated |-> FALSE, committed |-> FALSE, held |-> FALSE,
             started |-> NoTime, flat |-> NoTime]

Empty == [s \in Scopes |-> NoHealth]

\* "exits": refreshing for the committed exits; "confirm": looking for flat ones;
\* "decide": may scopes be weighed; "account": refreshing for that; "observe": clocks
\* for new exposure; "weigh": quotes; "refresh": staged refresh; "ready": ensure_ready;
\* "evaluate": replays and checks; "reweigh": its weighing; "plan": ordinary trading.
Steps == {"top", "exits", "confirm", "decide", "account", "observe", "weigh", "refresh",
          "ready", "evaluate", "reweigh", "plan"}

TypeOK ==
    /\ now \in 0..MaxTime
    /\ health \in [Scopes -> Health]
    /\ \A s \in Scopes : /\ health[s].since \in NoTime..MaxTime
                         /\ health[s].started \in NoTime..MaxTime
                         /\ health[s].flat \in NoTime..MaxTime
    /\ invalid \in BOOLEAN /\ durable \in BOOLEAN
    /\ journal \in [readable : BOOLEAN, unverified : BOOLEAN, rows : [Scopes -> Health]]
    /\ config \in [Scopes -> {"active", "inactive", "off"}]
    /\ recovery \in {"none", "open", "proved"}
    /\ waiting \in BOOLEAN
    /\ step \in Steps
    /\ view \subseteq Scopes /\ todo \subseteq Scopes
    /\ served \in BOOLEAN /\ again \in BOOLEAN /\ failed \in BOOLEAN
    /\ busy \subseteq Scopes /\ closing \subseteq Scopes
    /\ calm \in BOOLEAN
    /\ outage \in [Scopes -> Int] /\ closed \in [Scopes -> Int]
    /\ exited \subseteq Scopes /\ watched \subseteq Scopes

Init ==
    /\ now = 0
    /\ health = Empty
    /\ invalid = FALSE /\ durable = TRUE
    /\ journal = [readable |-> TRUE, unverified |-> FALSE, rows |-> Empty]
    /\ config = [s \in Scopes |-> "active"]
    /\ recovery = "none" /\ waiting = FALSE
    /\ step = "top"
    /\ view = {} /\ todo = {}
    /\ served = FALSE /\ again = FALSE /\ failed = FALSE
    /\ busy = {} /\ closing = {}
    /\ calm = FALSE
    /\ outage = [s \in Scopes |-> NoTime] /\ closed = [s \in Scopes |-> NoTime]
    /\ exited = {} /\ watched = {}

-----------------------------------------------------------------------------
(* ProtectionHealth.                                                        *)

\* _equity_hard_stop_coin_active_pside and enabled
Active == {s \in Scopes : config[s] = "active"}

\* pending_exits()
PendingIn(h) == {s \in Scopes : h[s].committed}
pending == PendingIn(health)

\* A scope that keeps recovery open.
Troubled(h) == h.committed \/ h.held \/ h.since # NoTime

\* Mutant: rows of completed exits are not kept.
Persisted_withoutHolds(h) == h.since # NoTime \/ h.committed \/ (invalid /\ h.evaluated)

\* Healthy scopes need no row.
Persisted(h) == Troubled(h) \/ h.started # NoTime \/ (invalid /\ h.evaluated)

\* save(): write to a temporary file and replace, or keep the old file.
Save(h) ==
    /\ \/ /\ journal' = [readable |-> TRUE, unverified |-> invalid,
                         rows |-> [s \in Scopes |-> IF Persisted(h[s]) THEN h[s]
                                                                       ELSE NoHealth]]
          /\ durable' = TRUE
       \/ /\ Faults /\ ~ calm
          /\ durable' = FALSE
          /\ UNCHANGED journal
    /\ UNCHANGED invalid

\* The checks of _load on one row.
Acceptable(h) ==
    /\ ~ (h.committed /\ h.held)
    /\ h.committed \/ h.held => h.started # NoTime
    /\ h.committed => h.flat = NoTime
    /\ h.held => h.flat # NoTime
    /\ h.started # NoTime /\ ~ h.committed => h.flat # NoTime
    /\ h.flat # NoTime => h.started # NoTime /\ h.flat >= h.started

Loads(j) == j.readable /\ \A s \in Scopes : Acceptable(j.rows[s])

\* max(0, now_ms - grace_ms): the grace is already spent.
GraceSpent == IF now < Grace THEN 0 ELSE now - Grace

\* Mutant: an unreadable journal grants a full grace.
OutageStart_renewed(h) == IF h.since = NoTime \/ h.since > now THEN now ELSE h.since

\* Mutant: every failed evaluation restarts the clock.
OutageStart_everyFailure(h) == IF invalid /\ ~ h.evaluated THEN GraceSpent ELSE now

\* The outage clock: kept while it runs, never renewed by a clock that went back or by
\* a journal that could not be read.
OutageStart(h) ==
    IF h.since = NoTime THEN IF invalid /\ ~ h.evaluated THEN GraceSpent ELSE now
    ELSE IF h.since > now THEN GraceSpent
    ELSE h.since

\* unavailable() of the scopes in S.  It saves when a clock starts or moves, or when a
\* reason is new.  (The saves of several scopes count as one.)
Unavailable(S) ==
    LET h == [s \in Scopes |-> IF s \in S
                               THEN [health[s] EXCEPT !.since = OutageStart(health[s])]
                               ELSE health[s]]
    IN  /\ health' = h
        /\ \/ Save(h)
           \/ h = health /\ UNCHANGED journalVars
        /\ outage' = [s \in Scopes |-> IF s \in S /\ outage[s] = NoTime THEN now
                                                                        ELSE outage[s]]

\* Mutant: a successful evaluation ends the exit as well.
EvaluatedHealth_endsExit(h) == [h EXCEPT !.since = NoTime, !.evaluated = TRUE, !.committed = FALSE]

\* evaluated_successfully(): ends the outage, never the exit.
EvaluatedHealth(h) == [h EXCEPT !.since = NoTime, !.evaluated = TRUE]

\* It saves only when an outage ended or an unverified scope was proved.
RecordEvaluation(s) ==
    LET h == [health EXCEPT ![s] = EvaluatedHealth(@)]
    IN  /\ health' = h
        /\ IF health[s].since # NoTime \/ (invalid /\ ~ health[s].evaluated)
           THEN Save(h)
           ELSE UNCHANGED journalVars
        /\ outage' = [outage EXCEPT ![s] = NoTime]
        /\ watched' = watched \cup {s}

\* reconcile_config(): what is left of a scope after a deliberate configuration change.
Reconciled(s) ==
    LET h == health[s]
    IN  CASE config[s] = "off" -> NoHealth
          [] config[s] = "inactive" /\ ~ h.committed /\ ~ h.held ->
                IF h.started = NoTime THEN NoHealth ELSE [h EXCEPT !.since = NoTime]
          [] OTHER -> h

\* emergency_stop_applies(): does the exit's window explain a fill of that time?
EmergencyStopApplies(s, t) ==
    /\ health[s].started # NoTime
    /\ health[s].started <= t
    /\ health[s].flat = NoTime \/ t <= health[s].flat

\* defer(): clocks for the affected scopes, and the next attempt is put off.
Defer(S) ==
    /\ Unavailable(S)
    /\ recovery' = "open"
    /\ waiting' = TRUE

\* An account-wide failure affects every active scope with exposure or orders.
Affected == view \cap Active

-----------------------------------------------------------------------------
(* _protection_cycle: committed exits first, then new decisions.            *)

\* Mutant: the protection owner keeps the loop for as long as recovery is open.
AfterProtection_open == IF served \/ recovery # "none" THEN "top" ELSE "refresh"

AfterProtection == IF served THEN "top" ELSE "refresh"

AfterExits == IF again THEN AfterProtection ELSE "decide"

\* restore_protection
StartCycle ==
    LET h == [s \in Scopes |-> Reconciled(s)]
    IN  /\ step = "top"
        /\ health' = h
        /\ IF h # health THEN Save(h) ELSE UNCHANGED journalVars
        /\ recovery' = IF recovery = "none" /\ \E s \in Scopes : Troubled(h[s])
                       THEN "open" ELSE recovery
        /\ served' = (PendingIn(h) # {})
        /\ step' = IF served' THEN "exits" ELSE "decide"
        /\ again' = FALSE
        /\ outage' = [s \in Scopes |-> IF h[s].since = NoTime /\ config[s] # "active"
                                       THEN NoTime ELSE outage[s]]
        /\ exited' = {s \in exited : config[s] # "off"}
        /\ closed' = [s \in Scopes |-> IF config[s] = "off" THEN NoTime ELSE closed[s]]
        /\ watched' = {}
        /\ UNCHANGED <<now, config, waiting, view, todo, failed, accountVars, calm>>

\* refresh_protective_authoritative_state for the exits.
ReadForExits ==
    /\ step = "exits"
    /\ view' = busy
    /\ step' = "confirm"
    /\ UNCHANGED <<now, health, journalVars, config, recovery, waiting, loopVars, accountVars,
                   calm, historyVars>>

\* It failed, or its result cannot be used: the commitment is retained.
ExitsFail ==
    /\ step = "exits"
    /\ ~ calm
    /\ step' = AfterExits
    /\ \/ Defer(Affected)
       \/ UNCHANGED <<health, journalVars, recovery, waiting, outage>>
    /\ UNCHANGED <<now, config, view, loopVars, accountVars, calm, exited, closed, watched>>

\* Mutant: the window of the exit ends where it began.
FlatHealth_empty(h) == [h EXCEPT !.committed = FALSE, !.held = TRUE, !.flat = h.started]

FlatHealth(h) == [h EXCEPT !.committed = FALSE, !.held = TRUE, !.flat = now]

\* confirm_flat: neither exposure nor orders in the account just read.
ConfirmFlat(s) ==
    LET h == [health EXCEPT ![s] = FlatHealth(@)]
    IN  /\ step = "confirm"
        /\ s \in pending \ view
        /\ health' = h
        /\ Save(h)
        /\ closing' = closing \ {s}
        /\ UNCHANGED <<now, config, recovery, waiting, step, view, loopVars, busy, calm,
                       historyVars>>

\* Panic orders for what is left of the committed scopes; quotes, the connector or the
\* exchange may refuse any of them.
SendCloses ==
    /\ step = "confirm"
    /\ pending \subseteq view
    /\ \E sent \in SUBSET pending :
        /\ calm => sent = pending
        /\ closing' = sent
    /\ step' = AfterExits
    /\ UNCHANGED <<now, health, journalVars, config, recovery, waiting, view, loopVars, busy,
                   calm, historyVars>>

\* Affected scopes the health manager does not know get a clock of their own.
Unobserved == {s \in Affected : recovery # "none" /\ health[s] = NoHealth}

Observe(s) ==
    /\ step \in {"decide", "observe", "ready"}
    /\ s \in Unobserved
    /\ Unavailable({s})
    /\ UNCHANGED <<now, config, recovery, waiting, step, view, loopVars, accountVars, calm,
                   exited, closed, watched>>

GraceOver(s) == health[s].since # NoTime /\ now - health[s].since >= Grace

\* The early returns of _evaluate_emergency_scopes.
NothingToWeigh ==
    \/ recovery = "none"
    \/ Affected = {} /\ \E s \in Scopes : health[s].held
    \/ pending # {} /\ ~ \E s \in Scopes : GraceOver(s) /\ ~ health[s].committed
                                                         /\ ~ health[s].held

Decide ==
    /\ step = "decide"
    /\ Unobserved = {}
    /\ step' = IF NothingToWeigh THEN AfterProtection ELSE "account"
    /\ UNCHANGED <<now, health, journalVars, config, recovery, waiting, view, loopVars,
                   accountVars, calm, historyVars>>

ReadForDecision ==
    /\ step = "account"
    /\ view' = busy
    /\ step' = "observe"
    /\ UNCHANGED <<now, health, journalVars, config, recovery, waiting, loopVars, accountVars,
                   calm, historyVars>>

\* The refresh failed, or the balance it brought for some scope is unusable.
DecisionFails ==
    /\ step = "account" \/ (step = "observe" /\ Unobserved = {} /\ Affected # {})
    /\ ~ calm
    /\ step' = AfterProtection
    /\ \/ Defer(Affected)
       \/ UNCHANGED <<health, journalVars, recovery, waiting, outage>>
    /\ UNCHANGED <<now, config, view, loopVars, accountVars, calm, exited, closed, watched>>

\* The scopes evaluate_emergency visits.
Weighable == {s \in Affected : GraceOver(s) /\ ~ health[s].committed}

BeginWeigh ==
    /\ step = "observe"
    /\ Unobserved = {}
    /\ todo' = Weighable
    /\ step' = "weigh"
    /\ again' = FALSE
    /\ UNCHANGED <<now, health, journalVars, config, recovery, waiting, view, served, failed,
                   accountVars, calm, historyVars>>

\* Mutant: the start of the exit is rounded up.
CommittedHealth_roundedUp(h) == [h EXCEPT !.committed = TRUE, !.held = FALSE,
                                          !.started = now + 1, !.flat = NoTime]

CommittedHealth(h) == [h EXCEPT !.committed = TRUE, !.held = FALSE, !.started = now,
                                !.flat = NoTime]

\* hsl_emergency_signal on current balance, quotes and losses: the exit is triggered,
\* and saved before any order is sent, or not.  The outage is not tested again after the
\* quotes are awaited: a scope the background replay has just published is exited too.
Weigh(s) ==
    /\ step \in {"weigh", "reweigh"}
    /\ s \in todo
    /\ todo' = todo \ {s}
    /\ \/ LET h == [health EXCEPT ![s] = CommittedHealth(@)]
          IN  /\ health' = h
              /\ Save(h)
              /\ again' = (step = "weigh")
              /\ exited' = exited \cup {s}
              /\ closed' = IF health[s].committed THEN closed
                           ELSE [closed EXCEPT ![s] = NoTime]
       \/ UNCHANGED <<health, journalVars, again, exited, closed>>
    /\ UNCHANGED <<now, config, recovery, waiting, step, view, served, failed, accountVars,
                   calm, outage, watched>>

\* New commitments are executed at once.
WeighDone ==
    /\ step = "weigh"
    /\ todo = {}
    /\ step' = IF again THEN "exits" ELSE AfterProtection
    /\ served' = (served \/ again)
    /\ UNCHANGED <<now, health, journalVars, config, recovery, waiting, view, todo, again,
                   failed, accountVars, calm, historyVars>>

-----------------------------------------------------------------------------
(* Staged refresh, ensure_ready, ordinary trading, mark_ready.              *)

StagedRefresh ==
    /\ step = "refresh"
    /\ view' = busy
    /\ step' = "ready"
    /\ UNCHANGED <<now, health, journalVars, config, recovery, waiting, loopVars, accountVars,
                   calm, historyVars>>

\* Also the failure of ensure_ready on the current balance.
StagedRefreshFails ==
    /\ step \in {"refresh", "ready"}
    /\ ~ calm
    /\ step' = "top"
    /\ \/ Defer(Affected)
       \/ step = "refresh" /\ UNCHANGED <<health, journalVars, recovery, waiting, outage>>
    /\ UNCHANGED <<now, config, view, loopVars, accountVars, calm, exited, closed, watched>>

\* Mutant: the time of the next attempt is not looked at.
RetryDue_never == recovery = "none"

\* retry_due of ensure_ready
RetryDue == recovery = "none" \/ ~ waiting

\* While an attempt is put off only scopes without an outage are evaluated, and none
\* before HSL was initialized.
EnsureReady ==
    /\ step = "ready"
    /\ Unobserved = {}
    /\ \E initialized \in BOOLEAN :
        todo' = {s \in Scopes :
                    IF health[s].held THEN RetryDue \/ initialized
                    ELSE s \in Active /\ (RetryDue \/ (initialized /\ health[s].since = NoTime))}
    /\ failed' = ~ RetryDue
    /\ step' = "evaluate"
    /\ UNCHANGED <<now, health, journalVars, config, recovery, waiting, view, served, again,
                   accountVars, calm, historyVars>>

\* Exposure without any execution history: no scope can be evaluated.
MissingHistory ==
    /\ step = "ready"
    /\ ~ calm
    /\ Unobserved = {}
    /\ Affected # {}
    /\ Defer(Affected)
    /\ todo' = {}
    /\ failed' = TRUE
    /\ step' = "evaluate"
    /\ UNCHANGED <<now, config, view, served, again, accountVars, calm, exited, closed, watched>>

\* The canonical replay of a held scope is completed: it records the evaluation and the
\* hold is released.
Replay(s) ==
    LET h == [health EXCEPT ![s] = [EvaluatedHealth(@) EXCEPT !.held = FALSE]]
    IN  /\ step = "evaluate"
        /\ s \in todo
        /\ health[s].held
        /\ RetryDue
        /\ health' = h
        /\ Save(h)
        /\ todo' = todo \ {s}
        /\ outage' = [outage EXCEPT ![s] = NoTime]
        /\ watched' = watched \cup {s}
        /\ exited' = exited \ {s}
        /\ closed' = [closed EXCEPT ![s] = NoTime]
        /\ UNCHANGED <<now, config, recovery, waiting, step, view, served, again, failed,
                       accountVars, calm>>

\* _equity_hard_stop_check reaches the scope, after the holds.
Check(s) ==
    /\ step = "evaluate"
    /\ s \in todo
    /\ \A r \in todo : ~ health[r].held
    /\ RecordEvaluation(s)
    /\ todo' = todo \ {s}
    /\ UNCHANGED <<now, config, recovery, waiting, step, view, served, again, failed,
                   accountVars, calm, exited, closed>>

\* The replay is not possible yet, or the check raised for the scope; a failure that
\* cannot be attributed ends the evaluation.
EvaluationFails(s) ==
    /\ step = "evaluate"
    /\ s \in todo
    /\ calm => health[s].held /\ ~ RetryDue
    /\ Defer({s} \cap Active)
    /\ failed' = TRUE
    /\ todo' \in {todo \ {s}} \cup (IF calm THEN {} ELSE {{}})
    /\ UNCHANGED <<now, config, step, view, served, again, accountVars, calm, exited, closed,
                   watched>>

\* With recovery open the due scopes are weighed here too.
EvaluateDone ==
    /\ step = "evaluate"
    /\ todo = {}
    /\ IF recovery = "none"
       THEN step' = "plan" /\ UNCHANGED <<recovery, todo>>
       ELSE /\ step' = "reweigh"
            /\ recovery' = IF failed THEN "open" ELSE "proved"
            /\ todo' = Weighable
    /\ failed' = FALSE
    /\ UNCHANGED <<now, health, journalVars, config, waiting, view, served, again,
                   accountVars, calm, historyVars>>

\* Committed exits send ensure_ready's caller back to the top.
ReweighDone ==
    /\ step = "reweigh"
    /\ todo = {}
    /\ step' = IF pending # {} THEN "top" ELSE "plan"
    /\ UNCHANGED <<now, health, journalVars, config, recovery, waiting, view, loopVars,
                   accountVars, calm, historyVars>>

\* Mutant: a scope without a running exit may be entered again.
Tradable_flat == {s \in Scopes : ~ health[s].committed}

\* holds_after_emergency_exit forces panic mode on the others.
Tradable == {s \in Scopes : ~ health[s].committed /\ ~ health[s].held}

\* One ordinary wave, which may open positions, then mark_ready; or the wave is refused
\* before mark_ready.
Plan ==
    /\ step = "plan"
    /\ step' = "top"
    /\ \E opened \in SUBSET Tradable :
        /\ calm => opened = {}
        /\ busy' = busy \cup opened
    /\ \/ /\ recovery = "proved"
          /\ \A s \in Scopes : ~ Troubled(health[s])
          /\ recovery' = "none"
          /\ waiting' = FALSE
       \/ /\ calm => recovery # "proved" \/ \E s \in Scopes : Troubled(health[s])
          /\ UNCHANGED <<recovery, waiting>>
    /\ UNCHANGED <<now, health, journalVars, config, view, loopVars, closing, calm,
                   historyVars>>

-----------------------------------------------------------------------------
(* Interleaved with the loop.                                               *)

\* The wall clock moves on, or is set back.
Tick ==
    /\ now' \in {t \in 0..MaxTime : t = now + 1 \/ (Rollback /\ ~ calm /\ t < now)}
    /\ UNCHANGED <<health, journalVars, config, recovery, waiting, step, view, loopVars,
                   accountVars, calm, historyVars>>

RetryTime ==
    /\ waiting
    /\ waiting' = FALSE
    /\ UNCHANGED <<now, health, journalVars, config, recovery, step, view, loopVars,
                   accountVars, calm, historyVars>>

\* A resting order fills, or the owner of the account trades.
Opens(s) ==
    /\ ~ calm
    /\ s \notin busy
    /\ busy' = busy \cup {s}
    /\ UNCHANGED <<now, health, journalVars, config, recovery, waiting, step, view, loopVars,
                   closing, calm, historyVars>>

\* The exchange stamps the fill with its own clock.
CloseFills(s) ==
    /\ s \in closing
    /\ busy' = busy \ {s}
    /\ closing' = closing \ {s}
    /\ IF s \in busy \cap exited
       THEN \E t \in (now - Skew)..(now + Skew) : t >= 0 /\ closed' = [closed EXCEPT ![s] = t]
       ELSE UNCHANGED closed
    /\ UNCHANGED <<now, health, journalVars, config, recovery, waiting, step, view, loopVars,
                   calm, outage, exited, watched>>

\* The background replay publishes a scope (mark_pair_ready).
ReplayPublishes(s) ==
    /\ ~ calm
    /\ s \in Active
    /\ RecordEvaluation(s)
    /\ UNCHANGED <<now, config, recovery, waiting, step, view, loopVars, accountVars, calm,
                   exited, closed>>

\* The process ends at any point and starts again, maybe with another configuration or
\* a damaged file.  What was not written is forgotten.
Restart ==
    \E damaged \in BOOLEAN :
        LET j == [journal EXCEPT !.readable = @ /\ ~ damaged]
            ok == Loads(j)
            excused == damaged \/ ~ durable
        IN  /\ Faults /\ ~ calm
            /\ journal' = j
            /\ health' = IF ok THEN j.rows ELSE Empty
            /\ invalid' = IF ok THEN j.unverified ELSE TRUE
            /\ durable' = ok
            /\ config' \in [Scopes -> {"active", "inactive", "off"}]
            /\ recovery' = "none" /\ waiting' = FALSE
            /\ step' = "top"
            /\ view' = {} /\ todo' = {}
            /\ served' = FALSE /\ again' = FALSE /\ failed' = FALSE
            /\ outage' = IF ok /\ excused THEN [s \in Scopes |-> NoTime] ELSE outage
            /\ exited' = IF excused THEN {} ELSE exited
            /\ closed' = IF excused THEN [s \in Scopes |-> NoTime] ELSE closed
            /\ watched' = {}
            /\ UNCHANGED <<now, accountVars, calm>>

CalmDown ==
    /\ ~ calm
    /\ calm' = TRUE
    /\ UNCHANGED <<now, health, journalVars, config, recovery, waiting, step, view, loopVars,
                   accountVars, historyVars>>

-----------------------------------------------------------------------------

Loop ==
    \/ StartCycle
    \/ ReadForExits
    \/ \E s \in Scopes : ConfirmFlat(s)
    \/ SendCloses
    \/ \E s \in Scopes : Observe(s)
    \/ Decide
    \/ ReadForDecision
    \/ BeginWeigh
    \/ \E s \in Scopes : Weigh(s)
    \/ WeighDone
    \/ StagedRefresh
    \/ EnsureReady
    \/ \E s \in Scopes : Replay(s)
    \/ \E s \in Scopes : Check(s)
    \/ \E s \in Scopes : EvaluationFails(s)
    \/ EvaluateDone
    \/ ReweighDone
    \/ Plan

Next ==
    \/ Loop
    \/ ExitsFail
    \/ DecisionFails
    \/ StagedRefreshFails
    \/ MissingHistory
    \/ Tick
    \/ RetryTime
    \/ \E s \in Scopes : Opens(s)
    \/ \E s \in Scopes : CloseFills(s)
    \/ \E s \in Scopes : ReplayPublishes(s)
    \/ Restart
    \/ CalmDown

Spec == Init /\ [][Next]_vars

\* The loop task is never starved, retry times are reached, and the exchange fills the
\* closes it accepted.
FairSpec ==
    /\ Spec
    /\ WF_vars(Loop)
    /\ WF_vars(RetryTime)
    /\ \A s \in Scopes : WF_vars(CloseFills(s))

-----------------------------------------------------------------------------

\* An emergency exit is never forgotten: until a completed replay takes the scope over,
\* or the configuration retires it, the scope stays committed or held, through
\* evaluations, restarts and everything saved in between.
ExitRemembered ==
    \A s \in exited : health[s].committed \/ health[s].held

\* Restarts, unreadable journals and changing reasons never lengthen the grace of one
\* outage.
GraceIsBounded ==
    \A s \in Scopes :
        /\ health[s].since # NoTime /\ outage[s] # NoTime
        /\ now - outage[s] >= Grace
        => now - health[s].since >= Grace

\* While an outage lasts its clock is never moved forward, even by a wall clock that
\* was set back or by a restart from a journal that is up to date.
ClockNeverRenewed ==
    [][\A s \in Scopes :
          durable /\ health[s].since # NoTime /\ health'[s].since # NoTime
              => health'[s].since <= health[s].since]_vars

\* A completed exit keeps a window in which a replay finds the fill that flattened the
\* scope (emergency_stop_applies), through retries of the exit, restarts and everything
\* saved meanwhile, up to the difference of the two clocks.  The code tests the window
\* without any tolerance: with Skew = 0 the fill itself is found.
FlattenIsExplained ==
    \A s \in exited :
        health[s].held /\ closed[s] # NoTime
            => \E d \in (-Skew)..Skew : EmergencyStopApplies(s, closed[s] + d)

\* What protects a scope, and what a restart would bring back of it.
Phase(h) == IF h.committed THEN "running" ELSE IF h.held THEN "held" ELSE "none"
Phases(h) == [s \in Scopes |-> Phase(h[s])]
SavedPhases(j) == IF Loads(j) THEN Phases(j.rows) ELSE Phases(Empty)

Durable == INSTANCE DurableExit WITH
    exit <- Phases(health), saved <- SavedPhases(journal), safe <- durable,
    retired <- {s \in Scopes : config[s] = "off"}

\* The journal's contract (its module docstring): through every step of the loop, the
\* replay, failing saves and restarts a scope changes between no exit, a running and a
\* completed one only as DurableExit allows, each change is offered to the file at once,
\* and while the last save succeeded a restart resumes exactly the exits there are.
KeepsExits == Durable!Spec

\* No ordinary wave opens a scope whose emergency exit is not taken over by a replay.
NoEntryAfterExit ==
    [][step = "plan" /\ step' = "top" => (busy' \ busy) \cap exited = {}]_vars

\* Once nothing fails any more recovery ends and ordinary trading goes on.
RecoveryEnds == calm ~> (recovery = "none" /\ step = "plan")

\* A scope with exposure does not stay without a signal: again and again it is
\* evaluated, or its outage clock runs, or its exit is under way.
WatchGoesOn ==
    \A s \in Scopes :
        []<>(calm /\ s \in busy \cap Active => s \in watched \/ Troubled(health[s]))

=============================================================================
