--------------------------- MODULE OrderExecution ---------------------------
(***************************************************************************)
(* One execution cycle after another of the live loop, seen from the order *)
(* book: read the open orders, reconcile them with the ideal orders, send  *)
(* the cancel wave, filter the creates, send them, classify the answers.   *)
(*                                                                         *)
(* The exchange is external.  It may accept a request whose answer is lost *)
(* and its open-order listing may lag behind a change for up to Lag ticks. *)
(* The bot knows its own orders only through that listing; in between it   *)
(* relies on what it remembers of its creates and cancels: a memory read   *)
(* with two horizons (Window, Recall), whose short-horizon readers drop    *)
(* what the long-horizon ones could still use.                             *)
(*                                                                         *)
(* Orders are intents further apart than the matching tolerance.  Websocket *)
(* invalidations and the clock interleave with every await.  The epochs of *)
(* a refresh are AuthoritativeState's subject: here a refresh is one step. *)
(***************************************************************************)
EXTENDS Integers, FiniteSets

CONSTANTS
    Orders,            \* distinct order intents (symbol, side, price, qty)
    Symbols,
    SymbolOf,          \* order -> symbol, the cancel-first scope in one-way mode
    Panics,            \* dedicated protective market closes: they never rest
    CancelFirst,       \* connector_supports_order_churn_gate
    MaxCancellations,  \* max_n_cancellations_per_batch
    MaxCreations,      \* max_n_creations_per_batch
    Window,            \* ticks a create or cancel counts as recent (15 s)
    Recall,            \* ticks it still explains a change of the listing (180 s)
    Lag,               \* ticks the exchange listing may lag
    MaxCycle,          \* ticks from reading the open orders to sending the creates
    MaxAdded,          \* orders appearing at once that are looked at one by one (20)
    Wanted             \* what the planner wants for good once nothing disturbs it

ASSUME OrdersAssumption ==
    /\ IsFiniteSet(Orders)
    /\ SymbolOf \in [Orders -> Symbols]
    /\ Panics \subseteq Orders
    /\ Wanted \subseteq Orders \ Panics
    /\ CancelFirst \in BOOLEAN

ASSUME LimitsAssumption ==
    /\ MaxCancellations \in Nat \ {0} /\ MaxCreations \in Nat \ {0}
    /\ Window \in Nat /\ Recall \in Nat /\ Lag \in Nat /\ MaxCycle \in Nat
    /\ MaxAdded \in Nat
    /\ Window <= Recall

\* What the 15 s horizon is for: it covers the lag of the listing and one cycle.
ASSUME TimingAssumption == Lag + MaxCycle <= Window

VARIABLES
    step,       \* "top", "ready", "cancelling", "config", "sending"
    local,      \* open_orders, the last applied listing
    pend,       \* pending confirmation: "none", "open_orders" or "full"
    toCancel, toCreate,
    wire,       \* requests inside the connector
    held,       \* state_change_detected_by_symbol
    moved,      \* the invalidation generation differs from the planned one
    executed,   \* order -> ticks left of Recall in recent_order_executions
    cancelled,  \* order -> ticks left of Recall in recent_order_cancellations
    age,        \* ticks since the open orders were read
    live,       \* exchange: order -> resting orders
    lag,        \* exchange: order -> ticks until the listing is right
    calm,       \* environment: nothing fills, fails or invalidates any more
    dirty,      \* history: invalidated since the open orders were read
    unconfirmed \* history: cancels sent since the open orders were read

planVars == <<toCancel, toCreate, wire>>
memoryVars == <<executed, cancelled>>
bookVars == <<live, lag>>
vars == <<step, local, pend, planVars, held, moved, memoryVars, age, bookVars, calm, dirty,
          unconfirmed>>

TypeOK ==
    /\ step \in {"top", "ready", "cancelling", "config", "sending"}
    /\ local \subseteq Orders
    /\ pend \in {"none", "open_orders", "full"}
    /\ toCancel \subseteq Orders
    /\ toCreate \subseteq Orders
    /\ wire \subseteq Orders
    /\ step \notin {"cancelling", "sending"} => wire = {}
    /\ held \subseteq Symbols
    /\ moved \in BOOLEAN
    /\ executed \in [Orders -> 0..Recall]
    /\ cancelled \in [Orders -> 0..Recall]
    /\ age \in 0..MaxCycle
    /\ live \in [Orders -> 0..2]
    /\ lag \in [Orders -> 0..Lag]
    /\ calm \in BOOLEAN
    /\ dirty \in BOOLEAN
    /\ unconfirmed \subseteq Orders

Zero == [o \in Orders |-> 0]

Init ==
    /\ step = "top"
    /\ local = {} /\ pend = "none"
    /\ toCancel = {} /\ toCreate = {} /\ wire = {}
    /\ held = {} /\ moved = FALSE
    /\ executed = Zero /\ cancelled = Zero
    /\ age = 0
    /\ live = Zero /\ lag = Zero
    /\ calm = FALSE
    /\ dirty = FALSE /\ unconfirmed = {}

-----------------------------------------------------------------------------
(* recent_order_executions and recent_order_cancellations.                  *)

Recent(memory, o) == memory[o] > Recall - Window

\* The readers with the short horizon drop the older entries for everybody.
Pruned(memory) == [o \in Orders |-> IF Recent(memory, o) THEN memory[o] ELSE 0]

\* add_to_recent_order_executions, add_to_recent_order_cancellations
Noted(memory, S) == [o \in Orders |-> IF o \in S THEN Recall ELSE memory[o]]

\* Mutant: an expired entry is not dropped.
Aged_negative(memory) == [o \in Orders |-> memory[o] - 1]

\* A tick later.
Aged(memory) == [o \in Orders |-> IF memory[o] > 0 THEN memory[o] - 1 ELSE 0]

-----------------------------------------------------------------------------
(* Reading the open orders: refresh, its consistency checks, the barrier.   *)

\* Exchange: what a listing may show.  A lagging entry may be there or not.
Listings ==
    {L \in SUBSET (Orders \ Panics) :
        \A o \in Orders \ Panics : lag[o] = 0 => (o \in L <=> live[o] > 0)}

\* local_order_open_orders_confirmed
LocalOrdersConfirmed(L) ==
    /\ \A o \in L : ~ Recent(cancelled, o)
    /\ \A o \in Orders : Recent(executed, o) /\ ~ Recent(cancelled, o) => o \in L

\* _apply_open_orders_snapshot: every appearance and disappearance is the bot's own.  A
\* larger batch of new orders is logged as one and not looked at.
ChangeExplained(L) ==
    /\ \A o \in local \ L : cancelled[o] > 0
    /\ \/ Cardinality(L \ local) > MaxAdded
       \/ \A o \in L \ local : executed[o] > 0

\* One refresh.  An unexplained change, or recent orders missing from a refresh of the
\* open orders alone, ask for a full confirmation in a later epoch, which closes the
\* barrier of this one.  order_was_recently_cancelled prunes when a removed order is
\* not explained, local_order_open_orders_confirmed always.
ReadOpenOrders ==
    /\ step = "top"
    /\ \E L \in Listings :
        LET alone == pend = "open_orders"
            missing == \E o \in local \ L : cancelled[o] = 0
            blocked == \/ ~ ChangeExplained(L)
                       \/ alone /\ ~ LocalOrdersConfirmed(L)
        IN  /\ local' = L
            /\ executed' = IF alone THEN Pruned(executed) ELSE executed
            /\ cancelled' = IF alone \/ missing THEN Pruned(cancelled) ELSE cancelled
            /\ pend' = IF blocked THEN "full" ELSE "none"
            /\ step' = IF blocked THEN "top" ELSE "ready"
    /\ held' = {}
    /\ age' = 0
    /\ dirty' = FALSE /\ unconfirmed' = {}
    /\ toCancel' = {} /\ toCreate' = {}
    /\ UNCHANGED <<wire, moved, bookVars, calm>>

-----------------------------------------------------------------------------
(* Planning and the cancel wave.                                            *)

SymbolsOf(S) == {SymbolOf[o] : o \in S}

\* Mutant: a create may go out right behind the cancel of its own symbol.
AfterCancelFirst_open(creates, cancels) == creates

\* The cancel-first barrier: creates of a symbol with a cancel in the plan, whether
\* or not it fitted the batch, wait for confirmation and replanning.
AfterCancelFirst(creates, cancels) ==
    IF CancelFirst
    THEN {o \in creates : o \in Panics \/ SymbolOf[o] \notin SymbolsOf(cancels)}
    ELSE creates

\* execute_order_plan between the cancel wave and its next await: cancel-first
\* barrier, order_was_recently_updated, state_change_detected_by_symbol.
Admitted(creates, cancels, changed) ==
    {o \in AfterCancelFirst(creates, cancels) :
        /\ ~ Recent(executed, o)
        /\ o \in Panics \/ SymbolOf[o] \notin changed}

\* order_was_recently_updated prunes for every create that reaches it.
Consulted(creates, cancels) ==
    IF AfterCancelFirst(creates, cancels) = {} THEN executed ELSE Pruned(executed)

\* Mutant: a stale order stays while the planner wants any order of its symbol.
StaleOrders_bySymbol(ideal) == {o \in local : SymbolOf[o] \notin SymbolsOf(ideal)}

\* calc_orders_to_cancel_and_create_from_ideal: actual orders no ideal one matches.
StaleOrders(ideal) == local \ ideal

\* ... and ideal orders no actual one matches.
MissingOrders(ideal) == ideal \ local

\* Planner (Rust, external): any set of ideal orders, Wanted once things are calm.
IdealOrders == IF calm THEN {Wanted} ELSE SUBSET Orders

\* calc_orders_to_cancel_and_create and the start of execute_order_plan.  The planning
\* snapshot is refused when a confirmation became pending after the barrier.  Of the
\* cancels at most a batch is sent, fewer while the position/fill gate holds some back.
Plan ==
    /\ step = "ready"
    /\ \E ideal \in IdealOrders :
        LET cancels == StaleOrders(ideal)
            creates == MissingOrders(ideal)
            capacity == IF Cardinality(cancels) < MaxCancellations
                        THEN Cardinality(cancels) ELSE MaxCancellations
        IN  \/ /\ pend # "none"
               /\ step' = "top"
               /\ UNCHANGED <<planVars, moved, memoryVars, unconfirmed>>
            \/ /\ pend = "none"
               /\ cancels = {}
               /\ step' = "config"
               /\ toCreate' = Admitted(creates, {}, held)
               /\ executed' = Consulted(creates, {})
               /\ moved' = FALSE
               /\ UNCHANGED <<toCancel, wire, cancelled, unconfirmed>>
            \/ /\ pend = "none"
               /\ cancels # {}
               /\ step' = "cancelling"
               /\ toCancel' = cancels
               /\ toCreate' = creates
               /\ \E sent \in SUBSET cancels :
                    /\ Cardinality(sent) <= capacity
                    /\ calm => Cardinality(sent) = capacity
                    /\ wire' = sent
                    /\ unconfirmed' = unconfirmed \cup sent
                    /\ cancelled' = Noted(cancelled, sent)
               /\ moved' = FALSE
               /\ UNCHANGED executed
    /\ UNCHANGED <<local, pend, held, age, bookVars, calm, dirty>>

\* Outcomes of the cancels: gone is what the exchange really removed, failed what was
\* not acknowledged, doubtful what was answered "already gone".
CancelsAnswered ==
    /\ step = "cancelling"
    /\ \E gone \in SUBSET wire : \E failed \in SUBSET wire : \E doubtful \in SUBSET (wire \ failed) :
        /\ wire \ (gone \cup failed) \subseteq doubtful
        /\ \A o \in doubtful : live[o] = 0 \/ o \in gone
        /\ calm => gone = wire /\ failed = {} /\ \A o \in doubtful : live[o] = 0
        /\ live' = [o \in Orders |-> IF o \in gone /\ live[o] > 0 THEN live[o] - 1 ELSE live[o]]
        /\ lag' = [o \in Orders |-> IF o \in gone /\ live[o] > 0 THEN Lag ELSE lag[o]]
        /\ held' = held \cup SymbolsOf(failed \cup doubtful)
        /\ pend' = IF CancelFirst \/ doubtful # {} THEN "full"
                   ELSE IF wire \subseteq failed \/ pend = "full" THEN pend
                   ELSE "open_orders"
        /\ \/ /\ step' = "config"
              /\ toCreate' = Admitted(toCreate, toCancel, held')
              /\ executed' = Consulted(toCreate, toCancel)
           \/ /\ wire # {} /\ failed = wire     \* the batch raised: the cycle is over
              /\ step' = "top"
              /\ toCreate' = {}
              /\ UNCHANGED executed
    /\ wire' = {}
    /\ UNCHANGED <<local, toCancel, moved, cancelled, age, calm, dirty, unconfirmed>>

-----------------------------------------------------------------------------
(* The creates.                                                             *)

\* Mutant: the generation is not compared again after configuration and quotes.
Unsuperseded_unchecked(creates) == creates

\* Creates that survive an invalidation after planning.
Unsuperseded(creates) == IF moved THEN creates \cap Panics ELSE creates

\* Exchange configuration, quotes, churn admission and batch capacity may drop any
\* create; then the generation is compared.
ConfigureCreates ==
    /\ step = "config"
    /\ \E kept \in SUBSET toCreate :
        /\ Cardinality(kept) <= MaxCreations
        /\ calm => kept = toCreate \/ Cardinality(kept) = MaxCreations
        /\ toCreate' = Unsuperseded(kept)
    /\ step' = IF toCreate' = {} THEN "top" ELSE "sending"
    /\ UNCHANGED <<local, pend, toCancel, wire, held, moved, memoryVars, age, bookVars, calm,
                   dirty, unconfirmed>>

\* execute_order: each create compares the generation once more on its own.
SendCreate(o) ==
    /\ step = "sending"
    /\ o \in toCreate
    /\ toCreate' = toCreate \ {o}
    /\ wire' = wire \cup Unsuperseded({o})
    /\ UNCHANGED <<step, local, pend, toCancel, held, moved, memoryVars, age, bookVars, calm,
                   dirty, unconfirmed>>

\* Mutant: a create that raised is not remembered.
Remembered_ackOnly(acked, lost) == acked

\* What execute_orders_parent adds to recent_order_executions.
Remembered(acked, lost) == acked \cup lost

\* execute_orders_parent classifies the whole batch: acked, lost (exception, empty or
\* mismatched response) or rejected.  The exchange accepted all acked ones and any
\* of the lost ones; market closes do not rest.
CreatesAnswered ==
    /\ step = "sending"
    /\ toCreate = {}
    /\ \E acked \in SUBSET wire : \E lost \in SUBSET (wire \ acked) : \E taken \in SUBSET lost :
        LET resting == (acked \cup taken) \ Panics
        IN  /\ calm => acked = wire
            /\ live' = [o \in Orders |-> IF o \in resting /\ live[o] < 2 THEN live[o] + 1
                                         ELSE live[o]]
            /\ lag' = [o \in Orders |-> IF o \in resting THEN Lag ELSE lag[o]]
            /\ executed' = Noted(executed, Remembered(acked, lost))
            /\ pend' = IF acked # {} /\ pend = "none" THEN "open_orders" ELSE pend
    /\ step' = "top"
    /\ wire' = {}
    /\ UNCHANGED <<local, toCancel, toCreate, held, moved, cancelled, age, calm, dirty,
                   unconfirmed>>

-----------------------------------------------------------------------------
(* Interleaved with all of the above.                                       *)

\* mark_account_critical_state_dirty
Invalidate ==
    /\ ~ calm
    /\ moved' = TRUE
    /\ pend' = "full"
    /\ dirty' = TRUE
    /\ \E S \in SUBSET Symbols : held' = held \cup S
    /\ UNCHANGED <<step, local, planVars, memoryVars, age, bookVars, calm, unconfirmed>>

\* request_account_confirmation of update_pnls: the background prefetch found new fill
\* events.  It asks for a full confirmation and leaves the generation alone, so creates
\* already planned are still sent.
FillsDiscovered ==
    /\ ~ calm
    /\ pend' = "full"
    /\ UNCHANGED <<step, local, planVars, held, moved, memoryVars, age, bookVars, calm, dirty,
                   unconfirmed>>

\* Exchange: a resting order fills.  The websocket may or may not report it.
Fill(o) ==
    /\ ~ calm
    /\ live[o] > 0
    /\ live' = [live EXCEPT ![o] = @ - 1]
    /\ lag' = [lag EXCEPT ![o] = Lag]
    /\ UNCHANGED <<step, local, pend, planVars, held, moved, memoryVars, age, calm, dirty,
                   unconfirmed>>

\* Time passes for the exchange's listing and for the bot's memory.
Tick ==
    /\ step # "top" => age < MaxCycle
    /\ age' = IF step = "top" THEN age ELSE age + 1
    /\ lag' = [o \in Orders |-> IF lag[o] > 0 THEN lag[o] - 1 ELSE 0]
    /\ executed' = Aged(executed)
    /\ cancelled' = Aged(cancelled)
    /\ UNCHANGED <<step, local, pend, planVars, held, moved, live, calm, dirty, unconfirmed>>

\* RestartBotException, at worst while requests are in the connector: all memory is
\* lost, and the bootstrap takes longer than the listing lags.
Restart ==
    /\ ~ calm
    /\ \E done \in SUBSET (wire \ Panics) :
        live' = [o \in Orders |->
                    CASE o \in done /\ step = "sending" /\ live[o] < 2 -> live[o] + 1
                      [] o \in done /\ step = "cancelling" /\ live[o] > 0 -> live[o] - 1
                      [] OTHER -> live[o]]
    /\ lag' = Zero
    /\ step' = "top"
    /\ local' = {} /\ pend' = "none"
    /\ toCancel' = {} /\ toCreate' = {} /\ wire' = {}
    /\ held' = {} /\ moved' = FALSE
    /\ executed' = Zero /\ cancelled' = Zero
    /\ age' = 0
    /\ dirty' = FALSE /\ unconfirmed' = {}
    /\ UNCHANGED calm

CalmDown ==
    /\ ~ calm
    /\ calm' = TRUE
    /\ UNCHANGED <<step, local, pend, planVars, held, moved, memoryVars, age, bookVars, dirty,
                   unconfirmed>>

-----------------------------------------------------------------------------

Cycle ==
    \/ ReadOpenOrders
    \/ Plan
    \/ CancelsAnswered
    \/ ConfigureCreates
    \/ \E o \in Orders : SendCreate(o)
    \/ CreatesAnswered

Next ==
    \/ Cycle
    \/ Invalidate
    \/ FillsDiscovered
    \/ \E o \in Orders : Fill(o)
    \/ Tick
    \/ Restart
    \/ CalmDown

Spec == Init /\ [][Next]_vars

\* The loop task is never starved, every request is answered, and time passes.
FairSpec == Spec /\ WF_vars(Cycle) /\ WF_vars(Tick)

-----------------------------------------------------------------------------

\* The same order never rests twice, although answers get lost and the listing lags.
NoDuplicateOrder == \A o \in Orders : live[o] <= 1

\* An ordinary create enters the connector only if the account was not invalidated
\* since the open orders behind its plan were read.
SentOnCurrentState == [][\A o \in wire' \ wire :
                            step = "sending" => o \in Panics \/ ~ dirty]_vars

\* An ordinary create is in the connector only when no cancel of its symbol was sent
\* since the open orders were read.
ReplacedAfterConfirmation ==
    step = "sending" =>
        \A o \in wire \ Panics : CancelFirst => SymbolOf[o] \notin SymbolsOf(unconfirmed)

\* Once nothing disturbs it, reconciliation turns the exchange's order book into the
\* ideal one for good.
BookConverges == calm ~> [](\A o \in Orders : live[o] = IF o \in Wanted THEN 1 ELSE 0)

=============================================================================
