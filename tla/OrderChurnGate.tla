--------------------------- MODULE OrderChurnGate ---------------------------
(***************************************************************************)
(* The economy gate on order replacement.  Every plan is compared with the  *)
(* recent plans of its symbol: an ideal order that keeps drifting, or whose *)
(* cohort keeps coming and going, carries churn evidence.  Right before the *)
(* connector an evidenced ordinary order far from the market is put off     *)
(* once the account's creates in the rolling window reach an allowance.     *)
(*                                                                         *)
(* One symbol is followed; creates of other symbols join its waves.  Time   *)
(* is counted in ticks, and instants are kept as ages.  A plan is made at   *)
(* most once per tick, as the execution loop sleeps between plans.          *)
(***************************************************************************)
EXTENDS Integers, Sequences, SequencesExt, FiniteSets, FiniteSetsExt

CONSTANTS
    Ideals,          \* the sets of ideal orders [cohort, price, qty] of the symbol
    Window,          \* order_replacement_churn_gate_window_minutes
    Stability,       \* order_replacement_churn_gate_stability_minutes
    MaxGap,          \* _order_churn_max_generation_gap_seconds
    Tolerance,       \* order_match_tolerance_pct, in parts of Unit
    Unit,
    ActivationCount, \* order_replacement_churn_gate_activation_count
    MaxOthers        \* bound: creates of other symbols in one wave

Orders == UNION Ideals
Cohorts == {o.cohort : o \in Orders}

\* The gate is switched on: with an activation count of 0 it defers nothing.
ASSUME ChurnAssumption ==
    /\ IsFiniteSet(Orders) /\ IsFiniteSet(Ideals)
    /\ Orders \subseteq [cohort : Cohorts, price : Nat \ {0}, qty : Nat \ {0}]
    /\ {Window, Stability, MaxGap, Tolerance, MaxOthers} \subseteq Nat
    /\ {Unit, ActivationCount} \subseteq Nat \ {0}

VARIABLES
    ideal,     \* environment: what the strategy wants now
    history,   \* history_by_symbol of the symbol, newest first: [age, orders]
    attempts,  \* ages of action_attempt_timestamps, newest first
    decided,   \* the plan's orders with the reason of their decision
    planned,   \* the plan has not come to the churn admission yet
    sending,   \* admitted creates not yet in the connector: "far" or "free"
    putOff,    \* this cycle's admission deferred some order
    since,     \* history: age of the oldest plan of the last completed stable run
    overtaken  \* history: exempt creates of this wave that entered before a far one

vars == <<ideal, history, attempts, decided, planned, sending, putOff, since, overtaken>>

-----------------------------------------------------------------------------
(* What the history proves.  samples[1] is the plan being judged. *)

CohortsOf(sample) == {o.cohort : o \in sample.orders}

Before(p, q) == p.price < q.price \/ (p.price = q.price /\ p.qty < q.qty)

\* _group_by_cohort: the orders of a cohort by price, then quantity
Sorted(orders) ==
    [rung \in 1..Cardinality(orders) |->
        CHOOSE o \in orders : Cardinality({p \in orders : Before(p, o)}) = rung - 1]

GroupIn == [orders \in Ideals |-> [c \in Cohorts |-> Sorted({o \in orders : o.cohort = c})]]

Group(sample, c) == GroupIn[sample.orders][c]

Near(current, previous) ==
    (IF current > previous THEN current - previous ELSE previous - current) * Unit
        <= Tolerance * current

Tight(a, b) == Near(a.price, b.price) /\ Near(a.qty, b.qty)

InCadence(samples, i) == samples[i].age - samples[i-1].age <= MaxGap

\* How far a sequence of length n goes before a member, from the second, fails P.
Prefix(P(_), n) ==
    LET broken == {i \in 2..n : ~P(i)}
    IN  IF broken = {} THEN n ELSE Min(broken) - 1

\* Plans, newest first, in which the cohort kept its cardinality.
TrackLength(samples, c) ==
    Prefix(LAMBDA i : /\ InCadence(samples, i)
                      /\ Len(Group(samples[i], c)) = Len(Group(samples[1], c)),
           Len(samples))

Track(samples, c, rung) ==
    [i \in 1..TrackLength(samples, c) |-> Group(samples[i], c)[rung]]

TightCount(track) == Prefix(LAMBDA i : Tight(track[1], track[i]), Len(track)) - 1

\* Plans, newest first, that hold one cohort each, of unchanged cardinality.
ExclusiveLength(samples) ==
    Prefix(LAMBDA i : /\ InCadence(samples, i)
                      /\ Cardinality(CohortsOf(samples[i])) = 1
                      /\ \A j \in 1..(i-1) :
                            CohortsOf(samples[j]) = CohortsOf(samples[i])
                              => Cardinality(samples[j].orders) = Cardinality(samples[i].orders),
           Len(samples))

RunStarts(samples, c) ==
    LET n == ExclusiveLength(samples)
    IN  {i \in 1..n : /\ CohortsOf(samples[i]) = {c}
                      /\ i < n => CohortsOf(samples[i+1]) # {c}}

\* The third appearance of an exclusive cohort, long enough after the second.
Reappears(samples, c) ==
    LET starts == RunStarts(samples, c)
    IN  /\ CohortsOf(samples[1]) = {c}
        /\ Cardinality(starts) >= 3
        /\ LET newest == Min(starts)
           IN  samples[Min(starts \ {newest})].age - samples[newest].age >= Stability

\* Two or more moves in one direction, beyond the tolerance, begun long enough ago.
Drifts(samples, values) ==
    LET moves == {i \in 1..(Len(values) - 1) : values[i] # values[i+1]}
        Up(i) == values[i] > values[i+1]
        run == {i \in moves : \A j \in moves : j <= i => (Up(j) <=> Up(Min(moves)))}
    IN  /\ Cardinality(run) >= 2
        /\ ~Near(values[1], values[Max(run) + 1])
        /\ samples[Max(run)].age >= Stability

Decision(samples, c, rung) ==
    LET track == Track(samples, c, rung)
        tight == TightCount(track)
    IN  IF tight >= 2 /\ samples[tight + 1].age >= Stability THEN "stable"
        ELSE IF Reappears(samples, c) THEN "reappearance"
        ELSE IF \/ Drifts(samples, [i \in DOMAIN track |-> track[i].price])
                \/ Drifts(samples, [i \in DOMAIN track |-> track[i].qty])
        THEN "drift"
        ELSE "open"

Decisions(samples) ==
    UNION {{[order |-> Group(samples[1], c)[rung], reason |-> Decision(samples, c, rung)] :
               rung \in DOMAIN Group(samples[1], c)} : c \in CohortsOf(samples[1])}

\* Every order of the plan's only cohort has proved stable.
StableRun(samples) ==
    /\ Cardinality(CohortsOf(samples[1])) = 1
    /\ \A d \in Decisions(samples) : d.reason = "stable"

StablePrefix(samples) ==
    LET c == CHOOSE c \in CohortsOf(samples[1]) : TRUE
    IN  Min({samples[TightCount(Track(samples, c, rung)) + 1].age :
                rung \in DOMAIN Group(samples[1], c)})

\* _prune_snapshots: what is older leaves at the old end.
Pruned(samples, oldest) ==
    SubSeq(samples, 1, Cardinality({i \in DOMAIN samples : samples[i].age <= oldest}))

Recorded_whole(samples) == samples

Recorded_oldestFirst(samples) == Tail(samples) \o <<samples[1]>>

\* A completed stable run ends the switching before it.
Recorded(samples) ==
    Pruned(samples, IF StableRun(samples) THEN StablePrefix(samples) ELSE Window)

-----------------------------------------------------------------------------
(* The execution cycle. *)

Init ==
    /\ ideal \in Ideals
    /\ history = <<>> /\ attempts = <<>>
    /\ decided = {} /\ planned = FALSE
    /\ sending = <<>> /\ putOff = FALSE
    /\ since = Window /\ overtaken = 0

\* What is older than the window is dropped before it is next looked at.  A cycle,
\* whose admission and connector calls no wait separates, is short against a tick.
Tick ==
    /\ ~planned /\ sending = <<>>
    /\ history' = Pruned([i \in DOMAIN history |-> [history[i] EXCEPT !.age = @ + 1]], Window)
    /\ attempts' = SubSeq([i \in DOMAIN attempts |-> attempts[i] + 1], 1,
                          Cardinality({i \in DOMAIN attempts : attempts[i] < Window}))
    /\ since' = Min({Window, since + 1})
    /\ putOff' = FALSE /\ overtaken' = 0
    /\ UNCHANGED <<ideal, decided, planned, sending>>

\* One cycle per tick.
NewPlan ==
    /\ ~planned /\ sending = <<>>
    /\ \A i \in DOMAIN history : history[i].age > 0

\* calc_orders_to_cancel_and_create: the strategy's orders, which may have moved,
\* are judged and recorded.  In an active risk phase they carry no evidence.
Plan ==
    /\ NewPlan
    /\ planned' = TRUE
    /\ \E wanted \in Ideals :
       LET samples == <<[age |-> 0, orders |-> wanted]>> \o history
           judged == Decisions(samples)
       IN  /\ ideal' = wanted
           /\ history' = Recorded(samples)
           /\ since' = IF StableRun(samples) THEN StablePrefix(samples) ELSE since
           /\ \E risk \in SUBSET CohortsOf(samples[1]) :
                 decided' = {d \in judged : d.order.cohort \notin risk}
                     \cup {[d EXCEPT !.reason = "risk"] : d \in {e \in judged : e.order.cohort \in risk}}
    /\ UNCHANGED <<attempts, sending, putOff, overtaken>>

\* The symbol left the universe, or the whole plan failed.
Forget ==
    /\ NewPlan
    /\ history # <<>>
    /\ history' = <<>> /\ since' = Window
    /\ UNCHANGED <<ideal, attempts, decided, planned, sending, putOff, overtaken>>

\* A fresh process remembers neither plans nor attempts.
Restart ==
    /\ history # <<>> \/ attempts # <<>>
    /\ history' = <<>> /\ attempts' = <<>> /\ decided' = {} /\ planned' = FALSE
    /\ sending' = <<>> /\ putOff' = FALSE
    /\ since' = Window /\ overtaken' = 0
    /\ UNCHANGED ideal

Evidenced_unproved == {d \in decided : d.reason # "stable"}

Evidenced == {d \in decided : d.reason \in {"reappearance", "drift"}}

\* The creates of the wave in the planner's order.  An evidenced one may be far,
\* lack a market distance ("blind"), or be exempt as a market, risk-critical or
\* near order; all others are exempt too ("free").
Waves ==
    {w \in UNION {[1..k -> {"far", "blind", "free"}] : k \in 0..(Cardinality(decided) + MaxOthers)} :
        Cardinality({i \in DOMAIN w : w[i] # "free"}) <= Cardinality(Evidenced)}

ProjectedUsage_attemptsOnly(admitted, i) == Len(attempts)

\* How much of the allowance is projected to be used before order i of the wave.
ProjectedUsage(admitted, i) ==
    Len(attempts) + Cardinality({j \in admitted : j < i})

\* _apply_order_churn_admission: the wave in its order, each order judged by those
\* admitted before it.
AdmittedOf(wave, admitted) ==
    admitted = {i \in DOMAIN wave :
                  \/ wave[i] = "free"
                  \/ /\ wave[i] = "far"
                     /\ ProjectedUsage(admitted, i) + 1 <= ActivationCount}

\* The admitted orders, still in the order of the wave.
Admit ==
    /\ planned
    /\ \E wave \in Waves : \E admitted \in SUBSET DOMAIN wave :
          /\ AdmittedOf(wave, admitted)
          /\ putOff' = (admitted # DOMAIN wave)
          /\ \E place \in [1..Cardinality(admitted) -> admitted] :
                /\ \A k, n \in DOMAIN place : k < n => place[k] < place[n]
                /\ sending' = [k \in DOMAIN place |-> wave[place[k]]]
    /\ planned' = FALSE /\ decided' = {} /\ overtaken' = 0
    /\ UNCHANGED <<ideal, history, attempts, since>>

\* After a wave attempts beyond the newest ActivationCount change no decision.
Charged(ages) ==
    IF Len(sending) > 1 THEN ages ELSE SubSeq(ages, 1, Min({ActivationCount, Len(ages)}))

\* record_create_connector_admission: one create enters the connector.  Creates
\* of critical priority were moved to the front of the wave.
Enter(i) ==
    /\ i = 1 \/ sending[i] = "free"
    /\ attempts' = Charged(<<0>> \o attempts)
    /\ sending' = RemoveAt(sending, i)
    /\ overtaken' = overtaken + IF \E j \in 1..(i-1) : sending[j] = "far" THEN 1 ELSE 0
    /\ UNCHANGED <<ideal, history, decided, planned, putOff, since>>

\* Held back after its admission by the batch capacity, the settling gate or a
\* changed account, a create is not charged.
Refuse(i) ==
    /\ attempts' = Charged(attempts)
    /\ sending' = RemoveAt(sending, i)
    /\ UNCHANGED <<ideal, history, decided, planned, putOff, since, overtaken>>

Send == \E i \in DOMAIN sending : Enter(i) \/ Refuse(i)

Next == Tick \/ Plan \/ Forget \/ Restart \/ Admit \/ Send

Spec == Init /\ [][Next]_vars

\* The execution loop keeps planning, and every admitted create is tried.  As
\* Plan is enabled in just the states of NewPlan and leaves them, the second
\* conjunct is its weak fairness.
FairSpec ==
    Spec /\ []<>~NewPlan /\ WF_vars(Tick) /\ WF_vars(Admit) /\ WF_vars(Send)

-----------------------------------------------------------------------------
(* Properties. *)

TypeOK ==
    /\ ideal \in Ideals
    /\ \A i \in DOMAIN history :
          /\ history[i] \in [age : 0..Window, orders : Ideals]
          /\ i > 1 => history[i-1].age < history[i].age
    /\ \A i \in DOMAIN attempts : attempts[i] \in 0..Window
    /\ decided \subseteq [order : Orders,
                         reason : {"stable", "reappearance", "drift", "open", "risk"}]
    /\ planned \in BOOLEAN
    /\ \A i \in DOMAIN sending : sending[i] \in {"far", "free"}
    /\ putOff \in BOOLEAN
    /\ since \in 0..Window
    /\ overtaken \in Nat

\* An order is called churn for coming and going only at its third appearance in
\* the plans since the last stable run of the symbol: the first appearance and
\* the first reappearance pass, and a later switch does not bring back switching
\* that a stable run had ended.
EvidenceSinceStable ==
    \A d \in decided : d.reason = "reappearance" =>
        LET there == {i \in DOMAIN history : /\ history[i].age <= since
                                             /\ d.order.cohort \in CohortsOf(history[i])}
        IN  Cardinality({i \in there : i + 1 \notin there}) >= 3

\* A far, evidenced create enters the connector only while the creates of the
\* window, other than the exempt ones of its own wave that overtook it, leave
\* room in the allowance, also when the creates admitted with it are refused.
FarWithinAllowance ==
    [][\A i \in DOMAIN sending :
          Enter(i) /\ sending[i] = "far" => Len(attempts) - overtaken < ActivationCount]_vars

\* Once the strategy stays with its orders their evidence fades, and in the end
\* no admission puts them off, however often plans fail or come late.
SettledOrderPlaced ==
    <>[][ideal' = ideal]_vars => <>[](~putOff)
=============================================================================
