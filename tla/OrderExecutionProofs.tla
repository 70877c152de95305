------------------------ MODULE OrderExecutionProofs ------------------------
(***************************************************************************)
(* What OrderExecution promises for every set of orders, every batch size  *)
(* and every horizon that satisfies TimingAssumption.                      *)
(***************************************************************************)
EXTENDS OrderExecution, TLAPS

-----------------------------------------------------------------------------
(* The inductive invariant.                                                 *)

\* At most one of each resting order, none of a market close.
Single == \A o \in Orders : live[o] <= 1 /\ (o \in Panics => live[o] = 0)

\* An order the listing may still hide was created by this bot, and was remembered at
\* that moment.
HiddenIsRemembered ==
    \A o \in Orders : live[o] = 1 /\ lag[o] > 0 => executed[o] >= Recall - Lag + lag[o]

\* From the read to the admission: what rests but was not listed is remembered for
\* the rest of the cycle.
UnlistedIsRemembered ==
    step \in {"ready", "cancelling"} =>
        \A o \in Orders \ local : live[o] = 1 => executed[o] >= Recall - Lag + 1 - age

\* After the admission: what is about to be created does not rest.
AdmittedIsAbsent ==
    /\ step = "cancelling" => toCreate \cap local = {}
    /\ step \in {"config", "sending"} => \A o \in toCreate : live[o] = 0
    /\ step = "sending" => \A o \in wire : live[o] = 0

\* Cancels sent since the read, and the creates their barrier lets through.
CancelsKnown ==
    /\ step = "ready" => unconfirmed = {}
    /\ step = "cancelling" => unconfirmed \subseteq toCancel
    /\ step \in {"config", "sending"} /\ CancelFirst =>
        \A o \in (toCreate \cup wire) \ Panics : SymbolOf[o] \notin SymbolsOf(unconfirmed)

\* An invalidation after the read shows in the confirmations until the plan is made,
\* and in the generation from then on.
DirtyIsKnown ==
    /\ step = "ready" /\ dirty => pend # "none"
    /\ step \in {"cancelling", "config", "sending"} /\ dirty => moved

IInv ==
    /\ TypeOK
    /\ Single
    /\ HiddenIsRemembered
    /\ UnlistedIsRemembered
    /\ AdmittedIsAbsent
    /\ CancelsKnown
    /\ DirtyIsKnown

-----------------------------------------------------------------------------
(* Types.                                                                   *)

\* The memory operators return memories.
LEMMA MemoryTypes ==
    ASSUME NEW m \in [Orders -> 0..Recall], NEW S
    PROVE  /\ Pruned(m) \in [Orders -> 0..Recall]
           /\ Noted(m, S) \in [Orders -> 0..Recall]
           /\ Aged(m) \in [Orders -> 0..Recall]
BY LimitsAssumption DEF Pruned, Noted, Aged, Recent

\* Orders have symbols of the account.
LEMMA SymbolTypes ==
    ASSUME NEW S \in SUBSET Orders
    PROVE  SymbolsOf(S) \subseteq Symbols
BY OrdersAssumption DEF SymbolsOf

\* Admission only filters.
LEMMA AdmittedFilters ==
    ASSUME NEW creates \in SUBSET Orders, NEW cancels, NEW changed
    PROVE  Admitted(creates, cancels, changed) \subseteq creates
BY DEF Admitted, AfterCancelFirst

\* Every step of the cycle keeps the types.
LEMMA TypeStep == TypeOK /\ [Next]_vars => TypeOK'
<1> SUFFICES ASSUME TypeOK, [Next]_vars PROVE TypeOK'
    OBVIOUS
<1> USE DEF TypeOK, planVars, memoryVars, bookVars
<1>1. CASE ReadOpenOrders
    <2>1. PICK L \in Listings :
             /\ local' = L
             /\ executed' = IF pend = "open_orders" THEN Pruned(executed) ELSE executed
             /\ cancelled' \in {Pruned(cancelled), cancelled}
             /\ pend' \in {"full", "none"}
             /\ step' \in {"top", "ready"}
        BY <1>1 DEF ReadOpenOrders
    <2>2. /\ executed' \in [Orders -> 0..Recall]
          /\ cancelled' \in [Orders -> 0..Recall]
        BY <2>1, MemoryTypes
    <2>3. local' \subseteq Orders
        BY <2>1 DEF Listings
    <2>4. /\ step = "top" /\ held' = {} /\ age' = 0 /\ dirty' = FALSE
          /\ unconfirmed' = {} /\ toCancel' = {} /\ toCreate' = {}
          /\ UNCHANGED <<wire, moved, live, lag, calm>>
        BY <1>1 DEF ReadOpenOrders
    <2>5. age' \in 0..MaxCycle
        BY <2>4, LimitsAssumption
    <2>6. wire' = {} /\ wire' \subseteq Orders
        BY <2>4
    <2>7. QED BY <2>1, <2>2, <2>3, <2>4, <2>5, <2>6
<1>2. CASE Plan
    <2>1. PICK ideal \in SUBSET Orders :
             \/ /\ step' = "top"
                /\ UNCHANGED <<planVars, moved, memoryVars, unconfirmed>>
             \/ /\ step' = "config"
                /\ toCreate' = Admitted(MissingOrders(ideal), {}, held)
                /\ executed' = Consulted(MissingOrders(ideal), {})
                /\ moved' = FALSE
                /\ UNCHANGED <<toCancel, wire, cancelled, unconfirmed>>
             \/ /\ step' = "cancelling"
                /\ toCancel' = StaleOrders(ideal)
                /\ toCreate' = MissingOrders(ideal)
                /\ \E sent \in SUBSET StaleOrders(ideal) :
                     /\ wire' = sent
                     /\ unconfirmed' = unconfirmed \cup sent
                     /\ cancelled' = Noted(cancelled, sent)
                /\ moved' = FALSE
                /\ UNCHANGED executed
        BY <1>2, OrdersAssumption DEF Plan, IdealOrders
    <2>2. /\ MissingOrders(ideal) \in SUBSET Orders
          /\ StaleOrders(ideal) \in SUBSET Orders
        BY DEF MissingOrders, StaleOrders
    <2>3. /\ executed' \in [Orders -> 0..Recall]
          /\ cancelled' \in [Orders -> 0..Recall]
        BY <2>1, MemoryTypes, SMTT(30) DEF Consulted
    <2>4. /\ toCreate' \subseteq Orders /\ toCancel' \subseteq Orders
          /\ wire' \subseteq Orders /\ unconfirmed' \subseteq Orders
        BY <2>1, <2>2, AdmittedFilters
    <2>5. step = "ready" /\ wire = {}
        BY <1>2 DEF Plan
    <2>6. moved' \in BOOLEAN /\ step' \in {"top", "config", "cancelling"}
        BY <2>1
    <2>7. step' # "cancelling" => wire' = {}
        BY <2>1, <2>5
    <2>8. UNCHANGED <<local, pend, held, age, live, lag, calm, dirty>>
        BY <1>2 DEF Plan
    <2>9. QED BY <2>3, <2>4, <2>6, <2>7, <2>8
<1>3. CASE CancelsAnswered
    <2>1. PICK gone \in SUBSET wire, failed \in SUBSET wire, doubtful \in SUBSET wire :
             /\ live' = [o \in Orders |-> IF o \in gone /\ live[o] > 0 THEN live[o] - 1 ELSE live[o]]
             /\ lag' = [o \in Orders |-> IF o \in gone /\ live[o] > 0 THEN Lag ELSE lag[o]]
             /\ held' = held \cup SymbolsOf(failed \cup doubtful)
             /\ pend' \in {"full", "open_orders", pend}
             /\ \/ /\ step' = "config"
                   /\ toCreate' = Admitted(toCreate, toCancel, held')
                   /\ executed' = Consulted(toCreate, toCancel)
                \/ /\ step' = "top"
                   /\ toCreate' = {}
                   /\ UNCHANGED executed
        BY <1>3 DEF CancelsAnswered
    <2>2. held' \subseteq Symbols
        BY <2>1, SymbolTypes
    <2>3. executed' \in [Orders -> 0..Recall]
        BY <2>1, MemoryTypes DEF Consulted
    <2>4. toCreate' \subseteq Orders
        BY <2>1, AdmittedFilters
    <2>5. live' \in [Orders -> 0..2]
        BY <2>1
    <2>6. lag' \in [Orders -> 0..Lag]
        BY <2>1, LimitsAssumption
    <2>7. QED BY <1>3, <2>1, <2>2, <2>3, <2>4, <2>5, <2>6 DEF CancelsAnswered
<1>4. CASE ConfigureCreates
    <2>1. toCreate' \subseteq toCreate
        BY <1>4 DEF ConfigureCreates, Unsuperseded
    <2>2. QED BY <1>4, <2>1 DEF ConfigureCreates
<1>5. ASSUME NEW o \in Orders, SendCreate(o) PROVE TypeOK'
    <2>1. Unsuperseded({o}) \subseteq Orders
        BY DEF Unsuperseded
    <2>2. QED BY <1>5, <2>1 DEF SendCreate
<1>6. CASE CreatesAnswered
    <2>1. PICK acked \in SUBSET wire, lost \in SUBSET wire, taken \in SUBSET wire :
             /\ live' = [o \in Orders |->
                           IF o \in (acked \cup taken) \ Panics /\ live[o] < 2
                           THEN live[o] + 1 ELSE live[o]]
             /\ lag' = [o \in Orders |-> IF o \in (acked \cup taken) \ Panics THEN Lag ELSE lag[o]]
             /\ executed' = Noted(executed, Remembered(acked, lost))
             /\ pend' \in {"open_orders", pend}
        BY <1>6 DEF CreatesAnswered
    <2>2. executed' \in [Orders -> 0..Recall]
        BY <2>1, MemoryTypes
    <2>3. live' \in [Orders -> 0..2]
        BY <2>1
    <2>4. lag' \in [Orders -> 0..Lag]
        BY <2>1, LimitsAssumption
    <2>5. QED BY <1>6, <2>1, <2>2, <2>3, <2>4 DEF CreatesAnswered
<1>7. CASE Invalidate \/ FillsDiscovered
    BY <1>7 DEF Invalidate, FillsDiscovered
<1>8. ASSUME NEW o \in Orders, Fill(o) PROVE TypeOK'
    <2>1. live' \in [Orders -> 0..2]
        BY <1>8 DEF Fill
    <2>2. lag' \in [Orders -> 0..Lag]
        BY <1>8, LimitsAssumption DEF Fill
    <2>3. QED BY <1>8, <2>1, <2>2 DEF Fill
<1>9. CASE Tick
    <2>1. /\ executed' \in [Orders -> 0..Recall]
          /\ cancelled' \in [Orders -> 0..Recall]
        BY <1>9, MemoryTypes DEF Tick
    <2>2. lag' \in [Orders -> 0..Lag]
        BY <1>9, LimitsAssumption DEF Tick
    <2>3. age' \in 0..MaxCycle
        BY <1>9, LimitsAssumption DEF Tick
    <2>4. QED BY <1>9, <2>1, <2>2, <2>3 DEF Tick
<1>10. CASE Restart
    <2>1. live' \in [Orders -> 0..2]
        BY <1>10 DEF Restart
    <2>2. Zero \in [Orders -> 0..Recall] /\ Zero \in [Orders -> 0..Lag] /\ 0 \in 0..MaxCycle
        BY LimitsAssumption DEF Zero
    <2>3. /\ step' = "top" /\ local' = {} /\ pend' = "none" /\ toCancel' = {}
          /\ toCreate' = {} /\ wire' = {} /\ held' = {} /\ moved' = FALSE
          /\ executed' = Zero /\ cancelled' = Zero /\ lag' = Zero /\ age' = 0
          /\ dirty' = FALSE /\ unconfirmed' = {} /\ UNCHANGED calm
        BY <1>10 DEF Restart
    <2>4. QED BY <2>1, <2>2, <2>3
<1>11. CASE CalmDown
    BY <1>11 DEF CalmDown
<1>12. CASE UNCHANGED vars
    BY <1>12 DEF vars
<1>13. QED
    BY <1>1, <1>2, <1>3, <1>4, <1>5, <1>6, <1>7, <1>8, <1>9, <1>10, <1>11, <1>12
    DEF Next, Cycle

-----------------------------------------------------------------------------
(* No order rests twice.                                                    *)

Book == Single /\ HiddenIsRemembered /\ UnlistedIsRemembered /\ AdmittedIsAbsent

\* Pruning keeps every entry young enough to stand for a hidden order.
LEMMA PrunedKeeps ==
    ASSUME NEW m \in [Orders -> 0..Recall], NEW o \in Orders, m[o] >= Recall - Lag + 1
    PROVE  Pruned(m)[o] = m[o]
BY LimitsAssumption, TimingAssumption DEF Pruned, Recent

\* The admission lets no create pass whose order rests already.
LEMMA AdmittedDoesNotRest ==
    ASSUME TypeOK, Single, UnlistedIsRemembered, step \in {"ready", "cancelling"},
           NEW creates \in SUBSET Orders, creates \cap local = {}, NEW cancels, NEW changed,
           NEW o \in Admitted(creates, cancels, changed)
    PROVE  live[o] = 0
<1>1. o \in creates /\ o \in Orders \ local /\ ~ Recent(executed, o)
    BY DEF Admitted, AfterCancelFirst
<1>2. executed[o] <= Recall - Window
    BY <1>1, LimitsAssumption DEF TypeOK, Recent
<1>3. ASSUME live[o] = 1 PROVE FALSE
    <2>1. executed[o] >= Recall - Lag + 1 - age
        BY <1>1, <1>3 DEF UnlistedIsRemembered
    <2>2. age <= MaxCycle /\ age \in Int
        BY LimitsAssumption DEF TypeOK
    <2>3. executed[o] \in Int
        BY <1>1 DEF TypeOK
    <2>4. QED BY <1>2, <2>1, <2>2, <2>3, LimitsAssumption, TimingAssumption
<1>4. live[o] \in 0..2 /\ live[o] <= 1
    BY <1>1 DEF TypeOK, Single
<1>5. QED BY <1>3, <1>4

\* Consulting the recent executions forgets none that hides an order.
LEMMA ConsultedKeeps ==
    ASSUME TypeOK, HiddenIsRemembered, NEW creates, NEW cancels,
           NEW o \in Orders, live[o] = 1, lag[o] > 0
    PROVE  Consulted(creates, cancels)[o] = executed[o]
<1>1. executed \in [Orders -> 0..Recall] /\ lag[o] \in Int
    BY LimitsAssumption DEF TypeOK
<1>2. executed[o] >= Recall - Lag + lag[o]
    BY DEF HiddenIsRemembered
<1>3. executed[o] >= Recall - Lag + 1
    BY <1>1, <1>2, LimitsAssumption
<1>4. QED BY <1>1, <1>3, PrunedKeeps DEF Consulted

\* Every step keeps the book free of duplicates.
LEMMA BookStep == TypeOK /\ Book /\ [Next]_vars => Book'
<1> SUFFICES ASSUME TypeOK, Book, [Next]_vars PROVE Book'
    OBVIOUS
<1> TypeOK'
    BY TypeStep
<1> /\ Single /\ HiddenIsRemembered /\ UnlistedIsRemembered /\ AdmittedIsAbsent
    BY DEF Book
<1>1. CASE ReadOpenOrders
    <2>1. PICK L \in Listings :
             /\ local' = L
             /\ executed' \in {Pruned(executed), executed}
             /\ step' \in {"top", "ready"}
        BY <1>1 DEF ReadOpenOrders
    <2>2. age' = 0 /\ UNCHANGED <<live, lag>>
        BY <1>1 DEF ReadOpenOrders, bookVars
    <2>3. ASSUME NEW o \in Orders, live[o] = 1, lag[o] > 0
          PROVE  /\ executed'[o] >= Recall - Lag + lag[o]
                 /\ executed'[o] >= Recall - Lag + 1
        <3>1. executed[o] >= Recall - Lag + lag[o]
            BY <2>3 DEF HiddenIsRemembered
        <3>2. lag[o] \in Int /\ lag[o] >= 1 /\ executed \in [Orders -> 0..Recall]
            BY <2>3, LimitsAssumption DEF TypeOK
        <3>3. executed[o] >= Recall - Lag + 1
            BY <3>1, <3>2, LimitsAssumption
        <3>4. executed'[o] = executed[o]
            BY <2>1, <3>2, <3>3, PrunedKeeps
        <3>5. QED BY <3>1, <3>3, <3>4
    <2>4. Single' /\ HiddenIsRemembered'
        BY <2>2, <2>3 DEF Single, HiddenIsRemembered
    <2>5. ASSUME NEW o \in Orders \ L, live[o] = 1 PROVE lag[o] > 0
        <3>1. o \notin Panics
            BY <2>5 DEF Single
        <3>2. lag[o] # 0
            BY <2>5, <3>1 DEF Listings
        <3>3. QED BY <3>2, LimitsAssumption DEF TypeOK
    <2>6. UnlistedIsRemembered'
        <3>1. \A o \in Orders \ local' : live'[o] = 1 => executed'[o] >= Recall - Lag + 1
            BY <2>1, <2>2, <2>3, <2>5
        <3>2. Recall - Lag + 1 - age' = Recall - Lag + 1
            BY <2>2, LimitsAssumption
        <3>3. QED BY <3>1, <3>2 DEF UnlistedIsRemembered
    <2>7. AdmittedIsAbsent'
        BY <2>1 DEF AdmittedIsAbsent
    <2>8. QED BY <2>4, <2>6, <2>7 DEF Book
<1>2. CASE Plan
    <2>1. PICK ideal \in SUBSET Orders :
             \/ step' = "top" /\ UNCHANGED executed
             \/ /\ step' = "config"
                /\ toCreate' = Admitted(MissingOrders(ideal), {}, held)
                /\ executed' = Consulted(MissingOrders(ideal), {})
             \/ /\ step' = "cancelling"
                /\ toCreate' = MissingOrders(ideal)
                /\ UNCHANGED executed
        BY <1>2, OrdersAssumption DEF Plan, IdealOrders, memoryVars
    <2>2. step = "ready" /\ UNCHANGED <<local, age, live, lag>>
        BY <1>2 DEF Plan, bookVars
    <2>3. MissingOrders(ideal) \in SUBSET Orders /\ MissingOrders(ideal) \cap local = {}
        BY DEF MissingOrders
    <2>4. Single'
        BY <2>2 DEF Single
    <2>5. HiddenIsRemembered'
        <3>1. \A o \in Orders : live[o] = 1 /\ lag[o] > 0 => executed'[o] = executed[o]
            BY <2>1, ConsultedKeeps
        <3>2. QED BY <2>2, <3>1 DEF HiddenIsRemembered
    <2>6. UnlistedIsRemembered'
        BY <2>1, <2>2 DEF UnlistedIsRemembered
    <2>7. step' = "config" => \A o \in toCreate' : live[o] = 0
        BY <2>1, <2>2, <2>3, AdmittedDoesNotRest
    <2>8. AdmittedIsAbsent'
        BY <2>1, <2>2, <2>3, <2>7 DEF AdmittedIsAbsent
    <2>9. QED BY <2>4, <2>5, <2>6, <2>8 DEF Book
<1>3. CASE CancelsAnswered
    <2>1. PICK gone \in SUBSET wire :
             /\ live' = [o \in Orders |-> IF o \in gone /\ live[o] > 0 THEN live[o] - 1 ELSE live[o]]
             /\ lag' = [o \in Orders |-> IF o \in gone /\ live[o] > 0 THEN Lag ELSE lag[o]]
             /\ \/ /\ step' = "config"
                   /\ toCreate' = Admitted(toCreate, toCancel, held')
                   /\ executed' = Consulted(toCreate, toCancel)
                \/ /\ step' = "top"
                   /\ UNCHANGED executed
        BY <1>3 DEF CancelsAnswered
    <2>2. step = "cancelling"
        BY <1>3 DEF CancelsAnswered
    <2>3. ASSUME NEW o \in Orders
          PROVE  /\ live'[o] <= live[o] /\ live'[o] \in 0..2 /\ live[o] \in 0..1
                 /\ live'[o] = 1 => lag'[o] = lag[o] /\ live[o] = 1
        <3>1. live[o] \in 0..1
            BY DEF TypeOK, Single
        <3>2. QED BY <2>1, <3>1
    <2>4. Single'
        BY <2>3 DEF Single
    <2>5. HiddenIsRemembered'
        <3>1. \A o \in Orders : live[o] = 1 /\ lag[o] > 0 => executed'[o] = executed[o]
            BY <2>1, ConsultedKeeps
        <3>2. QED BY <2>3, <3>1 DEF HiddenIsRemembered
    <2>6. UnlistedIsRemembered'
        BY <2>1 DEF UnlistedIsRemembered
    <2>7. ASSUME step' = "config", NEW o \in toCreate' PROVE live'[o] = 0
        <3>1. toCreate \in SUBSET Orders /\ toCreate \cap local = {}
            BY <2>2 DEF TypeOK, AdmittedIsAbsent
        <3>2. o \in Admitted(toCreate, toCancel, held')
            BY <2>1, <2>7
        <3>3. live[o] = 0
            BY <2>2, <3>1, <3>2, AdmittedDoesNotRest
        <3>4. o \in Orders
            BY <3>1, <3>2, AdmittedFilters
        <3>5. QED BY <2>3, <3>3, <3>4
    <2>8. AdmittedIsAbsent'
        BY <2>1, <2>7 DEF AdmittedIsAbsent
    <2>9. QED BY <2>4, <2>5, <2>6, <2>8 DEF Book
<1>4. CASE ConfigureCreates
    <2>1. /\ step = "config" /\ step' \in {"top", "sending"} /\ wire = {}
          /\ toCreate' \subseteq toCreate
          /\ UNCHANGED <<local, age, live, lag, executed, wire>>
        BY <1>4 DEF ConfigureCreates, Unsuperseded, TypeOK, memoryVars, bookVars
    <2>2. Single' /\ HiddenIsRemembered' /\ UnlistedIsRemembered'
        BY <2>1 DEF Single, HiddenIsRemembered, UnlistedIsRemembered
    <2>3. AdmittedIsAbsent'
        BY <2>1 DEF AdmittedIsAbsent
    <2>4. QED BY <2>2, <2>3 DEF Book
<1>5. ASSUME NEW o \in Orders, SendCreate(o) PROVE Book'
    <2>1. /\ step = "sending" /\ step' = step /\ o \in toCreate
          /\ toCreate' \subseteq toCreate /\ wire' \subseteq wire \cup {o}
          /\ UNCHANGED <<local, age, live, lag, executed>>
        BY <1>5 DEF SendCreate, Unsuperseded, memoryVars, bookVars
    <2>2. Single' /\ HiddenIsRemembered' /\ UnlistedIsRemembered'
        BY <2>1 DEF Single, HiddenIsRemembered, UnlistedIsRemembered
    <2>3. AdmittedIsAbsent'
        BY <2>1 DEF AdmittedIsAbsent
    <2>4. QED BY <2>2, <2>3 DEF Book
<1>6. CASE CreatesAnswered
    <2>1. PICK acked \in SUBSET wire, lost \in SUBSET wire, taken \in SUBSET wire :
             /\ taken \subseteq lost
             /\ live' = [o \in Orders |->
                           IF o \in (acked \cup taken) \ Panics /\ live[o] < 2
                           THEN live[o] + 1 ELSE live[o]]
             /\ lag' = [o \in Orders |-> IF o \in (acked \cup taken) \ Panics THEN Lag ELSE lag[o]]
             /\ executed' = Noted(executed, acked \cup lost)
        BY <1>6 DEF CreatesAnswered, Remembered
    <2>2. step = "sending" /\ step' = "top"
        BY <1>6 DEF CreatesAnswered
    <2>3. ASSUME NEW o \in Orders
          PROVE  /\ live'[o] <= 1 /\ (o \in Panics => live'[o] = 0)
                 /\ live'[o] = 1 /\ lag'[o] > 0 => executed'[o] >= Recall - Lag + lag'[o]
        <3>1. live[o] \in 0..1 /\ executed[o] \in 0..Recall /\ lag[o] \in 0..Lag
            BY DEF TypeOK, Single
        <3>2. CASE o \in (acked \cup taken) \ Panics
            <4>1. live[o] = 0
                BY <2>2, <3>2 DEF AdmittedIsAbsent
            <4>2. live'[o] = 1 /\ lag'[o] = Lag /\ executed'[o] = Recall
                BY <2>1, <3>2, <4>1 DEF Noted
            <4>3. QED BY <3>2, <4>2, LimitsAssumption
        <3>3. CASE o \notin (acked \cup taken) \ Panics
            <4>1. live'[o] = live[o] /\ lag'[o] = lag[o]
                BY <2>1, <3>3
            <4>2. executed'[o] >= executed[o] /\ executed'[o] \in Int
                BY <2>1, <3>1, LimitsAssumption DEF Noted
            <4>3. live[o] = 1 /\ lag[o] > 0 => executed[o] >= Recall - Lag + lag[o]
                BY DEF HiddenIsRemembered
            <4>4. o \in Panics => live[o] = 0
                BY DEF Single
            <4>5. QED BY <3>1, <4>1, <4>2, <4>3, <4>4, LimitsAssumption
        <3>4. QED BY <3>2, <3>3
    <2>4. Single' /\ HiddenIsRemembered'
        BY <2>3 DEF Single, HiddenIsRemembered
    <2>5. UnlistedIsRemembered' /\ AdmittedIsAbsent'
        BY <2>2 DEF UnlistedIsRemembered, AdmittedIsAbsent
    <2>6. QED BY <2>4, <2>5 DEF Book
<1>7. CASE Invalidate \/ FillsDiscovered
    BY <1>7 DEF Invalidate, FillsDiscovered, planVars, memoryVars, bookVars, Book, Single, HiddenIsRemembered,
                UnlistedIsRemembered, AdmittedIsAbsent
<1>8. ASSUME NEW f \in Orders, Fill(f) PROVE Book'
    <2>1. UNCHANGED <<step, local, toCreate, wire, executed, age>>
        BY <1>8 DEF Fill, planVars, memoryVars
    <2>2. ASSUME NEW o \in Orders
          PROVE  /\ live'[o] <= live[o] /\ live'[o] \in 0..2 /\ live[o] \in 0..1
                 /\ live'[o] = 1 => lag'[o] = lag[o] /\ live[o] = 1
        <3>1. live[o] \in 0..1 /\ live[f] \in 0..1 /\ live[f] > 0
            BY <1>8 DEF TypeOK, Single, Fill
        <3>2. /\ live'[o] = IF o = f THEN live[f] - 1 ELSE live[o]
              /\ lag'[o] = IF o = f THEN Lag ELSE lag[o]
            BY <1>8 DEF Fill, TypeOK
        <3>3. QED BY <3>1, <3>2
    <2>3. Single' /\ HiddenIsRemembered' /\ UnlistedIsRemembered'
        BY <2>1, <2>2 DEF Single, HiddenIsRemembered, UnlistedIsRemembered
    <2>4. toCreate \subseteq Orders /\ wire \subseteq Orders
        BY DEF TypeOK
    <2>5. AdmittedIsAbsent'
        BY <2>1, <2>2, <2>4 DEF AdmittedIsAbsent
    <2>6. QED BY <2>3, <2>5 DEF Book
<1>9. CASE Tick
    <2>1. /\ UNCHANGED <<step, local, toCreate, wire, live>>
          /\ step # "top" => age' = age + 1
        BY <1>9 DEF Tick, planVars
    <2>2. ASSUME NEW o \in Orders
          PROVE  /\ executed'[o] >= executed[o] - 1 /\ executed'[o] >= 0
                 /\ executed'[o] \in Int /\ executed[o] \in Int
                 /\ lag'[o] > 0 => lag[o] > 0 /\ lag'[o] = lag[o] - 1
                 /\ lag[o] \in Int /\ lag'[o] \in Int
        <3>1. executed[o] \in 0..Recall /\ lag[o] \in 0..Lag
            BY DEF TypeOK
        <3>2. /\ executed'[o] = IF executed[o] > 0 THEN executed[o] - 1 ELSE 0
              /\ lag'[o] = IF lag[o] > 0 THEN lag[o] - 1 ELSE 0
            BY <1>9 DEF Tick, Aged
        <3>3. QED BY <3>1, <3>2, LimitsAssumption
    <2>3. Single'
        BY <2>1 DEF Single
    <2>4. HiddenIsRemembered'
        <3>1. SUFFICES ASSUME NEW o \in Orders, live[o] = 1, lag'[o] > 0
                       PROVE  executed'[o] >= Recall - Lag + lag'[o]
            BY <2>1 DEF HiddenIsRemembered
        <3>2. executed[o] >= Recall - Lag + lag[o]
            BY <2>2, <3>1 DEF HiddenIsRemembered
        <3>3. QED BY <2>2, <3>1, <3>2, LimitsAssumption
    <2>5. UnlistedIsRemembered'
        <3>1. SUFFICES ASSUME NEW o \in Orders \ local, live[o] = 1,
                              step \in {"ready", "cancelling"}
                       PROVE  executed'[o] >= Recall - Lag + 1 - age'
            BY <2>1 DEF UnlistedIsRemembered
        <3>2. executed[o] >= Recall - Lag + 1 - age
            BY <3>1 DEF UnlistedIsRemembered
        <3>3. age' = age + 1 /\ age \in Int
            BY <2>1, <3>1, LimitsAssumption DEF TypeOK
        <3>4. QED BY <2>2, <3>2, <3>3, LimitsAssumption
    <2>6. AdmittedIsAbsent'
        BY <2>1 DEF AdmittedIsAbsent
    <2>7. QED BY <2>3, <2>4, <2>5, <2>6 DEF Book
<1>10. CASE Restart
    <2>1. PICK done \in SUBSET (wire \ Panics) :
             live' = [o \in Orders |->
                        CASE o \in done /\ step = "sending" /\ live[o] < 2 -> live[o] + 1
                          [] o \in done /\ step = "cancelling" /\ live[o] > 0 -> live[o] - 1
                          [] OTHER -> live[o]]
        BY <1>10 DEF Restart
    <2>2. step' = "top" /\ lag' = Zero
        BY <1>10 DEF Restart
    <2>3. ASSUME NEW o \in Orders PROVE live'[o] <= 1 /\ (o \in Panics => live'[o] = 0)
        <3>1. live[o] \in 0..1 /\ (o \in Panics => live[o] = 0)
            BY DEF TypeOK, Single
        <3>2. o \in done /\ step = "sending" => live[o] = 0
            BY DEF AdmittedIsAbsent
        <3>3. o \in done => o \notin Panics
            OBVIOUS
        <3>4. QED BY <2>1, <3>1, <3>2, <3>3
    <2>4. Single' /\ HiddenIsRemembered'
        BY <2>2, <2>3 DEF Single, HiddenIsRemembered, Zero
    <2>5. UnlistedIsRemembered' /\ AdmittedIsAbsent'
        BY <2>2 DEF UnlistedIsRemembered, AdmittedIsAbsent
    <2>6. QED BY <2>4, <2>5 DEF Book
<1>11. CASE CalmDown
    BY <1>11 DEF CalmDown, planVars, memoryVars, bookVars, Book, Single, HiddenIsRemembered,
                 UnlistedIsRemembered, AdmittedIsAbsent
<1>12. CASE UNCHANGED vars
    BY <1>12 DEF vars, planVars, memoryVars, bookVars, Book, Single, HiddenIsRemembered,
                 UnlistedIsRemembered, AdmittedIsAbsent
<1>13. QED
    BY <1>1, <1>2, <1>3, <1>4, <1>5, <1>6, <1>7, <1>8, <1>9, <1>10, <1>11, <1>12
    DEF Next, Cycle

-----------------------------------------------------------------------------
(* Creates respect the cancels and the invalidations of their cycle.         *)

\* SymbolsOf is monotone.
LEMMA SymbolsOfMonotone ==
    ASSUME NEW S, NEW T, S \subseteq T
    PROVE  SymbolsOf(S) \subseteq SymbolsOf(T)
BY DEF SymbolsOf

\* The cancel-first barrier keeps ordinary creates off the symbols of the plan's cancels.
LEMMA AdmittedAvoidsCancels ==
    ASSUME NEW creates, NEW cancels, NEW changed, CancelFirst,
           NEW o \in Admitted(creates, cancels, changed) \ Panics
    PROVE  SymbolOf[o] \notin SymbolsOf(cancels)
BY DEF Admitted, AfterCancelFirst

\* Every step keeps CancelsKnown.
LEMMA CancelsStep == TypeOK /\ CancelsKnown /\ [Next]_vars => CancelsKnown'
<1> SUFFICES ASSUME TypeOK, CancelsKnown, [Next]_vars PROVE CancelsKnown'
    OBVIOUS
<1> USE DEF CancelsKnown
<1>1. CASE ReadOpenOrders
    <2>1. step' \in {"top", "ready"} /\ unconfirmed' = {}
        BY <1>1 DEF ReadOpenOrders
    <2>2. QED BY <2>1
<1>2. CASE Plan
    <2>1. PICK ideal :
             \/ step' = "top"
             \/ /\ step' = "config"
                /\ UNCHANGED <<unconfirmed, wire>>
             \/ /\ step' = "cancelling"
                /\ toCancel' = StaleOrders(ideal)
                /\ \E sent \in SUBSET StaleOrders(ideal) : unconfirmed' = unconfirmed \cup sent
        BY <1>2 DEF Plan
    <2>2. step = "ready" /\ unconfirmed = {}
        BY <1>2 DEF Plan
    <2>3. SymbolsOf({}) = {}
        BY DEF SymbolsOf
    <2>4. QED BY <2>1, <2>2, <2>3
<1>3. CASE CancelsAnswered
    <2>1. \/ /\ step' = "config"
             /\ toCreate' = Admitted(toCreate, toCancel, held')
          \/ step' = "top"
        BY <1>3 DEF CancelsAnswered
    <2>2. step = "cancelling" /\ wire' = {} /\ UNCHANGED <<toCancel, unconfirmed>>
        BY <1>3 DEF CancelsAnswered
    <2>3. SymbolsOf(unconfirmed) \subseteq SymbolsOf(toCancel)
        BY <2>2, SymbolsOfMonotone
    <2>4. ASSUME step' = "config", CancelFirst, NEW o \in toCreate' \ Panics
          PROVE  SymbolOf[o] \notin SymbolsOf(unconfirmed)
        <3>1. o \in Admitted(toCreate, toCancel, held') \ Panics
            BY <2>1, <2>4
        <3>2. SymbolOf[o] \notin SymbolsOf(toCancel)
            BY <2>4, <3>1, AdmittedAvoidsCancels
        <3>3. QED BY <2>3, <3>2
    <2>5. QED BY <2>1, <2>2, <2>4
<1>4. CASE ConfigureCreates
    <2>1. /\ step = "config" /\ step' \in {"top", "sending"}
          /\ toCreate' \subseteq toCreate
          /\ UNCHANGED <<wire, unconfirmed>>
        BY <1>4 DEF ConfigureCreates, Unsuperseded
    <2>2. QED BY <2>1
<1>5. ASSUME NEW o \in Orders, SendCreate(o) PROVE CancelsKnown'
    <2>1. /\ step = "sending" /\ step' = step /\ o \in toCreate
          /\ toCreate' \subseteq toCreate /\ wire' \subseteq wire \cup {o}
          /\ UNCHANGED unconfirmed
        BY <1>5 DEF SendCreate, Unsuperseded
    <2>2. QED BY <2>1
<1>6. CASE CreatesAnswered
    BY <1>6 DEF CreatesAnswered
<1>7. CASE Invalidate \/ FillsDiscovered
    BY <1>7 DEF Invalidate, FillsDiscovered, planVars
<1>8. ASSUME NEW f \in Orders, Fill(f) PROVE CancelsKnown'
    BY <1>8 DEF Fill, planVars
<1>9. CASE Tick
    BY <1>9 DEF Tick, planVars
<1>10. CASE Restart
    BY <1>10 DEF Restart
<1>11. CASE CalmDown
    BY <1>11 DEF CalmDown, planVars
<1>12. CASE UNCHANGED vars
    BY <1>12 DEF vars, planVars
<1>13. QED
    BY <1>1, <1>2, <1>3, <1>4, <1>5, <1>6, <1>7, <1>8, <1>9, <1>10, <1>11, <1>12
    DEF Next, Cycle

\* Every step keeps DirtyIsKnown.
LEMMA DirtyStep == DirtyIsKnown /\ [Next]_vars => DirtyIsKnown'
<1> SUFFICES ASSUME DirtyIsKnown, [Next]_vars PROVE DirtyIsKnown'
    OBVIOUS
<1> USE DEF DirtyIsKnown
<1>1. CASE ReadOpenOrders
    BY <1>1 DEF ReadOpenOrders
<1>2. CASE Plan
    <2>1. \/ step' = "top"
          \/ pend = "none" /\ step' \in {"config", "cancelling"}
        BY <1>2 DEF Plan
    <2>2. step = "ready" /\ UNCHANGED dirty
        BY <1>2 DEF Plan
    <2>3. QED BY <2>1, <2>2
<1>3. CASE CancelsAnswered
    BY <1>3 DEF CancelsAnswered
<1>4. CASE ConfigureCreates
    BY <1>4 DEF ConfigureCreates
<1>5. ASSUME NEW o \in Orders, SendCreate(o) PROVE DirtyIsKnown'
    BY <1>5 DEF SendCreate
<1>6. CASE CreatesAnswered
    BY <1>6 DEF CreatesAnswered
<1>7. CASE Invalidate \/ FillsDiscovered
    BY <1>7 DEF Invalidate, FillsDiscovered
<1>8. ASSUME NEW f \in Orders, Fill(f) PROVE DirtyIsKnown'
    BY <1>8 DEF Fill
<1>9. CASE Tick
    BY <1>9 DEF Tick
<1>10. CASE Restart
    BY <1>10 DEF Restart
<1>11. CASE CalmDown
    BY <1>11 DEF CalmDown
<1>12. CASE UNCHANGED vars
    BY <1>12 DEF vars
<1>13. QED
    BY <1>1, <1>2, <1>3, <1>4, <1>5, <1>6, <1>7, <1>8, <1>9, <1>10, <1>11, <1>12
    DEF Next, Cycle

-----------------------------------------------------------------------------
(* The theorems.                                                            *)

\* The inductive invariant holds in every state of every execution.
THEOREM ExecutionInvariance == Spec => []IInv
<1>1. Init => IInv
    <2> SUFFICES ASSUME Init PROVE IInv
        OBVIOUS
    <2>1. Zero \in [Orders -> 0..Recall] /\ Zero \in [Orders -> 0..Lag]
        BY LimitsAssumption DEF Zero
    <2>2. Zero \in [Orders -> 0..2] /\ 0 \in 0..MaxCycle
        BY LimitsAssumption DEF Zero
    <2>3. TypeOK
        BY <2>1, <2>2 DEF Init, TypeOK
    <2>4. Single /\ HiddenIsRemembered
        BY DEF Init, Zero, Single, HiddenIsRemembered
    <2>5. UnlistedIsRemembered /\ AdmittedIsAbsent /\ CancelsKnown /\ DirtyIsKnown
        BY DEF Init, UnlistedIsRemembered, AdmittedIsAbsent, CancelsKnown, DirtyIsKnown
    <2>6. QED BY <2>3, <2>4, <2>5 DEF IInv
<1>2. IInv /\ [Next]_vars => IInv'
    BY TypeStep, BookStep, CancelsStep, DirtyStep DEF IInv, Book
<1>3. QED BY <1>1, <1>2, PTL DEF Spec

\* Every execution is well typed.
THEOREM ExecutionTypes == Spec => []TypeOK
<1>1. IInv => TypeOK
    BY DEF IInv
<1>2. QED BY <1>1, ExecutionInvariance, PTL

\* No order ever rests twice on the exchange, however many orders, symbols and lost
\* answers there are, as long as the 15 s memory of execute_orders_parent covers the
\* exchange's lag and one cycle.
THEOREM NeverDuplicated == Spec => []NoDuplicateOrder
<1>1. IInv => NoDuplicateOrder
    BY DEF IInv, Single, NoDuplicateOrder
<1>2. QED BY <1>1, ExecutionInvariance, PTL

\* The cancel-first barrier of execute_order_plan: no ordinary create is in the
\* connector while a cancel of its symbol awaits confirmation.
THEOREM CancelsComeFirst == Spec => []ReplacedAfterConfirmation
<1>1. IInv => ReplacedAfterConfirmation
    BY DEF IInv, CancelsKnown, ReplacedAfterConfirmation
<1>2. QED BY <1>1, ExecutionInvariance, PTL

\* The generation check of execute_order: no ordinary create enters the connector
\* after an invalidation that its plan does not know.
THEOREM CreatesAreCurrent == Spec => SentOnCurrentState
<1>1. IInv /\ [Next]_vars =>
        [\A o \in wire' \ wire : step = "sending" => o \in Panics \/ ~ dirty]_vars
    <2> SUFFICES ASSUME IInv, Next, step = "sending", dirty,
                        NEW c \in wire' \ wire
                 PROVE  c \in Panics
        OBVIOUS
    <2>1. moved
        BY DEF IInv, DirtyIsKnown
    <2>2. ASSUME NEW o \in Orders, SendCreate(o) PROVE c \in Panics
        BY <2>1, <2>2 DEF SendCreate, Unsuperseded
    <2>3. CASE CreatesAnswered
        BY <2>3 DEF CreatesAnswered
    <2>4. CASE Invalidate \/ FillsDiscovered \/ Tick \/ Restart \/ CalmDown
        BY <2>4 DEF Invalidate, FillsDiscovered, Tick, Restart, CalmDown, planVars
    <2>5. ASSUME NEW f \in Orders, Fill(f) PROVE c \in Panics
        BY <2>5 DEF Fill, planVars
    <2>6. ~ (ReadOpenOrders \/ Plan \/ CancelsAnswered \/ ConfigureCreates)
        BY DEF ReadOpenOrders, Plan, CancelsAnswered, ConfigureCreates
    <2>7. QED BY <2>2, <2>3, <2>4, <2>5, <2>6 DEF Next, Cycle
<1>2. QED BY <1>1, ExecutionInvariance, PTL DEF Spec, SentOnCurrentState

=============================================================================
