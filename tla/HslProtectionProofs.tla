------------------------- MODULE HslProtectionProofs -------------------------
(***************************************************************************)
(* What HslProtection promises for every set of scopes, every grace and    *)
(* every bound on time.                                                    *)
(*                                                                         *)
(* The argument goes row by row.  A step that is not a restart changes a   *)
(* scope's row in one of eight ways (RowChange), and leaves the journal    *)
(* alone only when what the journal must remember did not change.  The     *)
(* invariants are then shown for the row changes and for Restart.          *)
(***************************************************************************)
EXTENDS HslProtection, TLAPS

-----------------------------------------------------------------------------
(* Definitions of the argument.                                             *)

\* What one step of the running process may do to a row.
RowChange(h, r) ==
    \/ r = h
    \/ r = [h EXCEPT !.since = OutageStart(h)]
    \/ r = EvaluatedHealth(h)
    \/ r = NoHealth
    \/ r = [h EXCEPT !.since = NoTime]
    \/ h.committed /\ r = FlatHealth(h)
    \/ r = CommittedHealth(h)
    \/ h.held /\ r = [EvaluatedHealth(h) EXCEPT !.held = FALSE]

\* What a restart must bring back of a row.
Same(h, r) ==
    /\ r.since = h.since /\ r.started = h.started
    /\ r.committed = h.committed /\ r.held = h.held
    /\ h.held => r.flat = h.flat
    /\ h.evaluated => r.evaluated

\* A row with times the clock can show.
Timed(h) ==
    /\ h \in Health
    /\ h.since \in NoTime..MaxTime
    /\ h.started \in NoTime..MaxTime
    /\ h.flat \in NoTime..MaxTime

\* The types of what is saved.
RowTypes ==
    /\ now \in 0..MaxTime
    /\ invalid \in BOOLEAN /\ durable \in BOOLEAN
    /\ health \in [Scopes -> Health]
    /\ journal \in [readable : BOOLEAN, unverified : BOOLEAN, rows : [Scopes -> Health]]
    /\ \A s \in Scopes : Timed(health[s]) /\ Timed(journal.rows[s])

\* A durable journal agrees with the process.
JournalAgrees ==
    durable => /\ journal.unverified = invalid
               /\ \A s \in Scopes : Same(journal.rows[s], health[s])

-----------------------------------------------------------------------------
(* Rows.                                                                    *)

\* Updates of a row are rows.
LEMMA UpdatedRow ==
    ASSUME NEW h \in Health, NEW t \in Int, NEW w \in Int, NEW u \in BOOLEAN, NEW v \in BOOLEAN
    PROVE  /\ [h EXCEPT !.since = t] \in Health
           /\ [h EXCEPT !.held = v] \in Health
           /\ [h EXCEPT !.since = t, !.evaluated = u] \in Health
           /\ [h EXCEPT !.committed = u, !.held = v, !.flat = t] \in Health
           /\ [h EXCEPT !.committed = u, !.held = v, !.started = w, !.flat = t] \in Health
BY DEF Health

\* evaluated_successfully, field by field.
LEMMA EvaluatedFields ==
    ASSUME NEW h \in Health
    PROVE  /\ EvaluatedHealth(h) \in Health
           /\ EvaluatedHealth(h).since = NoTime
           /\ EvaluatedHealth(h).evaluated
           /\ EvaluatedHealth(h).committed = h.committed
           /\ EvaluatedHealth(h).held = h.held
           /\ EvaluatedHealth(h).started = h.started
           /\ EvaluatedHealth(h).flat = h.flat
<1>1. NoTime \in Int /\ TRUE \in BOOLEAN
    BY DEF NoTime
<1>2. EvaluatedHealth(h) \in Health
    BY <1>1, UpdatedRow DEF EvaluatedHealth
<1>3. QED BY <1>2 DEF Health, EvaluatedHealth

\* release_flat_hold after the replay's evaluation, field by field.
LEMMA ReleasedFields ==
    ASSUME NEW h \in Health, NEW r, r = [EvaluatedHealth(h) EXCEPT !.held = FALSE]
    PROVE  /\ r \in Health
           /\ r.since = NoTime
           /\ r.committed = h.committed
           /\ r.held = FALSE
           /\ r.started = h.started
           /\ r.flat = h.flat
<1>1. NoTime \in Int /\ FALSE \in BOOLEAN
    BY DEF NoTime
<1>2. r \in Health
    BY <1>1, EvaluatedFields, UpdatedRow
<1>3. QED BY <1>2 DEF Health, EvaluatedHealth

\* confirm_flat, field by field.
LEMMA FlatFields ==
    ASSUME NEW h \in Health, now \in Int
    PROVE  /\ FlatHealth(h) \in Health
           /\ FlatHealth(h).since = h.since
           /\ FlatHealth(h).evaluated = h.evaluated
           /\ FlatHealth(h).committed = FALSE
           /\ FlatHealth(h).held = TRUE
           /\ FlatHealth(h).started = h.started
           /\ FlatHealth(h).flat = now
<1>1. TRUE \in BOOLEAN /\ FALSE \in BOOLEAN
    OBVIOUS
<1>2. FlatHealth(h) \in Health
    BY <1>1, UpdatedRow DEF FlatHealth
<1>3. QED BY <1>2 DEF Health, FlatHealth

\* The commitment of an exit, field by field.
LEMMA CommittedFields ==
    ASSUME NEW h \in Health, now \in Int
    PROVE  /\ CommittedHealth(h) \in Health
           /\ CommittedHealth(h).since = h.since
           /\ CommittedHealth(h).evaluated = h.evaluated
           /\ CommittedHealth(h).committed = TRUE
           /\ CommittedHealth(h).held = FALSE
           /\ CommittedHealth(h).started = now
           /\ CommittedHealth(h).flat = NoTime
<1>1. NoTime \in Int /\ TRUE \in BOOLEAN /\ FALSE \in BOOLEAN
    BY DEF NoTime
<1>2. CommittedHealth(h) \in Health
    BY <1>1, UpdatedRow DEF CommittedHealth
<1>3. QED BY <1>2 DEF Health, CommittedHealth

\* A clock that is moved keeps the other fields.
LEMMA MovedFields ==
    ASSUME NEW h \in Health, NEW t \in Int, NEW r, r = [h EXCEPT !.since = t]
    PROVE  /\ r \in Health
           /\ r.since = t
           /\ r.evaluated = h.evaluated
           /\ r.committed = h.committed
           /\ r.held = h.held
           /\ r.started = h.started
           /\ r.flat = h.flat
BY DEF Health

\* A scope the manager does not know.
LEMMA NoHealthFields ==
    /\ NoHealth \in Health
    /\ NoHealth.since = NoTime /\ NoHealth.started = NoTime /\ NoHealth.flat = NoTime
    /\ NoHealth.committed = FALSE /\ NoHealth.held = FALSE
BY DEF NoHealth, Health, NoTime

\* The outage clock shows a time that has come, and never moves forward.
LEMMA OutageStartBounds ==
    ASSUME NEW h, Timed(h), now \in 0..MaxTime
    PROVE  /\ OutageStart(h) \in 0..MaxTime
           /\ OutageStart(h) <= now
           /\ h.since # NoTime => OutageStart(h) <= h.since
<1>1. MaxTime \in Nat /\ Grace \in Nat
    BY ProtectionAssumption
<1>2. GraceSpent \in 0..MaxTime /\ GraceSpent <= now
    BY <1>1 DEF GraceSpent
<1>3. QED BY <1>1, <1>2 DEF OutageStart, Timed, NoTime, Health

\* The row changes return rows whose times the clock can show.
LEMMA RowChangeTimed ==
    ASSUME NEW h, NEW r, Timed(h), now \in 0..MaxTime, RowChange(h, r)
    PROVE  Timed(r)
<1>1. /\ MaxTime \in Nat /\ NoTime \in Int /\ now \in Int
      /\ now \in NoTime..MaxTime /\ NoTime \in NoTime..MaxTime
    BY ProtectionAssumption DEF NoTime
<1>2. /\ h \in Health /\ h.since \in NoTime..MaxTime
      /\ h.started \in NoTime..MaxTime /\ h.flat \in NoTime..MaxTime
    BY DEF Timed
<1>3. OutageStart(h) \in NoTime..MaxTime /\ OutageStart(h) \in Int
    BY OutageStartBounds, <1>1 DEF NoTime
<1>4. CASE r = h
    BY <1>4
<1>5. CASE r = [h EXCEPT !.since = OutageStart(h)]
    BY <1>2, <1>3, <1>5, MovedFields DEF Timed
<1>6. CASE r = EvaluatedHealth(h)
    BY <1>1, <1>2, <1>6, EvaluatedFields DEF Timed
<1>7. CASE r = NoHealth
    BY <1>1, <1>7, NoHealthFields DEF Timed
<1>8. CASE r = [h EXCEPT !.since = NoTime]
    BY <1>1, <1>2, <1>8, MovedFields DEF Timed
<1>9. CASE r = FlatHealth(h)
    BY <1>1, <1>2, <1>9, FlatFields DEF Timed
<1>10. CASE r = CommittedHealth(h)
    BY <1>1, <1>2, <1>10, CommittedFields DEF Timed
<1>11. CASE r = [EvaluatedHealth(h) EXCEPT !.held = FALSE]
    BY <1>1, <1>2, <1>11, ReleasedFields DEF Timed
<1>12. QED
    BY <1>4, <1>5, <1>6, <1>7, <1>8, <1>9, <1>10, <1>11 DEF RowChange

-----------------------------------------------------------------------------
(* Steps.                                                                   *)

\* The account, the clock and the loop's own bookkeeping: no row is written.
Quiet ==
    \/ ReadForExits \/ SendCloses \/ Decide \/ ReadForDecision \/ BeginWeigh \/ WeighDone
    \/ StagedRefresh \/ EnsureReady \/ EvaluateDone \/ ReweighDone \/ Plan
    \/ Tick \/ RetryTime \/ CalmDown
    \/ \E s \in Scopes : Opens(s) \/ CloseFills(s)

\* Quiet steps write no row.
LEMMA QuietRows == Quiet => UNCHANGED <<health, journalVars, exited>>
<1> USE DEF historyVars
<1>1. ReadForExits \/ SendCloses \/ Decide \/ ReadForDecision
        => UNCHANGED <<health, journalVars, exited>>
    BY DEF ReadForExits, SendCloses, Decide, ReadForDecision
<1>2. BeginWeigh \/ WeighDone \/ StagedRefresh \/ EnsureReady
        => UNCHANGED <<health, journalVars, exited>>
    BY DEF BeginWeigh, WeighDone, StagedRefresh, EnsureReady
<1>3. EvaluateDone \/ ReweighDone \/ Plan => UNCHANGED <<health, journalVars, exited>>
    BY DEF EvaluateDone, ReweighDone, Plan
<1>4. Tick \/ RetryTime \/ CalmDown => UNCHANGED <<health, journalVars, exited>>
    BY DEF Tick, RetryTime, CalmDown
<1>5. ASSUME NEW s \in Scopes, Opens(s) \/ CloseFills(s)
      PROVE  UNCHANGED <<health, journalVars, exited>>
    BY <1>5 DEF Opens, CloseFills
<1>6. QED BY <1>1, <1>2, <1>3, <1>4, <1>5 DEF Quiet

\* Everything but a restart: rows change in one of the eight ways, and the file is
\* written unless what it must remember is the same.
Effects ==
    /\ health' \in [Scopes -> Health]
    /\ \A s \in Scopes : RowChange(health[s], health'[s])
    /\ \/ Save(health')
       \/ UNCHANGED journalVars /\ \A s \in Scopes : Same(health[s], health'[s])

\* unavailable() of any set of scopes.
LEMMA UnavailableEffects ==
    ASSUME RowTypes, NEW S, Unavailable(S)
    PROVE  Effects
<1> DEFINE h == [s \in Scopes |-> IF s \in S
                               THEN [health[s] EXCEPT !.since = OutageStart(health[s])]
                               ELSE health[s]]
<1>1. health' = h /\ (Save(h) \/ (h = health /\ UNCHANGED journalVars))
    BY DEF Unavailable
<1>2. \A s \in Scopes : RowChange(health[s], h[s])
    BY DEF RowChange
<1>3. \A s \in Scopes : Timed(h[s])
    BY <1>2, RowChangeTimed DEF RowTypes
<1>4. h \in [Scopes -> Health]
    BY <1>3 DEF Timed
<1>5. QED BY <1>1, <1>2, <1>4 DEF Effects, Same

\* One row is rewritten.
LEMMA OneRowEffects ==
    ASSUME RowTypes, NEW s \in Scopes, NEW r, RowChange(health[s], r),
           health' = [health EXCEPT ![s] = r],
           Save(health') \/ (UNCHANGED journalVars /\ Same(health[s], r))
    PROVE  Effects
<1>1. Timed(r)
    BY RowChangeTimed DEF RowTypes
<1>2. health' \in [Scopes -> Health]
    BY <1>1 DEF RowTypes, Timed
<1>3. \A x \in Scopes : RowChange(health[x], health'[x])
    BY DEF RowChange, RowTypes
<1>4. UNCHANGED journalVars /\ Same(health[s], r) => \A x \in Scopes : Same(health[x], health'[x])
    BY DEF Same, RowTypes
<1>5. QED BY <1>2, <1>3, <1>4 DEF Effects

\* A successful evaluation of a scope.
LEMMA RecordEffects ==
    ASSUME RowTypes, NEW s \in Scopes, RecordEvaluation(s)
    PROVE  Effects
<1>1. RowChange(health[s], EvaluatedHealth(health[s]))
    BY DEF RowChange
<1>2. health' = [health EXCEPT ![s] = EvaluatedHealth(health[s])]
    BY DEF RecordEvaluation, RowTypes
<1>3. Save(health') \/ (UNCHANGED journalVars /\ health[s].since = NoTime)
    BY DEF RecordEvaluation
<1>4. health[s].since = NoTime => Same(health[s], EvaluatedHealth(health[s]))
    BY EvaluatedFields DEF Same, RowTypes
<1>5. QED BY <1>1, <1>2, <1>3, <1>4, OneRowEffects

\* restore_protection: the rows a configuration change leaves.
LEMMA ReconcileEffects ==
    ASSUME RowTypes, StartCycle
    PROVE  Effects
<1> DEFINE h == [s \in Scopes |-> Reconciled(s)]
<1>1. health' = h /\ (IF h # health THEN Save(h) ELSE UNCHANGED journalVars)
    BY DEF StartCycle
<1>2. \A s \in Scopes : RowChange(health[s], h[s])
    BY DEF RowChange, Reconciled
<1>3. \A s \in Scopes : Timed(h[s])
    BY <1>2, RowChangeTimed DEF RowTypes
<1>4. h \in [Scopes -> Health]
    BY <1>3 DEF Timed
<1>5. QED BY <1>1, <1>2, <1>4 DEF Effects, Same

\* Steps that leave health and file alone have effects too.
LEMMA NoEffects ==
    ASSUME RowTypes, UNCHANGED <<health, journalVars>>
    PROVE  Effects
BY DEF Effects, RowTypes, RowChange, Same

\* Every step but a restart.
LEMMA StepEffects ==
    ASSUME RowTypes, [Next]_vars, ~ Restart
    PROVE  Effects
<1>1. CASE Quiet
    BY <1>1, QuietRows, NoEffects
<1>2. CASE UNCHANGED vars
    BY <1>2, NoEffects DEF vars
<1>3. CASE StartCycle
    BY <1>3, ReconcileEffects
<1>4. CASE ExitsFail \/ DecisionFails \/ StagedRefreshFails \/ MissingHistory
    <2>1. Unavailable(Affected) \/ UNCHANGED <<health, journalVars>>
        BY <1>4 DEF ExitsFail, DecisionFails, StagedRefreshFails, MissingHistory, Defer
    <2>2. QED BY <2>1, UnavailableEffects, NoEffects
<1>5. ASSUME NEW s \in Scopes, ConfirmFlat(s)
      PROVE  Effects
    <2>1. /\ health' = [health EXCEPT ![s] = FlatHealth(health[s])] /\ Save(health')
          /\ health[s].committed
        BY <1>5 DEF ConfirmFlat, pending, PendingIn, RowTypes
    <2>2. QED BY <2>1, OneRowEffects DEF RowChange
<1>6. ASSUME NEW s \in Scopes, Observe(s)
      PROVE  Effects
    BY <1>6, UnavailableEffects DEF Observe
<1>7. ASSUME NEW s \in Scopes, Weigh(s)
      PROVE  Effects
    <2>1. \/ health' = [health EXCEPT ![s] = CommittedHealth(health[s])] /\ Save(health')
          \/ UNCHANGED <<health, journalVars>>
        BY <1>7 DEF Weigh, RowTypes
    <2>2. QED BY <2>1, OneRowEffects, NoEffects DEF RowChange
<1>8. ASSUME NEW s \in Scopes, Replay(s)
      PROVE  Effects
    <2>1. /\ health' = [health EXCEPT ![s] = [EvaluatedHealth(health[s]) EXCEPT !.held = FALSE]]
          /\ Save(health') /\ health[s].held
        BY <1>8 DEF Replay, RowTypes
    <2>2. QED BY <2>1, OneRowEffects DEF RowChange
<1>9. ASSUME NEW s \in Scopes, Check(s) \/ ReplayPublishes(s)
      PROVE  Effects
    BY <1>9, RecordEffects DEF Check, ReplayPublishes
<1>10. ASSUME NEW s \in Scopes, EvaluationFails(s)
       PROVE  Effects
    BY <1>10, UnavailableEffects DEF EvaluationFails, Defer
<1>11. QED
    BY <1>1, <1>2, <1>3, <1>4, <1>5, <1>6, <1>7, <1>8, <1>9, <1>10 DEF Next, Loop, Quiet

-----------------------------------------------------------------------------
(* Types of rows, and the agreement of the file with the process.           *)

\* Only Tick moves the clock.
LEMMA ClockTypes ==
    ASSUME now \in 0..MaxTime, [Next]_vars
    PROVE  now' \in 0..MaxTime
<1>1. CASE Tick
    BY <1>1, ProtectionAssumption DEF Tick
<1>2. CASE ~ Tick
    <2>1. now' = now
        BY <1>2
        DEF Next, Loop, vars, StartCycle, ReadForExits, ConfirmFlat, SendCloses, Observe, Decide,
            ReadForDecision, BeginWeigh, Weigh, WeighDone, StagedRefresh, EnsureReady, Replay,
            Check, EvaluationFails, EvaluateDone, ReweighDone, Plan, ExitsFail, DecisionFails,
            StagedRefreshFails, MissingHistory, RetryTime, Opens, CloseFills, ReplayPublishes,
            Restart, CalmDown
    <2>2. QED BY <2>1
<1>3. QED BY <1>1, <1>2

\* A save writes rows, the flag and nothing else; it fails without a trace in the file.
LEMMA SaveFile ==
    ASSUME NEW h \in [Scopes -> Health], \A s \in Scopes : Timed(h[s]), RowTypes, Save(h)
    PROVE  /\ invalid' = invalid
           /\ durable' \in BOOLEAN
           /\ journal' \in [readable : BOOLEAN, unverified : BOOLEAN, rows : [Scopes -> Health]]
           /\ \A s \in Scopes : Timed(journal'.rows[s])
           /\ ~ durable' => journal' = journal
           /\ durable' => /\ journal'.readable
                          /\ journal'.unverified = invalid
                          /\ \A s \in Scopes : journal'.rows[s] = IF Persisted(h[s]) THEN h[s]
                                                                                    ELSE NoHealth
<1> DEFINE rows == [s \in Scopes |-> IF Persisted(h[s]) THEN h[s] ELSE NoHealth]
<1>1. Timed(NoHealth)
    BY NoHealthFields, ProtectionAssumption DEF Timed, NoTime
<1>2. /\ rows \in [Scopes -> Health]
      /\ \A s \in Scopes : Timed(rows[s])
    BY <1>1, NoHealthFields
<1>3. /\ invalid' = invalid
      /\ \/ /\ journal' = [readable |-> TRUE, unverified |-> invalid, rows |-> rows]
            /\ durable' = TRUE
         \/ /\ durable' = FALSE
            /\ journal' = journal
    BY DEF Save
<1> HIDE DEF rows
<1>4. CASE durable' = FALSE /\ journal' = journal
    BY <1>3, <1>4 DEF RowTypes
<1>5. CASE durable' = TRUE /\ journal' = [readable |-> TRUE, unverified |-> invalid, rows |-> rows]
    <2>1. journal'.rows = rows /\ journal'.readable = TRUE /\ journal'.unverified = invalid
        BY <1>5
    <2>2. journal' \in [readable : BOOLEAN, unverified : BOOLEAN, rows : [Scopes -> Health]]
        BY <1>2, <1>5 DEF RowTypes
    <2>3. \A s \in Scopes : journal'.rows[s] = IF Persisted(h[s]) THEN h[s] ELSE NoHealth
        BY <2>1 DEF rows
    <2>4. QED BY <1>2, <1>3, <1>5, <2>1, <2>2, <2>3
<1>6. QED BY <1>3, <1>4, <1>5

\* What the file holds after a save is what a restart needs.
LEMMA SavedRow ==
    ASSUME NEW h \in Health
    PROVE  Same(IF Persisted(h) THEN h ELSE NoHealth, h)
BY NoHealthFields DEF Same, Persisted, Troubled, Health, NoHealth

\* The two ways a restart begins: the file could not be used, or its rows are taken over.
Lost == health' = Empty /\ durable' = FALSE /\ invalid' = TRUE /\ outage' = outage
Loaded ==
    /\ health' = journal.rows
    /\ durable' = TRUE
    /\ invalid' = journal.unverified /\ journal'.unverified = journal.unverified
    /\ Loads(journal')
    /\ (durable /\ outage' = outage) \/ outage' = [s \in Scopes |-> NoTime]

\* A restart keeps the rows of the file, and forgets an exit only if the file was damaged
\* or the last save had failed.
LEMMA RestartRows ==
    ASSUME RowTypes, Restart
    PROVE  /\ journal' \in [readable : BOOLEAN, unverified : BOOLEAN, rows : [Scopes -> Health]]
           /\ journal'.rows = journal.rows
           /\ Lost \/ Loaded
           /\ exited' # {} => /\ exited' = exited /\ closed' = closed /\ durable
                              /\ Loads(journal) => Loaded
<1>1. PICK damaged \in BOOLEAN :
        LET j == [journal EXCEPT !.readable = @ /\ ~ damaged]
            ok == Loads(j)
            excused == damaged \/ ~ durable
        IN  /\ journal' = j
            /\ health' = IF ok THEN j.rows ELSE Empty
            /\ invalid' = IF ok THEN j.unverified ELSE TRUE
            /\ durable' = ok
            /\ outage' = IF ok /\ excused THEN [s \in Scopes |-> NoTime] ELSE outage
            /\ exited' = IF excused THEN {} ELSE exited
            /\ closed' = IF excused THEN [s \in Scopes |-> NoTime] ELSE closed
    BY DEF Restart
<1> DEFINE j == [journal EXCEPT !.readable = @ /\ ~ damaged]
<1>2. /\ j \in [readable : BOOLEAN, unverified : BOOLEAN, rows : [Scopes -> Health]]
      /\ j.rows = journal.rows /\ j.unverified = journal.unverified
      /\ j.readable = (journal.readable /\ ~ damaged)
    BY DEF RowTypes
<1>3. Loads(j) \in BOOLEAN
    BY <1>2 DEF Loads
<1>4. ~ damaged /\ Loads(journal) => Loads(j)
    BY <1>2 DEF Loads
<1> HIDE DEF j
<1>5. /\ journal' = j
      /\ health' = IF Loads(j) THEN j.rows ELSE Empty
      /\ invalid' = IF Loads(j) THEN j.unverified ELSE TRUE
      /\ durable' = Loads(j)
      /\ outage' = IF Loads(j) /\ (damaged \/ ~ durable) THEN [s \in Scopes |-> NoTime] ELSE outage
      /\ exited' = IF damaged \/ ~ durable THEN {} ELSE exited
      /\ closed' = IF damaged \/ ~ durable THEN [s \in Scopes |-> NoTime] ELSE closed
    BY <1>1 DEF j
<1>6. CASE Loads(j)
    <2>1. Loaded
        BY <1>2, <1>5, <1>6 DEF Loaded
    <2>2. QED BY <1>2, <1>5, <2>1
<1>7. CASE ~ Loads(j)
    <2>1. Lost
        BY <1>3, <1>5, <1>7 DEF Lost
    <2>2. QED BY <1>2, <1>4, <1>5, <1>7, <2>1
<1>8. QED BY <1>6, <1>7

\* Rows keep their types.
LEMMA RowTypesStep == RowTypes /\ [Next]_vars => RowTypes'
<1> SUFFICES ASSUME RowTypes, [Next]_vars PROVE RowTypes'
    OBVIOUS
<1>1. now' \in 0..MaxTime
    BY ClockTypes DEF RowTypes
<1>2. CASE Restart
    <2>1. Timed(NoHealth) /\ Empty \in [Scopes -> Health] /\ \A s \in Scopes : Empty[s] = NoHealth
        BY NoHealthFields, ProtectionAssumption DEF Timed, NoTime, Empty
    <2>2. Lost \/ Loaded
        BY <1>2, RestartRows
    <2>3. health' \in [Scopes -> Health] /\ invalid' \in BOOLEAN /\ durable' \in BOOLEAN
        BY <2>1, <2>2 DEF Lost, Loaded, RowTypes
    <2>4. \A s \in Scopes : Timed(health'[s])
        BY <2>1, <2>2 DEF Lost, Loaded, RowTypes
    <2>5. /\ journal' \in [readable : BOOLEAN, unverified : BOOLEAN, rows : [Scopes -> Health]]
          /\ \A s \in Scopes : Timed(journal'.rows[s])
        BY <1>2, RestartRows DEF RowTypes
    <2>6. QED BY <1>1, <2>3, <2>4, <2>5 DEF RowTypes, Timed
<1>3. CASE ~ Restart
    <2>1. Effects
        BY <1>3, StepEffects
    <2>2. health' \in [Scopes -> Health] /\ \A s \in Scopes : Timed(health'[s])
        BY <2>1, RowChangeTimed DEF Effects, RowTypes
    <2>3. CASE Save(health')
        BY <1>1, <2>2, <2>3, SaveFile DEF RowTypes, Timed
    <2>4. CASE UNCHANGED journalVars
        BY <1>1, <2>2, <2>4 DEF RowTypes, journalVars, Timed
    <2>5. QED BY <2>1, <2>3, <2>4 DEF Effects
<1>4. QED BY <1>2, <1>3

\* A durable file agrees with the process.
LEMMA AgreesStep == RowTypes /\ JournalAgrees /\ [Next]_vars => JournalAgrees'
<1> SUFFICES ASSUME RowTypes, JournalAgrees, [Next]_vars PROVE JournalAgrees'
    OBVIOUS
<1>1. CASE Restart
    <2>1. journal'.rows = journal.rows /\ (Lost \/ Loaded)
        BY <1>1, RestartRows
    <2>2. CASE Lost
        BY <2>2 DEF Lost, JournalAgrees
    <2>3. CASE Loaded
        BY <2>1, <2>3 DEF Loaded, JournalAgrees, Same
    <2>4. QED BY <2>1, <2>2, <2>3
<1>2. CASE ~ Restart
    <2>1. Effects
        BY <1>2, StepEffects
    <2>2. health' \in [Scopes -> Health] /\ \A s \in Scopes : Timed(health'[s])
        BY <2>1, RowChangeTimed DEF Effects, RowTypes
    <2>3. CASE Save(health')
        BY <2>2, <2>3, SaveFile, SavedRow DEF JournalAgrees
    <2>4. CASE UNCHANGED journalVars /\ \A s \in Scopes : Same(health[s], health'[s])
        BY <2>4 DEF JournalAgrees, Same, journalVars
    <2>5. QED BY <2>1, <2>3, <2>4 DEF Effects
<1>3. QED BY <1>1, <1>2

-----------------------------------------------------------------------------
(* The outage clock, whatever the wall clock does.                          *)

\* No change of a row moves a running clock forward.
LEMMA RowChangeClock ==
    ASSUME NEW h, NEW r, Timed(h), now \in 0..MaxTime, RowChange(h, r),
           h.since # NoTime, r.since # NoTime
    PROVE  r.since <= h.since
<1>1. h \in Health /\ h.since \in Int /\ NoTime \in Int /\ now \in Int
    BY DEF Timed, Health, NoTime
<1>2. OutageStart(h) <= h.since /\ OutageStart(h) \in Int
    BY OutageStartBounds
<1>3. CASE r.since = h.since
    BY <1>1, <1>3
<1>4. CASE r = [h EXCEPT !.since = OutageStart(h)]
    BY <1>1, <1>2, <1>4, MovedFields
<1>5. r # EvaluatedHealth(h) /\ r # NoHealth /\ r # [h EXCEPT !.since = NoTime]
    BY <1>1, EvaluatedFields, NoHealthFields, MovedFields
<1>6. r # [EvaluatedHealth(h) EXCEPT !.held = FALSE]
    BY <1>1, ReleasedFields
<1>7. r = h \/ r = FlatHealth(h) \/ r = CommittedHealth(h) => r.since = h.since
    BY <1>1, FlatFields, CommittedFields
<1>8. QED BY <1>3, <1>4, <1>5, <1>6, <1>7 DEF RowChange

\* A step never moves a running clock forward.
LEMMA ClockStep ==
    ASSUME RowTypes, JournalAgrees, [Next]_vars, durable, NEW s \in Scopes,
           health[s].since # NoTime, health'[s].since # NoTime
    PROVE  health'[s].since <= health[s].since
<1>1. Timed(health[s]) /\ health[s] \in Health /\ health[s].since \in Int
    BY DEF RowTypes, Timed, Health
<1>2. CASE Restart
    <2>1. Lost \/ Loaded
        BY <1>2, RestartRows
    <2>2. ~ Lost
        BY NoHealthFields DEF Lost, Empty
    <2>3. health'[s].since = health[s].since
        BY <2>1, <2>2 DEF Loaded, JournalAgrees, Same
    <2>4. QED BY <1>1, <2>3
<1>3. CASE ~ Restart
    <2>1. RowChange(health[s], health'[s]) /\ now \in 0..MaxTime
        BY <1>3, StepEffects DEF Effects, RowTypes
    <2>2. QED BY <1>1, <2>1, RowChangeClock
<1>4. QED BY <1>2, <1>3

\* The first process starts with an empty file.
LEMMA InitRows == Init => RowTypes /\ JournalAgrees
<1> SUFFICES ASSUME Init PROVE RowTypes /\ JournalAgrees
    OBVIOUS
<1>1. Timed(NoHealth) /\ Empty \in [Scopes -> Health] /\ \A s \in Scopes : Empty[s] = NoHealth
    BY NoHealthFields, ProtectionAssumption DEF Timed, NoTime, Empty
<1>2. /\ now = 0 /\ health = Empty /\ invalid = FALSE /\ durable = TRUE
      /\ journal = [readable |-> TRUE, unverified |-> FALSE, rows |-> Empty]
    BY DEF Init
<1>3. journal.rows = Empty /\ journal.unverified = FALSE
    BY <1>2
<1>4. journal \in [readable : BOOLEAN, unverified : BOOLEAN, rows : [Scopes -> Health]]
    BY <1>1, <1>2
<1>5. now \in 0..MaxTime
    BY <1>2, ProtectionAssumption
<1>6. RowTypes
    BY <1>1, <1>2, <1>3, <1>4, <1>5 DEF RowTypes
<1>7. JournalAgrees
    BY <1>1, <1>2, <1>3 DEF JournalAgrees, Same
<1>8. QED BY <1>6, <1>7

\* The rows and the file at any time.
LEMMA RowsAlways == Spec => [](RowTypes /\ JournalAgrees)
<1>1. RowTypes /\ JournalAgrees /\ [Next]_vars => (RowTypes /\ JournalAgrees)'
    BY RowTypesStep, AgreesStep
<1>2. QED BY <1>1, InitRows, PTL DEF Spec

\* unavailable(), the journal and restarts never grant a renewed grace: while an outage
\* lasts its clock does not move forward, even if the wall clock is set back.
THEOREM ClockKept == Spec => ClockNeverRenewed
<1>1. RowTypes /\ JournalAgrees /\ [Next]_vars =>
        [\A s \in Scopes :
            durable /\ health[s].since # NoTime /\ health'[s].since # NoTime
                => health'[s].since <= health[s].since]_vars
    BY ClockStep
<1>2. QED BY <1>1, RowsAlways, PTL DEF Spec, ClockNeverRenewed

-----------------------------------------------------------------------------
(* Type correctness.                                                        *)

\* The types of everything that is not saved.
LoopTypes ==
    /\ config \in [Scopes -> {"active", "inactive", "off"}]
    /\ recovery \in {"none", "open", "proved"}
    /\ waiting \in BOOLEAN
    /\ step \in Steps
    /\ view \subseteq Scopes /\ todo \subseteq Scopes
    /\ served \in BOOLEAN /\ again \in BOOLEAN /\ failed \in BOOLEAN
    /\ busy \subseteq Scopes /\ closing \subseteq Scopes
    /\ calm \in BOOLEAN
    /\ outage \in [Scopes -> Int] /\ closed \in [Scopes -> Int]
    /\ exited \subseteq Scopes /\ watched \subseteq Scopes

\* Where protection leads.
LEMMA AfterTypes == AfterProtection \in Steps /\ AfterExits \in Steps
BY DEF AfterProtection, AfterExits, Steps

\* defer() and unavailable() keep the types.
LEMMA DeferTypes ==
    ASSUME RowTypes, LoopTypes, NEW S
    PROVE  /\ Unavailable(S) => outage' \in [Scopes -> Int]
           /\ Defer(S) => /\ outage' \in [Scopes -> Int]
                          /\ recovery' \in {"none", "open", "proved"} /\ waiting' \in BOOLEAN
<1>1. Unavailable(S) => outage' \in [Scopes -> Int]
    BY DEF Unavailable, RowTypes, LoopTypes
<1>2. QED BY <1>1 DEF Defer

\* Every step keeps the types of what is not saved.
LEMMA LoopTypesStep == RowTypes /\ LoopTypes /\ [Next]_vars => LoopTypes'
<1> SUFFICES ASSUME RowTypes, LoopTypes, [Next]_vars PROVE LoopTypes'
    OBVIOUS
<1>0. now \in Int /\ NoTime \in Int
    BY DEF RowTypes, NoTime
<1> USE <1>0 DEF LoopTypes, loopVars, accountVars, historyVars
<1>1. CASE StartCycle
    BY <1>1 DEF StartCycle, Steps
<1>2. CASE ReadForExits \/ ReadForDecision \/ StagedRefresh
    BY <1>2 DEF ReadForExits, ReadForDecision, StagedRefresh, Steps
<1>3. CASE ExitsFail
    BY <1>3, AfterTypes, DeferTypes DEF ExitsFail
<1>4. CASE DecisionFails
    BY <1>4, AfterTypes, DeferTypes DEF DecisionFails
<1>5. CASE StagedRefreshFails
    BY <1>5, DeferTypes DEF StagedRefreshFails, Steps
<1>6. CASE MissingHistory
    BY <1>6, DeferTypes DEF MissingHistory, Steps
<1>7. ASSUME NEW s \in Scopes, ConfirmFlat(s) PROVE LoopTypes'
    BY <1>7 DEF ConfirmFlat
<1>8. CASE SendCloses
    <2>1. pending \subseteq Scopes
        BY DEF pending, PendingIn
    <2>2. QED BY <1>8, <2>1, AfterTypes DEF SendCloses
<1>9. ASSUME NEW s \in Scopes, Observe(s) PROVE LoopTypes'
    BY <1>9, DeferTypes DEF Observe
<1>10. CASE Decide
    BY <1>10, AfterTypes DEF Decide, Steps
<1>11. CASE BeginWeigh
    BY <1>11 DEF BeginWeigh, Weighable, Affected, Steps
<1>12. ASSUME NEW s \in Scopes, Weigh(s) PROVE LoopTypes'
    <2>1. again' \in BOOLEAN /\ exited' \subseteq Scopes /\ closed' \in [Scopes -> Int]
        BY <1>12 DEF Weigh
    <2>2. todo' \subseteq Scopes
        BY <1>12 DEF Weigh
    <2>3. UNCHANGED <<config, recovery, waiting, step, view, served, failed, busy, closing,
                      calm, outage, watched>>
        BY <1>12 DEF Weigh
    <2>4. QED BY <2>1, <2>2, <2>3
<1>13. CASE WeighDone
    BY <1>13, AfterTypes DEF WeighDone, Steps
<1>14. CASE EnsureReady
    <2>1. todo' \subseteq Scopes /\ failed' \in BOOLEAN
        BY <1>14 DEF EnsureReady
    <2>2. QED BY <1>14, <2>1 DEF EnsureReady, Steps
<1>15. ASSUME NEW s \in Scopes, Replay(s) PROVE LoopTypes'
    BY <1>15 DEF Replay
<1>16. ASSUME NEW s \in Scopes, Check(s) PROVE LoopTypes'
    BY <1>16 DEF Check, RecordEvaluation
<1>17. ASSUME NEW s \in Scopes, EvaluationFails(s) PROVE LoopTypes'
    <2>1. todo' \subseteq Scopes
        BY <1>17 DEF EvaluationFails
    <2>2. QED BY <1>17, <2>1, DeferTypes DEF EvaluationFails
<1>18. CASE EvaluateDone
    BY <1>18 DEF EvaluateDone, Weighable, Affected, Steps
<1>19. CASE ReweighDone
    BY <1>19 DEF ReweighDone, Steps
<1>20. CASE Plan
    <2>1. busy' \subseteq Scopes
        BY <1>20 DEF Plan, Tradable
    <2>2. QED BY <1>20, <2>1 DEF Plan, Steps
<1>21. CASE Tick \/ RetryTime \/ CalmDown
    BY <1>21 DEF Tick, RetryTime, CalmDown
<1>22. ASSUME NEW s \in Scopes, Opens(s) \/ CloseFills(s) PROVE LoopTypes'
    BY <1>22 DEF Opens, CloseFills
<1>23. ASSUME NEW s \in Scopes, ReplayPublishes(s) PROVE LoopTypes'
    BY <1>23 DEF ReplayPublishes, RecordEvaluation
<1>24. CASE Restart
    <2>1. /\ config' \in [Scopes -> {"active", "inactive", "off"}]
          /\ recovery' = "none" /\ waiting' = FALSE /\ step' = "top"
          /\ view' = {} /\ todo' = {} /\ watched' = {}
          /\ served' = FALSE /\ again' = FALSE /\ failed' = FALSE
          /\ UNCHANGED <<busy, closing, calm>>
        BY <1>24 DEF Restart
    <2>2. outage' \in [Scopes -> Int] /\ closed' \in [Scopes -> Int]
        BY <1>24 DEF Restart
    <2>3. exited' \subseteq Scopes
        BY <1>24 DEF Restart
    <2> QED
        BY <2>1, <2>2, <2>3 DEF Steps
<1>25. CASE UNCHANGED vars
    BY <1>25 DEF vars
<1>26. QED
    BY <1>1, <1>2, <1>3, <1>4, <1>5, <1>6, <1>7, <1>8, <1>9, <1>10, <1>11, <1>12, <1>13, <1>14,
       <1>15, <1>16, <1>17, <1>18, <1>19, <1>20, <1>21, <1>22, <1>23, <1>24, <1>25
    DEF Next, Loop

\* The two halves are the type invariant.
LEMMA TypesSplit == RowTypes /\ LoopTypes => TypeOK
<1> SUFFICES ASSUME RowTypes, LoopTypes PROVE TypeOK
    OBVIOUS
<1>1. \A s \in Scopes : /\ health[s].since \in NoTime..MaxTime
                        /\ health[s].started \in NoTime..MaxTime
                        /\ health[s].flat \in NoTime..MaxTime
    BY DEF RowTypes, Timed
<1>2. /\ now \in 0..MaxTime /\ health \in [Scopes -> Health]
      /\ invalid \in BOOLEAN /\ durable \in BOOLEAN
      /\ journal \in [readable : BOOLEAN, unverified : BOOLEAN, rows : [Scopes -> Health]]
    BY DEF RowTypes
<1>3. QED BY <1>1, <1>2 DEF LoopTypes, TypeOK

\* The first state.
LEMMA InitLoopTypes == Init => LoopTypes
<1>1. NoTime \in Int
    BY DEF NoTime
<1>2. QED BY <1>1 DEF Init, LoopTypes, Steps

\* The state of protection is well typed, and its times are times the clock has shown.
THEOREM ProtectionTypes == Spec => []TypeOK
<1>1. RowTypes /\ LoopTypes /\ [Next]_vars => (RowTypes /\ LoopTypes)'
    BY RowTypesStep, LoopTypesStep
<1>2. QED BY <1>1, InitRows, InitLoopTypes, TypesSplit, PTL DEF Spec

-----------------------------------------------------------------------------
(* Exits, if the wall clock is never set back.                              *)

\* Rows the loader accepts, with a start that has come.
RowsSound ==
    \A s \in Scopes :
        Acceptable(health[s]) /\ health[s].started <= now /\ journal.rows[s].started <= now

\* A durable file can be loaded.
JournalLoads == durable => Loads(journal)

\* Changes of acceptable rows are acceptable.
LEMMA RowChangeSound ==
    ASSUME NEW h, NEW r, Timed(h), now \in 0..MaxTime, RowChange(h, r),
           Acceptable(h), h.started <= now
    PROVE  Acceptable(r) /\ r.started <= now
<1>1. /\ h \in Health /\ h.started \in Int /\ h.flat \in Int /\ NoTime \in Int /\ now \in Int
      /\ NoTime <= now /\ now # NoTime /\ h.committed \in BOOLEAN /\ h.held \in BOOLEAN
    BY DEF Timed, Health, NoTime
<1>2. CASE /\ r.committed = h.committed /\ r.held = h.held
           /\ r.started = h.started /\ r.flat = h.flat
    BY <1>2 DEF Acceptable
<1>3. CASE r = NoHealth
    BY <1>1, <1>3, NoHealthFields DEF Acceptable
<1>4. CASE h.committed /\ r = FlatHealth(h)
    <2>1. /\ r.committed = FALSE /\ r.held = TRUE /\ r.started = h.started /\ r.flat = now
        BY <1>1, <1>4, FlatFields
    <2>2. h.started # NoTime
        BY <1>4 DEF Acceptable
    <2>3. QED BY <1>1, <2>1, <2>2 DEF Acceptable
<1>5. CASE r = CommittedHealth(h)
    <2>1. r.committed = TRUE /\ r.held = FALSE /\ r.started = now /\ r.flat = NoTime
        BY <1>1, <1>5, CommittedFields
    <2>2. QED BY <1>1, <2>1 DEF Acceptable
<1>6. CASE h.held /\ r = [EvaluatedHealth(h) EXCEPT !.held = FALSE]
    BY <1>1, <1>6, ReleasedFields DEF Acceptable
<1>7. OutageStart(h) \in Int
    BY OutageStartBounds
<1>8. r = h \/ r = [h EXCEPT !.since = OutageStart(h)] \/ r = EvaluatedHealth(h)
        \/ r = [h EXCEPT !.since = NoTime]
      => /\ r.committed = h.committed /\ r.held = h.held
         /\ r.started = h.started /\ r.flat = h.flat
    BY <1>1, <1>7, MovedFields, EvaluatedFields
<1>9. QED BY <1>2, <1>3, <1>4, <1>5, <1>6, <1>8 DEF RowChange

\* Without Rollback the clock only moves forward.
LEMMA ClockForward ==
    ASSUME ~ Rollback, now \in 0..MaxTime, [Next]_vars
    PROVE  now' \in Int /\ now <= now'
<1>1. CASE Tick
    BY <1>1, ProtectionAssumption DEF Tick
<1>2. CASE ~ Tick
    <2>1. now' = now
        BY <1>2
        DEF Next, Loop, vars, StartCycle, ReadForExits, ConfirmFlat, SendCloses, Observe, Decide,
            ReadForDecision, BeginWeigh, Weigh, WeighDone, StagedRefresh, EnsureReady, Replay,
            Check, EvaluationFails, EvaluateDone, ReweighDone, Plan, ExitsFail, DecisionFails,
            StagedRefreshFails, MissingHistory, RetryTime, Opens, CloseFills, ReplayPublishes,
            Restart, CalmDown
    <2>2. QED BY <2>1
<1>3. QED BY <1>1, <1>2

\* Rows and file stay acceptable to the loader.
LEMMA SoundStep ==
    ~ Rollback /\ RowTypes /\ RowsSound /\ JournalLoads /\ [Next]_vars
        => RowsSound' /\ JournalLoads'
<1> SUFFICES ASSUME ~ Rollback, RowTypes, RowsSound, JournalLoads, [Next]_vars
             PROVE  RowsSound' /\ JournalLoads'
    OBVIOUS
<1>1. now \in 0..MaxTime /\ now \in Int /\ now' \in Int /\ now <= now' /\ NoTime < now
    BY ClockForward DEF RowTypes, NoTime
<1>2. \A s \in Scopes : /\ health[s].started \in Int /\ health[s].started <= now'
                        /\ journal.rows[s].started \in Int /\ journal.rows[s].started <= now'
    BY <1>1 DEF RowsSound, RowTypes, Timed, Health
<1>3. Acceptable(NoHealth) /\ NoHealth.started <= now'
    BY <1>1, NoHealthFields DEF Acceptable, NoTime
<1>4. CASE Restart
    <2>1. journal'.rows = journal.rows /\ (Lost \/ Loaded)
        BY <1>4, RestartRows
    <2>2. CASE Lost
        BY <1>2, <1>3, <2>1, <2>2 DEF Lost, Empty, RowsSound, JournalLoads
    <2>3. CASE Loaded
        BY <1>2, <2>1, <2>3 DEF Loaded, Loads, RowsSound, JournalLoads
    <2>4. QED BY <2>1, <2>2, <2>3
<1>5. CASE ~ Restart
    <2>1. Effects
        BY <1>5, StepEffects
    <2>2. health' \in [Scopes -> Health] /\ \A s \in Scopes : Timed(health'[s])
        BY <2>1, RowChangeTimed DEF Effects, RowTypes
    <2>3. \A s \in Scopes : Acceptable(health'[s]) /\ health'[s].started <= now
        BY <1>1, <2>1, RowChangeSound DEF Effects, RowTypes, RowsSound
    <2>4. \A s \in Scopes : health'[s].started \in Int
        BY <2>2 DEF Timed, Health
    <2>5. \A s \in Scopes : health'[s].started <= now'
        BY <1>1, <2>3, <2>4
    <2>6. CASE Save(health')
        <3>1. /\ ~ durable' => journal' = journal
              /\ durable' => /\ journal'.readable
                             /\ \A s \in Scopes : journal'.rows[s] =
                                    IF Persisted(health'[s]) THEN health'[s] ELSE NoHealth
              /\ durable' \in BOOLEAN
            BY <2>2, <2>6, SaveFile
        <3>2. \A s \in Scopes : journal'.rows[s].started <= now'
            BY <1>2, <1>3, <2>5, <3>1
        <3>3. durable' => Loads(journal')
            BY <1>3, <2>3, <3>1 DEF Loads
        <3>4. QED BY <2>3, <2>5, <3>2, <3>3 DEF RowsSound, JournalLoads
    <2>7. CASE UNCHANGED journalVars
        BY <1>2, <2>3, <2>5, <2>7 DEF RowsSound, JournalLoads, journalVars
    <2>8. QED BY <2>1, <2>6, <2>7 DEF Effects
<1>6. QED BY <1>4, <1>5

\* unavailable() keeps exits and their windows.
LEMMA UnavailableKeeps ==
    ASSUME RowTypes, NEW S, Unavailable(S), NEW s \in Scopes
    PROVE  /\ health'[s].committed = health[s].committed /\ health'[s].held = health[s].held
           /\ health'[s].started = health[s].started /\ health'[s].flat = health[s].flat
<1>1. health'[s] = health[s] \/ health'[s] = [health[s] EXCEPT !.since = OutageStart(health[s])]
    BY DEF Unavailable
<1>2. health[s] \in Health /\ OutageStart(health[s]) \in Int
    BY OutageStartBounds DEF RowTypes
<1>3. QED BY <1>1, <1>2, MovedFields

\* So does evaluated_successfully().
LEMMA EvaluationKeeps ==
    ASSUME RowTypes, NEW x \in Scopes, RecordEvaluation(x), NEW s \in Scopes
    PROVE  /\ health'[s].committed = health[s].committed /\ health'[s].held = health[s].held
           /\ health'[s].started = health[s].started /\ health'[s].flat = health[s].flat
<1>1. health'[s] = health[s] \/ health'[s] = EvaluatedHealth(health[s])
    BY DEF RecordEvaluation, RowTypes
<1>2. health[s] \in Health
    BY DEF RowTypes
<1>3. QED BY <1>1, <1>2, EvaluatedFields

\* The steps that neither commit, confirm, release nor retire an exit.
Keeping ==
    \/ Quiet
    \/ ExitsFail \/ DecisionFails \/ StagedRefreshFails \/ MissingHistory
    \/ \E s \in Scopes : Observe(s) \/ Check(s) \/ ReplayPublishes(s) \/ EvaluationFails(s)
    \/ UNCHANGED vars

\* They leave every exit and its window alone.
LEMMA KeepingExits ==
    ASSUME RowTypes, Keeping, NEW s \in Scopes
    PROVE  /\ exited' = exited
           /\ health'[s].committed = health[s].committed /\ health'[s].held = health[s].held
           /\ health'[s].started = health[s].started /\ health'[s].flat = health[s].flat
<1>1. CASE Quiet
    BY <1>1, QuietRows
<1>2. CASE ExitsFail \/ DecisionFails \/ StagedRefreshFails \/ MissingHistory
    <2>1. /\ exited' = exited
          /\ Unavailable(Affected) \/ UNCHANGED health
        BY <1>2 DEF ExitsFail, DecisionFails, StagedRefreshFails, MissingHistory, Defer
    <2>2. QED BY <2>1, UnavailableKeeps
<1>3. ASSUME NEW x \in Scopes, Observe(x) \/ EvaluationFails(x)
      PROVE  exited' = exited /\ \E S : Unavailable(S)
    BY <1>3 DEF Observe, EvaluationFails, Defer
<1>4. ASSUME NEW x \in Scopes, Check(x) \/ ReplayPublishes(x)
      PROVE  exited' = exited /\ RecordEvaluation(x)
    BY <1>4 DEF Check, ReplayPublishes
<1>5. CASE UNCHANGED vars
    BY <1>5 DEF vars, historyVars
<1>6. QED
    BY <1>1, <1>2, <1>3, <1>4, <1>5, UnavailableKeeps, EvaluationKeeps DEF Keeping

\* The other steps.
LEMMA StepKinds ==
    ASSUME [Next]_vars
    PROVE  \/ Keeping \/ StartCycle \/ Restart
           \/ \E s \in Scopes : ConfirmFlat(s) \/ Weigh(s) \/ Replay(s)
BY DEF Next, Loop, Keeping, Quiet

\* A scope that is not retired keeps a committed or completed exit.
LEMMA ReconciledKeeps ==
    ASSUME NEW s \in Scopes, config[s] # "off", health[s].committed \/ health[s].held
    PROVE  Reconciled(s) = health[s]
BY DEF Reconciled

\* No step forgets an exit.
LEMMA ExitStep ==
    /\ RowTypes /\ LoopTypes /\ JournalAgrees /\ JournalLoads /\ ExitRemembered
    /\ [Next]_vars
    => ExitRemembered'
<1> SUFFICES ASSUME RowTypes, LoopTypes, JournalAgrees, JournalLoads, ExitRemembered, [Next]_vars,
                    NEW s \in exited'
             PROVE  health'[s].committed \/ health'[s].held
    BY DEF ExitRemembered
<1>0. /\ health \in [Scopes -> Health] /\ now \in Int /\ exited \subseteq Scopes
      /\ \A x \in exited : health[x].committed \/ health[x].held
    BY DEF RowTypes, LoopTypes, ExitRemembered
<1>1. CASE Keeping
    <2>1. s \in Scopes
        BY LoopTypesStep DEF LoopTypes
    <2>2. QED BY <1>0, <1>1, <2>1, KeepingExits
<1>2. CASE StartCycle
    <2>1. s \in exited /\ config[s] # "off" /\ health'[s] = Reconciled(s)
        BY <1>0, <1>2 DEF StartCycle
    <2>2. QED BY <1>0, <2>1, ReconciledKeeps
<1>3. ASSUME NEW x \in Scopes, ConfirmFlat(x)
      PROVE  health'[s].committed \/ health'[s].held
    <2>1. exited' = exited /\ health' = [health EXCEPT ![x] = FlatHealth(health[x])]
        BY <1>0, <1>3 DEF ConfirmFlat, historyVars
    <2>2. health[x] \in Health /\ FlatHealth(health[x]).held
        BY <1>0, FlatFields
    <2>3. QED BY <1>0, <2>1, <2>2
<1>4. ASSUME NEW x \in Scopes, Weigh(x)
      PROVE  health'[s].committed \/ health'[s].held
    <2>1. \/ exited' = exited /\ health' = health
          \/ /\ exited' = exited \cup {x}
             /\ health' = [health EXCEPT ![x] = CommittedHealth(health[x])]
        BY <1>0, <1>4 DEF Weigh
    <2>2. health[x] \in Health /\ CommittedHealth(health[x]).committed
        BY <1>0, CommittedFields
    <2>3. QED BY <1>0, <2>1, <2>2
<1>5. ASSUME NEW x \in Scopes, Replay(x)
      PROVE  health'[s].committed \/ health'[s].held
    <2>1. s \in exited /\ s # x /\ health'[s] = health[s]
        BY <1>0, <1>5 DEF Replay
    <2>2. QED BY <1>0, <2>1
<1>6. CASE Restart
    <2>1. exited' = exited /\ durable /\ Loaded
        BY <1>6, RestartRows DEF JournalLoads
    <2>2. QED BY <1>0, <2>1 DEF Loaded, JournalAgrees, Same
<1>7. QED BY <1>1, <1>2, <1>3, <1>4, <1>5, <1>6, StepKinds

\* The inductive invariant behind the exits.
ExitInv ==
    RowTypes /\ LoopTypes /\ JournalAgrees /\ RowsSound /\ JournalLoads /\ ExitRemembered

\* It holds at the start.
LEMMA InitExits == Init => ExitInv
<1> SUFFICES ASSUME Init PROVE ExitInv
    OBVIOUS
<1>1. /\ now = 0 /\ health = Empty /\ exited = {} /\ durable = TRUE
      /\ journal = [readable |-> TRUE, unverified |-> FALSE, rows |-> Empty]
    BY DEF Init
<1>2. journal.rows = Empty /\ journal.readable = TRUE
    BY <1>1
<1>3. \A s \in Scopes : Empty[s] = NoHealth
    BY DEF Empty
<1>4. Acceptable(NoHealth) /\ NoHealth.started <= 0
    BY NoHealthFields DEF Acceptable, NoTime
<1>5. RowsSound /\ JournalLoads /\ ExitRemembered
    BY <1>1, <1>2, <1>3, <1>4 DEF RowsSound, JournalLoads, Loads, ExitRemembered
<1>6. QED BY <1>5, InitRows, InitLoopTypes DEF ExitInv

\* It is inductive if the wall clock is never set back.
LEMMA ExitsInductive == ~ Rollback => (Spec => []ExitInv)
<1>1. ~ Rollback /\ ExitInv /\ [Next]_vars => ExitInv'
    BY RowTypesStep, LoopTypesStep, AgreesStep, SoundStep, ExitStep DEF ExitInv
<1>2. SUFFICES ASSUME ~ Rollback PROVE Spec => []ExitInv
    OBVIOUS
<1>3. ExitInv /\ [Next]_vars => ExitInv'
    BY <1>1, <1>2
<1>4. QED BY <1>3, InitExits, PTL DEF Spec

\* An emergency exit survives evaluations, failing saves elsewhere and restarts until a
\* completed replay takes the scope over: the journal's contract, for a wall clock that is
\* never set back.
THEOREM ExitsSurvive == ~ Rollback => (Spec => []ExitRemembered)
<1>1. SUFFICES ASSUME ~ Rollback PROVE Spec => []ExitRemembered
    OBVIOUS
<1>2. Spec => []ExitInv
    BY <1>1, ExitsInductive
<1>3. ExitInv => ExitRemembered
    BY DEF ExitInv
<1>4. QED BY <1>2, <1>3, PTL

-----------------------------------------------------------------------------
(* Consequences: no entry, and the window of the exit.                      *)

\* holds_after_emergency_exit keeps ordinary waves out of exited scopes.
LEMMA EntryStep ==
    ASSUME ExitInv, [Next]_vars, step = "plan", step' = "top"
    PROVE  (busy' \ busy) \cap exited = {}
<1>1. CASE Plan
    <2>1. busy' \subseteq busy \cup Tradable
        BY <1>1 DEF Plan
    <2>2. Tradable \cap exited = {}
        BY DEF Tradable, ExitInv, ExitRemembered
    <2>3. QED BY <2>1, <2>2
<1>2. CASE ~ Plan
    <2>1. ~ (Tick \/ RetryTime \/ CalmDown \/ UNCHANGED vars)
        BY DEF Tick, RetryTime, CalmDown, vars
    <2>2. \A s \in Scopes : ~ (Opens(s) \/ CloseFills(s) \/ ReplayPublishes(s))
        BY DEF Opens, CloseFills, ReplayPublishes
    <2>3. ~ (ExitsFail \/ DecisionFails \/ StagedRefreshFails \/ MissingHistory)
        BY DEF ExitsFail, DecisionFails, StagedRefreshFails, MissingHistory
    <2>4. ~ (StartCycle \/ ReadForExits \/ SendCloses \/ Decide \/ ReadForDecision \/ BeginWeigh
             \/ WeighDone \/ StagedRefresh \/ EnsureReady \/ EvaluateDone \/ ReweighDone)
        BY DEF StartCycle, ReadForExits, SendCloses, Decide, ReadForDecision, BeginWeigh,
               WeighDone, StagedRefresh, EnsureReady, EvaluateDone, ReweighDone
    <2>5. \A s \in Scopes : ~ (ConfirmFlat(s) \/ Observe(s) \/ Weigh(s) \/ Replay(s) \/ Check(s)
                               \/ EvaluationFails(s))
        BY DEF ConfirmFlat, Observe, Weigh, Replay, Check, EvaluationFails
    <2>6. Restart
        BY <1>2, <2>1, <2>2, <2>3, <2>4, <2>5 DEF Next, Loop
    <2>7. busy' = busy
        BY <2>6 DEF Restart, accountVars
    <2>8. QED BY <2>7
<1>3. QED BY <1>1, <1>2

\* No ordinary wave opens a scope whose exit no replay has taken over.
THEOREM ExitedStaysOut == ~ Rollback => (Spec => NoEntryAfterExit)
<1>1. SUFFICES ASSUME ~ Rollback PROVE Spec => NoEntryAfterExit
    OBVIOUS
<1>2. Spec => []ExitInv
    BY <1>1, ExitsInductive
<1>3. ExitInv /\ [Next]_vars =>
        [step = "plan" /\ step' = "top" => (busy' \ busy) \cap exited = {}]_vars
    BY EntryStep
<1>4. QED BY <1>2, <1>3, PTL DEF Spec, NoEntryAfterExit

\* Scopes that wait for their weighing have no running exit.
TodoFresh == step \in {"weigh", "reweigh"} => \A s \in todo : ~ health[s].committed

\* Closes fill after the commitment they belong to, and not after the flat confirmation,
\* up to the difference of the two clocks.
Window ==
    /\ \A s \in Scopes : closed[s] <= now + Skew
    /\ \A s \in exited :
        /\ closed[s] # NoTime => health[s].started - Skew <= closed[s]
        /\ health[s].held => s \notin closing /\ closed[s] <= health[s].flat + Skew

\* Only BeginWeigh and EvaluateDone fill the list of scopes to weigh.
LEMMA FreshStep ==
    ASSUME RowTypes, LoopTypes, TodoFresh, [Next]_vars
    PROVE  TodoFresh'
<1> USE DEF TodoFresh
<1>0. \A s \in Scopes : health[s] \in Health
    BY DEF RowTypes
<1>1. CASE BeginWeigh \/ EvaluateDone
    <2>1. health' = health
        BY <1>1 DEF BeginWeigh, EvaluateDone
    <2>2. step' \in {"weigh", "reweigh"} => todo' = Weighable
        BY <1>1 DEF BeginWeigh, EvaluateDone
    <2>3. QED BY <2>1, <2>2 DEF Weighable
<1>2. ASSUME NEW x \in Scopes, Weigh(x) PROVE TodoFresh'
    <2>1. /\ step' = step /\ step \in {"weigh", "reweigh"} /\ todo' = todo \ {x}
          /\ \A s \in Scopes : s # x => health'[s] = health[s]
        BY <1>2 DEF Weigh, RowTypes
    <2>2. QED BY <2>1 DEF LoopTypes
<1>3. CASE /\ step' = step /\ todo' = todo
           /\ \A s \in Scopes : health'[s].committed = health[s].committed
    BY <1>3 DEF LoopTypes
<1>4. CASE step' \notin {"weigh", "reweigh"}
    BY <1>4
<1>5. ASSUME NEW x \in Scopes, Opens(x) \/ CloseFills(x) \/ ReplayPublishes(x) PROVE TodoFresh'
    <2>1. step' = step /\ todo' = todo /\ Keeping
        BY <1>5 DEF Opens, CloseFills, ReplayPublishes, loopVars, Keeping, Quiet
    <2>2. QED BY <1>3, <2>1, KeepingExits
<1>6. CASE Tick \/ RetryTime \/ CalmDown \/ UNCHANGED vars
    <2>1. step' = step /\ todo' = todo /\ Keeping
        BY <1>6 DEF Tick, RetryTime, CalmDown, vars, loopVars, Keeping, Quiet
    <2>2. QED BY <1>3, <2>1, KeepingExits
<1>7. CASE \/ StartCycle \/ ReadForExits \/ ReadForDecision \/ StagedRefresh
           \/ StagedRefreshFails \/ MissingHistory \/ EnsureReady \/ ReweighDone \/ Plan \/ Restart
    BY <1>4, <1>7 DEF StartCycle, ReadForExits, ReadForDecision, StagedRefresh,
        StagedRefreshFails, MissingHistory, EnsureReady, ReweighDone, Plan, Restart
<1>8. CASE ExitsFail \/ SendCloses \/ Decide \/ DecisionFails \/ WeighDone
    BY <1>4, <1>8 DEF ExitsFail, SendCloses, Decide, DecisionFails, WeighDone, AfterExits,
        AfterProtection
<1>9. ASSUME NEW x \in Scopes,
             ConfirmFlat(x) \/ Observe(x) \/ Replay(x) \/ Check(x) \/ EvaluationFails(x)
      PROVE  TodoFresh'
    BY <1>4, <1>9 DEF ConfirmFlat, Observe, Replay, Check, EvaluationFails
<1>10. QED BY <1>1, <1>2, <1>5, <1>6, <1>7, <1>8, <1>9 DEF Next, Loop

\* The steps that touch neither the closes nor their times.
LEMMA CloseVars ==
    ASSUME Keeping, ~ SendCloses, \A x \in Scopes : ~ CloseFills(x)
    PROVE  closing' = closing /\ closed' = closed
<1> USE DEF accountVars, historyVars
<1>1. ReadForExits \/ Decide \/ ReadForDecision \/ BeginWeigh \/ WeighDone
        => closing' = closing /\ closed' = closed
    BY DEF ReadForExits, Decide, ReadForDecision, BeginWeigh, WeighDone
<1>2. StagedRefresh \/ EnsureReady \/ EvaluateDone \/ ReweighDone \/ Plan
        => closing' = closing /\ closed' = closed
    BY DEF StagedRefresh, EnsureReady, EvaluateDone, ReweighDone, Plan
<1>3. Tick \/ RetryTime \/ CalmDown \/ UNCHANGED vars
        => closing' = closing /\ closed' = closed
    BY DEF Tick, RetryTime, CalmDown, vars
<1>4. ExitsFail \/ DecisionFails \/ StagedRefreshFails \/ MissingHistory
        => closing' = closing /\ closed' = closed
    BY DEF ExitsFail, DecisionFails, StagedRefreshFails, MissingHistory
<1>5. \A x \in Scopes : Opens(x) \/ Observe(x) \/ Check(x) \/ ReplayPublishes(x) \/ EvaluationFails(x)
        => closing' = closing /\ closed' = closed
    BY DEF Opens, Observe, Check, ReplayPublishes, EvaluationFails
<1>6. QED BY <1>1, <1>2, <1>3, <1>4, <1>5 DEF Keeping, Quiet

\* No step takes the fill that flattened a scope out of its window.
LEMMA WindowStep ==
    ASSUME ~ Rollback, ExitInv, TodoFresh, Window, [Next]_vars
    PROVE  Window'
<1>0. /\ RowTypes /\ LoopTypes /\ now \in 0..MaxTime /\ now \in Int /\ exited \subseteq Scopes
      /\ health \in [Scopes -> Health] /\ closed \in [Scopes -> Int]
      /\ closing \subseteq Scopes /\ NoTime \in Int /\ NoTime < now /\ Skew \in Nat
    BY ProtectionAssumption DEF ExitInv, RowTypes, LoopTypes, NoTime
<1>1. now' \in Int /\ now <= now'
    BY <1>0, ClockForward
<1>2. \A s \in Scopes : /\ closed[s] \in Int /\ closed[s] <= now + Skew
                        /\ health[s].started \in Int /\ health[s].started <= now
                        /\ ~ (health[s].committed /\ health[s].held)
    BY <1>0 DEF Window, ExitInv, RowsSound, Acceptable, Health
<1>3. \A s \in exited : /\ closed[s] # NoTime => health[s].started - Skew <= closed[s]
                        /\ health[s].held => s \notin closing /\ closed[s] <= health[s].flat + Skew
    BY DEF Window
<1>4. exited' \subseteq Scopes
    BY <1>0, LoopTypesStep DEF LoopTypes
<1>5. CASE Keeping
    <2>1. exited' = exited
        BY <1>5, QuietRows DEF Keeping, ExitsFail, DecisionFails, StagedRefreshFails,
            MissingHistory, Observe, Check, ReplayPublishes, EvaluationFails, vars, historyVars
    <2>2. \A s \in Scopes :
            /\ health'[s].committed = health[s].committed /\ health'[s].held = health[s].held
            /\ health'[s].started = health[s].started /\ health'[s].flat = health[s].flat
        BY <1>0, <1>5, KeepingExits
    <2>3. CASE SendCloses
        <3>1. closing' \subseteq pending /\ closed' = closed
            BY <2>3 DEF SendCloses, historyVars
        <3>2. \A s \in Scopes : health[s].held => s \notin closing'
            BY <1>2, <3>1 DEF pending, PendingIn
        <3>3. QED BY <1>0, <1>1, <1>2, <1>3, <2>1, <2>2, <3>1, <3>2 DEF Window
    <2>4. ASSUME NEW x \in Scopes, CloseFills(x) PROVE Window'
        <3>1. /\ x \in closing /\ closing' = closing \ {x} /\ now' = now
              /\ \/ closed' = closed
                 \/ \E t \in Int : /\ now - Skew <= t /\ t <= now + Skew
                                  /\ closed' = [closed EXCEPT ![x] = t]
            BY <1>0, <2>4 DEF CloseFills
        <3>6. \A s \in Scopes : \/ closed'[s] = closed[s]
                              \/ /\ closed'[s] \in Int
                                 /\ now - Skew <= closed'[s] /\ closed'[s] <= now + Skew
            BY <1>0, <3>1
        <3>2. \A s \in Scopes : closed'[s] <= now' + Skew
            BY <1>0, <1>2, <3>1, <3>6
        <3>3. \A s \in exited : closed'[s] # NoTime => health[s].started - Skew <= closed'[s]
            BY <1>0, <1>2, <1>3, <3>6
        <3>4. \A s \in exited : health[s].held => s # x /\ s \notin closing' /\ closed'[s] = closed[s]
            BY <1>0, <1>3, <3>1
        <3>5. QED BY <1>0, <1>3, <2>1, <2>2, <3>2, <3>3, <3>4 DEF Window
    <2>5. CASE ~ SendCloses /\ \A x \in Scopes : ~ CloseFills(x)
        <3>1. closing' = closing /\ closed' = closed
            BY <1>5, <2>5, CloseVars
        <3>2. QED BY <1>0, <1>1, <1>2, <1>3, <2>1, <2>2, <3>1 DEF Window
    <2>6. QED BY <2>3, <2>4, <2>5
<1>6. CASE StartCycle
    <2>1. /\ exited' = {s \in exited : config[s] # "off"} /\ closing' = closing /\ now' = now
          /\ closed' = [s \in Scopes |-> IF config[s] = "off" THEN NoTime ELSE closed[s]]
          /\ health' = [s \in Scopes |-> Reconciled(s)]
        BY <1>6 DEF StartCycle, accountVars
    <2>2. \A s \in exited' : s \in exited /\ closed'[s] = closed[s] /\ health'[s] = health[s]
        BY <1>0, <2>1, ReconciledKeeps DEF ExitInv, ExitRemembered
    <2>3. \A s \in Scopes : closed'[s] <= now' + Skew
        BY <1>0, <1>2, <2>1
    <2>4. QED BY <1>3, <2>1, <2>2, <2>3 DEF Window
<1>7. ASSUME NEW x \in Scopes, ConfirmFlat(x) PROVE Window'
    <2>1. /\ exited' = exited /\ closing' = closing \ {x} /\ closed' = closed /\ now' = now
          /\ health' = [health EXCEPT ![x] = FlatHealth(health[x])]
        BY <1>0, <1>7 DEF ConfirmFlat, historyVars
    <2>2. FlatHealth(health[x]).flat = now /\ FlatHealth(health[x]).started = health[x].started
        BY <1>0, FlatFields
    <2>3. QED BY <1>0, <1>2, <1>3, <2>1, <2>2 DEF Window
<1>8. ASSUME NEW x \in Scopes, Weigh(x) PROVE Window'
    <2>1. closing' = closing /\ now' = now /\ x \in todo /\ step \in {"weigh", "reweigh"}
        BY <1>8 DEF Weigh, accountVars
    <2>2. ~ health[x].committed
        BY <2>1 DEF TodoFresh
    <2>3. CASE exited' = exited /\ health' = health /\ closed' = closed
        BY <1>0, <1>2, <1>3, <2>1, <2>3 DEF Window
    <2>4. CASE /\ exited' = exited \cup {x} /\ closed' = [closed EXCEPT ![x] = NoTime]
               /\ health' = [health EXCEPT ![x] = CommittedHealth(health[x])]
        <3>1. CommittedHealth(health[x]).held = FALSE
            BY <1>0, CommittedFields
        <3>2. \A s \in Scopes : closed'[s] <= now' + Skew
            BY <1>0, <1>2, <2>1, <2>4
        <3>3. closed'[x] = NoTime /\ ~ health'[x].held
            BY <1>0, <2>4, <3>1
        <3>4. \A s \in exited' : s # x =>
                s \in exited /\ closed'[s] = closed[s] /\ health'[s] = health[s]
            BY <1>0, <2>4
        <3>5. QED BY <1>3, <2>1, <3>2, <3>3, <3>4 DEF Window
    <2>5. \/ exited' = exited /\ health' = health /\ closed' = closed
          \/ /\ exited' = exited \cup {x} /\ closed' = [closed EXCEPT ![x] = NoTime]
             /\ health' = [health EXCEPT ![x] = CommittedHealth(health[x])]
        BY <1>0, <1>8, <2>2 DEF Weigh
    <2>6. QED BY <2>3, <2>4, <2>5
<1>9. ASSUME NEW x \in Scopes, Replay(x) PROVE Window'
    <2>1. /\ exited' = exited \ {x} /\ closing' = closing /\ now' = now
          /\ closed' = [closed EXCEPT ![x] = NoTime]
          /\ \A s \in Scopes : s # x => health'[s] = health[s]
        BY <1>0, <1>9 DEF Replay, accountVars
    <2>2. \A s \in Scopes : closed'[s] = IF s = x THEN NoTime ELSE closed[s]
        BY <1>0, <2>1
    <2>3. \A s \in Scopes : closed'[s] <= now' + Skew
        BY <1>0, <1>2, <2>1, <2>2
    <2>4. QED BY <1>0, <1>2, <1>3, <2>1, <2>2, <2>3 DEF Window
<1>10. CASE Restart
    <2>1. /\ closing' = closing /\ now' = now
          /\ closed' = closed \/ closed' = [s \in Scopes |-> NoTime]
        BY <1>10 DEF Restart, accountVars
    <2>2. \A s \in Scopes : closed'[s] <= now' + Skew
        BY <1>0, <1>2, <2>1
    <2>3. exited' # {} => exited' = exited /\ closed' = closed /\ durable /\ Loaded
        BY <1>0, <1>10, RestartRows DEF ExitInv, JournalLoads
    <2>4. exited' # {} => \A s \in Scopes :
            /\ health'[s].started = health[s].started /\ health'[s].held = health[s].held
            /\ health[s].held => health'[s].flat = health[s].flat
        BY <2>3 DEF Loaded, ExitInv, JournalAgrees, Same
    <2>5. QED BY <1>0, <1>3, <2>1, <2>2, <2>3, <2>4 DEF Window
<1>11. QED BY <1>5, <1>6, <1>7, <1>8, <1>9, <1>10, StepKinds

\* Whatever the difference of the clocks: the window a completed exit keeps holds the time
\* of the fill that flattened the scope, up to that difference (emergency_stop_applies).
THEOREM FlattenExplained == ~ Rollback => (Spec => []FlattenIsExplained)
<1>1. SUFFICES ASSUME ~ Rollback PROVE Spec => []FlattenIsExplained
    OBVIOUS
<1>2. Spec => []ExitInv
    BY <1>1, ExitsInductive
<1>3. Init => TodoFresh /\ Window
    BY ProtectionAssumption DEF Init, TodoFresh, Window, NoTime
<1>4. ExitInv /\ TodoFresh /\ Window /\ [Next]_vars => TodoFresh' /\ Window'
    BY <1>1, FreshStep, WindowStep DEF ExitInv
<1>5. ExitInv /\ Window => FlattenIsExplained
    <2> SUFFICES ASSUME ExitInv, Window, NEW s \in exited, health[s].held, closed[s] # NoTime
                 PROVE  \E d \in (-Skew)..Skew : EmergencyStopApplies(s, closed[s] + d)
        BY DEF FlattenIsExplained
    <2>2. /\ s \in Scopes /\ closed[s] \in Int /\ Skew \in Nat /\ NoTime \in Int
          /\ health[s].started \in Int /\ health[s].flat \in Int
        BY ProtectionAssumption DEF ExitInv, RowTypes, LoopTypes, Health, NoTime
    <2>3. /\ health[s].started # NoTime /\ health[s].flat # NoTime
          /\ health[s].flat >= health[s].started
        <3>1. Acceptable(health[s]) /\ health[s] \in Health
            BY <2>2 DEF ExitInv, RowsSound, RowTypes
        <3>2. QED BY <3>1 DEF Acceptable, Health
    <2>4. health[s].started - Skew <= closed[s] /\ closed[s] <= health[s].flat + Skew
        BY DEF Window
    <2>5. \E d \in (-Skew)..Skew : /\ health[s].started <= closed[s] + d
                                  /\ closed[s] + d <= health[s].flat
        <3>1. CASE closed[s] < health[s].started
            <4>1. /\ health[s].started - closed[s] \in (-Skew)..Skew
                  /\ closed[s] + (health[s].started - closed[s]) = health[s].started
                BY <2>2, <2>4, <3>1
            <4>2. QED BY <2>2, <2>3, <4>1
        <3>2. CASE closed[s] > health[s].flat
            <4>1. /\ health[s].flat - closed[s] \in (-Skew)..Skew
                  /\ closed[s] + (health[s].flat - closed[s]) = health[s].flat
                BY <2>2, <2>4, <3>2
            <4>2. QED BY <2>2, <2>3, <4>1
        <3>3. CASE closed[s] >= health[s].started /\ closed[s] <= health[s].flat
            <4>1. 0 \in (-Skew)..Skew /\ closed[s] + 0 = closed[s]
                BY <2>2
            <4>2. QED BY <3>3, <4>1
        <3>4. QED BY <2>2, <3>1, <3>2, <3>3
    <2>6. QED BY <2>3, <2>5 DEF EmergencyStopApplies
<1>6. QED BY <1>2, <1>3, <1>4, <1>5, PTL DEF Spec

-----------------------------------------------------------------------------
(* The grace of one outage, if the wall clock is never set back.            *)

\* The clock of an outage started no later than the outage, or its grace is spent; an
\* outage without a clock belongs to a scope the lost journal left unverified.
Grants ==
    \A s \in Scopes :
        /\ outage[s] # NoTime => outage[s] >= 0
        /\ health[s].since # NoTime /\ outage[s] # NoTime
            => health[s].since <= outage[s] \/ now - health[s].since >= Grace
        /\ health[s].since = NoTime /\ outage[s] # NoTime => invalid /\ ~ health[s].evaluated

\* A clock that is started or moved respects the grants.
LEMMA StartedClock ==
    ASSUME RowTypes, NEW h, Timed(h), NEW t \in Int, t # NoTime => t >= 0,
           h.since # NoTime /\ t # NoTime => h.since <= t \/ now - h.since >= Grace,
           h.since = NoTime /\ t # NoTime => invalid /\ ~ h.evaluated
    PROVE  /\ OutageStart(h) <= now /\ OutageStart(h) # NoTime
           /\ t # NoTime => OutageStart(h) <= t \/ now - OutageStart(h) >= Grace
<1>1. Grace \in Nat /\ now \in Nat /\ h.since \in Int
    BY ProtectionAssumption DEF RowTypes, Timed, Health
<1>2. OutageStart(h) \in 0..MaxTime /\ OutageStart(h) <= now
    BY OutageStartBounds DEF RowTypes
<1>3. OutageStart(h) # NoTime
    BY <1>2 DEF NoTime
<1>4. GraceSpent = 0 \/ now - GraceSpent >= Grace
    BY <1>1 DEF GraceSpent
<1>5. t # NoTime => OutageStart(h) = GraceSpent \/ (h.since # NoTime /\ OutageStart(h) = h.since)
    BY DEF OutageStart
<1>6. QED BY <1>1, <1>2, <1>3, <1>4, <1>5

\* unavailable() respects the grants.
LEMMA UnavailableGrants ==
    ASSUME RowTypes, LoopTypes, Grants, NEW S, Unavailable(S), now' = now
    PROVE  Grants'
<1>1. /\ health' = [s \in Scopes |-> IF s \in S
                                     THEN [health[s] EXCEPT !.since = OutageStart(health[s])]
                                     ELSE health[s]]
      /\ outage' = [s \in Scopes |-> IF s \in S /\ outage[s] = NoTime THEN now ELSE outage[s]]
      /\ invalid' = invalid
    BY DEF Unavailable, Save, journalVars
<1> SUFFICES ASSUME NEW s \in Scopes
             PROVE  /\ outage'[s] # NoTime => outage'[s] >= 0
                    /\ health'[s].since # NoTime /\ outage'[s] # NoTime
                        => health'[s].since <= outage'[s] \/ now - health'[s].since >= Grace
                    /\ health'[s].since = NoTime /\ outage'[s] # NoTime
                        => invalid /\ ~ health'[s].evaluated
    BY <1>1 DEF Grants
<1>2. /\ Timed(health[s]) /\ health[s] \in Health /\ outage[s] \in Int /\ now \in Int /\ now >= 0
      /\ outage[s] # NoTime => outage[s] >= 0
      /\ health[s].since # NoTime /\ outage[s] # NoTime
            => health[s].since <= outage[s] \/ now - health[s].since >= Grace
      /\ health[s].since = NoTime /\ outage[s] # NoTime => invalid /\ ~ health[s].evaluated
    BY DEF RowTypes, LoopTypes, Grants
<1>3. /\ OutageStart(health[s]) <= now /\ OutageStart(health[s]) # NoTime
      /\ outage[s] # NoTime => OutageStart(health[s]) <= outage[s]
                                \/ now - OutageStart(health[s]) >= Grace
    BY <1>2, StartedClock
<1>4. OutageStart(health[s]) \in Int
    BY <1>2, OutageStartBounds DEF RowTypes
<1>5. CASE s \in S
    <2>1. health'[s].since = OutageStart(health[s])
        BY <1>1, <1>2, <1>4, <1>5, MovedFields
    <2>2. outage'[s] = IF outage[s] = NoTime THEN now ELSE outage[s]
        BY <1>1, <1>5
    <2>3. QED BY <1>2, <1>3, <2>1, <2>2
<1>6. CASE s \notin S
    BY <1>1, <1>2, <1>6
<1>7. QED BY <1>5, <1>6

\* A scope whose outage ended is under no grant; the others keep theirs.
LEMMA EndedGrants ==
    ASSUME Grants, LoopTypes, NEW x \in Scopes, now' = now, invalid' = invalid,
           outage' = [outage EXCEPT ![x] = NoTime],
           \A s \in Scopes : s # x => health'[s] = health[s]
    PROVE  Grants'
BY DEF Grants, LoopTypes

\* No step lengthens the grace of an outage.
LEMMA GrantsStep ==
    ASSUME ~ Rollback, RowTypes, LoopTypes, JournalAgrees, Grants, [Next]_vars
    PROVE  Grants'
<1>0. /\ now \in 0..MaxTime /\ now \in Int /\ NoTime \in Int /\ Grace \in Nat
      /\ health \in [Scopes -> Health] /\ outage \in [Scopes -> Int]
      /\ \A s \in Scopes : health[s].since \in Int
    BY ProtectionAssumption DEF RowTypes, LoopTypes, NoTime, Health
<1>1. now' \in Int /\ now <= now'
    BY <1>0, ClockForward
<1>2. CASE /\ outage' = outage /\ invalid' = invalid
           /\ \A s \in Scopes : /\ health'[s].since = health[s].since
                                /\ health'[s].evaluated = health[s].evaluated
    BY <1>0, <1>1, <1>2 DEF Grants
<1>3. CASE Quiet \/ UNCHANGED vars
    <2>1. UNCHANGED <<health, invalid, outage>>
        <3>1. UNCHANGED <<health, invalid>>
            BY <1>3, QuietRows DEF vars, journalVars
        <3>2. ASSUME NEW x \in Scopes, Opens(x) \/ CloseFills(x) PROVE outage' = outage
            BY <3>2 DEF Opens, CloseFills, historyVars
        <3>3. outage' = outage
            BY <1>3, <3>2 DEF Quiet, vars, historyVars, ReadForExits, SendCloses, Decide,
                ReadForDecision, BeginWeigh, WeighDone, StagedRefresh, EnsureReady, EvaluateDone,
                ReweighDone, Plan, Tick, RetryTime, CalmDown
        <3>4. QED BY <3>1, <3>3
    <2>2. QED BY <1>2, <2>1
<1>4. ASSUME NEW x \in Scopes, ConfirmFlat(x) PROVE Grants'
    <2>1. /\ outage' = outage /\ invalid' = invalid
          /\ health' = [health EXCEPT ![x] = FlatHealth(health[x])]
        BY <1>0, <1>4 DEF ConfirmFlat, Save, historyVars
    <2>2. /\ FlatHealth(health[x]).since = health[x].since
          /\ FlatHealth(health[x]).evaluated = health[x].evaluated
        BY <1>0, FlatFields
    <2>3. QED BY <1>0, <1>2, <2>1, <2>2
<1>5. ASSUME NEW x \in Scopes, Weigh(x) PROVE Grants'
    <2>1. /\ outage' = outage /\ invalid' = invalid
          /\ \/ health' = health
             \/ health' = [health EXCEPT ![x] = CommittedHealth(health[x])]
        BY <1>0, <1>5 DEF Weigh, Save, journalVars
    <2>2. /\ CommittedHealth(health[x]).since = health[x].since
          /\ CommittedHealth(health[x]).evaluated = health[x].evaluated
        BY <1>0, CommittedFields
    <2>3. QED BY <1>0, <1>2, <2>1, <2>2
<1>6. CASE ExitsFail \/ DecisionFails \/ StagedRefreshFails \/ MissingHistory
    <2>1. /\ now' = now
          /\ Unavailable(Affected) \/ UNCHANGED <<health, journalVars, outage>>
        BY <1>6 DEF ExitsFail, DecisionFails, StagedRefreshFails, MissingHistory, Defer
    <2>2. QED BY <1>2, <2>1, UnavailableGrants DEF journalVars
<1>7. ASSUME NEW x \in Scopes, Observe(x) \/ EvaluationFails(x) PROVE Grants'
    BY <1>7, UnavailableGrants DEF Observe, EvaluationFails, Defer
<1>8. ASSUME NEW x \in Scopes, Check(x) \/ ReplayPublishes(x) PROVE Grants'
    <2>1. /\ now' = now /\ outage' = [outage EXCEPT ![x] = NoTime] /\ invalid' = invalid
          /\ \A s \in Scopes : s # x => health'[s] = health[s]
        BY <1>0, <1>8 DEF Check, ReplayPublishes, RecordEvaluation, Save, journalVars
    <2>2. QED BY <2>1, EndedGrants
<1>9. ASSUME NEW x \in Scopes, Replay(x) PROVE Grants'
    <2>1. /\ now' = now /\ outage' = [outage EXCEPT ![x] = NoTime] /\ invalid' = invalid
          /\ \A s \in Scopes : s # x => health'[s] = health[s]
        BY <1>0, <1>9 DEF Replay, Save
    <2>2. QED BY <2>1, EndedGrants
<1>10. CASE StartCycle
    <2>1. /\ now' = now /\ health' = [s \in Scopes |-> Reconciled(s)]
          /\ outage' = [s \in Scopes |-> IF health'[s].since = NoTime /\ config[s] # "active"
                                         THEN NoTime ELSE outage[s]]
          /\ invalid' = invalid
        BY <1>10 DEF StartCycle, Save, journalVars
    <2>2. \A s \in Scopes : health'[s] = health[s] \/ (health'[s].since = NoTime /\ config[s] # "active")
        <3> SUFFICES ASSUME NEW s \in Scopes
                     PROVE  health'[s] = health[s]
                            \/ (health'[s].since = NoTime /\ config[s] # "active")
            OBVIOUS
        <3>1. \/ health'[s] = health[s]
              \/ config[s] # "active" /\ health'[s] = NoHealth
              \/ config[s] # "active" /\ health'[s] = [health[s] EXCEPT !.since = NoTime]
            BY <2>1 DEF Reconciled
        <3>2. QED BY <1>0, <3>1, NoHealthFields, MovedFields
    <2>3. \A s \in Scopes : outage'[s] = NoTime \/ (outage'[s] = outage[s] /\ health'[s] = health[s])
        BY <2>1, <2>2
    <2>4. QED BY <2>1, <2>3 DEF Grants
<1>11. CASE Restart
    <2>1. now' = now /\ (Lost \/ Loaded)
        BY <1>11, RestartRows DEF Restart
    <2>2. CASE Lost
        <3>1. \A s \in Scopes : health'[s].since = NoTime /\ ~ health'[s].evaluated
            BY <2>2, NoHealthFields DEF Lost, Empty, NoHealth
        <3>2. outage' = outage /\ invalid' = TRUE
            BY <2>2 DEF Lost
        <3>3. QED BY <3>1, <3>2 DEF Grants
    <2>3. CASE Loaded
        <3>1. CASE outage' = [s \in Scopes |-> NoTime]
            BY <3>1 DEF Grants
        <3>2. CASE durable /\ outage' = outage
            <4>1. invalid' = invalid
                BY <2>3, <3>2 DEF Loaded, JournalAgrees
            <4>2. \A s \in Scopes : /\ health'[s].since = health[s].since
                                    /\ health'[s].evaluated => health[s].evaluated
                BY <2>3, <3>2 DEF Loaded, JournalAgrees, Same
            <4>3. QED BY <2>1, <3>2, <4>1, <4>2 DEF Grants
        <3>3. QED BY <2>3, <3>1, <3>2 DEF Loaded
    <2>4. QED BY <2>1, <2>2, <2>3
<1>12. QED
    BY <1>3, <1>4, <1>5, <1>6, <1>7, <1>8, <1>9, <1>10, <1>11 DEF Next, Loop, Quiet

\* Neither restarts nor an unreadable journal nor a changing reason lengthen the grace an
\* outage has.
THEOREM GraceBounded == ~ Rollback => (Spec => []GraceIsBounded)
<1>1. SUFFICES ASSUME ~ Rollback PROVE Spec => []GraceIsBounded
    OBVIOUS
<1>2. Spec => []ExitInv
    BY <1>1, ExitsInductive
<1>3. Init => Grants
    BY DEF Init, Grants
<1>4. ExitInv /\ Grants /\ [Next]_vars => Grants'
    BY <1>1, GrantsStep DEF ExitInv
<1>5. ExitInv /\ Grants => GraceIsBounded
    <2>1. SUFFICES ASSUME ExitInv, Grants, NEW s \in Scopes, health[s].since # NoTime,
                          outage[s] # NoTime, now - outage[s] >= Grace
                   PROVE  now - health[s].since >= Grace
        BY DEF GraceIsBounded
    <2>2. now \in Int /\ Grace \in Int /\ outage[s] \in Int /\ health[s].since \in Int
        BY <2>1, ProtectionAssumption DEF ExitInv, RowTypes, LoopTypes, Health
    <2>3. health[s].since <= outage[s] \/ now - health[s].since >= Grace
        BY <2>1 DEF Grants
    <2>4. QED BY <2>1, <2>2, <2>3
<1>6. QED BY <1>2, <1>3, <1>4, <1>5, PTL DEF Spec

-----------------------------------------------------------------------------
(* The journal implements DurableExit, if the wall clock is never set back. *)

\* Only a restart brings another configuration.
LEMMA ConfigKept ==
    ASSUME [Next]_vars, ~ Restart
    PROVE  config' = config
BY DEF Next, Loop, vars, StartCycle, ReadForExits, ConfirmFlat, SendCloses, Observe, Decide,
       ReadForDecision, BeginWeigh, Weigh, WeighDone, StagedRefresh, EnsureReady, Replay,
       Check, EvaluationFails, EvaluateDone, ReweighDone, Plan, ExitsFail, DecisionFails,
       StagedRefreshFails, MissingHistory, Tick, RetryTime, Opens, CloseFills,
       ReplayPublishes, CalmDown

\* Scopes that keep their flags keep their phases.
LEMMA PhasesOf ==
    ASSUME NEW h \in [Scopes -> Health], NEW r \in [Scopes -> Health],
           \A s \in Scopes : r[s].committed = h[s].committed /\ r[s].held = h[s].held
    PROVE  Phases(r) = Phases(h)
BY DEF Phases, Phase

\* A save is the write of the abstract medium.
LEMMA SaveWrites ==
    ASSUME RowTypes, Save(health'), config' = config,
           health' \in [Scopes -> Health],
           \A s \in Scopes : Timed(health'[s]) /\ Acceptable(health'[s])
    PROVE  Durable!Write
<1>1. /\ durable' \in BOOLEAN
      /\ ~ durable' => journal' = journal
      /\ journal' \in [readable : BOOLEAN, unverified : BOOLEAN, rows : [Scopes -> Health]]
      /\ durable' => /\ journal'.readable
                     /\ \A s \in Scopes : journal'.rows[s] =
                            IF Persisted(health'[s]) THEN health'[s] ELSE NoHealth
    BY SaveFile
<1>2. UNCHANGED {s \in Scopes : config[s] = "off"}
    OBVIOUS
<1>3. CASE durable'
    <2>1. Acceptable(NoHealth)
        BY NoHealthFields DEF Acceptable
    <2>2. Loads(journal')
        BY <1>1, <1>3, <2>1 DEF Loads
    <2>3. \A s \in Scopes : Same(journal'.rows[s], health'[s])
        BY <1>1, <1>3, SavedRow
    <2>4. Phases(journal'.rows) = Phases(health')
        BY <1>1, <2>3, PhasesOf DEF Same
    <2>5. SavedPhases(journal') = Phases(health')
        BY <2>2, <2>4 DEF SavedPhases
    <2> QED
        BY <1>1, <1>2, <1>3, <2>5 DEF Durable!Write
<1>4. CASE ~ durable'
    BY <1>1, <1>2, <1>4 DEF Durable!Write, SavedPhases
<1> QED
    BY <1>3, <1>4

\* What a restart brings back is what the file held, or nothing.
LEMMA RestartResumes ==
    ASSUME RowTypes, Restart
    PROVE  Durable!Crash \/ Durable!Damage
<1>1. journal'.rows = journal.rows
    BY RestartRows
<1>2. PICK damaged \in BOOLEAN :
        LET j == [journal EXCEPT !.readable = @ /\ ~ damaged]
        IN  /\ journal' = j
            /\ health' = IF Loads(j) THEN j.rows ELSE Empty
            /\ durable' = Loads(j)
    BY DEF Restart
<1>3. /\ health' = IF Loads(journal') THEN journal'.rows ELSE Empty
      /\ durable' = Loads(journal')
    BY <1>2
<1>4. journal'.readable => journal.readable
    BY <1>2 DEF RowTypes
<1>5. {s \in Scopes : config[s] = "off"}' \subseteq Scopes
    OBVIOUS
<1>6. CASE Loads(journal')
    <2>1. Loads(journal)
        BY <1>1, <1>4, <1>6 DEF Loads
    <2>2. Phases(health') = SavedPhases(journal) /\ SavedPhases(journal') = SavedPhases(journal)
        BY <1>1, <1>3, <1>6, <2>1 DEF SavedPhases
    <2>3. durable' = TRUE
        BY <1>3, <1>6 DEF Loads
    <2> QED
        BY <1>5, <2>2, <2>3 DEF Durable!Crash
<1>7. CASE ~ Loads(journal')
    <2>1. Phases(Empty) = [s \in Scopes |-> "none"]
        BY NoHealthFields DEF Phases, Phase, Empty
    <2>2. /\ Phases(health') = [s \in Scopes |-> "none"]
          /\ SavedPhases(journal') = [s \in Scopes |-> "none"]
        BY <1>3, <1>7, <2>1 DEF SavedPhases
    <2>3. durable' = FALSE
        BY <1>3, <1>7 DEF Loads
    <2> QED
        BY <1>5, <2>2, <2>3 DEF Durable!Damage, Durable!None
<1> QED
    BY <1>6, <1>7

\* Every step is a step of DurableExit, or changes nothing it knows of.
LEMMA DurableStep ==
    ASSUME ExitInv, [Next]_vars
    PROVE  [Durable!Next]_<<Phases(health), SavedPhases(journal), durable,
                            {s \in Scopes : config[s] = "off"}>>
<1>0. /\ RowTypes /\ health \in [Scopes -> Health] /\ now \in Int
      /\ \A s \in Scopes : health[s] \in Health
    BY DEF ExitInv, RowTypes
<1>1. CASE Restart
    BY <1>0, <1>1, RestartResumes DEF Durable!Next
<1>2. CASE ~ Restart
    <2>1. Effects /\ config' = config
        BY <1>0, <1>2, StepEffects, ConfigKept
    <2>2. health' \in [Scopes -> Health] /\ \A s \in Scopes : Timed(health'[s])
        BY <2>1, RowChangeTimed DEF Effects, RowTypes, ExitInv
    <2>3. \A s \in Scopes : Acceptable(health'[s])
        BY <2>1, RowChangeSound DEF Effects, RowTypes, RowsSound, ExitInv
    <2>4. Save(health') => Durable!Write
        BY <1>0, <2>1, <2>2, <2>3, SaveWrites
    <2>5. CASE Phases(health') = Phases(health)
        <3>1. CASE Save(health')
            BY <2>4, <2>5, <3>1 DEF Durable!Next, Durable!Rewrite
        <3>2. CASE UNCHANGED journalVars
            BY <2>1, <2>5, <3>2 DEF journalVars
        <3> QED
            BY <2>1, <3>1, <3>2 DEF Effects
    <2>6. Keeping \/ UNCHANGED health => Phases(health') = Phases(health)
        BY <1>0, <2>2, KeepingExits, PhasesOf
    <2>7. CASE StartCycle
        <3>1. health' = [s \in Scopes |-> Reconciled(s)] /\ (Save(health') \/ health' = health)
            BY <2>7 DEF StartCycle
        <3>2. \A s \in Scopes : Phase(Reconciled(s)) = IF config[s] = "off" THEN "none"
                                                                     ELSE Phase(health[s])
            <4> SUFFICES ASSUME NEW s \in Scopes
                         PROVE  Phase(Reconciled(s)) = IF config[s] = "off" THEN "none"
                                                                     ELSE Phase(health[s])
                OBVIOUS
            <4>1. CASE config[s] = "off"
                BY <4>1, NoHealthFields DEF Reconciled, Phase
            <4>2. CASE config[s] # "off" /\ (health[s].committed \/ health[s].held)
                BY <4>2, ReconciledKeeps
            <4>3. CASE config[s] # "off" /\ ~ health[s].committed /\ ~ health[s].held
                <5>1. /\ NoTime \in Int
                      /\ \/ Reconciled(s) = NoHealth \/ Reconciled(s) = health[s]
                         \/ Reconciled(s) = [health[s] EXCEPT !.since = NoTime]
                    BY <4>3 DEF Reconciled, NoTime
                <5>2. ~ Reconciled(s).committed /\ ~ Reconciled(s).held
                    BY <1>0, <4>3, <5>1, MovedFields, NoHealthFields
                <5> QED
                    BY <4>3, <5>2 DEF Phase
            <4> QED
                BY <4>1, <4>2, <4>3
        <3>3. Phases(health') = [s \in Scopes |-> IF s \in {x \in Scopes : config[x] = "off"}
                                                  THEN "none" ELSE Phases(health)[s]]
            BY <3>1, <3>2 DEF Phases
        <3>4. CASE Save(health')
            BY <2>4, <3>3, <3>4 DEF Durable!Next, Durable!Retire
        <3> QED
            BY <2>5, <2>6, <3>1, <3>4
    <2>8. ASSUME NEW x \in Scopes, ConfirmFlat(x) PROVE Durable!Next
        <3>1. /\ health' = [health EXCEPT ![x] = FlatHealth(health[x])] /\ Save(health')
              /\ health[x].committed
            BY <1>0, <2>8 DEF ConfirmFlat, pending, PendingIn
        <3>2. Phase(FlatHealth(health[x])) = "held" /\ Phases(health)[x] = "running"
            BY <1>0, <3>1, FlatFields DEF Phase, Phases
        <3>3. Phases(health') = [Phases(health) EXCEPT ![x] = "held"]
            BY <1>0, <3>1, <3>2 DEF Phases
        <3> QED
            BY <2>4, <3>1, <3>2, <3>3 DEF Durable!Next, Durable!Flat
    <2>9. ASSUME NEW x \in Scopes, Weigh(x), ~ UNCHANGED health PROVE Durable!Next
        <3>1. health' = [health EXCEPT ![x] = CommittedHealth(health[x])] /\ Save(health')
            BY <1>0, <2>9 DEF Weigh
        <3>2. Phase(CommittedHealth(health[x])) = "running"
            BY <1>0, CommittedFields DEF Phase
        <3>3. Phases(health') = [Phases(health) EXCEPT ![x] = "running"]
            BY <1>0, <3>1, <3>2 DEF Phases
        <3> QED
            BY <2>4, <3>1, <3>3 DEF Durable!Next, Durable!Commit
    <2>10. ASSUME NEW x \in Scopes, Replay(x) PROVE Durable!Next
        <3> DEFINE r == [EvaluatedHealth(health[x]) EXCEPT !.held = FALSE]
        <3>1. health' = [health EXCEPT ![x] = r] /\ Save(health') /\ health[x].held
            BY <1>0, <2>10 DEF Replay
        <3>2. ~ health[x].committed
            BY <3>1 DEF ExitInv, RowsSound, Acceptable
        <3>3. r.committed = health[x].committed /\ r.held = FALSE
            BY <1>0, ReleasedFields
        <3> HIDE DEF r
        <3>4. Phase(r) = "none" /\ Phases(health)[x] = "held"
            BY <3>1, <3>2, <3>3 DEF Phase, Phases
        <3>5. Phases(health') = [Phases(health) EXCEPT ![x] = "none"]
            BY <1>0, <3>1, <3>4 DEF Phases
        <3> QED
            BY <2>4, <3>1, <3>4, <3>5 DEF Durable!Next, Durable!Release
    <2> QED
        BY <1>2, <2>5, <2>6, <2>7, <2>8, <2>9, <2>10, StepKinds
<1> QED
    BY <1>1, <1>2

\* The journal keeps the module's promise (DurableExit): exits run, complete and end only
\* as it allows, every change is offered to the file, and a restart resumes what was saved.
THEOREM ImplementsDurableExit == ~ Rollback => (Spec => KeepsExits)
<1>1. SUFFICES ASSUME ~ Rollback PROVE Spec => KeepsExits
    OBVIOUS
<1>2. Spec => []ExitInv
    BY <1>1, ExitsInductive
<1>3. Init => Durable!Init
    <2> SUFFICES ASSUME Init PROVE Durable!Init
        OBVIOUS
    <2>1. /\ health = Empty /\ durable = TRUE /\ config = [s \in Scopes |-> "active"]
          /\ journal = [readable |-> TRUE, unverified |-> FALSE, rows |-> Empty]
        BY DEF Init
    <2>2. Phases(Empty) = [s \in Scopes |-> "none"]
        BY NoHealthFields DEF Phases, Phase, Empty
    <2>3. SavedPhases(journal) = Phases(Empty)
        BY <2>1 DEF SavedPhases
    <2> QED
        BY <2>1, <2>2, <2>3 DEF Durable!Init, Durable!None
<1>4. ExitInv /\ [Next]_vars =>
        [Durable!Next]_<<Phases(health), SavedPhases(journal), durable,
                         {s \in Scopes : config[s] = "off"}>>
    BY DurableStep
<1> QED
    BY <1>2, <1>3, <1>4, PTL DEF Spec, KeepsExits, Durable!Spec, Durable!vars
=============================================================================
